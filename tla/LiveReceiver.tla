------------------------------ MODULE LiveReceiver ------------------------------
(***************************************************************************)
(* The two live receivers: phase4/pynq/phase4_9_live_udp_dma_test.py takes *)
(* one datagram per call with recvfrom, and                                *)
(* pynq/phase4_9_live_udp_recvmmsg_dma.py up to RECEIVE_BATCH with         *)
(* recvmmsg.  Both validate and count each datagram, collect those of the  *)
(* right size into a batch, pass a full batch, or the one STREAM_END       *)
(* closes, through the parser by DMA, and judge the run.                   *)
(*                                                                         *)
(* The sender numbers its packets 1 .. TotalPackets, the first a START     *)
(* that announces TotalPackets, the last an END.  UDP may lose, duplicate  *)
(* and reorder them; other datagrams may come in between.  Ctrl-C raises   *)
(* KeyboardInterrupt between two steps of the model or in a transfer.      *)
(***************************************************************************)
EXTENDS Integers, Sequences

CONSTANTS
  Variants,        (* of "recvfrom" and "recvmmsg"                         *)
  TotalPackets,    (* packets the sender plans and sends                   *)
  BATCH_PACKETS,   (* packets per DMA transfer                             *)
  RECEIVE_BATCH,   (* datagrams per call of recvmmsg                       *)
  MAX_EXAMPLES,    (* mismatch examples kept: 10                           *)
  MaxArrivals,     (* bound: datagrams received                            *)
  None             (* a Python variable that holds None                    *)

ASSUME ReceiverAssumption ==
  /\ Variants \subseteq {"recvfrom", "recvmmsg"}
  /\ TotalPackets \in Nat /\ TotalPackets >= 2
  /\ BATCH_PACKETS \in Nat \ {0}
  /\ RECEIVE_BATCH \in Nat \ {0}
  /\ MAX_EXAMPLES \in Nat
  /\ MaxArrivals \in Nat
  /\ None \notin Nat

VARIABLES
  variant,
  pc,                  (* "receive", "handle", "append", "flush" in the    *)
                       (* loop; "stopping" at the flush behind it;         *)
                       (* "interrupted" at the one of the handler of       *)
                       (* KeyboardInterrupt; "done" at the verdict;        *)
                       (* "raised" when an exception ends the program      *)
  phase,               (* of flush_pending: "transfer", "tally", "clear"   *)
  slots,               (* datagrams of the last receive call, not handled  *)
  received_packets, malformed_lengths,
  valid_packets, invalid_packets,
  missing_sequences, duplicate_sequences, out_of_order_sequences,
  seen_sequences, highest_sequence, planned_packets, stream_end_seen,
  first_sequence,      (* history: the first valid number                  *)
  timed_out,
  pending_packets, pending_first_index,
  for_parser,          (* history: packets appended to a batch, in order   *)
  dma_packets, dma_errors, mismatched_packets, mismatch_examples,
  passed,              (* history: packets that went through the parser    *)
  user_interrupt       (* history: the user pressed Ctrl-C                 *)

seqVars == <<valid_packets, invalid_packets, missing_sequences, duplicate_sequences,
             out_of_order_sequences, seen_sequences, highest_sequence,
             planned_packets, stream_end_seen, first_sequence>>
countVars == <<received_packets, malformed_lengths, seqVars>>
batchVars == <<pending_packets, pending_first_index, for_parser>>
tallyVars == <<dma_packets, dma_errors, mismatched_packets, mismatch_examples>>
dmaVars == <<tallyVars, passed>>
vars == <<variant, pc, phase, slots, countVars, timed_out, batchVars, dmaVars,
          user_interrupt>>

PacketNumber == 1 .. TotalPackets

(* A datagram, as far as the receiver looks at it.                         *)
SenderPacket(n) == [right_size |-> TRUE, valid |-> TRUE, sequence |-> n]
WrongSize == [right_size |-> FALSE, valid |-> FALSE, sequence |-> 0]
Garbled   == [right_size |-> TRUE, valid |-> FALSE, sequence |-> 0]
Datagram == {SenderPacket(n) : n \in PacketNumber} \cup {WrongSize, Garbled}

(* A payload of a batch; at tells which of the datagrams it was (history). *)
Pending == [packet : Datagram, at : Nat]

IsStart(d) == d.valid /\ d.sequence = 1
IsEnd(d) == d.valid /\ d.sequence = TotalPackets

Init ==
  /\ variant \in Variants
  /\ pc = "receive" /\ phase = "transfer" /\ slots = <<>>
  /\ received_packets = 0 /\ malformed_lengths = 0
  /\ valid_packets = 0 /\ invalid_packets = 0
  /\ missing_sequences = 0 /\ duplicate_sequences = 0 /\ out_of_order_sequences = 0
  /\ seen_sequences = {} /\ highest_sequence = None /\ first_sequence = None
  /\ planned_packets = None
  /\ stream_end_seen = FALSE /\ timed_out = FALSE
  /\ pending_packets = <<>> /\ pending_first_index = 0 /\ for_parser = <<>>
  /\ dma_packets = 0 /\ dma_errors = 0
  /\ mismatched_packets = 0 /\ mismatch_examples = <<>>
  /\ passed = <<>> /\ user_interrupt = FALSE
-------------------------------------------------------------------------------
(* The receive call.                                                       *)

receive_batch == IF variant = "recvmmsg" THEN RECEIVE_BATCH ELSE 1

(* recvfrom, or recvmmsg with MSG_WAITFORONE: what waits in the socket.    *)
Receive ==
  /\ pc = "receive"
  /\ \E n \in 1 .. receive_batch :
       /\ received_packets + n <= MaxArrivals
       /\ slots' \in [1 .. n -> Datagram]
  /\ pc' = "handle"
  /\ UNCHANGED <<variant, phase, countVars, timed_out, batchVars, dmaVars, user_interrupt>>

(* Mutated form: the clock of the timeout starts with the first datagram.  *)
TimeoutAfterFirst ==
  /\ pc = "receive"
  /\ received_packets > 0
  /\ timed_out' = TRUE
  /\ pc' = "stopping"
  /\ UNCHANGED <<variant, phase, slots, countVars, batchVars, dmaVars, user_interrupt>>

(* socket.timeout, or EAGAIN from recvmmsg.                                *)
Timeout ==
  /\ pc = "receive"
  /\ timed_out' = TRUE
  /\ pc' = "stopping"
  /\ UNCHANGED <<variant, phase, slots, countVars, batchVars, dmaVars, user_interrupt>>

(* Another error of the call ends the program; EINTR only repeats it.      *)
ReceiveFails ==
  /\ pc = "receive"
  /\ pc' = "raised"
  /\ UNCHANGED <<variant, phase, slots, countVars, timed_out, batchVars, dmaVars,
                 user_interrupt>>
-------------------------------------------------------------------------------
(* One datagram.                                                           *)

(* After it: leave at STREAM_END, else the next one of the call.           *)
NextDatagram == IF stream_end_seen' THEN "stopping"
                ELSE IF slots' = <<>> THEN "receive" ELSE "handle"

TakeDatagram ==
  /\ pc = "handle"
  /\ received_packets' = received_packets + 1
  /\ UNCHANGED <<variant, phase, timed_out, batchVars, dmaVars, user_interrupt>>

(* A wrong length is counted and dropped.                                  *)
HandleWrongSize ==
  /\ TakeDatagram
  /\ ~Head(slots).right_size
  /\ malformed_lengths' = malformed_lengths + 1
  /\ invalid_packets' = invalid_packets + 1
  /\ slots' = Tail(slots)
  /\ UNCHANGED <<valid_packets, missing_sequences, duplicate_sequences,
                 out_of_order_sequences, seen_sequences, highest_sequence,
                 planned_packets, stream_end_seen, first_sequence>>
  /\ pc' = NextDatagram

(* Mutated form: a number that was seen is compared with the highest only. *)
CountSequenceByHighest(sequence) ==
  LET late == highest_sequence # None /\ sequence < highest_sequence
      gap == IF highest_sequence = None \/ late THEN 0
             ELSE sequence - highest_sequence - 1
  IN  /\ duplicate_sequences' = duplicate_sequences
      /\ out_of_order_sequences' = out_of_order_sequences + (IF late THEN 1 ELSE 0)
      /\ missing_sequences' = missing_sequences + (IF gap > 0 THEN gap ELSE 0)
      /\ highest_sequence' = IF late THEN highest_sequence ELSE sequence
      /\ seen_sequences' = seen_sequences \cup {sequence}

(* A number is a duplicate, late, or the new highest one, perhaps behind a *)
(* gap.                                                                    *)
CountSequence(sequence) ==
  LET known == sequence \in seen_sequences
      late  == ~known /\ highest_sequence # None /\ sequence < highest_sequence
      newer == ~known /\ ~late
      gap   == IF newer /\ highest_sequence # None THEN sequence - highest_sequence - 1 ELSE 0
  IN  /\ duplicate_sequences' = duplicate_sequences + (IF known THEN 1 ELSE 0)
      /\ out_of_order_sequences' = out_of_order_sequences + (IF late THEN 1 ELSE 0)
      /\ missing_sequences' = missing_sequences + gap
      /\ highest_sequence' = IF newer THEN sequence ELSE highest_sequence
      /\ seen_sequences' = seen_sequences \cup {sequence}

CountValid(d) ==
  /\ valid_packets' = valid_packets + 1
  /\ CountSequence(d.sequence)
  /\ first_sequence' = IF first_sequence = None THEN d.sequence ELSE first_sequence
  /\ planned_packets' = IF IsStart(d) THEN TotalPackets ELSE planned_packets
  /\ stream_end_seen' = (stream_end_seen \/ IsEnd(d))
  /\ UNCHANGED invalid_packets

CountInvalid ==
  /\ invalid_packets' = invalid_packets + 1
  /\ UNCHANGED <<valid_packets, missing_sequences, duplicate_sequences,
                 out_of_order_sequences, seen_sequences, highest_sequence,
                 planned_packets, stream_end_seen, first_sequence>>

CountPacket ==
  /\ TakeDatagram
  /\ Head(slots).right_size
  /\ IF Head(slots).valid THEN CountValid(Head(slots)) ELSE CountInvalid
  /\ pc' = "append"
  /\ UNCHANGED <<slots, malformed_lengths>>

(* Mutated form: the index is taken whenever a packet is appended.         *)
FirstIndexOfLast == received_packets - 1

FirstIndex == IF pending_packets = <<>> THEN received_packets - 1 ELSE pending_first_index

(* Whatever has the right size goes to the parser, valid or not.           *)
AppendPacket ==
  /\ pc = "append"
  /\ LET payload == [packet |-> Head(slots), at |-> received_packets - 1]
     IN  /\ pending_packets' = Append(pending_packets, payload)
         /\ for_parser' = Append(for_parser, payload)
  /\ pending_first_index' = FirstIndex
  /\ slots' = Tail(slots)
  /\ UNCHANGED <<variant, phase, countVars, timed_out, dmaVars, user_interrupt>>
  /\ pc' = IF Len(pending_packets') = BATCH_PACKETS \/ stream_end_seen
           THEN "flush" ELSE NextDatagram
-------------------------------------------------------------------------------
(* flush_pending, in the loop, behind it and in the interrupt handler.     *)

Flushing == pc \in {"flush", "stopping", "interrupted"}

NothingPending ==
  /\ Flushing /\ phase = "transfer"
  /\ pending_packets = <<>>
  /\ pc' = "done"
  /\ UNCHANGED <<variant, phase, slots, countVars, timed_out, batchVars, dmaVars,
                 user_interrupt>>

(* The transfer returns; all packets have gone through the parser.         *)
TransferReturns ==
  /\ Flushing /\ phase = "transfer"
  /\ pending_packets # <<>>
  /\ passed' = passed \o pending_packets
  /\ phase' = "tally"
  /\ UNCHANGED <<variant, pc, slots, countVars, timed_out, batchVars, tallyVars,
                 user_interrupt>>

(* The loop ends; the recvfrom variant goes to the flush behind it.        *)
AfterFailure == IF pc = "flush" /\ variant = "recvfrom" THEN "stopping" ELSE "done"

(* The transfer raises an error, some packets through; the batch is kept.  *)
TransferRaises ==
  /\ Flushing /\ phase = "transfer"
  /\ pending_packets # <<>>
  /\ dma_errors' = dma_errors + 1
  /\ \E n \in 0 .. Len(pending_packets) : passed' = passed \o SubSeq(pending_packets, 1, n)
  /\ UNCHANGED <<variant, phase, slots, countVars, timed_out, batchVars, dma_packets,
                 mismatched_packets, mismatch_examples, user_interrupt>>
  /\ pc' = AfterFailure

(* compare_batch: what is kept of the i-th packet of the batch.            *)
Example(i) ==
  [index |-> pending_first_index + i - 1, at |-> pending_packets[i].at]

(* No packet differs from what was sent (i = 0), or the i-th, which stands *)
(* for all that do.                                                        *)
TallyBatch ==
  /\ Flushing /\ phase = "tally"
  /\ \E i \in 0 .. Len(pending_packets) :
       /\ mismatched_packets' = mismatched_packets + (IF i = 0 THEN 0 ELSE 1)
       /\ mismatch_examples' =
            IF i = 0 \/ Len(mismatch_examples) = MAX_EXAMPLES THEN mismatch_examples
            ELSE Append(mismatch_examples, Example(i))
  /\ dma_packets' = dma_packets + Len(pending_packets)
  /\ phase' = "clear"
  /\ UNCHANGED <<variant, pc, slots, countVars, timed_out, batchVars, dma_errors, passed,
                 user_interrupt>>

(* Mutated form: the batch is not taken out of the list.                   *)
ClearedKeepsBatch == pending_packets

Cleared == <<>>

ClearBatch ==
  /\ Flushing /\ phase = "clear"
  /\ pending_packets' = Cleared
  /\ pending_first_index' = received_packets
  /\ phase' = "transfer"
  /\ UNCHANGED <<variant, slots, countVars, timed_out, for_parser, dmaVars, user_interrupt>>
  /\ pc' = IF pc = "flush" THEN NextDatagram ELSE "done"
-------------------------------------------------------------------------------
(* KeyboardInterrupt.                                                      *)

(* In a transfer some packets may be through.                              *)
PassedWhenInterrupted ==
  IF Flushing /\ phase = "transfer"
  THEN {passed \o SubSeq(pending_packets, 1, n) : n \in 0 .. Len(pending_packets)}
  ELSE {passed}

(* A datagram that is being handled may have been counted as received.     *)
Interrupt ==
  /\ pc \in {"receive", "handle", "append", "flush", "stopping"}
  /\ passed' \in PassedWhenInterrupted
  /\ received_packets' \in received_packets .. received_packets + (IF pc = "handle" THEN 1 ELSE 0)
  /\ pc' = "interrupted" /\ phase' = "transfer"
  /\ user_interrupt' = TRUE
  /\ UNCHANGED <<variant, slots, malformed_lengths, seqVars, timed_out, batchVars, tallyVars>>

(* A second Ctrl-C while the handler flushes.                              *)
InterruptAgain ==
  /\ pc = "interrupted"
  /\ passed' \in PassedWhenInterrupted
  /\ pc' = "raised"
  /\ UNCHANGED <<variant, phase, slots, countVars, timed_out, batchVars, tallyVars,
                 user_interrupt>>

Finished == pc \in {"done", "raised"} /\ UNCHANGED vars

Handling ==
  \/ HandleWrongSize \/ CountPacket \/ AppendPacket
  \/ NothingPending \/ TransferReturns \/ TransferRaises \/ TallyBatch \/ ClearBatch

Next ==
  \/ Receive \/ Timeout \/ ReceiveFails
  \/ Handling
  \/ Interrupt \/ InterruptAgain
  \/ Finished

Spec == Init /\ [][Next]_vars

(* The program runs on, and a silent socket times out.                     *)
FairSpec == Spec /\ WF_vars(Timeout) /\ WF_vars(Handling)

planned_count_matches == planned_packets = None \/ received_packets = planned_packets

(* Mutated form: what went through the parser is not compared.             *)
overall_pass_any_dma ==
  /\ pc = "done"
  /\ stream_end_seen
  /\ ~timed_out
  /\ valid_packets = received_packets
  /\ missing_sequences + duplicate_sequences + out_of_order_sequences = 0
  /\ mismatched_packets + dma_errors = 0
  /\ planned_count_matches

overall_pass ==
  /\ pc = "done"
  /\ stream_end_seen
  /\ ~timed_out
  /\ received_packets > 0
  /\ valid_packets = received_packets
  /\ malformed_lengths = 0
  /\ missing_sequences = 0
  /\ duplicate_sequences = 0
  /\ out_of_order_sequences = 0
  /\ dma_packets = received_packets
  /\ mismatched_packets = 0
  /\ dma_errors = 0
  /\ planned_count_matches
-------------------------------------------------------------------------------
SequenceTypes ==
  /\ valid_packets \in Nat /\ invalid_packets \in Nat
  /\ missing_sequences \in Nat
  /\ duplicate_sequences \in Nat /\ out_of_order_sequences \in Nat
  /\ seen_sequences \subseteq PacketNumber
  /\ highest_sequence \in PacketNumber \cup {None}
  /\ first_sequence \in PacketNumber \cup {None}
  /\ planned_packets \in {TotalPackets, None}
  /\ stream_end_seen \in BOOLEAN

BatchTypes ==
  /\ received_packets \in Nat /\ malformed_lengths \in Nat
  /\ slots \in Seq(Datagram)
  /\ pc \in {"handle", "append"} => slots # <<>>
  /\ pending_packets \in Seq(Pending) /\ for_parser \in Seq(Pending)
  /\ pending_first_index \in Nat

DmaTypes ==
  /\ passed \in Seq(Pending)
  /\ dma_packets \in Nat /\ dma_errors \in Nat /\ mismatched_packets \in Nat
  /\ mismatch_examples \in Seq([index : Int, at : Nat])

(* Types.                                                                  *)
TypeOK ==
  /\ variant \in Variants
  /\ pc \in {"receive", "handle", "append", "flush", "stopping", "interrupted", "done", "raised"}
  /\ phase \in {"transfer", "tally", "clear"}
  /\ timed_out \in BOOLEAN /\ user_interrupt \in BOOLEAN
  /\ SequenceTypes
  /\ BatchTypes
  /\ DmaTypes

(***************************************************************************)
(* As long as no transfer has failed and nobody has pressed Ctrl-C, what   *)
(* went through the parser and what waits in the batch are together        *)
(* exactly the datagrams of the right size, in the order they were         *)
(* handled: batching loses, repeats and reorders nothing at its edges.     *)
(***************************************************************************)
BatchesInOrder ==
  dma_errors = 0 /\ ~user_interrupt =>
    for_parser = IF phase = "transfer" THEN passed \o pending_packets ELSE passed

(***************************************************************************)
(* The counters of sequence numbers explain each other: the numbers from   *)
(* the first valid one to the highest were each either missed or the       *)
(* highest when they came.  A late packet stays counted as missing.        *)
(***************************************************************************)
NumbersAccounted ==
  valid_packets > 0 =>
    highest_sequence - first_sequence + 1 =
      valid_packets - duplicate_sequences - out_of_order_sequences + missing_sequences

(* The packets of the sender from the n-th on.                             *)
StreamFrom(n) == [i \in 1 .. TotalPackets - n + 1 |-> SenderPacket(n + i - 1)]

Payloads(packets) == [i \in DOMAIN packets |-> packets[i].packet]

(* From the START on if it arrived, else from the first packet that did,   *)
(* since nothing then tells that some are missing.                         *)
WholeStream(packets) ==
  \E n \in PacketNumber :
    Payloads(packets) = StreamFrom(n) /\ (planned_packets # None => n = 1)

(***************************************************************************)
(* The verdict PASS of a run that was not interrupted means that the       *)
(* parser got the sender's stream to the last packet, each once and in     *)
(* order, through however many receive calls and batches it came.          *)
(***************************************************************************)
PassMeansStreamArrived == overall_pass /\ ~user_interrupt => WholeStream(passed)

(***************************************************************************)
(* A run that Ctrl-C ended may still PASS, since the handler sends the     *)
(* batch of the interrupted transfer again: then the whole stream did      *)
(* arrive, and beyond it the parser got at most the beginning of the last  *)
(* batch, once too often.                                                  *)
(***************************************************************************)
InterruptedPassRepeatsLastBatch ==
  overall_pass /\ user_interrupt =>
    /\ WholeStream(for_parser)
    /\ \E first \in 0 .. Len(for_parser) : \E last \in first .. Len(for_parser) :
         /\ Len(for_parser) - first <= BATCH_PACKETS
         /\ passed = SubSeq(for_parser, 1, last)
                       \o SubSeq(for_parser, first + 1, Len(for_parser))

(***************************************************************************)
(* The "Stream packet" of a mismatch example is where the packet was among *)
(* the datagrams received, and too small by at most the datagrams of the   *)
(* wrong size: those within the batch are not counted.                     *)
(***************************************************************************)
ExamplesNameTheirPackets ==
  \A k \in DOMAIN mismatch_examples :
    mismatch_examples[k].at - mismatch_examples[k].index \in 0 .. malformed_lengths

(***************************************************************************)
(* Whatever UDP loses and however the DMA fails, the program comes to its  *)
(* end once no more datagrams come.                                        *)
(***************************************************************************)
VerdictReached == <>(pc \in {"done", "raised"})
===============================================================================
