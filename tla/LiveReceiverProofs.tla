--------------------------- MODULE LiveReceiverProofs ---------------------------
(***************************************************************************)
(* Theorems about the live receivers, for both variants, any stream length *)
(* and any sizes of batches and receive calls.                             *)
(***************************************************************************)
EXTENDS LiveReceiver, SequenceTheorems, TLAPS

(* Where the program is in flush_pending; a batch that is done with no     *)
(* error and no interrupt leaves nothing behind.                           *)
FlowInv ==
  /\ phase # "transfer" => Flushing \/ pc = "raised"
  /\ pc = "interrupted" => user_interrupt
  /\ pc = "append" => received_packets > 0
  /\ pc = "done" /\ dma_errors = 0 /\ ~user_interrupt =>
       phase = "transfer" /\ pending_packets = <<>>

(* Before the first valid packet nothing is counted.                       *)
NothingCounted ==
  /\ seen_sequences = {}
  /\ missing_sequences = 0 /\ duplicate_sequences = 0 /\ out_of_order_sequences = 0

(* What the counters of numbers know of the numbers seen.                  *)
NumberInv ==
  /\ first_sequence = None <=> valid_packets = 0
  /\ highest_sequence = None <=> valid_packets = 0
  /\ valid_packets = 0 => NothingCounted
  /\ valid_packets > 0 =>
       highest_sequence \in seen_sequences /\ \A n \in seen_sequences : n <= highest_sequence
  /\ valid_packets > 0 /\ out_of_order_sequences = 0 =>
       \A n \in seen_sequences : first_sequence <= n
  /\ planned_packets # None => 1 \in seen_sequences
  /\ stream_end_seen => TotalPackets \in seen_sequences
  /\ NumbersAccounted

Flawless ==
  /\ missing_sequences = 0 /\ duplicate_sequences = 0 /\ out_of_order_sequences = 0
  /\ invalid_packets = 0

(* As long as every datagram was valid and in order, the payloads for the  *)
(* parser are consecutive from the first number on.                        *)
ConsecutiveInv ==
  ~user_interrupt =>
    /\ valid_packets + invalid_packets = received_packets
    /\ Flawless =>
         /\ Len(for_parser) = valid_packets - (IF pc = "append" THEN 1 ELSE 0)
         /\ \A i \in 1 .. Len(for_parser) :
              for_parser[i].packet = SenderPacket(first_sequence + i - 1)
         /\ pc = "append" => Head(slots) = SenderPacket(highest_sequence)

ReceiverInv ==
  TypeOK /\ FlowInv /\ BatchesInOrder /\ NumberInv /\ ConsecutiveInv
-------------------------------------------------------------------------------
(* Facts about data.                                                       *)

LEMMA NoneIsNoNumber ==
  /\ \A n \in PacketNumber : n # None /\ n \in Nat \ {0}
  /\ TotalPackets \in PacketNumber /\ 1 \in PacketNumber
BY ReceiverAssumption DEF PacketNumber

LEMMA DatagramFields ==
  ASSUME NEW d \in Datagram
  PROVE  d.valid => d.right_size /\ d.sequence \in PacketNumber /\ d = SenderPacket(d.sequence)
BY DEF Datagram, SenderPacket, WrongSize, Garbled

LEMMA NonemptySlots ==
  ASSUME NEW S, NEW n \in Nat, n >= 1, NEW s \in [1 .. n -> S]
  PROVE  s \in Seq(S) /\ s # <<>>
<1>1. s \in Seq(S)
  BY IsASeq
<1>2. DOMAIN s = 1 .. n
  OBVIOUS
<1>3. s = <<>> => DOMAIN s = {}
  OBVIOUS
<1> QED BY <1>1, <1>2, <1>3

LEMMA PrefixIsSeq ==
  ASSUME NEW S, NEW s \in Seq(S), NEW t \in Seq(S), NEW n \in 0 .. Len(t)
  PROVE  s \o SubSeq(t, 1, n) \in Seq(S)
<1>1. \A i \in 1 .. n : t[i] \in S
  BY ElementOfSeq, LenProperties
<1>2. SubSeq(t, 1, n) \in Seq(S)
  BY <1>1, SubSeqProperties, LenProperties
<1> QED BY <1>2, ConcatProperties
-------------------------------------------------------------------------------
(* Types.                                                                  *)

LEMMA InitTypes == Init => TypeOK
<1> SUFFICES ASSUME Init PROVE TypeOK
  OBVIOUS
<1>1. SequenceTypes
  BY DEF Init, SequenceTypes
<1>2. BatchTypes
  BY DEF Init, BatchTypes
<1>3. DmaTypes
  BY DEF Init, DmaTypes
<1> QED BY <1>1, <1>2, <1>3 DEF Init, TypeOK

LEMMA ReceiveKeepsTypes == ASSUME TypeOK, Receive PROVE TypeOK'
<1>1. PICK n \in 1 .. receive_batch : slots' \in [1 .. n -> Datagram]
  BY DEF Receive
<1>2. n \in Nat /\ n >= 1
  BY ReceiverAssumption DEF receive_batch
<1>3. slots' \in Seq(Datagram) /\ slots' # <<>>
  BY <1>1, <1>2, NonemptySlots
<1>4. SequenceTypes' /\ DmaTypes'
  BY DEF TypeOK, SequenceTypes, DmaTypes, Receive, countVars, seqVars, dmaVars, tallyVars
<1>5. BatchTypes'
  BY <1>3 DEF TypeOK, BatchTypes, Receive, countVars, batchVars
<1> QED BY <1>4, <1>5 DEF TypeOK, Receive

LEMMA StoppingKeepsTypes == ASSUME TypeOK, Timeout \/ ReceiveFails \/ NothingPending PROVE TypeOK'
<1>1. SequenceTypes' /\ DmaTypes'
  BY DEF TypeOK, SequenceTypes, DmaTypes, Timeout, ReceiveFails, NothingPending,
         countVars, seqVars, dmaVars, tallyVars
<1>2. BatchTypes'
  BY DEF TypeOK, BatchTypes, Timeout, ReceiveFails, NothingPending, countVars, batchVars
<1> QED BY <1>1, <1>2 DEF TypeOK, Timeout, ReceiveFails, NothingPending

LEMMA NextDatagramIsOne ==
  /\ NextDatagram \in {"receive", "handle", "stopping"}
  /\ NextDatagram = "handle" => slots' # <<>>
BY DEF NextDatagram

LEMMA TailTypes ==
  ASSUME BatchTypes, pc \in {"handle", "append"}
  PROVE  Head(slots) \in Datagram /\ Tail(slots) \in Seq(Datagram)
BY HeadTailProperties DEF BatchTypes

LEMMA WrongSizeKeepsTypes == ASSUME TypeOK, HandleWrongSize PROVE TypeOK'
<1>1. Tail(slots) \in Seq(Datagram)
  BY TailTypes DEF TypeOK, HandleWrongSize, TakeDatagram
<1>2. SequenceTypes'
  BY DEF TypeOK, SequenceTypes, HandleWrongSize
<1>3. BatchTypes'
  BY <1>1, NextDatagramIsOne DEF TypeOK, BatchTypes, HandleWrongSize, TakeDatagram, batchVars
<1>4. DmaTypes'
  BY DEF TypeOK, DmaTypes, HandleWrongSize, TakeDatagram, dmaVars, tallyVars
<1> QED BY <1>2, <1>3, <1>4, NextDatagramIsOne DEF TypeOK, HandleWrongSize, TakeDatagram

(* The highest number is one of those seen, so that a gap is never         *)
(* negative.                                                               *)
LEMMA CountSequenceTypes ==
  ASSUME SequenceTypes, NumberInv, NEW n \in PacketNumber, CountSequence(n)
  PROVE  /\ missing_sequences' \in Nat
         /\ duplicate_sequences' \in Nat /\ out_of_order_sequences' \in Nat
         /\ seen_sequences' \subseteq PacketNumber
         /\ highest_sequence' \in PacketNumber \cup {None}
<1>1. highest_sequence # None => highest_sequence \in seen_sequences
  BY DEF NumberInv, SequenceTypes
<1>2. missing_sequences' \in Nat
  BY <1>1, NoneIsNoNumber DEF CountSequence, SequenceTypes
<1>3. duplicate_sequences' \in Nat /\ out_of_order_sequences' \in Nat
  BY DEF CountSequence, SequenceTypes
<1>4. seen_sequences' \subseteq PacketNumber /\ highest_sequence' \in PacketNumber \cup {None}
  BY DEF CountSequence, SequenceTypes
<1> QED BY <1>2, <1>3, <1>4

LEMMA CountKeepsTypes == ASSUME TypeOK, NumberInv, CountPacket PROVE TypeOK'
<1>1. Head(slots) \in Datagram
  BY TailTypes DEF TypeOK, CountPacket, TakeDatagram
<1>2. SequenceTypes'
  <2>1. CASE ~Head(slots).valid
    BY <2>1 DEF CountPacket, CountInvalid, TypeOK, SequenceTypes
  <2>2. CASE Head(slots).valid
    <3>1. Head(slots).sequence \in PacketNumber
      BY <1>1, <2>2, DatagramFields
    <3>2. CountValid(Head(slots)) /\ CountSequence(Head(slots).sequence)
      BY <2>2 DEF CountPacket, CountValid
    <3> HIDE DEF CountSequence
    <3>3. /\ missing_sequences' \in Nat
          /\ duplicate_sequences' \in Nat /\ out_of_order_sequences' \in Nat
          /\ seen_sequences' \subseteq PacketNumber
          /\ highest_sequence' \in PacketNumber \cup {None}
      BY <3>1, <3>2, CountSequenceTypes DEF TypeOK
    <3> QED BY <3>1, <3>2, <3>3 DEF CountValid, TypeOK, SequenceTypes
  <2> QED BY <2>1, <2>2
<1>3. BatchTypes'
  BY DEF TypeOK, BatchTypes, CountPacket, TakeDatagram, batchVars
<1>4. DmaTypes'
  BY DEF TypeOK, DmaTypes, CountPacket, TakeDatagram, dmaVars, tallyVars
<1> QED BY <1>2, <1>3, <1>4 DEF TypeOK, CountPacket, TakeDatagram

LEMMA AppendKeepsTypes == ASSUME TypeOK, FlowInv, AppendPacket PROVE TypeOK'
<1> DEFINE payload == [packet |-> Head(slots), at |-> received_packets - 1]
<1>1. Head(slots) \in Datagram /\ Tail(slots) \in Seq(Datagram)
  BY TailTypes DEF TypeOK, AppendPacket
<1>2. payload \in Pending
  BY <1>1 DEF Pending, TypeOK, BatchTypes, AppendPacket, FlowInv
<1>3. pending_packets' \in Seq(Pending) /\ for_parser' \in Seq(Pending)
  BY <1>2, AppendProperties DEF TypeOK, BatchTypes, AppendPacket
<1>4. pending_first_index' \in Nat
  BY DEF TypeOK, BatchTypes, AppendPacket, FirstIndex, FlowInv
<1>5. pc' \in {"flush", "receive", "handle", "stopping"} /\ (pc' = "handle" => slots' # <<>>)
  BY NextDatagramIsOne DEF AppendPacket
<1>6. BatchTypes'
  BY <1>1, <1>3, <1>4, <1>5 DEF TypeOK, BatchTypes, AppendPacket, countVars
<1>7. SequenceTypes' /\ DmaTypes'
  BY DEF TypeOK, SequenceTypes, DmaTypes, AppendPacket, countVars, seqVars, dmaVars, tallyVars
<1> QED BY <1>5, <1>6, <1>7 DEF TypeOK, AppendPacket

LEMMA TransferKeepsTypes ==
  ASSUME TypeOK, TransferReturns \/ TransferRaises
  PROVE  TypeOK'
<1>1. passed' \in Seq(Pending)
  <2>1. passed \in Seq(Pending) /\ pending_packets \in Seq(Pending)
    BY DEF TypeOK, BatchTypes, DmaTypes
  <2>2. CASE TransferReturns
    BY <2>1, <2>2, ConcatProperties DEF TransferReturns
  <2>3. CASE TransferRaises
    BY <2>1, <2>3, PrefixIsSeq DEF TransferRaises
  <2> QED BY <2>2, <2>3
<1>2. pc' \in {pc, "stopping", "done"}
  BY DEF TransferReturns, TransferRaises, AfterFailure
<1>3. SequenceTypes'
  BY DEF TypeOK, SequenceTypes, TransferReturns, TransferRaises, countVars, seqVars
<1>4. BatchTypes'
  BY <1>2 DEF TypeOK, BatchTypes, TransferReturns, TransferRaises, countVars, batchVars
<1>5. DmaTypes'
  BY <1>1 DEF TypeOK, DmaTypes, TransferReturns, TransferRaises, tallyVars
<1> QED BY <1>2, <1>3, <1>4, <1>5 DEF TypeOK, TransferReturns, TransferRaises

LEMMA TallyKeepsTypes == ASSUME TypeOK, TallyBatch PROVE TypeOK'
<1> DEFINE Examples == [index : Int, at : Nat]
<1>1. pending_packets \in Seq(Pending) /\ pending_first_index \in Nat /\ Len(pending_packets) \in Nat
  BY LenProperties DEF TypeOK, BatchTypes
<1>2. PICK i \in 0 .. Len(pending_packets) :
        /\ mismatched_packets' = mismatched_packets + (IF i = 0 THEN 0 ELSE 1)
        /\ mismatch_examples' =
             IF i = 0 \/ Len(mismatch_examples) = MAX_EXAMPLES THEN mismatch_examples
             ELSE Append(mismatch_examples, Example(i))
  BY DEF TallyBatch
<1>3. i # 0 => Example(i) \in Examples
  <2> SUFFICES ASSUME i # 0 PROVE Example(i) \in Examples
    OBVIOUS
  <2>1. pending_packets[i] \in Pending
    BY <1>1, ElementOfSeq
  <2> QED BY <1>1, <2>1 DEF Pending, Example
<1>4. mismatch_examples \in Seq(Examples)
  BY DEF TypeOK, DmaTypes
<1>5. mismatch_examples' \in Seq(Examples)
  <2> HIDE DEF Examples, Example
  <2> QED BY <1>2, <1>3, <1>4, AppendProperties
<1>6. DmaTypes'
  BY <1>1, <1>2, <1>5 DEF TypeOK, DmaTypes, TallyBatch
<1>7. SequenceTypes' /\ BatchTypes'
  BY DEF TypeOK, SequenceTypes, BatchTypes, TallyBatch, countVars, seqVars, batchVars
<1> QED BY <1>6, <1>7 DEF TypeOK, TallyBatch

LEMMA ClearKeepsTypes == ASSUME TypeOK, ClearBatch PROVE TypeOK'
<1>1. SequenceTypes' /\ DmaTypes'
  BY DEF TypeOK, SequenceTypes, DmaTypes, ClearBatch, countVars, seqVars, dmaVars, tallyVars
<1>2. pending_packets' \in Seq(Pending)
  BY EmptySeq DEF ClearBatch, Cleared
<1>3. BatchTypes'
  BY <1>2, NextDatagramIsOne DEF TypeOK, BatchTypes, ClearBatch, countVars
<1> QED BY <1>1, <1>3, NextDatagramIsOne DEF TypeOK, ClearBatch

LEMMA InterruptKeepsTypes ==
  ASSUME TypeOK, Interrupt \/ InterruptAgain PROVE TypeOK'
<1>1. passed' \in Seq(Pending)
  <2>1. passed \in Seq(Pending) /\ pending_packets \in Seq(Pending)
    BY DEF TypeOK, BatchTypes, DmaTypes
  <2>2. passed' \in PassedWhenInterrupted
    BY DEF Interrupt, InterruptAgain
  <2> QED BY <2>1, <2>2, PrefixIsSeq DEF PassedWhenInterrupted
<1>2. received_packets' \in Nat
  BY DEF TypeOK, BatchTypes, Interrupt, InterruptAgain, countVars
<1>3. SequenceTypes'
  BY DEF TypeOK, SequenceTypes, Interrupt, InterruptAgain, countVars, seqVars
<1>4. DmaTypes'
  BY <1>1 DEF TypeOK, DmaTypes, Interrupt, InterruptAgain, tallyVars
<1>5. BatchTypes'
  BY <1>2 DEF TypeOK, BatchTypes, Interrupt, InterruptAgain, countVars, batchVars
<1> QED BY <1>3, <1>4, <1>5 DEF TypeOK, Interrupt, InterruptAgain

LEMMA TypesStep ==
  ASSUME TypeOK, FlowInv, NumberInv, [Next]_vars PROVE TypeOK'
<1>1. CASE Receive \/ Timeout \/ ReceiveFails
  BY <1>1, ReceiveKeepsTypes, StoppingKeepsTypes
<1>2. CASE HandleWrongSize \/ CountPacket \/ AppendPacket
  BY <1>2, WrongSizeKeepsTypes, CountKeepsTypes, AppendKeepsTypes
<1>3. CASE NothingPending \/ TransferReturns \/ TransferRaises \/ TallyBatch \/ ClearBatch
  BY <1>3, StoppingKeepsTypes, TransferKeepsTypes, TallyKeepsTypes, ClearKeepsTypes
<1>4. CASE Interrupt \/ InterruptAgain
  BY <1>4, InterruptKeepsTypes
<1>5. CASE UNCHANGED vars
  BY <1>5 DEF vars, countVars, seqVars, batchVars, dmaVars, tallyVars,
              TypeOK, SequenceTypes, BatchTypes, DmaTypes
<1> QED BY <1>1, <1>2, <1>3, <1>4, <1>5 DEF Next, Handling, Finished
-------------------------------------------------------------------------------
(* The flow of batches.                                                    *)

LEMMA FlowStep ==
  ASSUME TypeOK, FlowInv, [Next]_vars PROVE FlowInv'
<1> USE DEF FlowInv, Flushing
<1>1. CASE Receive \/ Timeout \/ ReceiveFails
  BY <1>1 DEF Receive, Timeout, ReceiveFails
<1>2. CASE HandleWrongSize
  BY <1>2, NextDatagramIsOne DEF HandleWrongSize, TakeDatagram
<1>3. CASE CountPacket
  BY <1>3 DEF CountPacket, TakeDatagram, TypeOK, BatchTypes
<1>4. CASE AppendPacket
  BY <1>4, NextDatagramIsOne DEF AppendPacket
<1>5. CASE NothingPending
  BY <1>5 DEF NothingPending, batchVars
<1>6. CASE TransferReturns
  BY <1>6 DEF TransferReturns, countVars
<1>7. CASE TransferRaises
  BY <1>7 DEF TransferRaises, AfterFailure, countVars, TypeOK, DmaTypes
<1>8. CASE TallyBatch
  BY <1>8 DEF TallyBatch, countVars
<1>9. CASE ClearBatch
  BY <1>9, NextDatagramIsOne DEF ClearBatch, Cleared
<1>10. CASE Interrupt \/ InterruptAgain
  BY <1>10 DEF Interrupt, InterruptAgain
<1>11. CASE UNCHANGED vars
  BY <1>11 DEF vars, countVars, batchVars, dmaVars, tallyVars
<1> QED BY <1>1, <1>2, <1>3, <1>4, <1>5, <1>6, <1>7, <1>8, <1>9, <1>10, <1>11
        DEF Next, Handling, Finished

LEMMA OrderStep ==
  ASSUME TypeOK, FlowInv, BatchesInOrder, [Next]_vars PROVE BatchesInOrder'
<1> USE DEF BatchesInOrder
<1>1. CASE Receive \/ Timeout \/ ReceiveFails
  BY <1>1 DEF Receive, Timeout, ReceiveFails, batchVars, dmaVars, tallyVars
<1>2. CASE HandleWrongSize \/ CountPacket
  BY <1>2 DEF HandleWrongSize, CountPacket, TakeDatagram, batchVars, dmaVars, tallyVars
<1>3. CASE AppendPacket
  <2> DEFINE payload == [packet |-> Head(slots), at |-> received_packets - 1]
  <2>1. phase = "transfer"
    BY <1>3 DEF AppendPacket, FlowInv, Flushing
  <2>2. payload \in Pending
    BY <1>3, TailTypes DEF AppendPacket, FlowInv, TypeOK, BatchTypes, Pending
  <2>3. passed \in Seq(Pending) /\ pending_packets \in Seq(Pending)
    BY DEF TypeOK, BatchTypes, DmaTypes
  <2>4. /\ pending_packets' = Append(pending_packets, payload)
        /\ for_parser' = Append(for_parser, payload)
        /\ UNCHANGED <<passed, phase, dma_errors, user_interrupt>>
    BY <1>3 DEF AppendPacket, dmaVars, tallyVars
  <2> HIDE DEF payload
  <2>5. <<payload>> \in Seq(Pending) /\ passed \o pending_packets \in Seq(Pending)
    BY <2>2, <2>3, ConcatProperties
  <2>6. /\ Append(passed \o pending_packets, payload) = (passed \o pending_packets) \o <<payload>>
        /\ Append(pending_packets, payload) = pending_packets \o <<payload>>
    BY <2>2, <2>3, <2>5, AppendIsConcat
  <2>7. (passed \o pending_packets) \o <<payload>> = passed \o (pending_packets \o <<payload>>)
    BY <2>3, <2>5, ConcatAssociative
  <2> QED BY <2>1, <2>4, <2>6, <2>7
<1>4. CASE NothingPending
  BY <1>4 DEF NothingPending, batchVars, dmaVars, tallyVars
<1>5. CASE TransferReturns
  BY <1>5 DEF TransferReturns, batchVars, tallyVars
<1>6. CASE TransferRaises
  BY <1>6 DEF TransferRaises, TypeOK, DmaTypes
<1>7. CASE TallyBatch
  BY <1>7 DEF TallyBatch, batchVars
<1>8. CASE ClearBatch
  <2>1. passed \o <<>> = passed
    BY ConcatEmptySeq DEF TypeOK, DmaTypes
  <2> QED BY <1>8, <2>1 DEF ClearBatch, Cleared, dmaVars, tallyVars
<1>9. CASE Interrupt \/ InterruptAgain
  BY <1>9 DEF Interrupt, InterruptAgain, FlowInv
<1>10. CASE UNCHANGED vars
  BY <1>10 DEF vars, batchVars, dmaVars, tallyVars
<1> QED BY <1>1, <1>2, <1>3, <1>4, <1>5, <1>6, <1>7, <1>8, <1>9, <1>10
        DEF Next, Handling, Finished
-------------------------------------------------------------------------------
(* The counters of numbers.                                                *)

(* What NumberInv looks at changes with a valid packet only.               *)
numberVars == <<valid_packets, missing_sequences, duplicate_sequences,
                out_of_order_sequences, seen_sequences, highest_sequence,
                planned_packets, stream_end_seen, first_sequence>>

LEMMA NumbersChange ==
  ASSUME [Next]_vars
  PROVE  \/ CountPacket /\ CountValid(Head(slots)) /\ Head(slots).valid
         \/ UNCHANGED numberVars
<1> USE DEF numberVars
<1>1. CASE Receive \/ Timeout \/ ReceiveFails
  BY <1>1 DEF Receive, Timeout, ReceiveFails, countVars, seqVars
<1>2. CASE HandleWrongSize
  BY <1>2 DEF HandleWrongSize
<1>3. CASE CountPacket
  BY <1>3 DEF CountPacket, CountInvalid
<1>4. CASE AppendPacket \/ NothingPending \/ TransferReturns \/ TransferRaises
  BY <1>4 DEF AppendPacket, NothingPending, TransferReturns, TransferRaises, countVars, seqVars
<1>5. CASE TallyBatch \/ ClearBatch \/ Interrupt \/ InterruptAgain
  BY <1>5 DEF TallyBatch, ClearBatch, Interrupt, InterruptAgain, countVars, seqVars
<1>6. CASE UNCHANGED vars
  BY <1>6 DEF vars, countVars, seqVars
<1> QED BY <1>1, <1>2, <1>3, <1>4, <1>5, <1>6 DEF Next, Handling, Finished

LEMMA NumbersStep ==
  ASSUME TypeOK, NumberInv, [Next]_vars PROVE NumberInv'
<1>1. CASE CountPacket /\ CountValid(Head(slots)) /\ Head(slots).valid
  <2> DEFINE n == Head(slots).sequence
  <2>1. Head(slots) \in Datagram
    BY <1>1, TailTypes DEF TypeOK, CountPacket, TakeDatagram
  <2>2. n \in PacketNumber /\ n # None /\ n \in Nat
    BY <1>1, <2>1, DatagramFields, NoneIsNoNumber
  <2>3. CountSequence(n)
    BY <1>1 DEF CountValid
  <2>4. SequenceTypes /\ \A m \in seen_sequences : m \in Nat
    BY NoneIsNoNumber DEF TypeOK, SequenceTypes
  <2>5. /\ valid_packets' = valid_packets + 1 /\ valid_packets' > 0
        /\ first_sequence' = IF first_sequence = None THEN n ELSE first_sequence
        /\ planned_packets' # None => planned_packets # None \/ n = 1
        /\ stream_end_seen' => stream_end_seen \/ n = TotalPackets
    BY <1>1, <2>4 DEF CountValid, IsStart, IsEnd, SequenceTypes
  <2> HIDE DEF n
  <2>6. CASE valid_packets = 0
    <3>1. /\ seen_sequences' = {n} /\ highest_sequence' = n /\ first_sequence' = n
          /\ missing_sequences' = 0 /\ duplicate_sequences' = 0
          /\ out_of_order_sequences' = 0
      BY <2>2, <2>3, <2>5, <2>6 DEF CountSequence, NumberInv, NothingCounted
    <3>2. valid_packets' = 1
      BY <2>5, <2>6
    <3> QED BY <2>2, <2>5, <2>6, <3>1, <3>2 DEF NumberInv, NothingCounted, NumbersAccounted
  <2>7. CASE valid_packets # 0
    <3>1. /\ first_sequence \in Nat /\ highest_sequence \in Nat
          /\ first_sequence # None /\ highest_sequence # None
          /\ valid_packets > 0
          /\ first_sequence' = first_sequence
      BY <2>4, <2>5, <2>7, NoneIsNoNumber DEF NumberInv, SequenceTypes
    <3>2. /\ highest_sequence \in seen_sequences
          /\ \A m \in seen_sequences : m <= highest_sequence
      BY <3>1 DEF NumberInv
    <3>3. seen_sequences' = seen_sequences \cup {n}
      BY <2>3 DEF CountSequence
    <3>4. highest_sequence' \in Nat /\ highest_sequence' # None
      BY <2>2, <2>3, <3>1 DEF CountSequence
    <3>5. /\ highest_sequence' \in seen_sequences'
          /\ \A m \in seen_sequences' : m <= highest_sequence'
      BY <2>2, <2>3, <2>4, <3>1, <3>2 DEF CountSequence
    <3>6. NumbersAccounted'
      BY <2>2, <2>3, <2>4, <2>5, <3>1, <3>2
         DEF CountSequence, SequenceTypes, NumberInv, NumbersAccounted
    <3>7. out_of_order_sequences' = 0 => \A m \in seen_sequences' : first_sequence' <= m
      <4> SUFFICES ASSUME out_of_order_sequences' = 0, NEW m \in seen_sequences'
                   PROVE  first_sequence <= m
        BY <3>1
      <4>1. out_of_order_sequences = 0 /\ (n \in seen_sequences \/ n >= highest_sequence)
        BY <2>2, <2>3, <2>4, <3>1 DEF CountSequence, SequenceTypes
      <4>2. \A k \in seen_sequences : first_sequence <= k
        BY <3>1, <4>1 DEF NumberInv
      <4> QED BY <2>2, <2>4, <3>1, <3>2, <3>3, <4>1, <4>2
    <3>8. /\ planned_packets' # None => 1 \in seen_sequences'
          /\ stream_end_seen' => TotalPackets \in seen_sequences'
      BY <2>5, <3>3 DEF NumberInv
    <3> QED BY <2>5, <3>1, <3>4, <3>5, <3>6, <3>7, <3>8 DEF NumberInv
  <2> QED BY <2>6, <2>7
<1>2. CASE UNCHANGED numberVars
  BY <1>2 DEF numberVars, NumberInv, NothingCounted, NumbersAccounted
<1> QED BY <1>1, <1>2, NumbersChange
-------------------------------------------------------------------------------
(* The payloads for the parser.                                            *)

(* A valid packet that leaves every fault counter at 0 is the next one.    *)
LEMMA FlawlessCountIsNext ==
  ASSUME TypeOK, NumberInv, CountPacket, Head(slots).valid, Flawless'
  PROVE  /\ Flawless
         /\ Head(slots) = SenderPacket(highest_sequence')
<1> DEFINE n == Head(slots).sequence
<1>1. Head(slots) \in Datagram
  BY TailTypes DEF TypeOK, CountPacket, TakeDatagram
<1>2. n \in PacketNumber /\ n # None /\ n \in Nat /\ Head(slots) = SenderPacket(n)
  BY <1>1, DatagramFields, NoneIsNoNumber
<1>3. CountSequence(n) /\ invalid_packets' = invalid_packets
  BY DEF CountPacket, CountValid
<1> HIDE DEF n
<1>4. highest_sequence # None => highest_sequence \in seen_sequences /\ highest_sequence \in Nat
  BY NoneIsNoNumber DEF TypeOK, SequenceTypes, NumberInv
<1>5. /\ duplicate_sequences \in Nat /\ out_of_order_sequences \in Nat
      /\ missing_sequences \in Nat
  BY DEF TypeOK, SequenceTypes
<1>6. n \notin seen_sequences /\ (highest_sequence # None => n >= highest_sequence)
  BY <1>2, <1>3, <1>4, <1>5 DEF CountSequence, Flawless
<1>7. highest_sequence' = n
  BY <1>3, <1>6, <1>2, <1>4 DEF CountSequence
<1>8. Flawless
  BY <1>2, <1>3, <1>4, <1>5, <1>6 DEF CountSequence, Flawless
<1> QED BY <1>2, <1>7, <1>8

(* What ConsecutiveInv looks at, besides pc.                               *)
payloadVars == <<numberVars, invalid_packets, received_packets, for_parser>>

LEMMA ConsecutiveStep ==
  ASSUME TypeOK, FlowInv, NumberInv, ConsecutiveInv, [Next]_vars
  PROVE  ConsecutiveInv'
<1> SUFFICES ASSUME ~user_interrupt' PROVE ConsecutiveInv'
  BY DEF ConsecutiveInv
<1> USE DEF ConsecutiveInv
<1>1. ~user_interrupt
  BY DEF Next, Handling, Finished, Receive, Timeout, ReceiveFails, HandleWrongSize, CountPacket,
         TakeDatagram, AppendPacket, NothingPending, TransferReturns, TransferRaises, TallyBatch,
         ClearBatch, Interrupt, InterruptAgain, vars
<1>2. /\ valid_packets \in Nat /\ invalid_packets \in Nat /\ received_packets \in Nat
      /\ for_parser \in Seq(Pending)
  BY DEF TypeOK, SequenceTypes, BatchTypes
<1>3. CASE HandleWrongSize
  <2>1. /\ invalid_packets' = invalid_packets + 1 /\ received_packets' = received_packets + 1
        /\ valid_packets' = valid_packets
    BY <1>3 DEF HandleWrongSize, TakeDatagram
  <2> QED BY <1>1, <1>2, <2>1 DEF Flawless
<1>4. CASE CountPacket /\ ~Head(slots).valid
  <2>1. /\ invalid_packets' = invalid_packets + 1 /\ received_packets' = received_packets + 1
        /\ valid_packets' = valid_packets
    BY <1>4 DEF CountPacket, CountInvalid, TakeDatagram
  <2> QED BY <1>1, <1>2, <2>1 DEF Flawless
<1>5. CASE CountPacket /\ Head(slots).valid
  <2>1. /\ valid_packets' = valid_packets + 1 /\ received_packets' = received_packets + 1
        /\ UNCHANGED <<invalid_packets, for_parser, slots>>
        /\ pc = "handle" /\ pc' = "append"
        /\ first_sequence # None => first_sequence' = first_sequence
    BY <1>5 DEF CountPacket, CountValid, TakeDatagram, batchVars
  <2>2. SUFFICES ASSUME Flawless'
                 PROVE  /\ Len(for_parser') = valid_packets' - 1
                        /\ \A i \in 1 .. Len(for_parser') :
                             for_parser'[i].packet = SenderPacket(first_sequence' + i - 1)
                        /\ Head(slots') = SenderPacket(highest_sequence')
    BY <1>1, <1>2, <2>1
  <2>3. Flawless /\ Head(slots) = SenderPacket(highest_sequence')
    BY <1>5, <2>2, FlawlessCountIsNext
  <2>4. Len(for_parser) = valid_packets
    BY <1>1, <1>2, <2>1, <2>3
  <2>5. valid_packets = 0 \/ first_sequence' = first_sequence
    BY <2>1 DEF NumberInv
  <2> QED BY <1>1, <1>2, <2>1, <2>3, <2>4, <2>5
<1>6. CASE AppendPacket
  <2> DEFINE payload == [packet |-> Head(slots), at |-> received_packets - 1]
  <2>1. /\ for_parser' = Append(for_parser, payload) /\ pc = "append" /\ pc' # "append"
        /\ UNCHANGED <<numberVars, invalid_packets, received_packets>>
    BY <1>6, NextDatagramIsOne DEF AppendPacket, numberVars, countVars, seqVars
  <2>2. Flawless' => Flawless
    BY <2>1 DEF Flawless, numberVars
  <2>3. SUFFICES ASSUME Flawless
                 PROVE  /\ Len(for_parser') = valid_packets
                        /\ \A i \in 1 .. Len(for_parser') :
                             for_parser'[i].packet = SenderPacket(first_sequence + i - 1)
    BY <1>1, <2>1, <2>2 DEF numberVars
  <2>4. /\ Len(for_parser) = valid_packets - 1
        /\ \A i \in 1 .. Len(for_parser) :
             for_parser[i].packet = SenderPacket(first_sequence + i - 1)
        /\ payload.packet = SenderPacket(highest_sequence)
    BY <1>1, <2>1, <2>3
  <2>5. highest_sequence = first_sequence + valid_packets - 1
    <3>1. valid_packets > 0
      BY <1>2, <2>4, LenProperties
    <3>2. highest_sequence \in Nat /\ first_sequence \in Nat
      BY <3>1, NoneIsNoNumber DEF NumberInv, TypeOK, SequenceTypes
    <3> QED BY <1>2, <2>3, <3>1, <3>2 DEF NumberInv, NumbersAccounted, Flawless
  <2>6. /\ Len(for_parser') = valid_packets
        /\ \A i \in 1 .. Len(for_parser) : for_parser'[i] = for_parser[i]
        /\ for_parser'[valid_packets] = payload
    <3>1. payload \in Pending
      BY <1>6, TailTypes DEF AppendPacket, FlowInv, TypeOK, BatchTypes, Pending
    <3> HIDE DEF payload
    <3> QED BY <1>2, <2>1, <2>4, <3>1, AppendProperties, LenProperties
  <2>7. Len(for_parser) = valid_packets - 1 /\ valid_packets \in Nat
    BY <1>2, <2>4
  <2>8. ASSUME NEW i \in 1 .. valid_packets
        PROVE  for_parser'[i].packet = SenderPacket(first_sequence + i - 1)
    <3>1. CASE i = valid_packets
      BY <2>4, <2>5, <2>6, <3>1
    <3>2. CASE i # valid_packets
      BY <2>4, <2>6, <2>7, <3>2
    <3> QED BY <3>1, <3>2
  <2> QED BY <2>6, <2>8
<1>7. CASE /\ UNCHANGED payloadVars
           /\ pc # "append" /\ pc' # "append"
  BY <1>1, <1>7 DEF payloadVars, numberVars, Flawless
<1>8. CASE UNCHANGED vars
  BY <1>1, <1>8 DEF vars, countVars, seqVars, batchVars, Flawless
<1>9. CASE Receive \/ Timeout \/ ReceiveFails
  BY <1>7, <1>9 DEF Receive, Timeout, ReceiveFails, payloadVars, numberVars, countVars, seqVars,
                    batchVars
<1>10. CASE NothingPending \/ TransferReturns \/ TransferRaises
  BY <1>7, <1>10 DEF NothingPending, TransferReturns, TransferRaises, Flushing, AfterFailure,
                     payloadVars, numberVars, countVars, seqVars, batchVars
<1>11. CASE TallyBatch \/ ClearBatch
  BY <1>7, <1>11, NextDatagramIsOne
     DEF TallyBatch, ClearBatch, Flushing, payloadVars, numberVars, countVars, seqVars, batchVars
<1>12. CASE Interrupt \/ InterruptAgain
  BY <1>7, <1>12 DEF Interrupt, InterruptAgain, payloadVars, numberVars, countVars, seqVars,
                     batchVars
<1> QED BY <1>3, <1>4, <1>5, <1>6, <1>8, <1>9, <1>10, <1>11, <1>12 DEF Next, Handling, Finished
-------------------------------------------------------------------------------
(* Where the examples of mismatches say their packets were.                *)

(* x lags by the datagrams of the wrong size that were not counted.        *)
Lags(at, x) == at - x \in 0 .. malformed_lengths

IndexInv ==
  /\ \A k \in 1 .. Len(mismatch_examples) : Lags(mismatch_examples[k].at, mismatch_examples[k].index)
  /\ \A i \in 1 .. Len(pending_packets) :
       Lags(pending_packets[i].at, pending_first_index + i - 1)
  /\ pending_packets # <<>> /\ pc \in {"receive", "handle", "append"} =>
       Lags(received_packets - (IF pc = "append" THEN 1 ELSE 0),
            pending_first_index + Len(pending_packets))

indexVars == <<mismatch_examples, pending_packets, pending_first_index, received_packets,
               malformed_lengths>>

LEMMA IndexStep ==
  ASSUME TypeOK, FlowInv, IndexInv, [Next]_vars PROVE IndexInv'
<1> USE DEF IndexInv, Lags
<1>1. /\ received_packets \in Nat /\ malformed_lengths \in Nat /\ pending_first_index \in Nat
      /\ pending_packets \in Seq(Pending) /\ Len(pending_packets) \in Nat
      /\ mismatch_examples \in Seq([index : Int, at : Nat]) /\ Len(mismatch_examples) \in Nat
  BY LenProperties DEF TypeOK, BatchTypes, DmaTypes
<1>2. /\ \A i \in 1 .. Len(pending_packets) : pending_packets[i].at \in Nat
      /\ \A k \in 1 .. Len(mismatch_examples) :
           mismatch_examples[k].at \in Nat /\ mismatch_examples[k].index \in Int
  <2>1. \A i \in 1 .. Len(pending_packets) : pending_packets[i] \in Pending
    BY <1>1, ElementOfSeq
  <2>2. \A k \in 1 .. Len(mismatch_examples) : mismatch_examples[k] \in [index : Int, at : Nat]
    BY <1>1, ElementOfSeq
  <2> QED BY <2>1, <2>2 DEF Pending
<1>3. CASE HandleWrongSize
  <2>1. /\ received_packets' = received_packets + 1
        /\ malformed_lengths' = malformed_lengths + 1
        /\ UNCHANGED <<mismatch_examples, pending_packets, pending_first_index>>
        /\ pc = "handle" /\ pc' # "append"
    BY <1>3, NextDatagramIsOne DEF HandleWrongSize, TakeDatagram, batchVars, dmaVars, tallyVars
  <2>2. ASSUME NEW at \in Nat, NEW x \in Int, Lags(at, x)
        PROVE  at - x \in 0 .. malformed_lengths' /\ at + 1 - x \in 0 .. malformed_lengths'
    BY <1>1, <2>1, <2>2
  <2>3. \A k \in 1 .. Len(mismatch_examples) :
          mismatch_examples[k].at - mismatch_examples[k].index \in 0 .. malformed_lengths'
    <3> SUFFICES ASSUME NEW k \in 1 .. Len(mismatch_examples)
                 PROVE  mismatch_examples[k].at - mismatch_examples[k].index
                          \in 0 .. malformed_lengths'
      OBVIOUS
    <3>1. Lags(mismatch_examples[k].at, mismatch_examples[k].index)
      OBVIOUS
    <3> HIDE DEF Lags, IndexInv
    <3> QED BY <1>2, <2>2, <3>1
  <2>4. \A i \in 1 .. Len(pending_packets) :
          pending_packets[i].at - (pending_first_index + i - 1) \in 0 .. malformed_lengths'
    <3> SUFFICES ASSUME NEW i \in 1 .. Len(pending_packets)
                 PROVE  pending_packets[i].at - (pending_first_index + i - 1)
                          \in 0 .. malformed_lengths'
      OBVIOUS
    <3>1. Lags(pending_packets[i].at, pending_first_index + i - 1)
      OBVIOUS
    <3>2. pending_packets[i].at \in Nat /\ pending_first_index + i - 1 \in Int
      BY <1>1, <1>2
    <3> HIDE DEF Lags, IndexInv
    <3> QED BY <2>2, <3>1, <3>2
  <2>5. pending_packets # <<>> =>
          received_packets + 1 - (pending_first_index + Len(pending_packets))
            \in 0 .. malformed_lengths'
    <3>1. pending_packets # <<>> =>
            Lags(received_packets, pending_first_index + Len(pending_packets))
      BY <1>1, <2>1
    <3> HIDE DEF Lags, IndexInv
    <3> QED BY <1>1, <2>2, <3>1
  <2>6. \A k \in 1 .. Len(mismatch_examples') :
          Lags(mismatch_examples[k].at, mismatch_examples[k].index)'
    BY <2>1, <2>3
  <2>7. \A i \in 1 .. Len(pending_packets') :
          Lags(pending_packets[i].at, pending_first_index + i - 1)'
    <3>1. pending_packets' = pending_packets /\ pending_first_index' = pending_first_index
      BY <2>1
    <3> HIDE DEF IndexInv
    <3> QED BY <2>4, <3>1
  <2>8. pc' # "append" /\ (pending_packets' # <<>> =>
          Lags(received_packets, pending_first_index + Len(pending_packets))')
    <3>1. /\ pending_packets' = pending_packets /\ pending_first_index' = pending_first_index
          /\ received_packets' = received_packets + 1 /\ pc' # "append"
      BY <2>1
    <3> HIDE DEF IndexInv
    <3>2. pending_packets' # <<>> =>
            received_packets' - (pending_first_index' + Len(pending_packets'))
              \in 0 .. malformed_lengths'
      <4>1. received_packets' - (pending_first_index' + Len(pending_packets'))
              = received_packets + 1 - (pending_first_index + Len(pending_packets))
        BY <1>1, <3>1
      <4> HIDE DEF Lags
      <4> QED BY <2>5, <3>1, <4>1
    <3> QED BY <3>1, <3>2
  <2>9. received_packets' - 0 = received_packets'
    BY <1>1, <2>1
  <2> HIDE DEF Lags
  <2> QED BY <2>6, <2>7, <2>8, <2>9
<1>4. CASE CountPacket
  <2>1. /\ received_packets' = received_packets + 1 /\ pc = "handle" /\ pc' = "append"
        /\ UNCHANGED <<mismatch_examples, pending_packets, pending_first_index,
                       malformed_lengths>>
    BY <1>4 DEF CountPacket, TakeDatagram, batchVars, dmaVars, tallyVars
  <2> QED BY <1>1, <1>2, <2>1
<1>5. CASE AppendPacket
  <2> DEFINE payload == [packet |-> Head(slots), at |-> received_packets - 1]
             last == Len(pending_packets) + 1
  <2>1. /\ pending_packets' = Append(pending_packets, payload)
        /\ pending_first_index' = FirstIndex
        /\ UNCHANGED <<mismatch_examples, received_packets, malformed_lengths>>
        /\ pc = "append" /\ pc' # "append"
    BY <1>5, NextDatagramIsOne DEF AppendPacket, countVars, dmaVars, tallyVars
  <2>2. payload \in Pending /\ payload.at = received_packets - 1 /\ received_packets - 1 \in Nat
    BY <1>5, TailTypes DEF AppendPacket, FlowInv, TypeOK, BatchTypes, Pending
  <2> HIDE DEF payload
  <2>3. /\ Len(pending_packets') = last /\ pending_packets'[last] = payload
        /\ \A i \in 1 .. Len(pending_packets) : pending_packets'[i] = pending_packets[i]
    BY <1>1, <2>1, <2>2, AppendProperties
  <2>4. /\ pending_packets # <<>> => FirstIndex = pending_first_index
        /\ pending_packets = <<>> => FirstIndex = received_packets - 1 /\ last = 1
    BY EmptySeq DEF FirstIndex
  <2>5. FirstIndex \in Nat /\ Lags(received_packets - 1, FirstIndex + last - 1)
    <3>1. CASE pending_packets = <<>>
      BY <1>1, <2>2, <2>4, <3>1
    <3>2. CASE pending_packets # <<>>
      BY <1>1, <2>1, <2>2, <2>4, <3>2
    <3> QED BY <3>1, <3>2
  <2>6. \A i \in 1 .. last : Lags(pending_packets'[i].at, FirstIndex + i - 1)
    <3>1. ASSUME NEW i \in 1 .. Len(pending_packets)
          PROVE  Lags(pending_packets'[i].at, FirstIndex + i - 1)
      <4>1. pending_packets # <<>>
        BY EmptySeq
      <4> QED BY <1>1, <2>3, <2>4, <4>1
    <3>2. Lags(pending_packets'[last].at, FirstIndex + last - 1)
      BY <2>2, <2>3, <2>5
    <3>3. 1 .. last = (1 .. Len(pending_packets)) \cup {last}
      BY <1>1
    <3> HIDE DEF Lags, last
    <3> QED BY <3>1, <3>2, <3>3
  <2>7. \A k \in 1 .. Len(mismatch_examples') :
          Lags(mismatch_examples[k].at, mismatch_examples[k].index)'
    BY <2>1
  <2>8. \A i \in 1 .. Len(pending_packets') :
          Lags(pending_packets[i].at, pending_first_index + i - 1)'
    BY <2>1, <2>3, <2>6
  <2>9. Lags(received_packets - 0, pending_first_index + Len(pending_packets))'
    BY <1>1, <2>1, <2>3, <2>5
  <2> HIDE DEF Lags
  <2> QED BY <2>1, <2>7, <2>8, <2>9
<1>6. CASE TallyBatch
  <2>1. PICK i \in 0 .. Len(pending_packets) :
          mismatch_examples' =
            IF i = 0 \/ Len(mismatch_examples) = MAX_EXAMPLES THEN mismatch_examples
            ELSE Append(mismatch_examples, Example(i))
    BY <1>6 DEF TallyBatch
  <2>2. /\ UNCHANGED <<pending_packets, pending_first_index, received_packets, malformed_lengths>>
        /\ pc' = pc
    BY <1>6 DEF TallyBatch, countVars, batchVars
  <2>3. CASE mismatch_examples' = mismatch_examples
    BY <1>1, <1>2, <2>2, <2>3
  <2>4. CASE i # 0 /\ mismatch_examples' = Append(mismatch_examples, Example(i))
    <3>1. Example(i).at = pending_packets[i].at
          /\ Example(i).index = pending_first_index + i - 1
      BY DEF Example
    <3>2. Example(i) \in [index : Int, at : Nat]
      BY <1>1, <1>2, <2>4 DEF Example
    <3>3. /\ Len(mismatch_examples') = Len(mismatch_examples) + 1
          /\ mismatch_examples'[Len(mismatch_examples) + 1] = Example(i)
          /\ \A k \in 1 .. Len(mismatch_examples) : mismatch_examples'[k] = mismatch_examples[k]
      BY <1>1, <2>4, <3>2, AppendProperties
    <3>4. Lags(Example(i).at, Example(i).index)
      BY <1>1, <2>4, <3>1
    <3>5. \A k \in 1 .. Len(mismatch_examples') :
            Lags(mismatch_examples'[k].at, mismatch_examples'[k].index)
      <4> HIDE DEF Lags, Example
      <4>1. \A k \in 1 .. Len(mismatch_examples) :
              Lags(mismatch_examples[k].at, mismatch_examples[k].index)
        OBVIOUS
      <4>2. 1 .. Len(mismatch_examples') =
              (1 .. Len(mismatch_examples)) \cup {Len(mismatch_examples) + 1}
        BY <1>1, <3>3
      <4>3. UNCHANGED malformed_lengths
        BY <2>2
      <4> SUFFICES ASSUME NEW k \in 1 .. Len(mismatch_examples')
                   PROVE  Lags(mismatch_examples'[k].at, mismatch_examples'[k].index)
        OBVIOUS
      <4>4. CASE k = Len(mismatch_examples) + 1
        BY <3>3, <3>4, <4>4
      <4>5. CASE k \in 1 .. Len(mismatch_examples)
        BY <3>3, <4>1, <4>5
      <4> QED BY <4>2, <4>4, <4>5
    <3> QED BY <2>2, <3>5
  <2> QED BY <2>1, <2>3, <2>4
<1>7. CASE ClearBatch
  <2>1. /\ pending_packets' = <<>> /\ Len(<<>>) = 0
        /\ UNCHANGED <<mismatch_examples, malformed_lengths>>
    BY <1>7, EmptySeq DEF ClearBatch, Cleared, countVars, dmaVars, tallyVars
  <2> QED BY <1>1, <1>2, <2>1
<1>8. CASE Interrupt
  <2>1. /\ UNCHANGED <<mismatch_examples, pending_packets, pending_first_index, malformed_lengths>>
        /\ pc' = "interrupted"
    BY <1>8 DEF Interrupt, batchVars, tallyVars
  <2> QED BY <1>1, <1>2, <2>1
<1>9. CASE UNCHANGED indexVars /\ pc' \in {pc, "handle", "stopping", "done", "raised"}
           /\ (pc' = "handle" => pc \in {"receive", "handle"})
  BY <1>1, <1>2, <1>9 DEF indexVars
<1>10. CASE Receive \/ Timeout \/ ReceiveFails \/ NothingPending
  BY <1>9, <1>10 DEF Receive, Timeout, ReceiveFails, NothingPending, indexVars, countVars,
                     batchVars, dmaVars, tallyVars
<1>11. CASE TransferReturns \/ TransferRaises \/ InterruptAgain
  BY <1>9, <1>11 DEF TransferReturns, TransferRaises, InterruptAgain, AfterFailure, Flushing,
                     indexVars, countVars, batchVars, tallyVars
<1>12. CASE UNCHANGED vars
  BY <1>9, <1>12 DEF vars, indexVars, countVars, batchVars, dmaVars, tallyVars
<1> QED BY <1>3, <1>4, <1>5, <1>6, <1>7, <1>8, <1>10, <1>11, <1>12 DEF Next, Handling, Finished
-------------------------------------------------------------------------------
LEMMA ReceiverInit == Init => ReceiverInv
<1> SUFFICES ASSUME Init PROVE ReceiverInv
  OBVIOUS
<1>1. TypeOK
  BY InitTypes
<1>2. FlowInv
  BY DEF Init, FlowInv
<1>3. BatchesInOrder
  BY ConcatEmptySeq, EmptySeq DEF Init, BatchesInOrder
<1>4. NumberInv
  BY ReceiverAssumption DEF Init, NumberInv, NothingCounted, NumbersAccounted
<1>5. ConsecutiveInv
  BY EmptySeq DEF Init, ConsecutiveInv
<1> QED BY <1>1, <1>2, <1>3, <1>4, <1>5 DEF ReceiverInv

LEMMA ReceiverStep == ReceiverInv /\ [Next]_vars => ReceiverInv'
<1> SUFFICES ASSUME ReceiverInv, [Next]_vars PROVE ReceiverInv'
  OBVIOUS
<1> USE DEF ReceiverInv
<1>1. TypeOK'
  BY TypesStep
<1>2. FlowInv' /\ BatchesInOrder'
  BY FlowStep, OrderStep
<1>3. NumberInv'
  BY NumbersStep
<1>4. ConsecutiveInv'
  BY ConsecutiveStep
<1> QED BY <1>1, <1>2, <1>3, <1>4

LEMMA ReceiverInvariant == Spec => []ReceiverInv
BY ReceiverInit, ReceiverStep, PTL DEF Spec

(* Types, for any sizes of stream, batch and receive call.                 *)
THEOREM LiveReceiverTypes == Spec => []TypeOK
<1>1. ReceiverInv => TypeOK BY DEF ReceiverInv
<1> QED BY <1>1, ReceiverInvariant, PTL

(* Batching neither loses, repeats nor reorders a packet, however the      *)
(* receive calls and the batches cut the stream.                           *)
THEOREM BatchesInOrderHolds == Spec => []BatchesInOrder
<1>1. ReceiverInv => BatchesInOrder BY DEF ReceiverInv
<1> QED BY <1>1, ReceiverInvariant, PTL

(* The counters of missing, duplicate and late numbers explain the highest *)
(* one, whatever UDP did.                                                  *)
THEOREM NumbersAccountedHolds == Spec => []NumbersAccounted
<1>1. ReceiverInv => NumbersAccounted BY DEF ReceiverInv, NumberInv
<1> QED BY <1>1, ReceiverInvariant, PTL

(* Consecutive packets, as many as were valid, behind which the STREAM_END *)
(* came, are the whole stream.                                             *)
LEMMA WholeFromCounts ==
  ASSUME TypeOK, NumberInv, Flawless, stream_end_seen, valid_packets > 0,
         NEW packets \in Seq(Pending), Len(packets) = valid_packets,
         \A i \in 1 .. Len(packets) : packets[i].packet = SenderPacket(first_sequence + i - 1)
  PROVE  WholeStream(packets)
<1>1. /\ first_sequence \in PacketNumber /\ highest_sequence \in PacketNumber
      /\ valid_packets \in Nat
  BY DEF NumberInv, TypeOK, SequenceTypes
<1>2. highest_sequence = TotalPackets
  <2>1. TotalPackets \in seen_sequences /\ \A n \in seen_sequences : n <= highest_sequence
    BY DEF NumberInv
  <2> QED BY <1>1, <2>1, ReceiverAssumption DEF PacketNumber
<1>3. Len(packets) = TotalPackets - first_sequence + 1
  BY <1>1, <1>2, NoneIsNoNumber DEF NumberInv, NumbersAccounted, Flawless
<1>4. planned_packets # None => first_sequence = 1
  <2>1. planned_packets # None => 1 \in seen_sequences
    BY DEF NumberInv
  <2>2. \A n \in seen_sequences : first_sequence <= n
    BY DEF NumberInv, Flawless
  <2> QED BY <1>1, <2>1, <2>2 DEF PacketNumber
<1>5. Payloads(packets) = StreamFrom(first_sequence)
  <2>1. DOMAIN packets = 1 .. TotalPackets - first_sequence + 1
    BY <1>3, LenProperties
  <2> QED BY <1>3, <2>1 DEF Payloads, StreamFrom
<1> QED BY <1>1, <1>4, <1>5 DEF WholeStream

(* PASS means that the parser got the sender's stream, each packet once    *)
(* and in order, up to its STREAM_END.                                     *)
THEOREM PassMeansStreamArrivedHolds == Spec => []PassMeansStreamArrived
<1>1. ASSUME ReceiverInv, overall_pass, ~user_interrupt
      PROVE  WholeStream(passed)
  <2> USE DEF ReceiverInv
  <2>1. /\ pc = "done" /\ stream_end_seen /\ dma_errors = 0 /\ Flawless
        /\ valid_packets > 0
    <3>1. /\ pc = "done" /\ stream_end_seen /\ dma_errors = 0
          /\ missing_sequences = 0 /\ duplicate_sequences = 0 /\ out_of_order_sequences = 0
          /\ received_packets > 0 /\ valid_packets = received_packets
      BY <1>1 DEF overall_pass
    <3>2. invalid_packets = 0
      BY <1>1, <3>1 DEF ConsecutiveInv, TypeOK, SequenceTypes, BatchTypes
    <3> QED BY <3>1, <3>2 DEF Flawless
  <2>2. for_parser = passed
    <3>1. passed \o <<>> = passed
      BY <1>1, ConcatEmptySeq DEF TypeOK, DmaTypes
    <3> QED BY <1>1, <2>1, <3>1 DEF FlowInv, BatchesInOrder
  <2>3. /\ Len(passed) = valid_packets
        /\ \A i \in 1 .. Len(passed) : passed[i].packet = SenderPacket(first_sequence + i - 1)
    BY <1>1, <2>1, <2>2 DEF ConsecutiveInv, TypeOK, SequenceTypes
  <2>4. passed \in Seq(Pending)
    BY <1>1 DEF TypeOK, DmaTypes
  <2> QED BY <1>1, <2>1, <2>3, <2>4, WholeFromCounts
<1>2. ReceiverInv => PassMeansStreamArrived
  BY <1>1 DEF PassMeansStreamArrived
<1> QED BY <1>2, ReceiverInvariant, PTL

(* The index of a mismatch example is at most as far off as datagrams of   *)
(* the wrong size have come.                                               *)
THEOREM ExamplesNameTheirPacketsHolds == Spec => []ExamplesNameTheirPackets
<1>1. Init => IndexInv
  BY EmptySeq DEF Init, IndexInv
<1>2. ReceiverInv /\ IndexInv /\ [Next]_vars => IndexInv'
  BY IndexStep DEF ReceiverInv
<1>3. ReceiverInv /\ IndexInv => ExamplesNameTheirPackets
  <2> SUFFICES ASSUME ReceiverInv, IndexInv PROVE ExamplesNameTheirPackets
    OBVIOUS
  <2>1. DOMAIN mismatch_examples = 1 .. Len(mismatch_examples)
    BY LenProperties DEF ReceiverInv, TypeOK, DmaTypes
  <2> QED BY <2>1 DEF IndexInv, Lags, ExamplesNameTheirPackets
<1> QED BY <1>1, <1>2, <1>3, ReceiverInvariant, PTL DEF Spec
-------------------------------------------------------------------------------
(***************************************************************************)
(* The run that Ctrl-C ended.  Everything is said by places in for_parser: *)
(* the batch is its tail, Sent packets come before it.                     *)
(***************************************************************************)
Sent == Len(for_parser) - Len(pending_packets)

PendingIsTail ==
  /\ Len(pending_packets) <= Len(for_parser)
  /\ \A i \in 1 .. Len(pending_packets) : pending_packets[i] = for_parser[Sent + i]

BatchFits ==
  /\ Len(pending_packets) <= BATCH_PACKETS
  /\ pc \in {"receive", "handle", "append"} => Len(pending_packets) < BATCH_PACKETS

(* The first n packets for the parser went through it; then those from     *)
(* first on, once more.                                                    *)
PassedPrefix(n) == \A i \in 1 .. n : passed[i] = for_parser[i]
PassedAgain(first, n) ==
  /\ n \in first .. Len(for_parser)
  /\ Len(passed) = n + (Len(for_parser) - first)
  /\ PassedPrefix(n)
  /\ \A i \in 1 .. Len(for_parser) - first : passed[n + i] = for_parser[first + i]

Consecutive ==
  \A i \in 1 .. Len(for_parser) : for_parser[i].packet = SenderPacket(first_sequence + i - 1)

AllCounted == Flawless => Len(for_parser) = valid_packets

(* What dma_packets has counted before the handler's batch and after it:   *)
(* a batch interrupted behind its tally is counted twice.                  *)
CountedBefore == dma_packets = Sent \/ (dma_packets = Len(for_parser) /\ AllCounted)
CountedAfter == dma_packets = Len(for_parser) \/ (dma_packets > Len(for_parser) /\ AllCounted)

(* The handler of KeyboardInterrupt, before its transfer and after it.     *)
HandlerInv ==
  /\ pc = "interrupted" /\ phase = "transfer" =>
       /\ Len(passed) \in Sent .. Len(for_parser)
       /\ PassedPrefix(Len(passed))
       /\ CountedBefore
  /\ pc = "interrupted" /\ phase # "transfer" =>
       /\ \E n \in 0 .. Len(for_parser) : PassedAgain(Sent, n)
       /\ IF phase = "tally" THEN CountedBefore ELSE CountedAfter
       /\ pending_packets # <<>>
  /\ pc = "done" =>
       /\ \E first, n \in 0 .. Len(for_parser) :
            Len(for_parser) - first <= BATCH_PACKETS /\ PassedAgain(first, n)
       /\ CountedAfter

Interrupted == pc \in {"interrupted", "done", "raised"}

(* The counters stand still from the interrupt on.                         *)
StoppedCounts ==
  /\ valid_packets + invalid_packets <= received_packets
  /\ Flawless => Len(for_parser) <= valid_packets /\ Consecutive

RepeatInv ==
  /\ PendingIsTail
  /\ BatchFits
  /\ user_interrupt => Interrupted /\ StoppedCounts
  /\ dma_errors = 0 =>
       IF user_interrupt THEN HandlerInv
       ELSE dma_packets = IF phase = "clear" THEN Len(for_parser) ELSE Sent

(* Elements of a sequence put together from two.                           *)
LEMMA ConcatElements ==
  ASSUME NEW S, NEW s \in Seq(S), NEW t \in Seq(S)
  PROVE  /\ s \o t \in Seq(S)
         /\ Len(s \o t) = Len(s) + Len(t)
         /\ \A i \in 1 .. Len(s) : (s \o t)[i] = s[i]
         /\ \A i \in 1 .. Len(t) : (s \o t)[Len(s) + i] = t[i]
<1>1. Len(s) \in Nat /\ Len(t) \in Nat
  BY LenProperties
<1> DEFINE u == s \o t
<1>2. /\ u \in Seq(S) /\ Len(u) = Len(s) + Len(t)
      /\ \A i \in 1 .. Len(s) + Len(t) : u[i] = IF i <= Len(s) THEN s[i] ELSE t[i - Len(s)]
  BY ConcatProperties
<1> HIDE DEF u
<1>3. \A i \in 1 .. Len(s) : u[i] = s[i]
  BY <1>1, <1>2
<1>4. ASSUME NEW i \in 1 .. Len(t) PROVE u[Len(s) + i] = t[i]
  <2>1. Len(s) + i \in 1 .. Len(s) + Len(t) /\ ~(Len(s) + i <= Len(s))
        /\ (Len(s) + i) - Len(s) = i
    BY <1>1
  <2> QED BY <1>2, <2>1
<1> QED BY <1>2, <1>3, <1>4 DEF u

(* A beginning of a sequence.                                              *)
LEMMA PrefixElements ==
  ASSUME NEW S, NEW t \in Seq(S), NEW n \in 0 .. Len(t)
  PROVE  /\ SubSeq(t, 1, n) \in Seq(S) /\ Len(SubSeq(t, 1, n)) = n
         /\ \A i \in 1 .. n : SubSeq(t, 1, n)[i] = t[i]
<1>1. Len(t) \in Nat
  BY LenProperties
<1>2. \A i \in 1 .. n : t[i] \in S
  BY <1>1, ElementOfSeq
<1> DEFINE u == SubSeq(t, 1, n)
<1>3. /\ u \in Seq(S) /\ Len(u) = IF 1 <= n THEN n - 1 + 1 ELSE 0
      /\ \A i \in 1 .. n - 1 + 1 : u[i] = t[1 + i - 1]
  BY <1>1, <1>2, SubSeqProperties
<1> HIDE DEF u
<1>4. u \in Seq(S) /\ Len(u) = n /\ \A i \in 1 .. n : u[i] = t[i]
  BY <1>1, <1>3
<1> QED BY <1>4 DEF u

LEMMA BatchChanges ==
  ASSUME [Next]_vars
  PROVE  AppendPacket \/ ClearBatch \/ UNCHANGED <<pending_packets, for_parser>>
<1>1. CASE Receive \/ Timeout \/ ReceiveFails \/ HandleWrongSize \/ CountPacket
  BY <1>1 DEF Receive, Timeout, ReceiveFails, HandleWrongSize, CountPacket, TakeDatagram, batchVars
<1>2. CASE NothingPending \/ TransferReturns \/ TransferRaises \/ TallyBatch
  BY <1>2 DEF NothingPending, TransferReturns, TransferRaises, TallyBatch, batchVars
<1>3. CASE Interrupt \/ InterruptAgain \/ UNCHANGED vars
  BY <1>3 DEF Interrupt, InterruptAgain, vars, batchVars
<1> QED BY <1>1, <1>2, <1>3 DEF Next, Handling, Finished

(* A packet is appended to the batch and to what is for the parser.        *)
LEMMA AppendElements ==
  ASSUME TypeOK, FlowInv, AppendPacket
  PROVE  \E payload \in Pending :
           /\ pending_packets' = Append(pending_packets, payload)
           /\ for_parser' = Append(for_parser, payload)
<1> DEFINE payload == [packet |-> Head(slots), at |-> received_packets - 1]
<1>1. payload \in Pending
  BY TailTypes DEF AppendPacket, FlowInv, TypeOK, BatchTypes, Pending
<1>2. /\ pending_packets' = Append(pending_packets, payload)
      /\ for_parser' = Append(for_parser, payload)
  BY DEF AppendPacket
<1> HIDE DEF payload
<1> QED BY <1>1, <1>2

LEMMA TailStep ==
  ASSUME TypeOK, FlowInv, PendingIsTail, [Next]_vars
  PROVE  /\ PendingIsTail'
         /\ AppendPacket => Sent' = Sent
<1> USE DEF PendingIsTail, Sent
<1>1. /\ pending_packets \in Seq(Pending) /\ for_parser \in Seq(Pending)
      /\ Len(pending_packets) \in Nat /\ Len(for_parser) \in Nat
  BY LenProperties DEF TypeOK, BatchTypes
<1>2. CASE AppendPacket
  <2>1. PICK payload \in Pending :
          /\ pending_packets' = Append(pending_packets, payload)
          /\ for_parser' = Append(for_parser, payload)
    BY <1>2, AppendElements
  <2>2. /\ Len(pending_packets') = Len(pending_packets) + 1
        /\ Len(for_parser') = Len(for_parser) + 1
        /\ pending_packets'[Len(pending_packets) + 1] = payload
        /\ for_parser'[Len(for_parser) + 1] = payload
        /\ \A i \in 1 .. Len(pending_packets) : pending_packets'[i] = pending_packets[i]
        /\ \A i \in 1 .. Len(for_parser) : for_parser'[i] = for_parser[i]
    BY <1>1, <2>1, AppendProperties
  <2>3. Sent' = Sent /\ Sent \in Nat
    BY <1>1, <2>2
  <2>4. ASSUME NEW i \in 1 .. Len(pending_packets')
        PROVE  pending_packets'[i] = for_parser'[Sent + i]
    <3>1. CASE i \in 1 .. Len(pending_packets)
      <4>1. Sent + i \in 1 .. Len(for_parser)
        BY <1>1, <3>1
      <4> QED BY <2>2, <3>1, <4>1
    <3>2. CASE i = Len(pending_packets) + 1
      <4>1. Sent + i = Len(for_parser) + 1
        BY <1>1, <3>2
      <4> QED BY <2>2, <3>2, <4>1
    <3> QED BY <1>1, <2>2, <3>1, <3>2
  <2>5. Len(pending_packets') <= Len(for_parser')
    BY <1>1, <2>2
  <2> HIDE DEF Sent
  <2> QED BY <2>3, <2>4, <2>5
<1>3. CASE ClearBatch
  <2>1. pending_packets' = <<>> /\ for_parser' = for_parser /\ Len(<<>>) = 0
    BY <1>3, EmptySeq DEF ClearBatch, Cleared
  <2>2. ~AppendPacket
    BY <1>3 DEF AppendPacket, ClearBatch, Flushing
  <2> QED BY <1>1, <2>1, <2>2
<1>4. CASE UNCHANGED <<pending_packets, for_parser>>
  BY <1>4
<1> HIDE DEF PendingIsTail, Sent
<1> QED BY <1>2, <1>3, <1>4, BatchChanges

LEMMA FitsStep ==
  ASSUME TypeOK, FlowInv, BatchFits, [Next]_vars PROVE BatchFits'
<1> USE DEF BatchFits
<1>1. Len(pending_packets) \in Nat /\ BATCH_PACKETS \in Nat \ {0}
  BY LenProperties, ReceiverAssumption DEF TypeOK, BatchTypes
<1>2. CASE AppendPacket
  <2>1. Len(pending_packets') = Len(pending_packets) + 1
    BY <1>2, AppendElements, AppendProperties DEF TypeOK, BatchTypes
  <2>2. pc = "append" /\ (Len(pending_packets') = BATCH_PACKETS => pc' = "flush")
    BY <1>2 DEF AppendPacket
  <2> QED BY <1>1, <2>1, <2>2
<1>3. CASE ClearBatch
  <2>1. pending_packets' = <<>> /\ Len(<<>>) = 0
    BY <1>3, EmptySeq DEF ClearBatch, Cleared
  <2> QED BY <1>1, <2>1
<1>4. CASE /\ UNCHANGED pending_packets
           /\ pc' \in {"receive", "handle", "append"} => pc \in {"receive", "handle", "append"}
  BY <1>4
<1>5. CASE Receive \/ Timeout \/ ReceiveFails \/ HandleWrongSize \/ CountPacket
  BY <1>4, <1>5 DEF Receive, Timeout, ReceiveFails, HandleWrongSize, CountPacket, TakeDatagram,
                    batchVars
<1>6. CASE NothingPending \/ TransferReturns \/ TransferRaises \/ TallyBatch
  BY <1>4, <1>6 DEF NothingPending, TransferReturns, TransferRaises, TallyBatch, AfterFailure,
                    batchVars
<1>7. CASE Interrupt \/ InterruptAgain \/ UNCHANGED vars
  BY <1>4, <1>7 DEF Interrupt, InterruptAgain, vars, batchVars
<1> QED BY <1>2, <1>3, <1>5, <1>6, <1>7 DEF Next, Handling, Finished

(* Only an interrupt sets user_interrupt.                                  *)
LEMMA InterruptSets ==
  ASSUME [Next]_vars PROVE Interrupt \/ user_interrupt' = user_interrupt
<1>1. CASE Receive \/ Timeout \/ ReceiveFails \/ HandleWrongSize \/ CountPacket \/ AppendPacket
  BY <1>1 DEF Receive, Timeout, ReceiveFails, HandleWrongSize, CountPacket, TakeDatagram,
              AppendPacket
<1>2. CASE NothingPending \/ TransferReturns \/ TransferRaises \/ TallyBatch \/ ClearBatch
  BY <1>2 DEF NothingPending, TransferReturns, TransferRaises, TallyBatch, ClearBatch
<1>3. CASE InterruptAgain \/ UNCHANGED vars
  BY <1>3 DEF InterruptAgain, vars
<1> QED BY <1>1, <1>2, <1>3 DEF Next, Handling, Finished

(* What the program still does from then on.                               *)
LEMMA InterruptedMoves ==
  ASSUME [Next]_vars, Interrupted
  PROVE  \/ pc = "interrupted" /\ (\/ NothingPending \/ TransferReturns \/ TransferRaises
                                   \/ TallyBatch \/ ClearBatch \/ InterruptAgain)
         \/ UNCHANGED vars
<1> USE DEF Interrupted
<1>1. ~(Receive \/ Timeout \/ ReceiveFails)
  BY DEF Receive, Timeout, ReceiveFails
<1>2. ~(HandleWrongSize \/ CountPacket \/ AppendPacket \/ Interrupt)
  BY DEF HandleWrongSize, CountPacket, TakeDatagram, AppendPacket, Interrupt
<1>3. NothingPending \/ TransferReturns \/ TransferRaises \/ TallyBatch \/ ClearBatch
        \/ InterruptAgain => pc = "interrupted"
  BY DEF NothingPending, TransferReturns, TransferRaises, TallyBatch, ClearBatch, InterruptAgain,
         Flushing
<1> QED BY <1>1, <1>2, <1>3 DEF Next, Handling, Finished

(* The counters and the packets for the parser change no more.             *)
stoppedVars == <<valid_packets, invalid_packets, received_packets, missing_sequences,
                 duplicate_sequences, out_of_order_sequences, first_sequence, for_parser>>

LEMMA StoppedStep ==
  ASSUME TypeOK, ConsecutiveInv, [Next]_vars,
         user_interrupt => Interrupted /\ StoppedCounts
  PROVE  user_interrupt' => Interrupted' /\ StoppedCounts'
<1> SUFFICES ASSUME user_interrupt' PROVE Interrupted' /\ StoppedCounts'
  OBVIOUS
<1>1. CASE user_interrupt
  <2>1. Interrupted /\ StoppedCounts
    BY <1>1
  <2>2. Interrupted' /\ UNCHANGED stoppedVars
    <3>1. CASE NothingPending \/ TransferReturns \/ TransferRaises
      BY <2>1, <3>1 DEF NothingPending, TransferReturns, TransferRaises, AfterFailure, Interrupted,
                        stoppedVars, countVars, seqVars, batchVars
    <3>2. CASE pc = "interrupted" /\ (TallyBatch \/ ClearBatch \/ InterruptAgain)
      BY <2>1, <3>2 DEF TallyBatch, ClearBatch, InterruptAgain, Interrupted,
                        stoppedVars, countVars, seqVars, batchVars
    <3>3. CASE UNCHANGED vars
      BY <2>1, <3>3 DEF vars, Interrupted, stoppedVars, countVars, seqVars, batchVars
    <3> QED BY <2>1, <3>1, <3>2, <3>3, InterruptedMoves
  <2> QED BY <2>1, <2>2 DEF StoppedCounts, Consecutive, Flawless, stoppedVars
<1>2. CASE ~user_interrupt
  <2>1. Interrupt
    BY <1>2, InterruptSets
  <2>2. /\ Interrupted' /\ received_packets' >= received_packets
        /\ UNCHANGED <<valid_packets, invalid_packets, missing_sequences, duplicate_sequences,
                       out_of_order_sequences, first_sequence, for_parser>>
    BY <2>1 DEF Interrupt, Interrupted, seqVars, batchVars, TypeOK, BatchTypes
  <2>3. received_packets' \in Nat
    BY <2>1 DEF Interrupt, TypeOK, BatchTypes
  <2>4. /\ valid_packets + invalid_packets = received_packets
        /\ Flawless => Len(for_parser) <= valid_packets /\ Consecutive
    BY <1>2, LenProperties DEF ConsecutiveInv, Consecutive, TypeOK, SequenceTypes, BatchTypes
  <2>5. (valid_packets + invalid_packets <= received_packets)'
    BY <2>2, <2>3, <2>4 DEF TypeOK, BatchTypes
  <2>6. (Flawless => Len(for_parser) <= valid_packets /\ Consecutive)'
    BY <2>2, <2>4 DEF Flawless, Consecutive
  <2> QED BY <2>2, <2>5, <2>6 DEF StoppedCounts
<1> QED BY <1>1, <1>2

(* dma_packets counts the packets before the batch, then the batch.        *)
DmaCounted == dma_packets = IF phase = "clear" THEN Len(for_parser) ELSE Sent

LEMMA DmaCountStep ==
  ASSUME TypeOK, FlowInv, PendingIsTail, [Next]_vars,
         dma_errors = 0 => DmaCounted, dma_errors' = 0, ~Interrupt
  PROVE  DmaCounted'
<1>1. /\ dma_packets \in Nat /\ dma_errors \in Nat
      /\ Len(pending_packets) \in Nat /\ Len(for_parser) \in Nat
  BY LenProperties DEF TypeOK, DmaTypes, BatchTypes
<1> USE DEF DmaCounted
<1>2. CASE UNCHANGED <<dma_packets, dma_errors, phase, pending_packets, for_parser>>
  BY <1>2 DEF Sent
<1>3. CASE Receive \/ Timeout \/ ReceiveFails \/ HandleWrongSize \/ CountPacket
  BY <1>2, <1>3 DEF Receive, Timeout, ReceiveFails, HandleWrongSize, CountPacket, TakeDatagram,
                    batchVars, dmaVars, tallyVars
<1>4. CASE AppendPacket
  <2>1. Sent' = Sent
    BY <1>4, TailStep
  <2>2. phase = "transfer" /\ UNCHANGED <<phase, dma_packets, dma_errors>>
    BY <1>4 DEF AppendPacket, FlowInv, Flushing, dmaVars, tallyVars
  <2> QED BY <2>1, <2>2
<1>5. CASE NothingPending
  BY <1>2, <1>5 DEF NothingPending, batchVars, dmaVars, tallyVars
<1>6. CASE TransferReturns
  <2>1. /\ phase = "transfer" /\ phase' = "tally"
        /\ UNCHANGED <<dma_packets, dma_errors, pending_packets, for_parser>>
    BY <1>6 DEF TransferReturns, batchVars, tallyVars
  <2> QED BY <2>1 DEF Sent
<1>7. CASE TransferRaises
  BY <1>1, <1>7 DEF TransferRaises
<1>8. CASE TallyBatch
  <2>1. /\ phase = "tally" /\ phase' = "clear" /\ dma_packets' = dma_packets + Len(pending_packets)
        /\ UNCHANGED <<dma_errors, for_parser>>
    BY <1>8 DEF TallyBatch, batchVars
  <2>2. dma_packets = Len(for_parser) - Len(pending_packets)
    BY <2>1 DEF Sent
  <2> QED BY <1>1, <2>1, <2>2
<1>9. CASE ClearBatch
  <2>1. /\ phase = "clear" /\ phase' = "transfer" /\ pending_packets' = <<>>
        /\ UNCHANGED <<dma_packets, dma_errors, for_parser>>
    BY <1>9 DEF ClearBatch, Cleared, dmaVars, tallyVars
  <2>2. Sent' = Len(for_parser)
    BY <1>1, <2>1, EmptySeq DEF Sent
  <2> QED BY <2>1, <2>2
<1>10. CASE InterruptAgain \/ UNCHANGED vars
  BY <1>2, <1>10 DEF InterruptAgain, vars, batchVars, dmaVars, tallyVars
<1> HIDE DEF DmaCounted
<1> QED BY <1>3, <1>4, <1>5, <1>6, <1>7, <1>8, <1>9, <1>10 DEF Next, Handling, Finished

(* Ctrl-C: what is through the parser is a beginning of what is for it.    *)
LEMMA InterruptEntersHandler ==
  ASSUME ReceiverInv, PendingIsTail, DmaCounted, dma_errors = 0, ~user_interrupt, Interrupt
  PROVE  HandlerInv'
<1> USE DEF ReceiverInv
<1>1. /\ passed \in Seq(Pending) /\ pending_packets \in Seq(Pending) /\ for_parser \in Seq(Pending)
      /\ Len(passed) \in Nat /\ Len(pending_packets) \in Nat /\ Len(for_parser) \in Nat
  BY LenProperties DEF TypeOK, DmaTypes, BatchTypes
<1>2. /\ pc' = "interrupted" /\ phase' = "transfer" /\ passed' \in PassedWhenInterrupted
      /\ pc # "done"
      /\ UNCHANGED <<for_parser, pending_packets, dma_packets, valid_packets, invalid_packets,
                     missing_sequences, duplicate_sequences, out_of_order_sequences>>
  BY DEF Interrupt, seqVars, batchVars, tallyVars
<1>3. ASSUME NEW t \in Seq(Pending)
      PROVE  /\ Len(passed \o t) = Len(passed) + Len(t)
             /\ \A i \in 1 .. Len(passed) : (passed \o t)[i] = passed[i]
             /\ \A i \in 1 .. Len(t) : (passed \o t)[Len(passed) + i] = t[i]
  BY <1>1, ConcatElements
<1>4. Len(passed') \in Sent .. Len(for_parser) /\ \A i \in 1 .. Len(passed') : passed'[i] = for_parser[i]
  <2>1. CASE phase # "transfer"
    <3>1. passed' = passed /\ for_parser = passed
      BY <1>2, <2>1 DEF PassedWhenInterrupted, BatchesInOrder
    <3>2. Len(for_parser) \in Sent .. Len(for_parser)
      BY <1>1 DEF Sent
    <3> QED BY <3>1, <3>2
  <2>2. CASE phase = "transfer"
    <3>1. for_parser = passed \o pending_packets
      BY <2>2 DEF BatchesInOrder
    <3>2. /\ Len(for_parser) = Len(passed) + Len(pending_packets) /\ Sent = Len(passed)
          /\ \A i \in 1 .. Len(passed) : for_parser[i] = passed[i]
          /\ \A i \in 1 .. Len(pending_packets) : for_parser[Len(passed) + i] = pending_packets[i]
      BY <1>1, <3>1, ConcatElements DEF Sent
    <3>3. CASE passed' = passed
      BY <1>1, <3>2, <3>3
    <3>4. CASE \E n \in 0 .. Len(pending_packets) : passed' = passed \o SubSeq(pending_packets, 1, n)
      <4>1. PICK n \in 0 .. Len(pending_packets) : passed' = passed \o SubSeq(pending_packets, 1, n)
        BY <3>4
      <4> DEFINE some == SubSeq(pending_packets, 1, n)
      <4>2. some \in Seq(Pending) /\ Len(some) = n /\ \A i \in 1 .. n : some[i] = pending_packets[i]
        BY <1>1, PrefixElements
      <4>3. passed' = passed \o some
        BY <4>1
      <4> HIDE DEF some
      <4>4. /\ Len(passed') = Len(passed) + n
            /\ \A i \in 1 .. Len(passed) : passed'[i] = passed[i]
            /\ \A i \in 1 .. n : passed'[Len(passed) + i] = some[i]
        <5>1. /\ Len(passed \o some) = Len(passed) + Len(some)
              /\ \A i \in 1 .. Len(passed) : (passed \o some)[i] = passed[i]
              /\ \A i \in 1 .. Len(some) : (passed \o some)[Len(passed) + i] = some[i]
          BY <1>3, <4>2
        <5> QED BY <4>2, <4>3, <5>1
      <4>5. ASSUME NEW i \in 1 .. Len(passed) + n PROVE passed'[i] = for_parser[i]
        <5>1. CASE i \in 1 .. Len(passed)
          BY <3>2, <4>4, <5>1
        <5>2. CASE i \notin 1 .. Len(passed)
          <6> DEFINE j == i - Len(passed)
          <6>1. j \in 1 .. n /\ j \in 1 .. Len(pending_packets) /\ i = Len(passed) + j
            BY <1>1, <5>2
          <6> HIDE DEF j
          <6> QED BY <3>2, <4>2, <4>4, <6>1
        <5> QED BY <5>1, <5>2
      <4> QED BY <1>1, <3>2, <4>4, <4>5
    <3> QED BY <1>2, <3>3, <3>4 DEF PassedWhenInterrupted
  <2> QED BY <2>1, <2>2
<1>5. CountedBefore'
  <2>1. CASE phase # "clear"
    BY <1>2, <2>1 DEF DmaCounted, CountedBefore, Sent
  <2>2. CASE phase = "clear"
    <3>1. pc # "append"
      BY <2>2 DEF FlowInv, Flushing
    <3>2. AllCounted
      BY <1>1, <3>1 DEF ConsecutiveInv, AllCounted, TypeOK, SequenceTypes
    <3>3. AllCounted' /\ dma_packets' = Len(for_parser')
      BY <1>2, <2>2, <3>2 DEF DmaCounted, AllCounted, Flawless
    <3> QED BY <3>3 DEF CountedBefore
  <2> QED BY <2>1, <2>2
<1>6. Sent' = Sent
  BY <1>2 DEF Sent
<1> QED BY <1>2, <1>4, <1>5, <1>6 DEF HandlerInv, PassedPrefix

(* The handler's own steps.                                                *)
LEMMA HandlerMoves ==
  ASSUME TypeOK, FlowInv, PendingIsTail, BatchFits, Interrupted, HandlerInv, dma_errors' = 0,
         [Next]_vars
  PROVE  HandlerInv'
<1>1. /\ passed \in Seq(Pending) /\ pending_packets \in Seq(Pending) /\ for_parser \in Seq(Pending)
      /\ Len(passed) \in Nat /\ Len(pending_packets) \in Nat /\ Len(for_parser) \in Nat
      /\ dma_packets \in Nat /\ dma_errors \in Nat /\ BATCH_PACKETS \in Nat
  BY LenProperties, ReceiverAssumption DEF TypeOK, DmaTypes, BatchTypes
<1>2. /\ Len(pending_packets) <= Len(for_parser) /\ Len(pending_packets) <= BATCH_PACKETS
      /\ Sent = Len(for_parser) - Len(pending_packets) /\ Sent \in 0 .. Len(for_parser)
  BY <1>1 DEF PendingIsTail, BatchFits, Sent
<1>3. CASE pc = "interrupted" /\ NothingPending
  <2>1. /\ phase = "transfer" /\ pending_packets = <<>> /\ pc' = "done"
        /\ UNCHANGED <<passed, for_parser, dma_packets, valid_packets, invalid_packets,
                       missing_sequences, duplicate_sequences, out_of_order_sequences>>
    BY <1>3 DEF NothingPending, countVars, seqVars, batchVars, dmaVars, tallyVars
  <2>2. Len(pending_packets) = 0
    BY <2>1, EmptySeq
  <2>3. Sent = Len(for_parser)
    BY <1>1, <1>2, <2>2
  <2>4. /\ Len(passed) = Len(for_parser) /\ PassedPrefix(Len(for_parser)) /\ CountedBefore
    BY <1>1, <1>3, <2>1, <2>3 DEF HandlerInv
  <2>5. PassedAgain(Len(for_parser), Len(for_parser))
    BY <1>1, <2>4 DEF PassedAgain
  <2>6. PassedAgain(Len(for_parser), Len(for_parser))' /\ CountedAfter'
    BY <2>1, <2>3, <2>4, <2>5
       DEF PassedAgain, PassedPrefix, CountedBefore, CountedAfter, AllCounted, Flawless
  <2>7. /\ Len(for_parser') \in 0 .. Len(for_parser')
        /\ Len(for_parser') - Len(for_parser') <= BATCH_PACKETS
    BY <1>1, <2>1
  <2>8. \E first, n \in 0 .. Len(for_parser') :
          Len(for_parser') - first <= BATCH_PACKETS /\ PassedAgain(first, n)'
    BY <2>6, <2>7
  <2> QED BY <2>1, <2>6, <2>8 DEF HandlerInv
<1>4. CASE pc = "interrupted" /\ TransferReturns
  <2>1. /\ phase = "transfer" /\ phase' = "tally" /\ pc' = pc /\ pending_packets # <<>>
        /\ passed' = passed \o pending_packets
        /\ UNCHANGED <<for_parser, pending_packets, dma_packets, valid_packets, invalid_packets,
                       missing_sequences, duplicate_sequences, out_of_order_sequences>>
    BY <1>4 DEF TransferReturns, countVars, seqVars, batchVars, tallyVars
  <2>2. Len(passed) \in Sent .. Len(for_parser) /\ PassedPrefix(Len(passed)) /\ CountedBefore
    BY <1>4, <2>1 DEF HandlerInv
  <2>3. /\ Len(passed') = Len(passed) + Len(pending_packets)
        /\ \A i \in 1 .. Len(passed) : passed'[i] = passed[i]
        /\ \A i \in 1 .. Len(pending_packets) : passed'[Len(passed) + i] = pending_packets[i]
    BY <1>1, <2>1, ConcatElements
  <2>4. Len(for_parser) - Sent = Len(pending_packets)
    BY <1>1, <1>2
  <2>5. \A i \in 1 .. Len(for_parser) - Sent : passed'[Len(passed) + i] = for_parser[Sent + i]
    BY <2>3, <2>4 DEF PendingIsTail
  <2>6. \A i \in 1 .. Len(passed) : passed'[i] = for_parser[i]
    BY <2>2, <2>3 DEF PassedPrefix
  <2>7. Sent' = Sent /\ Len(passed) \in 0 .. Len(for_parser)
    BY <1>1, <1>2, <2>1, <2>2 DEF Sent
  <2>8. \E n \in 0 .. Len(for_parser') : PassedAgain(Sent, n)'
    <3>1. /\ Len(passed) \in Sent' .. Len(for_parser')
          /\ Len(passed') = Len(passed) + (Len(for_parser') - Sent')
          /\ \A i \in 1 .. Len(passed) : passed'[i] = for_parser'[i]
          /\ \A i \in 1 .. Len(for_parser') - Sent' :
               passed'[Len(passed) + i] = for_parser'[Sent' + i]
      BY <2>1, <2>2, <2>3, <2>4, <2>5, <2>6, <2>7
    <3> QED BY <2>1, <2>7, <3>1 DEF PassedAgain, PassedPrefix
  <2>9. CountedBefore'
    BY <2>1, <2>2, <2>7 DEF CountedBefore, AllCounted, Flawless
  <2> QED BY <1>4, <2>1, <2>8, <2>9 DEF HandlerInv
<1>5. CASE pc = "interrupted" /\ TransferRaises
  BY <1>1, <1>5 DEF TransferRaises
<1>6. CASE pc = "interrupted" /\ TallyBatch
  <2>1. /\ phase = "tally" /\ phase' = "clear" /\ pc' = pc
        /\ dma_packets' = dma_packets + Len(pending_packets)
        /\ UNCHANGED <<passed, for_parser, pending_packets, valid_packets, invalid_packets,
                       missing_sequences, duplicate_sequences, out_of_order_sequences>>
    BY <1>6 DEF TallyBatch, countVars, seqVars, batchVars
  <2>2. /\ \E n \in 0 .. Len(for_parser) : PassedAgain(Sent, n)
        /\ CountedBefore /\ pending_packets # <<>>
    BY <1>6, <2>1 DEF HandlerInv
  <2>3. (\E n \in 0 .. Len(for_parser) : PassedAgain(Sent, n))'
    BY <2>1, <2>2 DEF PassedAgain, PassedPrefix, Sent
  <2>4. Len(pending_packets) > 0
    BY <1>1, <2>2, EmptySeq
  <2>5. CountedAfter'
    <3>1. AllCounted => AllCounted'
      BY <2>1 DEF AllCounted, Flawless
    <3>2. dma_packets = Sent => dma_packets' = Len(for_parser')
      BY <1>1, <1>2, <2>1
    <3>3. dma_packets = Len(for_parser) => dma_packets' > Len(for_parser')
      BY <1>1, <2>1, <2>4
    <3> QED BY <2>2, <3>1, <3>2, <3>3 DEF CountedBefore, CountedAfter
  <2> QED BY <1>6, <2>1, <2>2, <2>3, <2>5 DEF HandlerInv
<1>7. CASE pc = "interrupted" /\ ClearBatch
  <2>1. /\ phase = "clear" /\ pc' = "done"
        /\ UNCHANGED <<passed, for_parser, dma_packets, valid_packets, invalid_packets,
                       missing_sequences, duplicate_sequences, out_of_order_sequences>>
    BY <1>7 DEF ClearBatch, countVars, seqVars, dmaVars, tallyVars
  <2>2. (\E n \in 0 .. Len(for_parser) : PassedAgain(Sent, n)) /\ CountedAfter
    BY <1>7, <2>1 DEF HandlerInv
  <2>3. PICK n \in 0 .. Len(for_parser) : PassedAgain(Sent, n)
    BY <2>2
  <2>4. PICK first \in 0 .. Len(for_parser) :
          first = Sent /\ Len(for_parser) - first <= BATCH_PACKETS
    <3>1. Len(for_parser) - Sent <= BATCH_PACKETS
      BY <1>1, <1>2
    <3> QED BY <1>2, <3>1
  <2>5. PassedAgain(first, n)
    BY <2>3, <2>4
  <2>6. (\E f, m \in 0 .. Len(for_parser) :
           Len(for_parser) - f <= BATCH_PACKETS /\ PassedAgain(f, m))'
    <3>1. PassedAgain(first, n)'
      BY <2>1, <2>5 DEF PassedAgain, PassedPrefix
    <3> QED BY <2>1, <2>4, <3>1
  <2>7. CountedAfter'
    BY <2>1, <2>2 DEF CountedAfter, AllCounted, Flawless
  <2> QED BY <2>1, <2>6, <2>7 DEF HandlerInv
<1>8. CASE pc = "interrupted" /\ InterruptAgain
  BY <1>8 DEF InterruptAgain, HandlerInv
<1>9. CASE UNCHANGED vars
  BY <1>9 DEF vars, countVars, seqVars, batchVars, dmaVars, tallyVars, HandlerInv, PassedAgain,
              PassedPrefix, Sent, CountedBefore, CountedAfter, AllCounted, Flawless
<1> QED BY <1>3, <1>4, <1>5, <1>6, <1>7, <1>8, <1>9, InterruptedMoves

LEMMA RepeatInit == Init => RepeatInv
<1> SUFFICES ASSUME Init PROVE RepeatInv
  OBVIOUS
<1>1. /\ pending_packets = <<>> /\ for_parser = <<>> /\ dma_packets = 0 /\ ~user_interrupt
      /\ phase = "transfer"
  BY DEF Init
<1>2. Len(pending_packets) = 0 /\ Len(for_parser) = 0
  BY <1>1, EmptySeq
<1> QED BY <1>1, <1>2, ReceiverAssumption DEF RepeatInv, PendingIsTail, BatchFits, Sent

LEMMA RepeatStep == ReceiverInv /\ RepeatInv /\ [Next]_vars => RepeatInv'
<1> SUFFICES ASSUME ReceiverInv, RepeatInv, [Next]_vars PROVE RepeatInv'
  OBVIOUS
<1>1. TypeOK /\ FlowInv /\ ConsecutiveInv
  BY DEF ReceiverInv
<1>2. /\ PendingIsTail /\ BatchFits
      /\ user_interrupt => Interrupted /\ StoppedCounts
      /\ dma_errors = 0 => IF user_interrupt THEN HandlerInv ELSE DmaCounted
  BY DEF RepeatInv, DmaCounted
<1>3. PendingIsTail' /\ BatchFits'
  BY <1>1, <1>2, TailStep, FitsStep
<1>4. user_interrupt' => Interrupted' /\ StoppedCounts'
  BY <1>1, <1>2, StoppedStep
<1>5. dma_errors' = 0 => dma_errors = 0
  <2>1. TransferRaises \/ dma_errors' = dma_errors
    <3>1. CASE Receive \/ Timeout \/ ReceiveFails \/ HandleWrongSize \/ CountPacket \/ AppendPacket
      BY <3>1 DEF Receive, Timeout, ReceiveFails, HandleWrongSize, CountPacket, TakeDatagram,
                  AppendPacket, dmaVars, tallyVars
    <3>2. CASE NothingPending \/ TransferReturns \/ TallyBatch \/ ClearBatch
      BY <3>2 DEF NothingPending, TransferReturns, TallyBatch, ClearBatch, dmaVars, tallyVars
    <3>3. CASE Interrupt \/ InterruptAgain \/ UNCHANGED vars
      BY <3>3 DEF Interrupt, InterruptAgain, vars, dmaVars, tallyVars
    <3> QED BY <3>1, <3>2, <3>3 DEF Next, Handling, Finished
  <2> QED BY <1>1, <2>1 DEF TransferRaises, TypeOK, DmaTypes
<1>6. dma_errors' = 0 /\ user_interrupt' => HandlerInv'
  <2> SUFFICES ASSUME dma_errors' = 0, user_interrupt' PROVE HandlerInv'
    OBVIOUS
  <2>1. CASE user_interrupt
    BY <1>1, <1>2, <1>5, <2>1, HandlerMoves
  <2>2. CASE ~user_interrupt
    BY <1>2, <1>5, <2>2, InterruptSets, InterruptEntersHandler
  <2> QED BY <2>1, <2>2
<1>7. dma_errors' = 0 /\ ~user_interrupt' => DmaCounted'
  <2> SUFFICES ASSUME dma_errors' = 0, ~user_interrupt' PROVE DmaCounted'
    OBVIOUS
  <2>1. ~Interrupt
    BY DEF Interrupt
  <2>2. ~user_interrupt
    BY <2>1, InterruptSets
  <2> QED BY <1>1, <1>2, <1>5, <2>1, <2>2, DmaCountStep
<1> QED BY <1>3, <1>4, <1>6, <1>7 DEF RepeatInv, DmaCounted

(* The whole stream and, once more, the beginning of its last batch: what  *)
(* the parser got in a run that Ctrl-C ended and that passed.              *)
THEOREM InterruptedPassRepeatsLastBatchHolds == Spec => []InterruptedPassRepeatsLastBatch
<1>1. ASSUME ReceiverInv, RepeatInv, overall_pass, user_interrupt
      PROVE  /\ WholeStream(for_parser)
             /\ \E first \in 0 .. Len(for_parser) : \E last \in first .. Len(for_parser) :
                  /\ Len(for_parser) - first <= BATCH_PACKETS
                  /\ passed = SubSeq(for_parser, 1, last)
                                \o SubSeq(for_parser, first + 1, Len(for_parser))
  <2>1. /\ TypeOK /\ NumberInv /\ StoppedCounts /\ HandlerInv
        /\ pc = "done" /\ stream_end_seen
        /\ missing_sequences = 0 /\ duplicate_sequences = 0 /\ out_of_order_sequences = 0
        /\ received_packets > 0 /\ valid_packets = received_packets
        /\ dma_packets = received_packets
    BY <1>1 DEF ReceiverInv, RepeatInv, overall_pass
  <2>2. /\ passed \in Seq(Pending) /\ for_parser \in Seq(Pending)
        /\ Len(passed) \in Nat /\ Len(for_parser) \in Nat
        /\ valid_packets \in Nat /\ invalid_packets \in Nat /\ received_packets \in Nat
    BY <2>1, LenProperties DEF TypeOK, SequenceTypes, BatchTypes, DmaTypes
  <2>3. Flawless
    BY <2>1, <2>2 DEF StoppedCounts, Flawless
  <2>4. Len(for_parser) = valid_packets
    BY <2>1, <2>2, <2>3 DEF HandlerInv, CountedAfter, AllCounted
  <2>5. WholeStream(for_parser)
    BY <2>1, <2>2, <2>3, <2>4, WholeFromCounts DEF StoppedCounts, Consecutive
  <2>6. PICK first \in 0 .. Len(for_parser), n \in 0 .. Len(for_parser) :
          Len(for_parser) - first <= BATCH_PACKETS /\ PassedAgain(first, n)
    BY <2>1 DEF HandlerInv
  <2>7. /\ n \in first .. Len(for_parser)
        /\ Len(passed) = n + (Len(for_parser) - first)
        /\ \A i \in 1 .. n : passed[i] = for_parser[i]
        /\ \A i \in 1 .. Len(for_parser) - first : passed[n + i] = for_parser[first + i]
    BY <2>6 DEF PassedAgain, PassedPrefix
  <2> DEFINE once == SubSeq(for_parser, 1, n)
             again == SubSeq(for_parser, first + 1, Len(for_parser))
  <2>8. once \in Seq(Pending) /\ Len(once) = n /\ \A i \in 1 .. n : once[i] = for_parser[i]
    BY <2>2, PrefixElements
  <2>9. /\ again \in Seq(Pending) /\ Len(again) = Len(for_parser) - first
        /\ \A i \in 1 .. Len(for_parser) - first : again[i] = for_parser[first + i]
    <3>1. \A i \in first + 1 .. Len(for_parser) : for_parser[i] \in Pending
      BY <2>2, ElementOfSeq
    <3>2. /\ again \in Seq(Pending)
          /\ Len(again) = IF first + 1 <= Len(for_parser) THEN Len(for_parser) - (first + 1) + 1 ELSE 0
          /\ \A i \in 1 .. Len(for_parser) - (first + 1) + 1 : again[i] = for_parser[first + 1 + i - 1]
      BY <2>2, <3>1, SubSeqProperties
    <3> HIDE DEF again
    <3>3. Len(again) = Len(for_parser) - first
      BY <2>2, <3>2
    <3>4. ASSUME NEW i \in 1 .. Len(for_parser) - first PROVE again[i] = for_parser[first + i]
      <4>1. i \in 1 .. Len(for_parser) - (first + 1) + 1 /\ first + 1 + i - 1 = first + i
        BY <2>2
      <4> QED BY <3>2, <4>1
    <3> QED BY <3>2, <3>3, <3>4
  <2> HIDE DEF once, again
  <2>10. /\ once \o again \in Seq(Pending)
         /\ Len(once \o again) = Len(once) + Len(again)
         /\ \A i \in 1 .. Len(once) : (once \o again)[i] = once[i]
         /\ \A i \in 1 .. Len(again) : (once \o again)[Len(once) + i] = again[i]
    <3>1. ASSUME NEW s \in Seq(Pending), NEW t \in Seq(Pending)
          PROVE  /\ s \o t \in Seq(Pending)
                 /\ Len(s \o t) = Len(s) + Len(t)
                 /\ \A i \in 1 .. Len(s) : (s \o t)[i] = s[i]
                 /\ \A i \in 1 .. Len(t) : (s \o t)[Len(s) + i] = t[i]
      BY ConcatElements
    <3> QED BY <2>8, <2>9, <3>1
  <2>11. ASSUME NEW i \in 1 .. Len(passed) PROVE passed[i] = (once \o again)[i]
    <3>1. CASE i <= n
      <4>1. i \in 1 .. n
        BY <2>2, <3>1
      <4> QED BY <2>7, <2>8, <2>10, <4>1
    <3>2. CASE i > n
      <4> DEFINE j == i - n
      <4>1. j \in 1 .. Len(for_parser) - first /\ i = n + j
        BY <2>2, <2>7, <3>2
      <4> HIDE DEF j
      <4>2. (once \o again)[n + j] = again[j]
        BY <2>8, <2>9, <2>10, <4>1
      <4>3. passed[n + j] = for_parser[first + j] /\ again[j] = for_parser[first + j]
        BY <2>7, <2>9, <4>1
      <4> QED BY <4>1, <4>2, <4>3
    <3>3. i <= n \/ i > n
      <4>1. n \in Nat /\ Len(passed) \in Nat
        BY <2>2, <2>7
      <4> HIDE DEF PassedAgain
      <4> QED BY <4>1
    <3> QED BY <3>1, <3>2, <3>3
  <2>12. passed = once \o again
    BY <2>2, <2>7, <2>8, <2>9, <2>10, <2>11, SeqEqual
  <2> QED BY <2>5, <2>6, <2>7, <2>12 DEF once, again
<1>2. ReceiverInv /\ RepeatInv => InterruptedPassRepeatsLastBatch
  BY <1>1 DEF InterruptedPassRepeatsLastBatch
<1> QED BY <1>2, ReceiverInvariant, RepeatInit, RepeatStep, PTL DEF Spec
===============================================================================
