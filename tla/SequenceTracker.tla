---------------------------- MODULE SequenceTracker ----------------------------
(***************************************************************************)
(* phase5/rtl/hft_sequence_tracker.sv: judges the sequence number of every *)
(* accepted quote against the number expected next and forwards the quote, *)
(* resynchronises over a gap, or drops a duplicate or an older one.        *)
(* One step is one rising clock edge.                                      *)
(***************************************************************************)
EXTENDS Hft1

VARIABLES
  last_seq,              (* last number accepted                            *)
  expected_seq,          (* number expected next                            *)
  sequence_initialized,
  missing_count,
  duplicate_count,
  out_of_order_count,
  sequence_event,        (* which one-cycle error flag is up, if any        *)
  tracked                (* the forwarded quote, or None                    *)

trackerVars == <<last_seq, expected_seq, sequence_initialized, missing_count,
                 duplicate_count, out_of_order_count, sequence_event, tracked>>

SequenceEvents == {"none", "missing_packet", "duplicate_packet", "out_of_order_packet"}

TrackerInit ==
  /\ last_seq = 0
  /\ expected_seq = 0
  /\ sequence_initialized = FALSE
  /\ missing_count = 0
  /\ duplicate_count = 0
  /\ out_of_order_count = 0
  /\ sequence_event = "none"
  /\ tracked = None

sequenceCounts == <<missing_count, duplicate_count, out_of_order_count>>

(* Forward q and expect its successor; lost numbers were skipped.          *)
AcceptQuote(q, lost) ==
  /\ last_seq' = q.seq
  /\ expected_seq' = (q.seq + 1) % NumSeqNos
  /\ sequence_initialized' = TRUE
  /\ missing_count' = (missing_count + lost) % NumSeqNos
  /\ tracked' = q
  /\ UNCHANGED <<duplicate_count, out_of_order_count>>

RejectQuote ==
  /\ tracked' = None
  /\ UNCHANGED <<last_seq, expected_seq, sequence_initialized, missing_count>>

(* Mutated form: the rejection counters survive a START.                   *)
TrackerStartKeepsCounts ==
  /\ last_seq' = 0
  /\ expected_seq' = 0
  /\ sequence_initialized' = FALSE
  /\ missing_count' = 0
  /\ sequence_event' = "none"
  /\ tracked' = None
  /\ UNCHANGED <<duplicate_count, out_of_order_count>>

(* Mutated form: the baseline of the last stream survives a START.         *)
TrackerStartKeepsBaseline ==
  /\ missing_count' = 0
  /\ duplicate_count' = 0
  /\ out_of_order_count' = 0
  /\ sequence_event' = "none"
  /\ tracked' = None
  /\ UNCHANGED <<last_seq, expected_seq, sequence_initialized>>

TrackerStart ==
  /\ last_seq' = 0
  /\ expected_seq' = 0
  /\ sequence_initialized' = FALSE
  /\ missing_count' = 0
  /\ duplicate_count' = 0
  /\ out_of_order_count' = 0
  /\ sequence_event' = "none"
  /\ tracked' = None

TrackerEnd ==
  /\ sequence_initialized' = FALSE
  /\ sequence_event' = "none"
  /\ tracked' = None
  /\ UNCHANGED <<last_seq, expected_seq, sequenceCounts>>

FirstQuote(q) ==
  /\ ~sequence_initialized
  /\ sequence_event' = "none"
  /\ AcceptQuote(q, 0)

InOrder(q) ==
  /\ sequence_initialized
  /\ q.seq = expected_seq
  /\ sequence_event' = "none"
  /\ AcceptQuote(q, 0)

Duplicate(q) ==
  /\ sequence_initialized
  /\ q.seq # expected_seq
  /\ q.seq = last_seq
  /\ sequence_event' = "duplicate_packet"
  /\ duplicate_count' = (duplicate_count + 1) % NumSeqNos
  /\ RejectQuote
  /\ UNCHANGED out_of_order_count

(* Mutated form: every number but the expected one counts as a gap.        *)
GapEitherWay(q) ==
  /\ sequence_initialized
  /\ q.seq # last_seq
  /\ q.seq # expected_seq
  /\ sequence_event' = "missing_packet"
  /\ AcceptQuote(q, q.seq - expected_seq)

(* Mutated form: counts the number that arrived as missing too.            *)
GapFromLast(q) ==
  /\ sequence_initialized
  /\ q.seq # last_seq
  /\ q.seq > expected_seq
  /\ sequence_event' = "missing_packet"
  /\ AcceptQuote(q, q.seq - last_seq)

Gap(q) ==
  /\ sequence_initialized
  /\ q.seq # last_seq
  /\ q.seq > expected_seq
  /\ sequence_event' = "missing_packet"
  /\ AcceptQuote(q, q.seq - expected_seq)

(* Mutated form: drops whatever is not the expected number.                *)
OutOfOrderUnlessExpected(q) ==
  /\ sequence_initialized
  /\ q.seq # last_seq
  /\ q.seq # expected_seq
  /\ sequence_event' = "out_of_order_packet"
  /\ out_of_order_count' = (out_of_order_count + 1) % NumSeqNos
  /\ RejectQuote
  /\ UNCHANGED duplicate_count

OutOfOrder(q) ==
  /\ sequence_initialized
  /\ q.seq # last_seq
  /\ q.seq < expected_seq
  /\ sequence_event' = "out_of_order_packet"
  /\ out_of_order_count' = (out_of_order_count + 1) % NumSeqNos
  /\ RejectQuote
  /\ UNCHANGED duplicate_count

JudgeQuote(q) == FirstQuote(q) \/ InOrder(q) \/ Duplicate(q) \/ Gap(q) \/ OutOfOrder(q)

TrackerIdle ==
  /\ sequence_event' = "none"
  /\ RejectQuote
  /\ UNCHANGED <<duplicate_count, out_of_order_count>>

(* The inputs are the two stream pulses and the filter's quote port.       *)
TrackerTick(start_pulse, end_pulse, q) ==
  \/ start_pulse /\ TrackerStart
  \/ ~start_pulse /\ end_pulse /\ TrackerEnd
  \/ ~start_pulse /\ ~end_pulse /\ q # None /\ JudgeQuote(q)
  \/ ~start_pulse /\ ~end_pulse /\ q = None /\ TrackerIdle

(* Alone, the tracker runs in any environment.                             *)
TrackerNext ==
  \E start_pulse, end_pulse \in BOOLEAN, q \in Quote \cup {None} :
    TrackerTick(start_pulse, end_pulse, q)

TrackerSpec == TrackerInit /\ [][TrackerNext]_trackerVars

(***************************************************************************)
(* Every register keeps to its width, and once a baseline exists the       *)
(* number expected next is the successor of the one accepted last.         *)
(***************************************************************************)
TrackerTypeOK ==
  /\ last_seq \in SeqNo
  /\ expected_seq \in SeqNo
  /\ sequence_initialized \in BOOLEAN
  /\ missing_count \in SeqNo
  /\ duplicate_count \in SeqNo
  /\ out_of_order_count \in SeqNo
  /\ sequence_event \in SequenceEvents
  /\ tracked \in Quote \cup {None}
  /\ sequence_initialized => expected_seq = (last_seq + 1) % NumSeqNos
===============================================================================
