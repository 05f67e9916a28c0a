------------------------------- MODULE QuoteFeed -------------------------------
(***************************************************************************)
(* The sequence tracker fed by a numbered stream over UDP.  The sender     *)
(* numbers the quotes of a stream consecutively from FirstSeq; UDP may     *)
(* lose, duplicate and reorder them; the receiver, the DMA and the parser  *)
(* hand over what arrived one packet at a time, at least eight clocks      *)
(* apart.  Quotes are identified by their position 0, 1, 2, ... in the     *)
(* stream: the tracker only sees the number modulo NumSeqNos.              *)
(***************************************************************************)
EXTENDS SequenceTracker, Sequences

CONSTANTS
  FirstSeq,     (* number of the first quote of a stream                   *)
  MaxQuotes,    (* bound: quotes sent in one stream                        *)
  MaxArrivals   (* bound: datagrams that arrive in one stream              *)

ASSUME FeedAssumption ==
  /\ FirstSeq \in SeqNo
  /\ MaxQuotes \in Nat
  /\ MaxArrivals \in Nat

VARIABLES
  open,         (* a START came and no END since: the filter passes quotes *)
  sent,         (* quotes sent so far in this stream                       *)
  arrivals,     (* history: datagrams that reached the tracker             *)
  accepted      (* history: positions of the quotes forwarded, in order    *)

feedVars == <<open, sent, arrivals, accepted>>
vars == <<trackerVars, feedVars>>

(* Positions a quote can have in its stream.                               *)
Position == 0 .. MaxQuotes - 1

(* The 32-bit number of the i-th quote.                                    *)
NumberOf(i) == (FirstSeq + i) % NumSeqNos

Init ==
  /\ TrackerInit
  /\ open = FALSE
  /\ sent = 0
  /\ arrivals = 0
  /\ accepted = <<>>

(* A START packet reaches the tracker; its stream has sent nothing yet.    *)
Start ==
  /\ TrackerTick(TRUE, FALSE, None)
  /\ open' = TRUE
  /\ sent' = 0
  /\ arrivals' = 0
  /\ accepted' = <<>>

End ==
  /\ open
  /\ TrackerTick(FALSE, TRUE, None)
  /\ open' = FALSE
  /\ UNCHANGED <<sent, arrivals, accepted>>

Send ==
  /\ open
  /\ sent < MaxQuotes
  /\ sent' = sent + 1
  /\ UNCHANGED <<trackerVars, open, arrivals, accepted>>

(* Some datagram sent in this stream arrives, for the first time or again. *)
Arrive(i) ==
  /\ open
  /\ arrivals < MaxArrivals
  /\ \E q \in Quote :
       /\ q.seq = NumberOf(i)
       /\ TrackerTick(FALSE, FALSE, q)
  /\ arrivals' = arrivals + 1
  /\ accepted' = IF tracked' = None THEN accepted ELSE Append(accepted, i)
  /\ UNCHANGED <<open, sent>>

IdleClock ==
  /\ TrackerTick(FALSE, FALSE, None)
  /\ UNCHANGED feedVars

Next == Start \/ End \/ Send \/ (\E i \in 0 .. sent - 1 : Arrive(i)) \/ IdleClock

Spec == Init /\ [][Next]_vars
-------------------------------------------------------------------------------
TypeOK ==
  /\ TrackerTypeOK
  /\ open \in BOOLEAN
  /\ sent \in 0 .. MaxQuotes
  /\ arrivals \in 0 .. MaxArrivals
  /\ accepted \in Seq(Position)

(* The stream stays below number 2^32 - 1: that last number already makes  *)
(* the expectation wrap to 0, which every older quote then exceeds.        *)
NoWrap == FirstSeq + MaxQuotes < NumSeqNos

(***************************************************************************)
(* The books never see a quote twice nor one older than a quote they have  *)
(* already seen, whatever UDP duplicates or reorders: the rejection        *)
(* branches of the tracker (lines 106-110 and 129-133) catch them all.     *)
(***************************************************************************)
AcceptedInOrder ==
  \A a, b \in 1 .. Len(accepted) : a < b => accepted[a] < accepted[b]

(***************************************************************************)
(* While a baseline exists, missing_count is exactly the number of quotes  *)
(* between the first and the last accepted one that were not accepted.  A  *)
(* quote overtaken on the way stays counted when it turns up later.        *)
(***************************************************************************)
GapAccounting ==
  sequence_initialized =>
    missing_count = accepted[Len(accepted)] - accepted[1] + 1 - Len(accepted)

(***************************************************************************)
(* Nothing is dropped silently: every datagram that reached the tracker    *)
(* was forwarded or shows up in one of the two rejection counters.         *)
(***************************************************************************)
EveryArrivalCounted ==
  arrivals % NumSeqNos = (Len(accepted) + duplicate_count + out_of_order_count) % NumSeqNos

(***************************************************************************)
(* A quote the tracker rejects is one it has already forwarded or one that *)
(* a later quote overtook: a rejection never costs a quote that was still  *)
(* in order.                                                               *)
(***************************************************************************)
OnlyLateQuotesRejected ==
  [][\A i \in 0 .. sent - 1 :
       Arrive(i) /\ tracked' = None =>
         \E a \in 1 .. Len(accepted) : i <= accepted[a]]_vars
===============================================================================
