------------------------- MODULE SequenceTrackerProofs -------------------------
(***************************************************************************)
(* Proofs about the sequence tracker: its register types in an arbitrary   *)
(* environment, and its behaviour on a numbered stream over UDP, for every *)
(* size of the number space and every length of the stream.                *)
(***************************************************************************)
EXTENDS QuoteFeed, SequenceTheorems, TLAPS

(* Reducing modulo NumSeqNos yields a number; a number reduces to itself.     *)
LEMMA Reduction ==
  /\ \A n \in Nat : n % NumSeqNos \in SeqNo
  /\ \A n \in SeqNo : n % NumSeqNos = n
BY Hft1Assumption DEF SeqNo

(* The remainder is the one number below N that differs by a multiple.     *)
LEMMA Remainder ==
  ASSUME NEW N \in Nat \ {0}, NEW k \in Int, NEW r \in 0 .. N - 1
  PROVE  (N * k + r) % N = r
OBVIOUS

LEMMA Division ==
  ASSUME NEW N \in Nat \ {0}, NEW n \in Int
  PROVE  n \div N \in Int /\ n % N \in 0 .. N - 1 /\ n = N * (n \div N) + (n % N)
OBVIOUS

(* Counting up with a register of N values, and going round once.          *)
LEMMA NextRemainder ==
  ASSUME NEW N \in Nat \ {0}, NEW n \in Int
  PROVE  (n + 1) % N = IF n % N = N - 1 THEN 0 ELSE (n % N) + 1
<1>1. n \div N \in Int /\ n % N \in 0 .. N - 1 /\ n = N * (n \div N) + (n % N)
  BY Division
<1>2. CASE n % N = N - 1
  <2>1. n + 1 = N * ((n \div N) + 1) + 0
    BY <1>1, <1>2
  <2>2. (n \div N) + 1 \in Int /\ 0 \in 0 .. N - 1
    BY <1>1
  <2> QED BY <1>2, <2>1, <2>2, Remainder
<1>3. CASE n % N # N - 1
  <2>1. n + 1 = N * (n \div N) + ((n % N) + 1) /\ (n % N) + 1 \in 0 .. N - 1
    BY <1>1, <1>3
  <2> QED BY <1>1, <1>3, <2>1, Remainder
<1> QED BY <1>2, <1>3

LEMMA OnceRound ==
  ASSUME NEW N \in Nat \ {0}, NEW n \in Int
  PROVE  (n + N) % N = n % N
<1>1. n \div N \in Int /\ n % N \in 0 .. N - 1 /\ n = N * (n \div N) + (n % N)
  BY Division
<1>2. (n \div N) + 1 \in Int
  BY <1>1
<1>3. n + N = N * ((n \div N) + 1) + (n % N)
  BY <1>1
<1> QED BY <1>1, <1>2, <1>3, Remainder

(* A sum is counted up by one whether the register in it goes round or not. *)
LEMMA CountUp ==
  ASSUME NEW n \in Int, NEW register \in SeqNo
  PROVE  (n + ((register + 1) % NumSeqNos)) % NumSeqNos = ((n + register) + 1) % NumSeqNos
<1> DEFINE N == NumSeqNos
           next == (register + 1) % N
<1>1. N \in Nat \ {0} /\ register \in 0 .. N - 1
  BY Hft1Assumption DEF SeqNo
<1>2. next = IF register = N - 1 THEN 0 ELSE register + 1
  <2>1. register % N = register
    BY Reduction
  <2>2. register \in Int
    BY <1>1
  <2> HIDE DEF N
  <2>3. (register + 1) % N = IF register % N = N - 1 THEN 0 ELSE (register % N) + 1
    BY <1>1, <2>2, NextRemainder
  <2> QED BY <2>1, <2>3
<1> HIDE DEF N, next
<1>3. CASE register = N - 1
  <2>1. (n + register) + 1 = n + N /\ n + next = n
    BY <1>1, <1>2, <1>3
  <2>2. (n + N) % N = n % N
    BY <1>1, OnceRound
  <2>3. (n + next) % N = ((n + register) + 1) % N
    BY <2>1, <2>2
  <2> QED BY <2>3 DEF N, next
<1>4. CASE register # N - 1
  <2>1. n + next = (n + register) + 1
    BY <1>1, <1>2, <1>4
  <2> QED BY <2>1 DEF N, next
<1> QED BY <1>3, <1>4

(* The register part shared by the three ways of forwarding a quote.       *)
LEMMA AcceptKeepsTypes ==
  ASSUME TrackerTypeOK, NEW q \in Quote, NEW lost \in Nat,
         AcceptQuote(q, lost), sequence_event' \in SequenceEvents
  PROVE  TrackerTypeOK'
<1>1. q.seq \in SeqNo /\ q.seq + 1 \in Nat /\ missing_count + lost \in Nat
  BY DEF Quote, SeqNo, TrackerTypeOK
<1>2. (q.seq + 1) % NumSeqNos \in SeqNo /\ (missing_count + lost) % NumSeqNos \in SeqNo
  BY <1>1, Reduction
<1> QED
  BY <1>1, <1>2 DEF TrackerTypeOK, AcceptQuote

(***************************************************************************)
(* One clock edge keeps every tracker register within its width, whatever  *)
(* the pulses and the quote port show.                                     *)
(***************************************************************************)
LEMMA TrackerTickKeepsTypes ==
  ASSUME TrackerTypeOK,
         NEW start_pulse \in BOOLEAN, NEW end_pulse \in BOOLEAN,
         NEW q \in Quote \cup {None},
         TrackerTick(start_pulse, end_pulse, q)
  PROVE  TrackerTypeOK'
<1>0. 0 \in SeqNo /\ {"none", "missing_packet"} \subseteq SequenceEvents
  BY Hft1Assumption DEF SeqNo, SequenceEvents
<1>1. CASE TrackerStart
  BY <1>0, <1>1 DEF TrackerStart, TrackerTypeOK
<1>2. CASE TrackerEnd
  BY <1>0, <1>2 DEF TrackerEnd, sequenceCounts, TrackerTypeOK
<1>3. CASE TrackerIdle
  BY <1>0, <1>3 DEF TrackerIdle, RejectQuote, TrackerTypeOK
<1>4. CASE q \in Quote /\ JudgeQuote(q)
  <2>1. q.seq \in SeqNo
    BY <1>4 DEF Quote
  <2>2. CASE FirstQuote(q)
    BY <1>0, <1>4, <2>2, AcceptKeepsTypes DEF FirstQuote
  <2>3. CASE InOrder(q)
    BY <1>0, <1>4, <2>3, AcceptKeepsTypes DEF InOrder
  <2>4. CASE Gap(q)
    <3>1. q.seq - expected_seq \in Nat
      BY <2>1, <2>4 DEF Gap, SeqNo, TrackerTypeOK
    <3> QED
      BY <1>0, <1>4, <2>4, <3>1, AcceptKeepsTypes DEF Gap
  <2>5. CASE Duplicate(q)
    <3>1. (duplicate_count + 1) % NumSeqNos \in SeqNo
      BY Reduction DEF TrackerTypeOK, SeqNo
    <3> QED
      BY <2>5, <3>1 DEF Duplicate, RejectQuote, TrackerTypeOK, SequenceEvents
  <2>6. CASE OutOfOrder(q)
    <3>1. (out_of_order_count + 1) % NumSeqNos \in SeqNo
      BY Reduction DEF TrackerTypeOK, SeqNo
    <3> QED
      BY <2>6, <3>1 DEF OutOfOrder, RejectQuote, TrackerTypeOK, SequenceEvents
  <2> QED
    BY <1>4, <2>2, <2>3, <2>4, <2>5, <2>6 DEF JudgeQuote
<1> QED
  BY <1>1, <1>2, <1>3, <1>4 DEF TrackerTick

(***************************************************************************)
(* In any environment, with any packets at any distance, the tracker's     *)
(* registers keep their widths and expected_seq succeeds last_seq.         *)
(***************************************************************************)
THEOREM TrackerTypes == TrackerSpec => []TrackerTypeOK
<1>0. 0 \in SeqNo
  BY Hft1Assumption DEF SeqNo
<1>1. TrackerInit => TrackerTypeOK
  BY <1>0 DEF TrackerInit, TrackerTypeOK, SequenceEvents
<1>2. TrackerTypeOK /\ [TrackerNext]_trackerVars => TrackerTypeOK'
  <2> SUFFICES ASSUME TrackerTypeOK, [TrackerNext]_trackerVars PROVE TrackerTypeOK'
    OBVIOUS
  <2>1. CASE TrackerNext
    BY <2>1, TrackerTickKeepsTypes DEF TrackerNext
  <2>2. CASE UNCHANGED trackerVars
    BY <2>2 DEF trackerVars, TrackerTypeOK
  <2> QED
    BY <2>1, <2>2
<1> QED
  BY <1>1, <1>2, PTL DEF TrackerSpec
-------------------------------------------------------------------------------
(* The position of the quote accepted last.                                *)
LastAccepted == accepted[Len(accepted)]

(***************************************************************************)
(* The inductive invariant of the feed.  The conjuncts on last_seq and on  *)
(* a stream without baseline tie the registers to the history: without     *)
(* them neither the order of acceptance nor the gap count is inductive.    *)
(***************************************************************************)
FeedInv ==
  /\ TypeOK
  /\ sequence_initialized =>
       /\ open
       /\ Len(accepted) > 0
       /\ last_seq = FirstSeq + LastAccepted
       /\ expected_seq = FirstSeq + LastAccepted + 1
  /\ open /\ ~sequence_initialized => accepted = <<>> /\ missing_count = 0
  /\ AcceptedInOrder
  /\ GapAccounting

(* Below the wrap a quote's number is its position shifted by FirstSeq.    *)
LEMMA NumberBelowWrap ==
  ASSUME NoWrap, NEW i \in Position
  PROVE  /\ NumberOf(i) = FirstSeq + i
         /\ (NumberOf(i) + 1) % NumSeqNos = FirstSeq + i + 1
<1>1. FirstSeq \in Nat /\ FirstSeq + i \in SeqNo /\ FirstSeq + i + 1 \in SeqNo
  BY Hft1Assumption, FeedAssumption DEF NoWrap, SeqNo, Position
<1> QED
  BY <1>1, Reduction DEF NumberOf

LEMMA PositionsAreNaturals == \A i \in Position : i \in Nat /\ i < MaxQuotes
BY FeedAssumption DEF Position

(* What appending the position of an accepted quote does to the history.   *)
LEMMA AppendPosition ==
  ASSUME accepted \in Seq(Position), NEW i \in Position,
         accepted' = Append(accepted, i)
  PROVE  /\ accepted' \in Seq(Position)
         /\ Len(accepted') = Len(accepted) + 1
         /\ accepted'[Len(accepted')] = i
         /\ \A a \in 1 .. Len(accepted) : accepted'[a] = accepted[a]
         /\ \A a \in 1 .. Len(accepted) : accepted[a] \in Position
<1>1. /\ Append(accepted, i) \in Seq(Position)
      /\ Len(Append(accepted, i)) = Len(accepted) + 1
      /\ \A a \in 1 .. Len(accepted) : Append(accepted, i)[a] = accepted[a]
      /\ Append(accepted, i)[Len(accepted) + 1] = i
  BY AppendProperties
<1>2. \A a \in 1 .. Len(accepted) : accepted[a] \in Position
  BY ElementOfSeq
<1> QED
  BY <1>1, <1>2

(* Forwarding a quote newer than all forwarded before keeps the history    *)
(* increasing.                                                             *)
LEMMA NewerKeepsOrder ==
  ASSUME accepted \in Seq(Position), NEW i \in Position,
         accepted' = Append(accepted, i), AcceptedInOrder,
         Len(accepted) > 0 => LastAccepted < i
  PROVE  AcceptedInOrder'
<1> SUFFICES ASSUME NEW a \in 1 .. Len(accepted'), NEW b \in 1 .. Len(accepted'), a < b
             PROVE  accepted'[a] < accepted'[b]
  BY DEF AcceptedInOrder
<1>1. Len(accepted) \in Nat /\ a \in 1 .. Len(accepted)
  BY AppendPosition
<1>2. CASE b \in 1 .. Len(accepted)
  BY <1>1, <1>2, AppendPosition DEF AcceptedInOrder
<1>3. CASE b = Len(accepted) + 1
  <2>1. Len(accepted) \in 1 .. Len(accepted)
    BY <1>1
  <2>2. accepted[a] \in Nat /\ LastAccepted \in Nat /\ i \in Nat
    BY <1>1, <2>1, AppendPosition, PositionsAreNaturals DEF LastAccepted
  <2>3. accepted[a] <= LastAccepted
    BY <1>1, <2>1, <2>2 DEF AcceptedInOrder, LastAccepted
  <2>4. LastAccepted < i /\ accepted'[b] = i /\ accepted'[a] = accepted[a]
    BY <1>1, <1>3, AppendPosition
  <2> QED
    BY <2>2, <2>3, <2>4
<1> QED
  BY <1>1, <1>2, <1>3, AppendPosition

(***************************************************************************)
(* A quote is forwarded as the first of its stream or as newer than the    *)
(* last one, and is rejected only when it is not newer.                    *)
(***************************************************************************)
LEMMA ArrivalVerdict ==
  ASSUME FeedInv, NoWrap, NEW i \in 0 .. sent - 1, Arrive(i)
  PROVE  \/ /\ tracked' # None
            /\ ~sequence_initialized
            /\ missing_count' = 0
            /\ last_seq' = FirstSeq + i
            /\ expected_seq' = FirstSeq + i + 1
            /\ sequence_initialized'
         \/ /\ tracked' # None
            /\ sequence_initialized
            /\ LastAccepted < i
            /\ missing_count' = missing_count + (i - LastAccepted - 1)
            /\ last_seq' = FirstSeq + i
            /\ expected_seq' = FirstSeq + i + 1
            /\ sequence_initialized'
         \/ /\ tracked' = None
            /\ sequence_initialized
            /\ i <= LastAccepted
            /\ UNCHANGED <<last_seq, expected_seq, sequence_initialized, missing_count>>
<1>1. i \in Position /\ i \in Nat /\ FirstSeq \in Nat
  BY FeedAssumption DEF FeedInv, TypeOK, SeqNo, Position
<1>2. PICK q \in Quote : q.seq = NumberOf(i) /\ TrackerTick(FALSE, FALSE, q)
  BY DEF Arrive
<1>3. q # None /\ JudgeQuote(q)
  BY <1>2, Hft1Assumption DEF TrackerTick
<1>4. q.seq = FirstSeq + i /\ (q.seq + 1) % NumSeqNos = FirstSeq + i + 1
  BY <1>1, <1>2, NumberBelowWrap
<1>5. CASE FirstQuote(q)
  <2>1. missing_count = 0 /\ (0 + 0) % NumSeqNos = 0
    BY <1>5, Reduction, Hft1Assumption DEF FirstQuote, FeedInv, Arrive, SeqNo
  <2> QED
    BY <1>3, <1>4, <1>5, <2>1 DEF FirstQuote, AcceptQuote
<1>6. ASSUME sequence_initialized
      PROVE  /\ LastAccepted \in Nat
             /\ last_seq = FirstSeq + LastAccepted
             /\ expected_seq = FirstSeq + LastAccepted + 1
             /\ missing_count \in Nat
             /\ LastAccepted < i =>
                  (missing_count + (i - LastAccepted - 1)) % NumSeqNos
                    = missing_count + (i - LastAccepted - 1)
  <2>1. Len(accepted) \in Nat /\ Len(accepted) > 0 /\ accepted \in Seq(Position)
    BY <1>6 DEF FeedInv, TypeOK
  <2>2. LastAccepted \in Position /\ accepted[1] \in Position
    <3>1. Len(accepted) \in 1 .. Len(accepted) /\ 1 \in 1 .. Len(accepted)
      BY <2>1
    <3> QED
      BY <2>1, <3>1, ElementOfSeq DEF LastAccepted
  <2>3. missing_count \in Nat /\ missing_count <= LastAccepted
    <3>1. missing_count \in Nat
      BY Hft1Assumption DEF FeedInv, TypeOK, TrackerTypeOK, SeqNo
    <3>2. LastAccepted \in Nat /\ accepted[1] \in Nat
      BY <2>2, PositionsAreNaturals
    <3>3. missing_count = LastAccepted - accepted[1] + 1 - Len(accepted)
      BY <1>6, <2>1 DEF FeedInv, GapAccounting, LastAccepted
    <3> QED BY <2>1, <3>1, <3>2, <3>3
  <2>4. ASSUME LastAccepted < i
        PROVE  missing_count + (i - LastAccepted - 1) \in SeqNo
    BY <1>1, <2>2, <2>3, <2>4, Hft1Assumption, FeedAssumption, PositionsAreNaturals
       DEF NoWrap, SeqNo
  <2> QED
    BY <1>6, <2>2, <2>3, <2>4, Reduction, PositionsAreNaturals DEF FeedInv
<1>7. CASE InOrder(q)
  <2>1. i = LastAccepted + 1 /\ i - LastAccepted - 1 = 0
    BY <1>1, <1>4, <1>6, <1>7 DEF InOrder
  <2> QED
    BY <1>1, <1>3, <1>4, <1>6, <1>7, <2>1 DEF InOrder, AcceptQuote
<1>8. CASE Gap(q)
  <2>1. LastAccepted < i /\ q.seq - expected_seq = i - LastAccepted - 1
    BY <1>1, <1>4, <1>6, <1>8 DEF Gap
  <2> QED
    BY <1>3, <1>4, <1>6, <1>8, <2>1 DEF Gap, AcceptQuote
<1>9. CASE Duplicate(q)
  BY <1>1, <1>4, <1>6, <1>9 DEF Duplicate, RejectQuote
<1>10. CASE OutOfOrder(q)
  BY <1>1, <1>4, <1>6, <1>10 DEF OutOfOrder, RejectQuote
<1> QED
  BY <1>3, <1>5, <1>7, <1>8, <1>9, <1>10 DEF JudgeQuote

(* A datagram's arrival preserves the invariant.                           *)
LEMMA ArrivalKeepsInv ==
  ASSUME FeedInv, NoWrap, NEW i \in 0 .. sent - 1, Arrive(i)
  PROVE  FeedInv'
<1>1. i \in Position /\ accepted \in Seq(Position)
      /\ Len(accepted) \in Nat
  BY FeedAssumption DEF FeedInv, TypeOK, Position
<1>2. TrackerTypeOK' /\ UNCHANGED <<open, sent>> /\ open
      /\ arrivals' \in 0 .. MaxArrivals
  <2>1. TrackerTypeOK'
    BY TrackerTickKeepsTypes DEF Arrive, FeedInv, TypeOK
  <2> QED
    BY <2>1, FeedAssumption DEF Arrive, FeedInv, TypeOK
<1>3. CASE tracked' = None
  <2>1. UNCHANGED accepted
    BY <1>3 DEF Arrive
  <2> QED
    BY <1>2, <1>3, <2>1, ArrivalVerdict
       DEF FeedInv, TypeOK, AcceptedInOrder, GapAccounting, LastAccepted
<1>4. CASE tracked' # None
  <2>1. accepted' = Append(accepted, i)
    BY <1>4 DEF Arrive
  <2>2. TypeOK' /\ LastAccepted' = i
    BY <1>1, <1>2, <2>1, AppendPosition DEF TypeOK, FeedInv, LastAccepted
  <2>3. sequence_initialized' /\ last_seq' = FirstSeq + i /\ expected_seq' = FirstSeq + i + 1
    BY <1>4, ArrivalVerdict
  <2>4. CASE ~sequence_initialized
    <3>1. accepted = <<>> /\ missing_count' = 0
      BY <1>2, <1>4, <2>4, ArrivalVerdict DEF FeedInv
    <3>2. AcceptedInOrder'
      BY <1>1, <2>1, <3>1, NewerKeepsOrder DEF FeedInv
    <3>3. GapAccounting' /\ Len(accepted') = 1
      BY <1>1, <2>1, <3>1 DEF GapAccounting
    <3> QED
      BY <1>2, <2>2, <2>3, <3>2, <3>3 DEF FeedInv
  <2>5. CASE sequence_initialized
    <3>1. LastAccepted < i /\ missing_count' = missing_count + (i - LastAccepted - 1)
      BY <1>4, <2>5, ArrivalVerdict
    <3>2. AcceptedInOrder'
      BY <1>1, <2>1, <3>1, NewerKeepsOrder DEF FeedInv
    <3>3. /\ Len(accepted) > 0 /\ missing_count \in Nat
          /\ LastAccepted \in Nat /\ accepted[1] \in Nat
          /\ missing_count = LastAccepted - accepted[1] + 1 - Len(accepted)
          /\ accepted'[1] = accepted[1] /\ Len(accepted') = Len(accepted) + 1
      <4>1. Len(accepted) > 0 /\ missing_count \in Nat
        BY <2>5 DEF FeedInv, TypeOK, TrackerTypeOK, SeqNo
      <4>2. Len(accepted) \in 1 .. Len(accepted) /\ 1 \in 1 .. Len(accepted)
        BY <1>1, <4>1
      <4>3. LastAccepted \in Position /\ accepted[1] \in Position
        BY <1>1, <2>1, <4>2, AppendPosition DEF LastAccepted
      <4> QED
        BY <1>1, <2>1, <2>5, <4>1, <4>2, <4>3, AppendPosition, PositionsAreNaturals
           DEF FeedInv, TypeOK, TrackerTypeOK, SeqNo, GapAccounting, LastAccepted
    <3>4. GapAccounting'
      BY <1>1, <2>2, <3>1, <3>3 DEF GapAccounting, LastAccepted
    <3> QED
      BY <1>1, <1>2, <2>2, <2>3, <3>2, <3>3, <3>4 DEF FeedInv
  <2> QED
    BY <2>4, <2>5 DEF FeedInv, TypeOK, TrackerTypeOK
<1> QED
  BY <1>3, <1>4

LEMMA FeedInvHolds == ASSUME NoWrap PROVE Spec => []FeedInv
<1>1. Init => FeedInv
  <2> SUFFICES ASSUME Init PROVE FeedInv
    OBVIOUS
  <2>1. 0 \in SeqNo /\ 0 \in 0 .. MaxQuotes /\ 0 \in 0 .. MaxArrivals
    BY Hft1Assumption, FeedAssumption DEF SeqNo
  <2>2. <<>> \in Seq(Position)
    BY EmptySeq
  <2>3. TypeOK
    BY <2>1, <2>2 DEF Init, TrackerInit, TypeOK, TrackerTypeOK, SequenceEvents
  <2> QED
    BY <2>3 DEF Init, TrackerInit, FeedInv, AcceptedInOrder, GapAccounting
<1>2. FeedInv /\ [Next]_vars => FeedInv'
  <2> SUFFICES ASSUME FeedInv, [Next]_vars PROVE FeedInv'
    OBVIOUS
  <2> USE DEF FeedInv, AcceptedInOrder, GapAccounting, LastAccepted
  <2>1. CASE Start
    <3>1. TrackerTypeOK'
      BY <2>1, TrackerTickKeepsTypes DEF Start, TypeOK
    <3>2. accepted' = <<>> /\ missing_count' = 0 /\ ~sequence_initialized' /\ open'
      BY <2>1 DEF Start, TrackerTick, TrackerStart
    <3> QED
      BY <2>1, <3>1, <3>2, FeedAssumption DEF Start, TypeOK
  <2>2. CASE End
    <3>1. TrackerTypeOK'
      BY <2>2, TrackerTickKeepsTypes DEF End, TypeOK
    <3>2. ~sequence_initialized' /\ ~open'
      BY <2>2 DEF End, TrackerTick, TrackerEnd
    <3> QED
      BY <2>2, <3>1, <3>2 DEF End, TypeOK
  <2>3. CASE Send
    <3>1. UNCHANGED <<trackerVars, open, arrivals, accepted>> /\ sent' \in 0 .. MaxQuotes
      BY <2>3, FeedAssumption DEF Send, TypeOK
    <3> QED
      BY <3>1 DEF TypeOK, trackerVars, TrackerTypeOK
  <2>4. CASE \E i \in 0 .. sent - 1 : Arrive(i)
    BY <2>4, ArrivalKeepsInv
  <2>5. CASE IdleClock
    <3>1. TrackerTypeOK'
      BY <2>5, TrackerTickKeepsTypes DEF IdleClock, TypeOK
    <3>2. UNCHANGED <<feedVars, last_seq, expected_seq, sequence_initialized, missing_count>>
      BY <2>5 DEF IdleClock, TrackerTick, TrackerIdle, RejectQuote
    <3> QED
      BY <3>1, <3>2 DEF feedVars, TypeOK
  <2>6. CASE UNCHANGED vars
    BY <2>6 DEF vars, trackerVars, feedVars, TypeOK, TrackerTypeOK
  <2> QED
    BY <2>1, <2>2, <2>3, <2>4, <2>5, <2>6 DEF Next
<1> QED
  BY <1>1, <1>2, PTL DEF Spec

(***************************************************************************)
(* Which quotes are judged how matters nothing for the bookkeeping: types  *)
(* and EveryArrivalCounted are kept together, across the wrap as well.     *)
(***************************************************************************)
CountInv == TypeOK /\ EveryArrivalCounted

(* One clock puts a quote through, or counts it once.                      *)
LEMMA ArrivalCounted ==
  ASSUME CountInv, NEW i \in 0 .. sent - 1, Arrive(i)
  PROVE  CountInv'
<1> DEFINE N == NumSeqNos
           sum == Len(accepted) + duplicate_count + out_of_order_count
<1>1. /\ i \in Position /\ accepted \in Seq(Position) /\ Len(accepted) \in Nat
      /\ arrivals \in Nat /\ duplicate_count \in SeqNo /\ out_of_order_count \in SeqNo
      /\ duplicate_count \in Int /\ out_of_order_count \in Int
  BY FeedAssumption, LenProperties
     DEF CountInv, TypeOK, TrackerTypeOK, Position, SeqNo
<1>2. N \in Nat \ {0}
  BY Hft1Assumption
<1>3. PICK q \in Quote : TrackerTick(FALSE, FALSE, q)
  BY DEF Arrive
<1>4. JudgeQuote(q)
  BY <1>3, Hft1Assumption DEF TrackerTick
<1>5. TypeOK'
  <2>1. TrackerTypeOK'
    BY <1>3, TrackerTickKeepsTypes DEF CountInv, TypeOK
  <2>2. open' \in BOOLEAN /\ sent' \in 0 .. MaxQuotes /\ arrivals' \in 0 .. MaxArrivals
    BY FeedAssumption DEF Arrive, CountInv, TypeOK
  <2>3. accepted' \in Seq(Position)
    BY <1>1, AppendPosition DEF Arrive
  <2> QED BY <2>1, <2>2, <2>3 DEF TypeOK
<1>6. (arrivals + 1) % N = (sum + 1) % N
  <2>1. arrivals % N = sum % N
    BY DEF CountInv, EveryArrivalCounted
  <2>2. sum \in Int
    BY <1>1
  <2>3. arrivals \in Int
    BY <1>1
  <2> HIDE DEF sum, N
  <2>4. (arrivals + 1) % N = IF arrivals % N = N - 1 THEN 0 ELSE (arrivals % N) + 1
    BY <1>2, <2>3, NextRemainder
  <2>5. (sum + 1) % N = IF sum % N = N - 1 THEN 0 ELSE (sum % N) + 1
    BY <1>2, <2>2, NextRemainder
  <2> QED BY <2>1, <2>4, <2>5
<1>7. arrivals' = arrivals + 1
  BY DEF Arrive
<1>8. CASE FirstQuote(q) \/ InOrder(q) \/ Gap(q)
  <2>1. tracked' = q /\ UNCHANGED <<duplicate_count, out_of_order_count>>
    BY <1>8 DEF FirstQuote, InOrder, Gap, AcceptQuote
  <2>2. accepted' = Append(accepted, i)
    BY <2>1, Hft1Assumption DEF Arrive
  <2>3. Len(accepted') = Len(accepted) + 1
    BY <1>1, <2>2, AppendPosition
  <2>4. Len(accepted') + duplicate_count' + out_of_order_count' = sum + 1
    BY <1>1, <2>1, <2>3
  <2> HIDE DEF sum
  <2>5. EveryArrivalCounted'
    BY <1>6, <1>7, <2>4 DEF EveryArrivalCounted
  <2> QED BY <1>5, <2>5 DEF CountInv
<1>9. ASSUME Duplicate(q) \/ OutOfOrder(q) PROVE EveryArrivalCounted'
  <2>1. accepted' = accepted
    BY <1>9 DEF Duplicate, OutOfOrder, RejectQuote, Arrive
  <2>2. CASE Duplicate(q)
    <3>1. /\ duplicate_count' = (duplicate_count + 1) % N
          /\ out_of_order_count' = out_of_order_count
      BY <2>2 DEF Duplicate
    <3> DEFINE n == Len(accepted) + out_of_order_count
    <3>2. n \in Int /\ n + duplicate_count = sum
      BY <1>1
    <3>3. (n + duplicate_count') % N = (sum + 1) % N
      <4> HIDE DEF n, sum
      <4> QED BY <1>1, <3>1, <3>2, CountUp
    <3>4. Len(accepted') + duplicate_count' + out_of_order_count' = n + duplicate_count'
      <4>1. duplicate_count' \in Int
        BY <1>5 DEF TypeOK, TrackerTypeOK, SeqNo
      <4> QED BY <1>1, <2>1, <3>1, <4>1
    <3> HIDE DEF n, sum
    <3> QED BY <1>6, <1>7, <3>3, <3>4 DEF EveryArrivalCounted
  <2>3. CASE OutOfOrder(q)
    <3>1. /\ out_of_order_count' = (out_of_order_count + 1) % N
          /\ duplicate_count' = duplicate_count
      BY <2>3 DEF OutOfOrder
    <3> DEFINE n == Len(accepted) + duplicate_count
    <3>2. n \in Int /\ n + out_of_order_count = sum
      BY <1>1
    <3>3. (n + out_of_order_count') % N = (sum + 1) % N
      <4> HIDE DEF n, sum
      <4> QED BY <1>1, <3>1, <3>2, CountUp
    <3>4. Len(accepted') + duplicate_count' + out_of_order_count' = n + out_of_order_count'
      BY <2>1, <3>1
    <3> HIDE DEF n, sum
    <3> QED BY <1>6, <1>7, <3>3, <3>4 DEF EveryArrivalCounted
  <2> QED BY <1>9, <2>2, <2>3
<1> QED BY <1>4, <1>5, <1>8, <1>9 DEF JudgeQuote, CountInv

LEMMA CountInvHolds == Spec => []CountInv
<1>1. Init => CountInv
  <2> SUFFICES ASSUME Init PROVE CountInv
    OBVIOUS
  <2>1. 0 \in SeqNo /\ 0 \in 0 .. MaxQuotes /\ 0 \in 0 .. MaxArrivals /\ <<>> \in Seq(Position)
    BY Hft1Assumption, FeedAssumption, EmptySeq DEF SeqNo
  <2>2. TypeOK
    BY <2>1 DEF Init, TrackerInit, TypeOK, TrackerTypeOK, SequenceEvents
  <2>3. arrivals = 0 /\ Len(accepted) + duplicate_count + out_of_order_count = 0
    BY EmptySeq DEF Init, TrackerInit
  <2> QED BY <2>2, <2>3 DEF CountInv, EveryArrivalCounted
<1>2. CountInv /\ [Next]_vars => CountInv'
  <2> SUFFICES ASSUME CountInv, [Next]_vars PROVE CountInv'
    OBVIOUS
  <2>1. CASE Start
    <3>1. TrackerTypeOK'
      BY <2>1, TrackerTickKeepsTypes DEF Start, CountInv, TypeOK
    <3>2. /\ accepted' = <<>> /\ arrivals' = 0 /\ open' = TRUE /\ sent' = 0
          /\ duplicate_count' = 0 /\ out_of_order_count' = 0
      BY <2>1 DEF Start, TrackerTick, TrackerStart
    <3>3. Len(accepted') = 0 /\ accepted' \in Seq(Position)
      BY <3>2, EmptySeq
    <3> QED BY <3>1, <3>2, <3>3, FeedAssumption DEF CountInv, EveryArrivalCounted, TypeOK
  <2>2. CASE End
    <3>1. TrackerTypeOK'
      BY <2>2, TrackerTickKeepsTypes DEF End, CountInv, TypeOK
    <3>2. UNCHANGED <<sent, arrivals, accepted, duplicate_count, out_of_order_count>>
          /\ open' = FALSE
      BY <2>2 DEF End, TrackerTick, TrackerEnd, sequenceCounts
    <3> QED BY <3>1, <3>2 DEF CountInv, EveryArrivalCounted, TypeOK
  <2>3. CASE Send
    <3>1. UNCHANGED <<trackerVars, open, arrivals, accepted>> /\ sent' \in 0 .. MaxQuotes
      BY <2>3, FeedAssumption DEF Send, CountInv, TypeOK
    <3> QED BY <3>1 DEF CountInv, EveryArrivalCounted, TypeOK, trackerVars, TrackerTypeOK
  <2>4. CASE \E i \in 0 .. sent - 1 : Arrive(i)
    BY <2>4, ArrivalCounted
  <2>5. CASE IdleClock
    <3>1. TrackerTypeOK'
      BY <2>5, TrackerTickKeepsTypes DEF IdleClock, CountInv, TypeOK
    <3>2. UNCHANGED <<feedVars, duplicate_count, out_of_order_count>>
      BY <2>5 DEF IdleClock, TrackerTick, TrackerIdle
    <3> QED BY <3>1, <3>2 DEF feedVars, CountInv, EveryArrivalCounted, TypeOK
  <2>6. CASE UNCHANGED vars
    BY <2>6 DEF vars, trackerVars, feedVars, CountInv, EveryArrivalCounted, TypeOK, TrackerTypeOK
  <2> QED BY <2>1, <2>2, <2>3, <2>4, <2>5, <2>6 DEF Next
<1> QED BY <1>1, <1>2, PTL DEF Spec

(***************************************************************************)
(* The registers of the composed feed keep their types.                    *)
(***************************************************************************)
THEOREM FeedTypes == Spec => []TypeOK
<1>1. CountInv => TypeOK
  BY DEF CountInv
<1> QED
  BY <1>1, CountInvHolds, PTL

(***************************************************************************)
(* Nothing is dropped silently: what reaches the tracker is forwarded or   *)
(* shows in a rejection counter, also when numbers and counters wrap.      *)
(***************************************************************************)
THEOREM EveryArrivalCountedHolds == Spec => []EveryArrivalCounted
<1>1. CountInv => EveryArrivalCounted
  BY DEF CountInv
<1> QED
  BY <1>1, CountInvHolds, PTL

(***************************************************************************)
(* Below the wrap, quotes are forwarded in strictly increasing order of    *)
(* sending: no duplicate and no older quote reaches a book, whatever the   *)
(* network does to the stream.                                             *)
(***************************************************************************)
THEOREM NoStaleQuoteForwarded == ASSUME NoWrap PROVE Spec => []AcceptedInOrder
<1>1. FeedInv => AcceptedInOrder
  BY DEF FeedInv
<1> QED
  BY <1>1, FeedInvHolds, PTL

(***************************************************************************)
(* Below the wrap, missing_count is exactly the number of quotes between   *)
(* the first and the last forwarded one that were never forwarded.         *)
(***************************************************************************)
THEOREM MissingCountExact == ASSUME NoWrap PROVE Spec => []GapAccounting
<1>1. FeedInv => GapAccounting
  BY DEF FeedInv
<1> QED
  BY <1>1, FeedInvHolds, PTL

(***************************************************************************)
(* Below the wrap, a quote is rejected only if it, or a quote sent after   *)
(* it, has already been forwarded.                                         *)
(***************************************************************************)
THEOREM RejectedQuotesAreLate == ASSUME NoWrap PROVE Spec => OnlyLateQuotesRejected
<1>1. ASSUME FeedInv, NEW i \in 0 .. sent - 1, Arrive(i), tracked' = None
      PROVE  \E a \in 1 .. Len(accepted) : i <= accepted[a]
  <2>1. sequence_initialized /\ i <= LastAccepted
    BY <1>1, ArrivalVerdict
  <2>2. accepted \in Seq(Position) /\ Len(accepted) > 0
    BY <1>1, <2>1 DEF FeedInv, TypeOK
  <2>3. Len(accepted) \in 1 .. Len(accepted)
    BY <2>2
  <2> QED
    BY <2>1, <2>3 DEF LastAccepted
<1>2. FeedInv => [\A i \in 0 .. sent - 1 :
                    Arrive(i) /\ tracked' = None =>
                      \E a \in 1 .. Len(accepted) : i <= accepted[a]]_vars
  BY <1>1
<1> QED
  BY <1>2, FeedInvHolds, PTL DEF OnlyLateQuotesRejected
===============================================================================
