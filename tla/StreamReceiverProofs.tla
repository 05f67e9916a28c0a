------------------------- MODULE StreamReceiverProofs -------------------------
(***************************************************************************)
(* Proofs about the stream receiver, for any number of senders, streams of *)
(* any length and any number of datagrams.                                 *)
(***************************************************************************)
EXTENDS StreamReceiver, SequenceTheorems, FiniteSetTheorems, TLAPS

(* A datagram taken as a quote is one of the active sender's.              *)
LEMMA QuoteOfSender ==
  ASSUME NEW d \in Deliverable, IsQuote(d)
  PROVE  /\ d.sequence \in 1 .. planned_packets /\ d = Quote(sender, d.sequence)
         /\ d \in QuotesUpTo(planned_packets)
<1>1. d.type = "quote" /\ d.sender = sender /\ d.sequence \in 1 .. planned_packets
  BY DEF IsQuote
<1>2. PICK s \in Senders : d \in {Quote(s, n) : n \in 1 .. sent[s]}
  BY <1>1 DEF Deliverable, Start, End, Garbled, Other
<1>3. PICK n \in 1 .. sent[s] : d = Quote(s, n)
  BY <1>2
<1>4. d = Quote(s, d.sequence) /\ s = sender
  BY <1>1, <1>3 DEF Quote
<1> QED
  BY <1>1, <1>4 DEF QuotesUpTo

(* A START comes from a sender, whose stream has a length.                 *)
LEMMA StartOfSender ==
  ASSUME NEW d \in Deliverable, d.type = "start"
  PROVE  d.sender \in Senders /\ Planned[d.sender] \in Nat /\ Planned[d.sender] >= 1
<1>1. PICK s \in Senders : d = Start(s)
  BY DEF Deliverable, Quote, End, Garbled, Other
<1> QED
  BY <1>1, StreamTestAssumption DEF Start

(***************************************************************************)
(* The types of the senders and of the receiver's counters.                *)
(***************************************************************************)
THEOREM StreamTypes == Spec => []TypeOK
<1>1. Init => TypeOK
  <2> SUFFICES ASSUME Init PROVE TypeOK
    OBVIOUS
  <2>1. SenderTypes
    <3>1. \A s \in Senders : Planned[s] \in Nat
      BY StreamTestAssumption
    <3> QED
      BY <3>1 DEF Init, SenderTypes
  <2>2. TestTypes /\ CounterTypes
    <3>1. heard \in Seq(QuotesUpTo(planned_packets))
      BY EmptySeq DEF Init
    <3>2. TestTypes
      BY <3>1 DEF Init, TestTypes
    <3> QED
      BY <3>2 DEF Init, CounterTypes
  <2>3. running \in BOOLEAN /\ version \in Versions /\ arrivals \in 0 .. MaxArrivals
    BY StreamTestAssumption DEF Init
  <2> QED
    BY <2>1, <2>2, <2>3 DEF TypeOK
<1>2. TypeOK /\ [Next]_vars => TypeOK'
  <2> SUFFICES ASSUME TypeOK, [Next]_vars PROVE TypeOK'
    OBVIOUS
  <2>1. ASSUME UNCHANGED senderVars PROVE SenderTypes'
    BY <2>1 DEF senderVars, SenderTypes, TypeOK
  <2>2. ASSUME UNCHANGED <<testVars, heard>> PROVE TestTypes'
    BY <2>2 DEF testVars, TestTypes, TypeOK
  <2>3. ASSUME UNCHANGED <<planned_packets, seen_sequences, counters>> PROVE CounterTypes'
    BY <2>3 DEF counters, CounterTypes, TypeOK
  <2>4. ASSUME NEW count, NEW timed_out, finish(count, timed_out)
        PROVE  TestTypes' /\ CounterTypes'
    BY <2>4 DEF finish, counters, TestTypes, CounterTypes, TypeOK
  <2>5. ASSUME NEW d \in Deliverable, Arrives(d), TestTypes', CounterTypes' PROVE TypeOK'
    BY <2>1, <2>5, StreamTestAssumption DEF Arrives, TypeOK
  <2>6. CASE Send
    <3> PICK s \in Senders : SendStart(s) \/ SendQuote(s) \/ Count(s) \/ SendEnd(s)
      BY <2>6 DEF Send
    <3>1. SenderTypes'
      BY StreamTestAssumption DEF TypeOK, SenderTypes, SendStart, SendQuote, Count, SendEnd
    <3>2. TestTypes' /\ CounterTypes'
      BY <2>2, <2>3, <2>6 DEF Send, testVars
    <3> QED
      BY <2>6, <3>1, <3>2 DEF Send, TypeOK
  <2>7. ASSUME NEW d \in Deliverable, HandleStart(d) PROVE TypeOK'
    <3>1. TestTypes'
      BY <2>7, EmptySeq, StartOfSender DEF HandleStart, TestTypes
    <3>2. CounterTypes'
      BY <2>7, StartOfSender DEF HandleStart, CounterTypes
    <3> QED
      BY <2>5, <2>7, <3>1, <3>2 DEF HandleStart
  <2>8. ASSUME NEW d \in Deliverable, HandleEnd(d) PROVE TypeOK'
    BY <2>4, <2>5, <2>8 DEF HandleEnd
  <2>9. ASSUME NEW d \in Deliverable, HandleQuote(d) PROVE TypeOK'
    <3>1. d.sequence \in 1 .. planned_packets /\ d \in QuotesUpTo(planned_packets)
      BY <2>9, QuoteOfSender DEF HandleQuote
    <3>2. TestTypes'
      BY <2>9, <3>1, AppendProperties DEF HandleQuote, TestTypes, TypeOK
    <3>3. CounterTypes'
      <4>1. UNCHANGED <<planned_packets, invalid_packets, duplicate_packets>>
            /\ seen_sequences' = seen_sequences \cup {d.sequence}
            /\ valid_packets' = valid_packets + 1
        BY <2>9 DEF HandleQuote
      <4>2. highest_sequence' \in 0 .. planned_packets
        BY <2>9, <3>1 DEF HandleQuote, CounterTypes, TypeOK
      <4>3. out_of_order_packets' \in Nat
        BY <2>9 DEF HandleQuote, CounterTypes, TypeOK
      <4>4. seen_sequences' \subseteq 1 .. planned_packets
        BY <3>1, <4>1 DEF CounterTypes, TypeOK
      <4> QED
        BY <4>1, <4>2, <4>3, <4>4 DEF CounterTypes, TypeOK
    <3> QED
      BY <2>5, <2>9, <3>2, <3>3 DEF HandleQuote
  <2>10. ASSUME NEW d \in Deliverable, HandleDuplicate(d) PROVE TypeOK'
    <3>1. d \in QuotesUpTo(planned_packets)
      BY <2>10, QuoteOfSender DEF HandleDuplicate
    <3>2. TestTypes'
      BY <2>10, <3>1, AppendProperties DEF HandleDuplicate, testVars, TestTypes, TypeOK
    <3>3. CounterTypes'
      BY <2>10 DEF HandleDuplicate, testVars, CounterTypes, TypeOK
    <3> QED
      BY <2>5, <2>10, <3>2, <3>3 DEF HandleDuplicate
  <2>11. ASSUME NEW d \in Deliverable, HandleInvalid(d) PROVE TypeOK'
    <3>1. CounterTypes'
      BY <2>11 DEF HandleInvalid, testVars, CounterTypes, TypeOK
    <3> QED
      BY <2>2, <2>5, <2>11, <3>1 DEF HandleInvalid
  <2>12. ASSUME NEW d \in Deliverable, Ignore(d) PROVE TypeOK'
    BY <2>2, <2>3, <2>5, <2>12 DEF Ignore, testVars
  <2>13. CASE Inactivity
    BY <2>1, <2>4, <2>13 DEF Inactivity, TypeOK
  <2>14. CASE Stop
    BY <2>1, <2>2, <2>3, <2>14 DEF Stop, testVars, TypeOK
  <2>15. CASE UNCHANGED vars
    BY <2>1, <2>2, <2>3, <2>15 DEF vars, testVars, TypeOK
  <2> QED
    BY <2>6, <2>7, <2>8, <2>9, <2>10, <2>11, <2>12, <2>13, <2>14, <2>15 DEF Next
<1> QED
  BY <1>1, <1>2, PTL DEF Spec
-------------------------------------------------------------------------------
(***************************************************************************)
(* Why the counters tell the order: as long as nothing was a duplicate or  *)
(* late, the numbers heard increase.  This is said by their distance to    *)
(* the highest one, so that one new number disturbs one end only.          *)
(***************************************************************************)
HeardOf(s) ==
  \A i \in 1 .. Len(heard) :
    heard[i].sequence \in 1 .. planned_packets /\ heard[i] = Quote(s, heard[i].sequence)

HeardIncreases ==
  \A i \in 1 .. Len(heard) :
    heard[i].sequence >= i /\ highest_sequence - heard[i].sequence >= Len(heard) - i

OrderInv ==
  active =>
    /\ HeardOf(sender)
    /\ valid_packets + duplicate_packets = Len(heard)
    /\ highest_sequence = 0 \/ highest_sequence \in seen_sequences
    /\ duplicate_packets = 0 /\ out_of_order_packets = 0 =>
         HeardIncreases /\ highest_sequence >= Len(heard)

(* A complete count of increasing numbers is the whole stream.             *)
LEMMA CompleteInOrder ==
  ASSUME TypeOK, OrderInv, active, integrity_ok(planned_packets)
  PROVE  heard = WholeStream(sender)
<1> DEFINE P == planned_packets
<1>1. P \in Nat /\ P = Planned[sender]
  BY DEF TypeOK, TestTypes, CounterTypes
<1>2. duplicate_packets = 0 /\ out_of_order_packets = 0 /\ P <= valid_packets
  <2>1. missing_packets(P) = 0 /\ valid_packets \in Nat
    BY DEF integrity_ok, TypeOK, TestTypes, CounterTypes
  <2> QED
    BY <1>1, <2>1 DEF integrity_ok, missing_packets
<1>3. heard \in Seq(QuotesUpTo(P)) /\ Len(heard) \in Nat
  BY LenProperties DEF TypeOK, TestTypes, CounterTypes
<1>4. Len(heard) = P /\ highest_sequence = P
  BY <1>1, <1>2, <1>3 DEF OrderInv, TypeOK, TestTypes, CounterTypes
<1>5. ASSUME NEW i \in 1 .. P PROVE heard[i] = Quote(sender, i)
  <2>1. heard[i].sequence \in 1 .. P /\ heard[i] = Quote(sender, heard[i].sequence)
    BY <1>4 DEF OrderInv, HeardOf
  <2>2. heard[i].sequence >= i /\ P - heard[i].sequence >= P - i
    BY <1>2, <1>4 DEF OrderInv, HeardIncreases
  <2>3. heard[i].sequence = i
    BY <1>1, <2>1, <2>2
  <2> QED
    BY <2>1, <2>3
<1> QED
  BY <1>1, <1>3, <1>4, <1>5, LenProperties DEF WholeStream

(* What a summary with integrity was made of.                              *)
LEMMA SummaryOfWholeStream ==
  ASSUME TypeOK, OrderInv, active, NEW count, NEW timed_out, finish(count, timed_out)
  PROVE  IntegrityMeansStreamArrived'
<1>1. report'.integrity_ok = integrity_ok(count) /\ report'.heard = heard
      /\ report'.stream = sender
  BY DEF finish
<1>2. CASE integrity_ok(count)
  <2>1. count = planned_packets
    BY <1>2 DEF integrity_ok
  <2>2. heard = WholeStream(sender)
    BY <1>2, <2>1, CompleteInOrder
  <2> QED
    BY <1>1, <2>2 DEF IntegrityMeansStreamArrived, WholeStream, Quote
<1>3. CASE ~integrity_ok(count)
  BY <1>1, <1>3 DEF IntegrityMeansStreamArrived
<1> QED
  BY <1>2, <1>3

(* A new quote at the end of those heard.                                  *)
LEMMA QuoteKeepsOrder ==
  ASSUME TypeOK, OrderInv, NEW d \in Deliverable, HandleQuote(d)
  PROVE  OrderInv'
<1> DEFINE P == planned_packets
           h == d.sequence
           n == Len(heard)
<1>1. h \in 1 .. P /\ d = Quote(sender, h) /\ active /\ P \in Nat
      /\ d \in QuotesUpTo(P)
  BY QuoteOfSender DEF HandleQuote, IsQuote, TypeOK, TestTypes, CounterTypes
<1>2. heard \in Seq(QuotesUpTo(P)) /\ n \in Nat
  BY LenProperties DEF TypeOK, TestTypes, CounterTypes
<1>3. /\ Len(heard') = n + 1 /\ heard'[n + 1] = d
      /\ \A i \in 1 .. n : heard'[i] = heard[i]
  BY <1>1, <1>2, AppendProperties DEF HandleQuote
<1>4. UNCHANGED <<active, sender, planned_packets, duplicate_packets>>
  BY DEF HandleQuote
<1>5. HeardOf(sender)'
  <2> SUFFICES ASSUME NEW i \in 1 .. n + 1
               PROVE  heard'[i].sequence \in 1 .. P
                      /\ heard'[i] = Quote(sender, heard'[i].sequence)
    BY <1>3, <1>4 DEF HeardOf, Quote
  <2>1. CASE i = n + 1
    BY <1>1, <1>3, <2>1
  <2>2. CASE i \in 1 .. n
    BY <1>1, <1>3, <2>2 DEF OrderInv, HeardOf
  <2> QED
    BY <1>2, <2>1, <2>2
<1>6. (valid_packets + duplicate_packets = Len(heard))'
  BY <1>1, <1>2, <1>3 DEF HandleQuote, OrderInv, TypeOK, TestTypes, CounterTypes
<1>7. (highest_sequence = 0 \/ highest_sequence \in seen_sequences)'
  BY <1>1 DEF HandleQuote, OrderInv
<1>8. ASSUME duplicate_packets' = 0, out_of_order_packets' = 0
      PROVE  HeardIncreases' /\ highest_sequence' >= Len(heard')
  <2>1. duplicate_packets = 0 /\ out_of_order_packets = 0 /\ h >= highest_sequence
    BY <1>1, <1>4, <1>8 DEF HandleQuote, TypeOK, TestTypes, CounterTypes
  <2>2. h # highest_sequence
    BY <1>1 DEF HandleQuote, OrderInv
  <2>3. highest_sequence \in Nat /\ h > highest_sequence /\ highest_sequence' = h
    BY <1>1, <2>1, <2>2 DEF HandleQuote, TypeOK, TestTypes, CounterTypes
  <2>4. HeardIncreases /\ highest_sequence >= n
    BY <1>1, <2>1 DEF OrderInv
  <2>5. h >= n + 1
    BY <1>1, <1>2, <2>3, <2>4
  <2>6. ASSUME NEW i \in 1 .. n + 1
        PROVE  heard'[i].sequence >= i /\ h - heard'[i].sequence >= (n + 1) - i
    <3>1. CASE i = n + 1
      BY <1>1, <1>3, <2>5, <3>1
    <3>2. CASE i \in 1 .. n
      <4>1. heard[i].sequence \in 1 .. P
        BY <1>1, <3>2 DEF OrderInv, HeardOf
      <4>2. heard[i].sequence >= i /\ highest_sequence - heard[i].sequence >= n - i
        BY <2>4, <3>2 DEF HeardIncreases
      <4> QED
        BY <1>1, <1>2, <1>3, <2>3, <3>2, <4>1, <4>2
    <3> QED
      BY <1>2, <3>1, <3>2
  <2> QED
    BY <1>3, <2>3, <2>5, <2>6 DEF HeardIncreases
<1> QED
  BY <1>5, <1>6, <1>7, <1>8 DEF OrderInv

(* A duplicate at the end of those heard: nothing is claimed of its order. *)
LEMMA DuplicateKeepsOrder ==
  ASSUME TypeOK, OrderInv, NEW d \in Deliverable, HandleDuplicate(d)
  PROVE  OrderInv'
<1> DEFINE P == planned_packets
           n == Len(heard)
<1>1. d.sequence \in 1 .. P /\ d = Quote(sender, d.sequence) /\ active /\ P \in Nat
      /\ d \in QuotesUpTo(P)
  BY QuoteOfSender DEF HandleDuplicate, IsQuote, TypeOK, TestTypes, CounterTypes
<1>2. heard \in Seq(QuotesUpTo(P)) /\ n \in Nat
  BY LenProperties DEF TypeOK, TestTypes, CounterTypes
<1>3. /\ Len(heard') = n + 1 /\ heard'[n + 1] = d
      /\ \A i \in 1 .. n : heard'[i] = heard[i]
  BY <1>1, <1>2, AppendProperties DEF HandleDuplicate
<1>4. HeardOf(sender)'
  <2> SUFFICES ASSUME NEW i \in 1 .. n + 1
               PROVE  heard'[i].sequence \in 1 .. P
                      /\ heard'[i] = Quote(sender, heard'[i].sequence)
    BY <1>3 DEF HandleDuplicate, testVars, HeardOf, Quote
  <2>1. CASE i = n + 1
    BY <1>1, <1>3, <2>1
  <2>2. CASE i \in 1 .. n
    BY <1>1, <1>3, <2>2 DEF OrderInv, HeardOf
  <2> QED
    BY <1>2, <2>1, <2>2
<1>5. duplicate_packets' # 0 /\ (valid_packets + duplicate_packets = Len(heard))'
  <2>1. duplicate_packets' = duplicate_packets + 1 /\ valid_packets' = valid_packets
    BY DEF HandleDuplicate
  <2>2. valid_packets + duplicate_packets = n /\ duplicate_packets \in Nat /\ valid_packets \in Nat
    BY <1>1 DEF OrderInv, TypeOK, CounterTypes
  <2> QED BY <1>2, <1>3, <2>1, <2>2
<1>6. (highest_sequence = 0 \/ highest_sequence \in seen_sequences)'
  BY <1>1 DEF HandleDuplicate, testVars, OrderInv
<1> QED
  BY <1>4, <1>5, <1>6 DEF OrderInv

(***************************************************************************)
(* "Integrity" of a summary means that the receiver heard the whole stream *)
(* of its sender, each quote once and in order, whatever UDP did.          *)
(***************************************************************************)
THEOREM IntegrityMeansStreamArrivedHolds == Spec => []IntegrityMeansStreamArrived
<1> DEFINE IInv == TypeOK /\ OrderInv /\ IntegrityMeansStreamArrived
<1>1. Init => OrderInv /\ IntegrityMeansStreamArrived
  BY DEF Init, OrderInv, IntegrityMeansStreamArrived
<1>2. IInv /\ [Next]_vars => OrderInv' /\ IntegrityMeansStreamArrived'
  <2> SUFFICES ASSUME TypeOK, OrderInv, IntegrityMeansStreamArrived, [Next]_vars
               PROVE  OrderInv' /\ IntegrityMeansStreamArrived'
    OBVIOUS
  <2>1. ASSUME UNCHANGED <<testVars, valid_packets, duplicate_packets,
                           out_of_order_packets, highest_sequence, heard>>
        PROVE  OrderInv'
    BY <2>1 DEF testVars, OrderInv, HeardOf, HeardIncreases, Quote
  <2>2. ASSUME UNCHANGED report PROVE IntegrityMeansStreamArrived'
    BY <2>2 DEF IntegrityMeansStreamArrived, WholeStream, Quote
  <2>3. ASSUME active, NEW count, NEW timed_out, finish(count, timed_out)
        PROVE  OrderInv' /\ IntegrityMeansStreamArrived'
    <3>1. OrderInv'
      BY <2>3 DEF finish, OrderInv
    <3> QED
      BY <2>3, <3>1, SummaryOfWholeStream
  <2>4. CASE Send
    BY <2>1, <2>2, <2>4 DEF Send, counters
  <2>5. ASSUME NEW d \in Deliverable, HandleStart(d)
        PROVE  OrderInv' /\ IntegrityMeansStreamArrived'
    <3>1. OrderInv'
      BY <2>5 DEF HandleStart, OrderInv, HeardOf, HeardIncreases
    <3> QED
      BY <2>2, <2>5, <3>1 DEF HandleStart
  <2>6. ASSUME NEW d \in Deliverable, HandleEnd(d)
        PROVE  OrderInv' /\ IntegrityMeansStreamArrived'
    BY <2>3, <2>6 DEF HandleEnd
  <2>7. ASSUME NEW d \in Deliverable, HandleQuote(d)
        PROVE  OrderInv' /\ IntegrityMeansStreamArrived'
    BY <2>2, <2>7, QuoteKeepsOrder DEF HandleQuote
  <2>8. ASSUME NEW d \in Deliverable, HandleDuplicate(d)
        PROVE  OrderInv' /\ IntegrityMeansStreamArrived'
    BY <2>2, <2>8, DuplicateKeepsOrder DEF HandleDuplicate
  <2>9. ASSUME NEW d \in Deliverable, HandleInvalid(d) \/ Ignore(d)
        PROVE  OrderInv' /\ IntegrityMeansStreamArrived'
    BY <2>1, <2>2, <2>9 DEF HandleInvalid, Ignore, counters
  <2>10. CASE Inactivity
    BY <2>3, <2>10 DEF Inactivity
  <2>11. CASE Stop
    BY <2>1, <2>2, <2>11 DEF Stop, counters
  <2>12. CASE UNCHANGED vars
    BY <2>1, <2>2, <2>12 DEF vars, counters
  <2> QED
    BY <2>4, <2>5, <2>6, <2>7, <2>8, <2>9, <2>10, <2>11, <2>12 DEF Next
<1> QED
  BY <1>1, <1>2, StreamTypes, PTL DEF Spec
-------------------------------------------------------------------------------
(***************************************************************************)
(* The counters against the history.  The last conjunct is what makes the  *)
(* missing packets exact: whichever count a summary will be about, as long *)
(* as it covers what was seen, the valid packets are the ones not missing. *)
(***************************************************************************)
Late(quotes) ==
  {i \in DOMAIN quotes :
     /\ \A j \in 1 .. i - 1 : quotes[j] # quotes[i]
     /\ \E j \in 1 .. i - 1 : quotes[j].sequence > quotes[i].sequence}

SeenOf(s) ==
  /\ HeardOf(s)
  /\ seen_sequences = Numbers(heard)
  /\ seen_sequences \subseteq 1 .. sent[s]
  /\ \A n \in seen_sequences : n <= highest_sequence
  /\ highest_sequence = 0 \/ highest_sequence \in seen_sequences

CountedOf ==
  /\ IsFiniteSet(seen_sequences) /\ valid_packets = Cardinality(seen_sequences)
  /\ valid_packets + duplicate_packets = Len(heard)
  /\ IsFiniteSet(Late(heard)) /\ out_of_order_packets = Cardinality(Late(heard))
  /\ \A c \in Nat : seen_sequences \subseteq 1 .. c =>
       Cardinality((1 .. c) \ seen_sequences) = c - valid_packets

CountInv == active => SeenOf(sender) /\ CountedOf

(* A summary after an END is of a stream that has ended, and about the     *)
(* count of its END.                                                       *)
RepairedCount(s, count) == version = "later" /\ count = Planned[s] /\ sent_packets[s] = 0

EndInv ==
  report # None /\ ~report.timed_out =>
    /\ report.stream \in Senders
    /\ phase[report.stream] = "ended"
    /\ \/ report.actual_sent = sent_packets[report.stream]
       \/ RepairedCount(report.stream, report.actual_sent)

(* A summary after silence is about the whole announced stream.            *)
TimedOutInv ==
  report # None /\ report.timed_out => Numbers(report.heard) \subseteq 1 .. report.actual_sent

LEMMA NumbersAppend ==
  ASSUME NEW S, NEW q \in Seq(S), NEW b \in S
  PROVE  Numbers(Append(q, b)) = Numbers(q) \cup {b.sequence}
<1>1. /\ Len(q) \in Nat /\ DOMAIN q = 1 .. Len(q)
      /\ DOMAIN Append(q, b) = 1 .. Len(q) + 1
      /\ \A i \in 1 .. Len(q) : Append(q, b)[i] = q[i]
      /\ Append(q, b)[Len(q) + 1] = b
  BY AppendProperties, LenProperties
<1>2. ASSUME NEW x PROVE x \in Numbers(Append(q, b)) <=> x \in Numbers(q) \/ x = b.sequence
  <2>1. x \in Numbers(Append(q, b)) <=>
          \E i \in 1 .. Len(q) + 1 : x = Append(q, b)[i].sequence
    BY <1>1 DEF Numbers
  <2>2. x \in Numbers(q) <=> \E i \in 1 .. Len(q) : x = q[i].sequence
    BY <1>1 DEF Numbers
  <2>3. \A i : i \in 1 .. Len(q) + 1 <=> i \in 1 .. Len(q) \/ i = Len(q) + 1
    BY <1>1
  <2> QED BY <1>1, <2>1, <2>2, <2>3
<1> QED BY <1>2

(* A datagram more is late itself or not, and changes nothing before it.   *)
LEMMA LateAppend ==
  ASSUME NEW S, NEW q \in Seq(S), NEW b \in S
  PROVE  /\ Late(Append(q, b)) =
              IF /\ \A j \in 1 .. Len(q) : q[j] # b
                 /\ \E j \in 1 .. Len(q) : q[j].sequence > b.sequence
              THEN Late(q) \cup {Len(q) + 1} ELSE Late(q)
         /\ Len(q) + 1 \notin Late(q)
<1> DEFINE n == Len(q)
           a == Append(q, b)
           late == /\ \A j \in 1 .. n : q[j] # b
                   /\ \E j \in 1 .. n : q[j].sequence > b.sequence
<1>1. /\ n \in Nat /\ DOMAIN q = 1 .. n /\ DOMAIN a = 1 .. n + 1
      /\ \A i \in 1 .. n : a[i] = q[i]
      /\ a[n + 1] = b
  BY AppendProperties, LenProperties
<1> HIDE DEF n, a
<1>2. ASSUME NEW i \in 1 .. n PROVE i \in Late(a) <=> i \in Late(q)
  <2>1. i \in 1 .. n + 1 /\ \A j \in 1 .. i - 1 : j \in 1 .. n
    BY <1>1
  <2>2. i \in Late(a) <=> /\ \A j \in 1 .. i - 1 : a[j] # a[i]
                          /\ \E j \in 1 .. i - 1 : a[j].sequence > a[i].sequence
    BY <1>1, <2>1 DEF Late
  <2>3. i \in Late(q) <=> /\ \A j \in 1 .. i - 1 : q[j] # q[i]
                          /\ \E j \in 1 .. i - 1 : q[j].sequence > q[i].sequence
    BY <1>1 DEF Late
  <2> QED BY <1>1, <2>1, <2>2, <2>3
<1>3. n + 1 \in Late(a) <=> late
  <2>1. n + 1 \in DOMAIN a /\ (n + 1) - 1 = n
    BY <1>1
  <2>2. n + 1 \in Late(a) <=> /\ \A j \in 1 .. n : a[j] # a[n + 1]
                              /\ \E j \in 1 .. n : a[j].sequence > a[n + 1].sequence
    BY <2>1 DEF Late
  <2> QED BY <1>1, <2>2
<1>4. /\ \A i \in Late(a) : i \in 1 .. n \/ i = n + 1
      /\ \A i \in Late(q) : i \in 1 .. n
  <2>1. \A i : i \in 1 .. n + 1 <=> i \in 1 .. n \/ i = n + 1
    BY <1>1
  <2> QED BY <1>1, <2>1 DEF Late
<1>5. n + 1 \notin Late(q)
  BY <1>1, <1>4
<1> HIDE DEF late
<1>6. CASE late
  <2>1. Late(a) = Late(q) \cup {n + 1}
    BY <1>2, <1>3, <1>4, <1>6
  <2> QED BY <1>5, <1>6, <2>1 DEF n, a, late
<1>7. CASE ~late
  <2>1. Late(a) = Late(q)
    BY <1>2, <1>3, <1>4, <1>7
  <2> QED BY <1>5, <1>7, <2>1 DEF n, a, late
<1> QED BY <1>6, <1>7

LEMMA QuoteWasSent ==
  ASSUME NEW d \in Deliverable, IsQuote(d)
  PROVE  d.sequence \in 1 .. sent[sender]
<1>1. d.type = "quote" /\ d.sender = sender
  BY DEF IsQuote
<1>2. PICK s \in Senders : d \in {Quote(s, n) : n \in 1 .. sent[s]}
  BY <1>1 DEF Deliverable, Start, End, Garbled, Other
<1>3. PICK n \in 1 .. sent[s] : d = Quote(s, n)
  BY <1>2
<1> QED BY <1>1, <1>3 DEF Quote

(* What happens to the senders, or to the invalid packets, leaves the      *)
(* counts as they are: a sender only ever sends more.                      *)
LEMMA CountFrame ==
  ASSUME TypeOK, CountInv, \A s \in Senders : sent[s] \in Nat /\ sent'[s] \in Nat /\ sent[s] <= sent'[s],
         UNCHANGED <<testVars, valid_packets, duplicate_packets, out_of_order_packets,
                     highest_sequence, heard>>
  PROVE  CountInv'
<1> SUFFICES ASSUME active PROVE SeenOf(sender)' /\ CountedOf'
  BY DEF CountInv, testVars
<1>1. UNCHANGED <<active, sender, planned_packets, seen_sequences, valid_packets,
                  duplicate_packets, out_of_order_packets, highest_sequence, heard>>
  BY DEF testVars
<1>2. SeenOf(sender) /\ CountedOf /\ sender \in Senders
  BY DEF CountInv, TypeOK, TestTypes
<1>3. seen_sequences \subseteq 1 .. sent'[sender]
  <2>1. \A n \in 1 .. sent[sender] : n \in 1 .. sent'[sender]
    BY <1>2
  <2> QED BY <1>2, <2>1 DEF SeenOf
<1>4. HeardOf(sender)'
  BY <1>1, <1>2 DEF SeenOf, HeardOf, Quote
<1>5. SeenOf(sender)'
  BY <1>1, <1>2, <1>3, <1>4 DEF SeenOf, Numbers
<1>6. CountedOf'
  BY <1>1, <1>2 DEF CountedOf, Late
<1> QED BY <1>5, <1>6

LEMMA StartBeginsCount ==
  ASSUME NEW d \in Deliverable, HandleStart(d), sent' = sent
  PROVE  CountInv'
<1>1. /\ seen_sequences' = {} /\ valid_packets' = 0 /\ duplicate_packets' = 0
      /\ out_of_order_packets' = 0 /\ highest_sequence' = 0 /\ heard' = <<>>
  BY DEF HandleStart
<1>2. Len(heard') = 0 /\ DOMAIN heard' = {}
  BY <1>1, EmptySeq
<1>3. Numbers(heard') = {} /\ Late(heard') = {}
  BY <1>2 DEF Numbers, Late
<1>4. SeenOf(sender)'
  <2>1. HeardOf(sender)'
    BY <1>2 DEF HeardOf
  <2> QED BY <1>1, <1>3, <2>1 DEF SeenOf, Numbers
<1>5. ASSUME NEW c \in Nat PROVE Cardinality((1 .. c) \ seen_sequences') = c - valid_packets'
  <2>1. (1 .. c) \ seen_sequences' = 1 .. c
    BY <1>1
  <2>2. Cardinality(1 .. c) = c
    BY FS_Interval
  <2> QED BY <1>1, <2>1, <2>2
<1>6. CountedOf'
  BY <1>1, <1>2, <1>3, <1>5, FS_EmptySet DEF CountedOf, Late
<1> QED BY <1>4, <1>6 DEF CountInv

LEMMA QuoteKeepsCount ==
  ASSUME TypeOK, CountInv, NEW d \in Deliverable, HandleQuote(d)
  PROVE  CountInv'
<1> DEFINE P == planned_packets
           h == d.sequence
           n == Len(heard)
<1>1. /\ h \in 1 .. P /\ d = Quote(sender, h) /\ active /\ P \in Nat
      /\ d \in QuotesUpTo(P) /\ h \in 1 .. sent[sender]
  BY QuoteOfSender, QuoteWasSent DEF HandleQuote, IsQuote, TypeOK, TestTypes, CounterTypes
<1>2. /\ heard \in Seq(QuotesUpTo(P)) /\ n \in Nat
      /\ valid_packets \in Nat /\ duplicate_packets \in Nat /\ out_of_order_packets \in Nat
      /\ highest_sequence \in Nat
  BY <1>1, LenProperties DEF TypeOK, TestTypes, CounterTypes
<1>3. SeenOf(sender) /\ CountedOf
  BY <1>1 DEF CountInv
<1>4. /\ UNCHANGED <<active, sender, planned_packets, duplicate_packets, sent>>
      /\ h \notin seen_sequences
      /\ seen_sequences' = seen_sequences \cup {h}
      /\ valid_packets' = valid_packets + 1
      /\ out_of_order_packets' = out_of_order_packets + (IF h < highest_sequence THEN 1 ELSE 0)
      /\ highest_sequence' = IF h > highest_sequence THEN h ELSE highest_sequence
      /\ heard' = Append(heard, d)
  BY DEF HandleQuote, Arrives, senderVars
<1>5. /\ Len(heard') = n + 1 /\ heard'[n + 1] = d
      /\ \A i \in 1 .. n : heard'[i] = heard[i]
  BY <1>1, <1>2, <1>4, AppendProperties
<1>6. SeenOf(sender)'
  <2>1. HeardOf(sender)'
    <3> SUFFICES ASSUME NEW i \in 1 .. n + 1
                 PROVE  heard'[i].sequence \in 1 .. P
                        /\ heard'[i] = Quote(sender, heard'[i].sequence)
      BY <1>4, <1>5 DEF HeardOf, Quote
    <3>1. CASE i = n + 1
      BY <1>1, <1>5, <3>1
    <3>2. CASE i \in 1 .. n
      BY <1>3, <1>5, <3>2 DEF SeenOf, HeardOf
    <3> QED BY <1>2, <3>1, <3>2
  <2>2. seen_sequences' = Numbers(heard')
    BY <1>1, <1>2, <1>3, <1>4, NumbersAppend DEF SeenOf
  <2>3. seen_sequences' \subseteq 1 .. sent'[sender']
    BY <1>1, <1>3, <1>4 DEF SeenOf
  <2>4. /\ \A m \in seen_sequences' : m <= highest_sequence'
        /\ highest_sequence' = 0 \/ highest_sequence' \in seen_sequences'
    <3>1. h \in Nat /\ \A m \in seen_sequences : m \in Nat /\ m <= highest_sequence
      BY <1>1, <1>3 DEF SeenOf, TypeOK, CounterTypes
    <3>2. highest_sequence = 0 \/ highest_sequence \in seen_sequences
      BY <1>3 DEF SeenOf
    <3> HIDE DEF h
    <3>3. CASE h > highest_sequence
      BY <1>2, <1>4, <3>1, <3>3
    <3>4. CASE ~(h > highest_sequence)
      BY <1>2, <1>4, <3>1, <3>2, <3>4
    <3> QED BY <3>3, <3>4
  <2> QED BY <2>1, <2>2, <2>3, <2>4 DEF SeenOf, Numbers
<1>7. /\ IsFiniteSet(seen_sequences') /\ valid_packets' = Cardinality(seen_sequences')
  <2>1. IsFiniteSet(seen_sequences) /\ valid_packets = Cardinality(seen_sequences)
    BY <1>3 DEF CountedOf
  <2>2. /\ h \notin seen_sequences /\ seen_sequences' = seen_sequences \cup {h}
        /\ valid_packets' = valid_packets + 1
    BY <1>4
  <2> HIDE DEF h
  <2>3. /\ IsFiniteSet(seen_sequences \cup {h})
        /\ Cardinality(seen_sequences \cup {h}) = Cardinality(seen_sequences) + 1
    BY <2>1, <2>2, FS_AddElement
  <2> QED BY <2>1, <2>2, <2>3
<1>8. valid_packets' + duplicate_packets' = Len(heard')
  <2>1. valid_packets + duplicate_packets = Len(heard)
    BY <1>3 DEF CountedOf
  <2>2. /\ Len(heard') = Len(heard) + 1
        /\ valid_packets' = valid_packets + 1 /\ duplicate_packets' = duplicate_packets
    BY <1>4, <1>5
  <2> QED BY <1>2, <2>1, <2>2
<1>9. IsFiniteSet(Late(heard')) /\ out_of_order_packets' = Cardinality(Late(heard'))
  <2>1. /\ \A j \in 1 .. n : heard[j] = Quote(sender, heard[j].sequence)
                             /\ heard[j].sequence \in seen_sequences
    <3>1. DOMAIN heard = 1 .. n
      BY <1>2, LenProperties
    <3> QED BY <1>3, <3>1 DEF SeenOf, HeardOf, Numbers
  <2>2. \A j \in 1 .. n : heard[j] # d
    BY <1>4, <2>1
  <2>3. (\E j \in 1 .. n : heard[j].sequence > h) <=> h < highest_sequence
    <3>1. \A j \in 1 .. n : heard[j].sequence \in Nat /\ heard[j].sequence <= highest_sequence
      BY <1>3, <2>1 DEF SeenOf, TypeOK, CounterTypes
    <3>2. h \in Nat /\ h > 0
      BY <1>1
    <3>3. ASSUME h < highest_sequence PROVE \E j \in 1 .. n : heard[j].sequence > h
      <4>1. highest_sequence \in Numbers(heard)
        BY <1>2, <1>3, <3>2, <3>3 DEF SeenOf
      <4>2. PICK j \in DOMAIN heard : heard[j].sequence = highest_sequence
        BY <4>1 DEF Numbers
      <4>3. j \in 1 .. n
        BY <1>2, LenProperties
      <4> QED BY <3>2, <3>3, <4>2, <4>3, <1>2
    <3>4. ASSUME NEW j \in 1 .. n, heard[j].sequence > h PROVE h < highest_sequence
      <4> HIDE DEF h
      <4> QED BY <3>1, <3>2, <3>4, <1>2
    <3> QED BY <3>3, <3>4
  <2>4. /\ Late(heard') = IF h < highest_sequence THEN Late(heard) \cup {n + 1} ELSE Late(heard)
        /\ n + 1 \notin Late(heard)
    <3>1. /\ Late(heard') =
               IF /\ \A j \in 1 .. n : heard[j] # d
                  /\ \E j \in 1 .. n : heard[j].sequence > h
               THEN Late(heard) \cup {n + 1} ELSE Late(heard)
          /\ n + 1 \notin Late(heard)
      BY <1>1, <1>2, <1>4, LateAppend
    <3> QED BY <2>2, <2>3, <3>1
  <2>5. IsFiniteSet(Late(heard)) /\ out_of_order_packets = Cardinality(Late(heard))
    BY <1>3 DEF CountedOf
  <2> HIDE DEF h
  <2>6. CASE h < highest_sequence
    BY <1>4, <2>4, <2>5, <2>6, FS_AddElement
  <2>7. CASE ~(h < highest_sequence)
    BY <1>2, <1>4, <2>4, <2>5, <2>7
  <2> QED BY <2>6, <2>7
<1>10. ASSUME NEW c \in Nat, seen_sequences' \subseteq 1 .. c
       PROVE  Cardinality((1 .. c) \ seen_sequences') = c - valid_packets'
  <2> DEFINE rest == (1 .. c) \ seen_sequences
  <2>1. seen_sequences \subseteq 1 .. c /\ h \in rest /\ (1 .. c) \ seen_sequences' = rest \ {h}
    BY <1>4, <1>10
  <2>2. Cardinality(rest) = c - valid_packets
    BY <1>3, <2>1 DEF CountedOf
  <2>3. IsFiniteSet(rest)
    <3>1. IsFiniteSet(1 .. c)
      BY FS_Interval
    <3> QED BY <3>1, FS_Subset
  <2> HIDE DEF rest, h
  <2>4. Cardinality(rest \ {h}) = Cardinality(rest) - 1
    BY <2>1, <2>3, FS_RemoveElement
  <2>5. Cardinality((1 .. c) \ seen_sequences') = Cardinality(rest \ {h})
    BY <2>1
  <2>6. valid_packets' = valid_packets + 1 /\ valid_packets \in Nat
    BY <1>2, <1>4
  <2> QED BY <2>2, <2>4, <2>5, <2>6
<1>11. CountedOf'
  BY <1>7, <1>8, <1>9, <1>10 DEF CountedOf, Late
<1> QED BY <1>6, <1>11 DEF CountInv

LEMMA DuplicateKeepsCount ==
  ASSUME TypeOK, CountInv, NEW d \in Deliverable, HandleDuplicate(d)
  PROVE  CountInv'
<1> DEFINE P == planned_packets
           h == d.sequence
           n == Len(heard)
<1>1. /\ h \in 1 .. P /\ d = Quote(sender, h) /\ active /\ P \in Nat
      /\ d \in QuotesUpTo(P)
  BY QuoteOfSender DEF HandleDuplicate, IsQuote, TypeOK, TestTypes, CounterTypes
<1>2. /\ heard \in Seq(QuotesUpTo(P)) /\ n \in Nat
      /\ valid_packets \in Nat /\ duplicate_packets \in Nat
  BY <1>1, LenProperties DEF TypeOK, TestTypes, CounterTypes
<1>3. SeenOf(sender) /\ CountedOf
  BY <1>1 DEF CountInv
<1>4. /\ UNCHANGED <<active, sender, planned_packets, seen_sequences, valid_packets,
                     out_of_order_packets, highest_sequence, sent>>
      /\ h \in seen_sequences
      /\ duplicate_packets' = duplicate_packets + 1
      /\ heard' = Append(heard, d)
  BY DEF HandleDuplicate, Arrives, senderVars, testVars
<1>5. /\ Len(heard') = n + 1 /\ heard'[n + 1] = d
      /\ \A i \in 1 .. n : heard'[i] = heard[i]
  BY <1>1, <1>2, <1>4, AppendProperties
<1>6. SeenOf(sender)'
  <2>1. HeardOf(sender)'
    <3> SUFFICES ASSUME NEW i \in 1 .. n + 1
                 PROVE  heard'[i].sequence \in 1 .. P
                        /\ heard'[i] = Quote(sender, heard'[i].sequence)
      BY <1>4, <1>5 DEF HeardOf, Quote
    <3>1. CASE i = n + 1
      BY <1>1, <1>5, <3>1
    <3>2. CASE i \in 1 .. n
      BY <1>3, <1>5, <3>2 DEF SeenOf, HeardOf
    <3> QED BY <1>2, <3>1, <3>2
  <2>2. seen_sequences' = Numbers(heard')
    <3>1. Numbers(heard') = Numbers(heard) \cup {h}
      BY <1>1, <1>2, <1>4, NumbersAppend
    <3> QED BY <1>3, <1>4, <3>1 DEF SeenOf
  <2> QED BY <1>3, <1>4, <2>1, <2>2 DEF SeenOf, Numbers
<1>7. Late(heard') = Late(heard)
  <2>1. \E j \in 1 .. n : heard[j] = d
    <3>1. PICK j \in DOMAIN heard : heard[j].sequence = h
      BY <1>3, <1>4 DEF SeenOf, Numbers
    <3>2. j \in 1 .. n
      BY <1>2, LenProperties
    <3>3. heard[j] = Quote(sender, h)
      BY <1>3, <3>1, <3>2 DEF SeenOf, HeardOf
    <3> QED BY <1>1, <3>2, <3>3
  <2>2. Late(heard') =
          IF /\ \A j \in 1 .. n : heard[j] # d
             /\ \E j \in 1 .. n : heard[j].sequence > h
          THEN Late(heard) \cup {n + 1} ELSE Late(heard)
    BY <1>1, <1>2, <1>4, LateAppend
  <2> QED BY <2>1, <2>2
<1>8. valid_packets' + duplicate_packets' = Len(heard')
  BY <1>2, <1>3, <1>4, <1>5 DEF CountedOf
<1>9. CountedOf'
  <2>1. Late(heard)' = Late(heard)
    BY <1>7 DEF Late
  <2> QED BY <1>3, <1>4, <1>8, <2>1 DEF CountedOf
<1> QED BY <1>6, <1>9 DEF CountInv

(* A summary is made of a test in progress.                                *)
LEMMA SummaryIsExact ==
  ASSUME TypeOK, CountInv, active, NEW count \in Nat, NEW timed_out,
         finish(count, timed_out), UNCHANGED sent,
         \/ seen_sequences \subseteq 1 .. count
         \/ sent[sender] = count + 1
  PROVE  MissingAccounted'
<1> DEFINE unheard   == (1 .. count) \ seen_sequences
           uncounted == seen_sequences \ (1 .. count)
           missing   == missing_packets(count)
<1>1. /\ report'.missing_packets = missing /\ report'.stream = sender
      /\ report'.actual_sent = count /\ report'.heard = heard
      /\ report' = [stream |-> sender, actual_sent |-> count,
                    missing_packets |-> missing_packets(count),
                    integrity_ok |-> integrity_ok(count),
                    timed_out |-> timed_out, heard |-> heard]
  BY DEF finish
<1>2. /\ seen_sequences = Numbers(heard) /\ seen_sequences \subseteq 1 .. sent[sender]
      /\ valid_packets \in Nat /\ sent[sender] \in Nat
      /\ \A c \in Nat : seen_sequences \subseteq 1 .. c =>
           Cardinality((1 .. c) \ seen_sequences) = c - valid_packets
  BY DEF CountInv, CountedOf, SeenOf, TypeOK, TestTypes, CounterTypes, SenderTypes
<1>3. IsFiniteSet(unheard) /\ Cardinality(unheard) \in Nat
      /\ (Cardinality(unheard) = 0 <=> unheard = {})
  <2>1. IsFiniteSet(unheard)
    BY FS_Interval, FS_Subset
  <2> QED BY <2>1, FS_CardinalityType, FS_EmptySet
<1>4. /\ missing = IF unheard = {} THEN 0 ELSE Cardinality(unheard) - Cardinality(uncounted)
      /\ uncounted # {} => uncounted = {sent[sender]} /\ sent[sender] = count + 1
  <2>1. CASE seen_sequences \subseteq 1 .. count
    <3>1. Cardinality(unheard) = count - valid_packets
      BY <1>2, <2>1
    <3>2. uncounted = {} /\ Cardinality(uncounted) = 0
      BY <2>1, FS_EmptySet
    <3> HIDE DEF unheard, uncounted
    <3> QED BY <1>2, <1>3, <3>1, <3>2 DEF missing_packets
  <2>2. CASE sent[sender] = count + 1 /\ ~(seen_sequences \subseteq 1 .. count)
    <3>1. seen_sequences \subseteq 1 .. count + 1 /\ count + 1 \in Nat
      BY <1>2, <2>2
    <3>2. \A n \in 1 .. count + 1 : n \in 1 .. count \/ n = count + 1
      OBVIOUS
    <3>3. count + 1 \in seen_sequences /\ uncounted = {count + 1}
      BY <2>2, <3>1, <3>2
    <3>4. (1 .. count + 1) \ seen_sequences = unheard
      BY <3>2, <3>3
    <3>5. Cardinality(unheard) = (count + 1) - valid_packets
      BY <1>2, <3>1, <3>4
    <3>6. Cardinality(uncounted) = 1
      BY <3>3, FS_Singleton
    <3> HIDE DEF unheard, uncounted
    <3>7. missing = IF unheard = {} THEN 0 ELSE Cardinality(unheard) - 1
      BY <1>2, <1>3, <3>5 DEF missing_packets
    <3> QED BY <2>2, <3>3, <3>6, <3>7
  <2> QED BY <2>1, <2>2
<1>5. (1 .. count) \ Numbers(report'.heard) = unheard
      /\ Numbers(report'.heard) \ (1 .. count) = uncounted
  BY <1>1, <1>2
<1> HIDE DEF unheard, uncounted, missing
<1> QED BY <1>1, <1>4, <1>5 DEF MissingAccounted, Numbers

(* A summary stays true: a stream that has ended is not sent on.           *)
LEMMA SummaryStays ==
  ASSUME MissingAccounted, TimedOutInv, EndInv, UNCHANGED report,
         \A s \in Senders : phase[s] = "ended" => sent'[s] = sent[s]
  PROVE  MissingAccounted' /\ TimedOutInv'
<1>1. TimedOutInv'
  BY DEF TimedOutInv, Numbers
<1>2. SUFFICES ASSUME report # None PROVE MissingAccounted'
  BY <1>1 DEF MissingAccounted
<1>3. CASE report.timed_out
  BY <1>2, <1>3 DEF TimedOutInv, MissingAccounted, Numbers
<1>4. CASE ~report.timed_out
  <2>1. sent'[report.stream] = sent[report.stream]
    BY <1>2, <1>4 DEF EndInv
  <2> QED BY <1>2, <2>1 DEF MissingAccounted, Numbers
<1> QED BY <1>3, <1>4

LEMMA EndInvHolds == Spec => []EndInv
<1>1. Init => EndInv
  BY DEF Init, EndInv
<1>2. TypeOK /\ EndInv /\ [Next]_vars => EndInv'
  <2> SUFFICES ASSUME TypeOK, EndInv, [Next]_vars PROVE EndInv'
    OBVIOUS
  <2>1. ASSUME UNCHANGED <<senderVars, version, report>> PROVE EndInv'
    BY <2>1 DEF senderVars, EndInv, RepairedCount
  <2>2. ASSUME NEW d \in Deliverable, Arrives(d) PROVE UNCHANGED <<senderVars, version>>
    BY <2>2 DEF Arrives
  <2>3. CASE Send
    <3> PICK s \in Senders : SendStart(s) \/ SendQuote(s) \/ Count(s) \/ SendEnd(s)
      BY <2>3 DEF Send
    <3>1. report' = report /\ version' = version
      BY <2>3 DEF Send
    <3>2. \A t \in Senders : phase[t] = "ended" =>
            phase'[t] = "ended" /\ sent_packets'[t] = sent_packets[t]
      BY DEF TypeOK, SenderTypes, SendStart, SendQuote, Count, SendEnd
    <3> QED BY <3>1, <3>2 DEF EndInv, RepairedCount
  <2>4. ASSUME NEW d \in Deliverable, HandleEnd(d) PROVE EndInv'
    <3> DEFINE count == actual_sent(d.sequence)
    <3>1. active /\ d.type = "end" /\ d.sender = sender /\ finish(count, FALSE)
          /\ UNCHANGED <<senderVars, version>>
      BY <2>2, <2>4 DEF HandleEnd
    <3>2. PICK s \in Senders : phase[s] = "ended" /\ d = End(s)
      BY <3>1 DEF Deliverable, Start, Quote, Garbled, Other
    <3>3. s = sender /\ d.sequence = sent_packets[sender]
      BY <3>1, <3>2 DEF End
    <3>4. count = sent_packets[sender] \/ RepairedCount(sender, count)
      <4>1. /\ planned_packets = Planned[sender] /\ sent_packets[sender] \in Nat
            /\ sent_packets[sender] <= Planned[sender] /\ Planned[sender] \in Nat
        <5>1. /\ sent[s] \in Nat /\ sent_packets[s] \in Nat /\ Planned[s] \in Nat
              /\ sent[s] <= Planned[s] /\ sent[s] - sent_packets[s] \in 0 .. 1
          BY StreamTestAssumption DEF TypeOK, SenderTypes
        <5> QED BY <3>1, <3>3, <5>1 DEF TypeOK, TestTypes
      <4>2. sent_packets[sender] # 0 => sent_packets[sender] \in 1 .. planned_packets
        BY <4>1
      <4>3. version \in {"first", "later"}
        BY StreamTestAssumption DEF TypeOK
      <4> QED BY <3>3, <4>1, <4>2, <4>3 DEF actual_sent, RepairedCount
    <3>5. report'.stream = sender /\ report'.actual_sent = count
      BY <3>1 DEF finish
    <3> HIDE DEF count
    <3> QED BY <3>1, <3>2, <3>3, <3>4, <3>5 DEF senderVars, EndInv, RepairedCount
  <2>5. CASE Inactivity
    BY <2>5 DEF Inactivity, finish, EndInv
  <2>6. ASSUME NEW d \in Deliverable,
               HandleStart(d) \/ HandleQuote(d) \/ HandleDuplicate(d) \/ HandleInvalid(d) \/ Ignore(d)
        PROVE  EndInv'
    <3>1. report' = report /\ Arrives(d)
      BY <2>6 DEF HandleStart, HandleQuote, HandleDuplicate, HandleInvalid, Ignore
    <3> QED BY <2>1, <2>2, <3>1
  <2>7. CASE Stop \/ UNCHANGED vars
    BY <2>1, <2>7 DEF Stop, vars
  <2> QED BY <2>3, <2>4, <2>5, <2>6, <2>7 DEF Next
<1> QED BY <1>1, <1>2, StreamTypes, PTL DEF Spec

LEMMA CountHolds == Spec => [](CountInv /\ TimedOutInv /\ MissingAccounted)
<1> DEFINE Summary == TimedOutInv /\ MissingAccounted
           IInv == CountInv /\ Summary
<1>1. Init => IInv
  BY DEF Init, CountInv, TimedOutInv, MissingAccounted
<1>2. TypeOK /\ EndInv /\ IInv /\ [Next]_vars => IInv'
  <2> SUFFICES ASSUME TypeOK, EndInv, CountInv, Summary, [Next]_vars
               PROVE  CountInv' /\ Summary'
    OBVIOUS
  <2>1. ASSUME UNCHANGED <<sent, report>> PROVE Summary'
    BY <2>1, SummaryStays
  <2>2. ASSUME UNCHANGED sent
        PROVE  \A s \in Senders : sent[s] \in Nat /\ sent'[s] \in Nat /\ sent[s] <= sent'[s]
    BY <2>2 DEF TypeOK, SenderTypes
  <2>3. ASSUME NEW d \in Deliverable, Arrives(d) PROVE UNCHANGED sent
    BY <2>3 DEF Arrives, senderVars
  <2>4. CASE Send
    <3> PICK s \in Senders : SendStart(s) \/ SendQuote(s) \/ Count(s) \/ SendEnd(s)
      BY <2>4 DEF Send
    <3>1. \A t \in Senders : sent[t] \in Nat /\ sent'[t] \in Nat /\ sent[t] <= sent'[t]
      BY DEF TypeOK, SenderTypes, SendStart, SendQuote, Count, SendEnd
    <3>2. UNCHANGED <<testVars, valid_packets, duplicate_packets, out_of_order_packets,
                      highest_sequence, heard, report>>
      BY <2>4 DEF Send, counters
    <3>3. \A t \in Senders : phase[t] = "ended" => sent'[t] = sent[t]
      BY DEF TypeOK, SenderTypes, SendStart, SendQuote, Count, SendEnd
    <3> QED BY <3>1, <3>2, <3>3, CountFrame, SummaryStays
  <2>5. ASSUME NEW d \in Deliverable, HandleStart(d) PROVE CountInv' /\ Summary'
    BY <2>1, <2>3, <2>5, StartBeginsCount DEF HandleStart
  <2>6. ASSUME NEW count, NEW timed_out, finish(count, timed_out) PROVE CountInv'
    BY <2>6 DEF finish, CountInv
  <2>7. ASSUME NEW d \in Deliverable, HandleEnd(d) PROVE CountInv' /\ Summary'
    <3> DEFINE count == actual_sent(d.sequence)
    <3>1. active /\ d.type = "end" /\ d.sender = sender /\ finish(count, FALSE) /\ UNCHANGED sent
      BY <2>3, <2>7 DEF HandleEnd
    <3>2. d.sequence = sent_packets[sender]
      <4>1. PICK s \in Senders : d = End(s)
        BY <3>1 DEF Deliverable, Start, Quote, Garbled, Other
      <4> QED BY <3>1, <4>1 DEF End
    <3>3. /\ sender \in Senders /\ sent[sender] \in Nat /\ planned_packets \in Nat
          /\ sent_packets[sender] \in Nat /\ sent[sender] - sent_packets[sender] \in 0 .. 1
          /\ seen_sequences \subseteq 1 .. planned_packets
          /\ seen_sequences \subseteq 1 .. sent[sender]
      BY <3>1 DEF TypeOK, SenderTypes, TestTypes, CounterTypes, CountInv, SeenOf
    <3>4. count = sent_packets[sender] \/ count = planned_packets
      BY <3>2 DEF actual_sent
    <3>5. count \in Nat /\ (seen_sequences \subseteq 1 .. count \/ sent[sender] = count + 1)
      <4>1. CASE count = planned_packets
        BY <3>3, <4>1
      <4>2. CASE count = sent_packets[sender]
        <5>1. sent[sender] = sent_packets[sender] \/ sent[sender] = sent_packets[sender] + 1
          BY <3>3
        <5> QED BY <3>3, <4>2, <5>1
      <4> QED BY <3>4, <4>1, <4>2
    <3> HIDE DEF count
    <3>6. TimedOutInv'
      BY <3>1 DEF finish, TimedOutInv
    <3> QED BY <2>6, <3>1, <3>5, <3>6, SummaryIsExact
  <2>8. ASSUME NEW d \in Deliverable, HandleQuote(d) PROVE CountInv' /\ Summary'
    BY <2>1, <2>3, <2>8, QuoteKeepsCount DEF HandleQuote
  <2>9. ASSUME NEW d \in Deliverable, HandleDuplicate(d) PROVE CountInv' /\ Summary'
    BY <2>1, <2>3, <2>9, DuplicateKeepsCount DEF HandleDuplicate
  <2>10. ASSUME NEW d \in Deliverable, HandleInvalid(d) \/ Ignore(d)
         PROVE  CountInv' /\ Summary'
    <3>1. UNCHANGED sent
      BY <2>3, <2>10 DEF HandleInvalid, Ignore
    <3>2. UNCHANGED <<testVars, valid_packets, duplicate_packets, out_of_order_packets,
                      highest_sequence, heard, report>>
      BY <2>10 DEF HandleInvalid, Ignore, counters
    <3> QED BY <2>1, <2>2, <3>1, <3>2, CountFrame
  <2>11. CASE Inactivity
    <3>1. active /\ finish(planned_packets, TRUE)
      BY <2>11 DEF Inactivity
    <3>2. planned_packets \in Nat /\ seen_sequences \subseteq 1 .. planned_packets
          /\ UNCHANGED sent
      BY <2>11 DEF TypeOK, TestTypes, CounterTypes, Inactivity, senderVars
    <3>3. report'.actual_sent = planned_packets /\ report'.heard = heard
      BY <3>1 DEF finish
    <3>4. seen_sequences = Numbers(heard)
      BY <3>1 DEF CountInv, SeenOf
    <3>5. TimedOutInv'
      BY <3>2, <3>3, <3>4 DEF TimedOutInv, Numbers
    <3> QED BY <2>6, <3>1, <3>2, <3>5, SummaryIsExact
  <2>12. CASE Stop
    <3>1. UNCHANGED <<sent, testVars, valid_packets, duplicate_packets,
                      out_of_order_packets, highest_sequence, heard, report>>
      BY <2>12 DEF Stop, counters, senderVars
    <3> QED BY <2>1, <2>2, <3>1, CountFrame
  <2>13. CASE UNCHANGED vars
    <3>1. UNCHANGED <<sent, testVars, valid_packets, duplicate_packets,
                      out_of_order_packets, highest_sequence, heard, report>>
      BY <2>13 DEF vars, counters, senderVars
    <3> QED BY <2>1, <2>2, <3>1, CountFrame
  <2> QED
    BY <2>4, <2>5, <2>7, <2>8, <2>9, <2>10, <2>11, <2>12, <2>13 DEF Next
<1> QED
  BY <1>1, <1>2, StreamTypes, EndInvHolds, PTL DEF Spec

(***************************************************************************)
(* The missing packets of a summary are the numbers never heard, though    *)
(* the code subtracts two counts kept for other purposes: they were kept   *)
(* through duplicates, restarts and strangers, and an END claims less than *)
(* was heard by one quote at most, the one whose count a Ctrl-C cut off.   *)
(***************************************************************************)
THEOREM MissingAccountedHolds == Spec => []MissingAccounted
<1>1. CountInv /\ TimedOutInv /\ MissingAccounted => MissingAccounted
  OBVIOUS
<1> QED
  BY <1>1, CountHolds, PTL

(***************************************************************************)
(* Comparing with a set and with the highest number yet finds exactly the  *)
(* duplicates and the late ones among all that was heard since the START.  *)
(***************************************************************************)
THEOREM CountersExactHolds == Spec => []CountersExact
<1>1. TypeOK /\ CountInv => CountersExact
  <2> SUFFICES ASSUME TypeOK, CountInv, active
               PROVE  /\ duplicate_packets = Len(heard) - Cardinality(Numbers(heard))
                      /\ out_of_order_packets = Cardinality(Late(heard))
    BY DEF CountersExact, Late
  <2>1. /\ valid_packets = Cardinality(Numbers(heard))
        /\ valid_packets + duplicate_packets = Len(heard)
        /\ out_of_order_packets = Cardinality(Late(heard))
    BY DEF CountInv, SeenOf, CountedOf
  <2>2. valid_packets \in Nat /\ duplicate_packets \in Nat
    BY DEF TypeOK, CounterTypes
  <2> QED BY <2>1, <2>2
<1>2. CountInv /\ TimedOutInv /\ MissingAccounted => CountInv
  OBVIOUS
<1> QED
  BY <1>1, <1>2, CountHolds, StreamTypes, PTL

(***************************************************************************)
(* The "Packets sent" of a summary that an END closed are what the sender  *)
(* sent or one less, in every version, but for streams stopped before the  *)
(* first quote was counted, which the later versions report as complete.   *)
(***************************************************************************)
THEOREM SentWithinOneHolds == Spec => []SentWithinOne
<1>1. TypeOK /\ EndInv => SentWithinOne
  <2> SUFFICES ASSUME TypeOK, EndInv, report # None, ~report.timed_out
               PROVE  \/ sent[report.stream] - report.actual_sent \in 0 .. 1
                      \/ /\ version = "later"
                         /\ report.actual_sent = Planned[report.stream]
                         /\ sent[report.stream] <= 1
    BY DEF SentWithinOne
  <2>1. /\ sent[report.stream] \in Nat /\ sent_packets[report.stream] \in Nat
        /\ sent[report.stream] - sent_packets[report.stream] \in 0 .. 1
    BY DEF TypeOK, SenderTypes, EndInv
  <2>2. CASE report.actual_sent = sent_packets[report.stream]
    BY <2>1, <2>2
  <2>3. CASE RepairedCount(report.stream, report.actual_sent)
    BY <2>1, <2>3 DEF RepairedCount
  <2> QED BY <2>2, <2>3 DEF EndInv
<1> QED BY <1>1, StreamTypes, EndInvHolds, PTL
===============================================================================
