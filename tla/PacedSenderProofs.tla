--------------------------- MODULE PacedSenderProofs ---------------------------
(***************************************************************************)
(* Theorems about the paced senders and their bench, for every version,    *)
(* rate, duration, buffer, and every bound on how late a program may be.   *)
(***************************************************************************)
EXTENDS StreamBench, TLAPS

(* Integer division.                                                       *)

LEMMA Division ==
  ASSUME NEW a \in Int, NEW p \in Nat \ {0}
  PROVE  /\ a \div p \in Int
         /\ (a \div p) * p <= a
         /\ a < (a \div p) * p + p
         /\ a >= 0 => a \div p >= 0
OBVIOUS

(* Multiples of p that are at most p apart.                                *)
LEMMA Below ==
  ASSUME NEW x \in Int, NEW y \in Int, NEW p \in Nat \ {0}, x * p < y * p + p
  PROVE  x <= y
<1> SUFFICES ASSUME x >= y + 1 PROVE FALSE
  OBVIOUS
<1>1. x * p >= (y + 1) * p
  OBVIOUS
<1> QED BY <1>1

LEMMA DivisionMonotone ==
  ASSUME NEW a \in Int, NEW b \in Int, a <= b, NEW p \in Nat \ {0}
  PROVE  a \div p <= b \div p
<1> DEFINE x == a \div p
           y == b \div p
<1>1. x \in Int /\ y \in Int /\ x * p <= a /\ b < y * p + p
  BY Division
<1> HIDE DEF x, y
<1>2. x * p \in Int /\ y * p \in Int
  BY <1>1
<1>3. x * p < y * p + p
  BY <1>1, <1>2
<1>4. x <= y
  BY <1>1, <1>3, Below
<1> QED BY <1>4 DEF x, y
-------------------------------------------------------------------------------
(* The schedule.                                                           *)

LEMMA PeriodFits ==
  ASSUME pps \in Nat \ {0}
  PROVE  NANOSECONDS_PER_SECOND \div pps \in Nat
<1>1. NANOSECONDS_PER_SECOND \in Int /\ NANOSECONDS_PER_SECOND >= 0
  BY SenderAssumption
<1> QED BY <1>1, Division

LEMMA Offsets ==
  ASSUME pps \in Nat \ {0}, NEW n \in Nat \ {0}
  PROVE  offset_ns(n) \in Nat /\ offset_ns(n) <= offset_ns(n + 1)
<1>1. NANOSECONDS_PER_SECOND \in Nat /\ n - 1 \in Nat /\ n + 1 - 1 = n
  BY SenderAssumption
<1>2. CASE version = "live"
  <2> DEFINE q == NANOSECONDS_PER_SECOND \div pps
  <2>1. q \in Nat
    BY PeriodFits
  <2> HIDE DEF q
  <2>2. (n - 1) * q \in Nat /\ n * q = (n - 1) * q + q
    BY <1>1, <2>1
  <2>3. offset_ns(n) = (n - 1) * q /\ offset_ns(n + 1) = n * q
    BY <1>1, <1>2 DEF offset_ns, q
  <2> QED BY <2>1, <2>2, <2>3
<1>3. CASE version # "live"
  <2> DEFINE a == (n - 1) * NANOSECONDS_PER_SECOND
             b == n * NANOSECONDS_PER_SECOND
  <2>1. a \in Nat /\ b \in Nat /\ a <= b
    BY <1>1
  <2>2. offset_ns(n) = a \div pps /\ offset_ns(n + 1) = b \div pps
    BY <1>1, <1>3 DEF offset_ns
  <2> HIDE DEF a, b
  <2>3. a \div pps \in Int /\ a \div pps >= 0 /\ a \div pps <= b \div pps
    BY <2>1, Division, DivisionMonotone
  <2> QED BY <2>2, <2>3
<1> QED BY <1>2, <1>3

LEMMA Deadlines ==
  ASSUME pps \in Nat \ {0}, start_time_ns \in Nat, NEW n \in Nat \ {0}
  PROVE  deadline_ns(n) \in Nat /\ deadline_ns(n) >= start_time_ns
BY Offsets DEF deadline_ns

(* A lateness of one period, rounded up, reaches the next deadline.        *)
LEMMA FullPeriodReachesNext ==
  ASSUME pps \in Nat \ {0}, version # "live", NEW n \in Nat \ {0}, NEW late \in Int,
         late * pps >= NANOSECONDS_PER_SECOND
  PROVE  offset_ns(n + 1) <= offset_ns(n) + late
<1> DEFINE a == (n - 1) * NANOSECONDS_PER_SECOND
           b == n * NANOSECONDS_PER_SECOND
           x == a \div pps
           y == b \div pps
<1>1. NANOSECONDS_PER_SECOND \in Nat /\ n - 1 \in Nat /\ n + 1 - 1 = n
  BY SenderAssumption
<1>2. a \in Nat /\ b \in Nat /\ b = a + NANOSECONDS_PER_SECOND
  BY <1>1
<1>3. offset_ns(n) = x /\ offset_ns(n + 1) = y
  BY <1>1 DEF offset_ns
<1> HIDE DEF a, b
<1>4. x \in Int /\ y \in Int /\ a < x * pps + pps /\ y * pps <= b
  BY <1>2, Division
<1> HIDE DEF x, y
<1>5. (x + late) * pps = x * pps + late * pps
  BY <1>4
<1>6. x * pps \in Int /\ y * pps \in Int /\ late * pps \in Int
  BY <1>4
<1>7. y * pps < (x + late) * pps + pps
  BY <1>1, <1>2, <1>4, <1>5, <1>6
<1>8. y <= x + late
  BY <1>4, <1>7, Below
<1> QED BY <1>3, <1>8

(* Reaching the next deadline takes one period, rounded down.              *)
LEMMA NextTakesWholePeriod ==
  ASSUME pps \in Nat \ {0}, version # "live", NEW n \in Nat \ {0}
  PROVE  offset_ns(n) + NANOSECONDS_PER_SECOND \div pps <= offset_ns(n + 1)
<1> DEFINE a == (n - 1) * NANOSECONDS_PER_SECOND
           b == n * NANOSECONDS_PER_SECOND
           x == a \div pps
           y == b \div pps
           z == NANOSECONDS_PER_SECOND \div pps
<1>1. NANOSECONDS_PER_SECOND \in Nat /\ n - 1 \in Nat /\ n + 1 - 1 = n
  BY SenderAssumption
<1>2. a \in Nat /\ b \in Nat /\ b = a + NANOSECONDS_PER_SECOND
  BY <1>1
<1>3. offset_ns(n) = x /\ offset_ns(n + 1) = y
  BY <1>1 DEF offset_ns
<1> HIDE DEF a, b
<1>4. /\ x \in Int /\ y \in Int /\ z \in Int
      /\ x * pps <= a /\ z * pps <= NANOSECONDS_PER_SECOND /\ b < y * pps + pps
  BY <1>1, <1>2, Division
<1> HIDE DEF x, y, z
<1>5. (x + z) * pps = x * pps + z * pps
  BY <1>4
<1>6. x * pps \in Int /\ y * pps \in Int /\ z * pps \in Int
  BY <1>4
<1>7. (x + z) * pps < y * pps + pps
  BY <1>1, <1>2, <1>4, <1>5, <1>6
<1>8. x + z <= y
  BY <1>4, <1>7, Below
<1> QED BY <1>3, <1>8 DEF z
-------------------------------------------------------------------------------
(* Types, and what the arguments guarantee once they are accepted.         *)

Started == pc \notin {"arguments", "exit"}

CallInv ==
  /\ Started => pps \in Nat \ {0}
  /\ pc = "arguments" => datagram = None
  /\ pc \in {"settle", "anchor", "end", "pause"} => version # "live"
  /\ pc \in {"settle", "anchor", "count"} => datagram # None
  /\ pc \in {"wait", "sleep", "send"} /\ sequence # 1 => datagram # None
  /\ pc \in {"wait", "sleep", "send", "end", "pause"} /\ version # "live" => datagram # None
  /\ pc \in {"arguments", "settle", "anchor"} => sequence = 1
  /\ ~actual_timestamps => version = "optimized2"

LEMMA AcceptedRates == ASSUME TypeOK, Accepted PROVE pps \in Nat \ {0}
<1>1. pps \in Int
  BY SenderAssumption DEF TypeOK
<1>2. CASE version = "first"
  BY <1>1, <1>2, SenderAssumption DEF Accepted, validate_arguments
<1>3. CASE version = "live"
  BY <1>1, <1>3 DEF Accepted, LiveAccepts
<1>4. CASE version \notin {"first", "live"}
  BY <1>1, <1>4, SenderAssumption DEF Accepted, OptimizedAccepts
<1> QED BY <1>2, <1>3, <1>4

LEMMA PlannedIsInteger == ASSUME TypeOK PROVE planned_packets \in Int
<1>1. pps * duration \in Int /\ NANOSECONDS_PER_SECOND \in Nat \ {0}
  BY SenderAssumption DEF TypeOK
<1>2. round(pps * duration, NANOSECONDS_PER_SECOND) \in Int
  BY <1>1, Division DEF round
<1> QED BY <1>2 DEF planned_packets

LEMMA HandKeepsTypes ==
  ASSUME TypeOK, NEW type \in {"start", "quote", "end"}, NEW number \in Int, NEW stamp \in Int,
         Hand(type, number, stamp)
  PROVE  /\ datagram' \in Datagram /\ datagram' # None
         /\ quotes_out' \in Nat
         /\ datagram'.type = type /\ datagram'.number = number
         /\ datagram'.stamp = stamp /\ datagram'.at = now
BY SenderAssumption DEF Hand, TypeOK, Datagram, Counts, Clocks

LEMMA InitTypes == Init => TypeOK /\ CallInv
<1> SUFFICES ASSUME Init PROVE TypeOK /\ CallInv
  OBVIOUS
<1>1. actual_timestamps \in BOOLEAN /\ (~actual_timestamps => version = "optimized2")
  BY Zenon DEF Init
<1>2. TypeOK
  BY <1>1, SenderAssumption DEF Init, TypeOK, Clocks, Counts
<1>3. CallInv
  BY <1>1 DEF Init, CallInv, Started
<1> QED BY <1>2, <1>3

LEMMA TypesStep ==
  ASSUME TypeOK, CallInv, [Next]_vars PROVE TypeOK' /\ CallInv'
<1>0. planned_packets \in Int /\ (Accepted => pps \in Nat \ {0})
  BY AcceptedRates, PlannedIsInteger
<1> USE DEF TypeOK, CallInv, Clocks, Counts, Started, callVars, clockVars, outVars
<1>1. CASE Reject
  BY <1>1 DEF Reject
<1>2. CASE SendStart
  <2>1. Hand("start", planned_packets, now) /\ pc' = "settle"
    BY <1>2 DEF SendStart
  <2>2. datagram' \in Datagram /\ datagram' # None /\ quotes_out' \in Nat
    BY <1>0, <2>1, HandKeepsTypes
  <2> QED BY <1>0, <1>2, <2>1, <2>2, SenderAssumption DEF SendStart
<1>3. CASE ScheduleLive
  BY <1>0, <1>3, SenderAssumption DEF ScheduleLive
<1>4. CASE ReadWallClock \/ StartClock
  BY <1>4 DEF ReadWallClock, StartClock
<1>5. CASE Sleep
  BY <1>5, Deadlines, SenderAssumption DEF Sleep, spin_window
<1>6. CASE WakeUp
  BY <1>6 DEF WakeUp
<1>7. CASE Ready
  BY <1>7 DEF Ready
<1>8. CASE SendPacket
  <2>1. PICK stamp \in QuoteStamps : Hand(TypeOf(sequence), sequence, stamp)
    BY <1>8 DEF SendPacket
  <2>2. stamp \in Int
    BY <1>8, Offsets DEF SendPacket, QuoteStamps
  <2>3. TypeOf(sequence) \in {"start", "quote", "end"}
    BY DEF TypeOf
  <2>4. datagram' \in Datagram /\ datagram' # None /\ quotes_out' \in Nat
    BY <2>1, <2>2, <2>3, HandKeepsTypes
  <2> QED BY <1>8, <2>4 DEF SendPacket
<1>9. CASE SendFails
  BY <1>9 DEF SendFails, LeaveLoop
<1>10. CASE NextQuote
  BY <1>10 DEF NextQuote, LeaveLoop
<1>11. CASE SendEnd
  <2>1. datagram' \in Datagram /\ datagram' # None /\ quotes_out' \in Nat
    BY <1>11, HandKeepsTypes DEF SendEnd
  <2> QED BY <1>11, <2>1, SenderAssumption DEF SendEnd
<1>12. CASE NextMarker
  BY <1>12 DEF NextMarker
<1>13. CASE Interrupt
  BY <1>13 DEF Interrupt, LeaveLoop
<1>14. CASE Elapse
  BY <1>14 DEF Elapse
<1>15. CASE ControlFails
  BY <1>15 DEF ControlFails
<1>16. CASE UNCHANGED vars
  BY <1>16 DEF vars
<1> QED BY <1>1, <1>2, <1>3, <1>4, <1>5, <1>6, <1>7, <1>8, <1>9, <1>10, <1>11, <1>12, <1>13,
           <1>14, <1>15, <1>16 DEF Next, Program, Exited
-------------------------------------------------------------------------------
(* Pacing.                                                                 *)

(* The latest time at which the wait for the next quote can be over.       *)
Latest ==
  Larger(deadline_ns(sequence) + Larger(STALL, OVERSLEEP - spin_window),
         IF sequence = 1 THEN start_time_ns ELSE datagram.at + STALL)

PaceInv ==
  /\ pc = "sleep" =>
       /\ wake = deadline_ns(sequence) - spin_window
       /\ now <= wake + OVERSLEEP
  /\ pc = "wait" => now <= Latest
  /\ pc = "send" =>
       /\ ready_time_ns >= deadline_ns(sequence)
       /\ ready_time_ns <= Latest
       /\ ready_time_ns <= now
  /\ pc = "count" => wake = datagram.at /\ now <= wake + STALL

LEMMA LatestIsLate ==
  ASSUME TypeOK, CallInv, pc \in {"wait", "sleep", "send"}
  PROVE  /\ deadline_ns(sequence) \in Int /\ spin_window \in Nat /\ Latest \in Int
         /\ Latest >= deadline_ns(sequence) + STALL
         /\ Latest >= deadline_ns(sequence) + OVERSLEEP - spin_window
<1>1. deadline_ns(sequence) \in Int
  BY Deadlines DEF TypeOK, CallInv, Started, Clocks, Counts
<1>2. spin_window \in Nat /\ OVERSLEEP \in Nat /\ STALL \in Nat
  BY SenderAssumption DEF spin_window
<1>3. (IF sequence = 1 THEN start_time_ns ELSE datagram.at + STALL) \in Int
  BY <1>2 DEF TypeOK, CallInv, Clocks, Counts, Datagram
<1> QED BY <1>1, <1>2, <1>3 DEF Latest, Larger

(* The schedule does not move once the loop has begun.                     *)
LEMMA ScheduleFixed ==
  ASSUME UNCHANGED <<callVars, start_time_ns, sequence>>
  PROVE  /\ deadline_ns(sequence)' = deadline_ns(sequence) /\ spin_window' = spin_window
         /\ sleep_from' = sleep_from
         /\ UNCHANGED datagram => Latest' = Latest
BY DEF callVars, deadline_ns, offset_ns, spin_window, sleep_from, Latest

LEMMA PaceStep ==
  ASSUME TypeOK, CallInv, TypeOK', CallInv', PaceInv, [Next]_vars PROVE PaceInv'
<1> USE DEF PaceInv
<1>1. CASE Reject \/ SendStart \/ ReadWallClock
  BY <1>1 DEF Reject, SendStart, ReadWallClock
<1>2. CASE ScheduleLive \/ StartClock
  <2>1. /\ pc' = "wait" /\ sequence' = 1 /\ sequence = 1 /\ now' = now
        /\ now <= start_time_ns' /\ start_time_ns' \in Nat /\ now \in Nat
        /\ UNCHANGED callVars
    BY <1>2, SenderAssumption
       DEF ScheduleLive, StartClock, TypeOK, Clocks, CallInv
  <2>2. offset_ns(1) \in Nat
    <3>1. pps \in Nat \ {0}
      BY <2>1 DEF CallInv, Started, callVars
    <3> QED BY <3>1, Offsets
  <2>3. spin_window \in Nat /\ OVERSLEEP \in Nat /\ STALL \in Nat
    BY SenderAssumption DEF spin_window
  <2>4. /\ offset_ns(1)' = offset_ns(1) /\ spin_window' = spin_window
    BY <2>1 DEF offset_ns, spin_window, callVars
  <2>5. Latest' = Larger(start_time_ns' + offset_ns(1) + Larger(STALL, OVERSLEEP - spin_window),
                         start_time_ns')
    BY <2>1, <2>4 DEF Latest, deadline_ns
  <2>6. Latest' >= start_time_ns' /\ Latest' \in Int
    BY <2>1, <2>2, <2>3, <2>5 DEF Larger
  <2> QED BY <2>1, <2>6
<1>4. CASE Sleep
  <2>1. /\ pc = "wait" /\ pc' = "sleep" /\ now' = now
        /\ wake' = deadline_ns(sequence) - spin_window
        /\ deadline_ns(sequence) - now > sleep_from
        /\ deadline_ns(sequence)' = deadline_ns(sequence) /\ spin_window' = spin_window
    BY <1>4, ScheduleFixed DEF Sleep, clockVars
  <2>2. sleep_from >= spin_window /\ sleep_from \in Nat /\ OVERSLEEP \in Nat
    BY SenderAssumption DEF sleep_from, spin_window
  <2>3. now \in Int
    BY DEF TypeOK, Clocks
  <2> QED BY <2>1, <2>2, <2>3, LatestIsLate
<1>5. CASE WakeUp
  <2>1. /\ pc = "sleep" /\ pc' = "wait" /\ now' = now /\ Latest' = Latest
    BY <1>5, ScheduleFixed DEF WakeUp, clockVars, outVars
  <2>2. now \in Int /\ OVERSLEEP \in Nat /\ STALL \in Nat
    BY SenderAssumption DEF TypeOK, Clocks
  <2> QED BY <2>1, <2>2, LatestIsLate
<1>6. CASE Ready
  <2>1. /\ pc = "wait" /\ pc' = "send" /\ now' = now /\ ready_time_ns' = now
        /\ now >= deadline_ns(sequence)
        /\ deadline_ns(sequence)' = deadline_ns(sequence) /\ Latest' = Latest
    BY <1>6, ScheduleFixed DEF Ready, Due, clockVars, outVars
  <2>2. now \in Int
    BY DEF TypeOK, Clocks
  <2> QED BY <2>1, <2>2
<1>7. CASE SendPacket
  <2>1. pc' = "count" /\ wake' = now /\ now' = now /\ datagram'.at = now
    BY <1>7 DEF SendPacket, Hand
  <2>2. now \in Nat /\ STALL \in Nat
    BY SenderAssumption DEF TypeOK, Clocks
  <2> QED BY <2>1, <2>2
<1>8. CASE NextQuote
  <2>1. CASE sequence = planned_packets
    BY <1>8, <2>1 DEF NextQuote, LeaveLoop
  <2>2. CASE sequence # planned_packets
    <3>1. /\ pc = "count" /\ pc' = "wait" /\ now' = now /\ datagram' = datagram
          /\ sequence' = sequence + 1
      BY <1>8, <2>2 DEF NextQuote, outVars
    <3>2. /\ sequence' # 1 /\ now <= datagram.at + STALL /\ now \in Int /\ datagram.at \in Int
      BY <3>1 DEF TypeOK, Clocks, Counts, CallInv, Datagram
    <3>3. offset_ns(sequence + 1) \in Nat /\ start_time_ns \in Nat
      <4>1. pps \in Nat \ {0} /\ sequence + 1 \in Nat \ {0}
        BY <3>1 DEF CallInv, Started, TypeOK, Counts
      <4> QED BY <4>1, Offsets DEF TypeOK, Clocks
    <3>4. spin_window \in Nat /\ OVERSLEEP \in Nat /\ STALL \in Nat
      BY SenderAssumption DEF spin_window
    <3>5. UNCHANGED callVars /\ start_time_ns' = start_time_ns
      BY <1>8 DEF NextQuote, clockVars
    <3>6. deadline_ns(sequence)' = start_time_ns + offset_ns(sequence + 1)
          /\ spin_window' = spin_window
      BY <3>1, <3>5 DEF deadline_ns, offset_ns, spin_window, callVars
    <3>7. Latest' = Larger(start_time_ns + offset_ns(sequence + 1)
                             + Larger(STALL, OVERSLEEP - spin_window), datagram.at + STALL)
      BY <3>1, <3>2, <3>6 DEF Latest
    <3>8. Latest' >= now
      BY <3>2, <3>3, <3>4, <3>7 DEF Larger
    <3> QED BY <3>1, <3>8
  <2> QED BY <2>1, <2>2
<1>9. CASE SendFails \/ ControlFails \/ SendEnd \/ NextMarker \/ Interrupt
  BY <1>9 DEF SendFails, ControlFails, SendEnd, NextMarker, Interrupt, LeaveLoop
<1>10. CASE Elapse
  <2>1. /\ pc' = pc /\ now' = now + 1 /\ UNCHANGED <<wake, ready_time_ns, datagram>>
        /\ deadline_ns(sequence)' = deadline_ns(sequence) /\ spin_window' = spin_window
        /\ Latest' = Latest
    BY <1>10, ScheduleFixed DEF Elapse, clockVars, outVars
  <2>2. /\ pc = "count" => now < wake + STALL
        /\ pc = "sleep" => now < wake + OVERSLEEP
        /\ pc = "wait" => deadline_ns(sequence) - now >= 1 - STALL
    <3>1. pc = "wait" => deadline_ns(sequence) - now \in 1 - STALL .. sleep_from
      BY <1>10 DEF Elapse, MayElapse
    <3> QED BY <1>10, <3>1 DEF Elapse, MayElapse
  <2>3. /\ now \in Int /\ wake \in Int /\ ready_time_ns \in Int
        /\ OVERSLEEP \in Int /\ STALL \in Int
    BY SenderAssumption DEF TypeOK, Clocks
  <2> QED BY <2>1, <2>2, <2>3, LatestIsLate
<1>11. CASE UNCHANGED vars
  BY <1>11, ScheduleFixed DEF vars, callVars, clockVars, outVars
<1> QED BY <1>1, <1>2, <1>4, <1>5, <1>6, <1>7, <1>8, <1>9, <1>10, <1>11
        DEF Next, Program, Exited
-------------------------------------------------------------------------------
(* Missed periods.                                                         *)

LEMMA MissedStep ==
  ASSUME TypeOK, CallInv, MissedPeriodsBracketed, [Next]_vars PROVE MissedPeriodsBracketed'
<1> USE DEF MissedPeriodsBracketed
<1>1. missed_deadlines \in Nat /\ next_reached \in Nat
  BY DEF TypeOK, Counts
<1>2. CASE Ready
  <2> DEFINE late == now - deadline_ns(sequence)
             missed == MissedPeriod(late)
             reached == now >= deadline_ns(sequence + 1)
  <2>1. /\ pps \in Nat \ {0} /\ sequence \in Nat \ {0} /\ now \in Nat
        /\ start_time_ns \in Nat
    BY <1>2 DEF Ready, CallInv, Started, TypeOK, Clocks, Counts
  <2>2. /\ missed_deadlines' = missed_deadlines + (IF missed THEN 1 ELSE 0)
        /\ next_reached' = next_reached + (IF reached THEN 1 ELSE 0)
        /\ version' = version
    BY <1>2 DEF Ready, callVars
  <2>3. offset_ns(sequence) \in Nat /\ offset_ns(sequence + 1) \in Nat
    <3>1. sequence + 1 \in Nat \ {0}
      BY <2>1
    <3> QED BY <2>1, <3>1, Offsets
  <2>4. version = "optimized" /\ missed => reached
    <3> SUFFICES ASSUME version = "optimized", missed PROVE reached
      OBVIOUS
    <3>1. late \in Int /\ late * pps >= NANOSECONDS_PER_SECOND
      BY <2>1, <2>3 DEF MissedPeriod, deadline_ns
    <3> HIDE DEF late
    <3>2. offset_ns(sequence + 1) <= offset_ns(sequence) + late
      BY <2>1, <3>1, FullPeriodReachesNext
    <3> QED BY <2>1, <2>3, <3>2 DEF late, deadline_ns
  <2>5. version = "optimized2" /\ reached => missed
    <3> SUFFICES ASSUME version = "optimized2", reached PROVE missed
      OBVIOUS
    <3>1. offset_ns(sequence) + NANOSECONDS_PER_SECOND \div pps <= offset_ns(sequence + 1)
      BY <2>1, NextTakesWholePeriod
    <3>2. NANOSECONDS_PER_SECOND \div pps \in Nat
      BY <2>1, PeriodFits
    <3>3. late >= NANOSECONDS_PER_SECOND \div pps
      BY <2>1, <2>3, <3>1, <3>2 DEF deadline_ns
    <3> QED BY <3>3 DEF MissedPeriod
  <2> HIDE DEF missed, reached
  <2> QED BY <1>1, <2>2, <2>4, <2>5
<1>3. CASE ~Ready
  <2>1. UNCHANGED <<version, missed_deadlines, next_reached>>
    BY <1>3 DEF Next, Program, Exited, Reject, SendStart, ScheduleLive, ReadWallClock, StartClock,
                Sleep, WakeUp, SendPacket, SendFails, ControlFails, NextQuote, SendEnd, NextMarker,
                Interrupt, Elapse, vars, callVars
  <2> QED BY <2>1
<1> QED BY <1>2, <1>3
-------------------------------------------------------------------------------
(* The count in the END.                                                   *)

InLoop == {"wait", "sleep", "send"}

CountInv ==
  version # "live" =>
    /\ pc \in {"arguments", "settle", "anchor"} \cup InLoop =>
         quotes_out = sequence - 1 /\ sent_packets = sequence - 1
    /\ pc = "count" => quotes_out = sequence /\ sent_packets = sequence - 1
    /\ pc \in {"end", "pause"} \/ markers > 0 =>
         \/ sent_packets = quotes_out
         \/ outcome \in {"interrupted", "aborted"} /\ sent_packets = quotes_out - 1
    /\ outcome = "complete" => quotes_out = planned_packets

MarkerInv ==
  /\ pc \notin {"end", "pause", "exit"} => markers = 0 /\ outcome = "running"
  /\ pc = "end" => markers < END_MARKER_REPEATS
  /\ pc = "pause" => markers \in 1 .. END_MARKER_REPEATS
  /\ pc \in {"end", "pause"} => outcome # "aborted"
  /\ version = "live" => markers = 0
  /\ markers > 0 => datagram # None /\ datagram.type = "end" /\ datagram.number = sent_packets
  /\ pc = "exit" /\ outcome \in {"complete", "interrupted"} /\ version # "live" =>
       markers = END_MARKER_REPEATS
  /\ pc \in {"end", "pause"} /\ outcome = "failed" => version = "first"
  /\ pc = "exit" /\ outcome = "failed" =>
       markers = IF version = "first" THEN END_MARKER_REPEATS ELSE 0

LEMMA PlannedFixed == ASSUME UNCHANGED callVars PROVE planned_packets' = planned_packets
BY DEF callVars, planned_packets, round

LEMMA CallFixed == ASSUME [Next]_vars PROVE UNCHANGED callVars
BY DEF Next, Program, Exited, Reject, SendStart, ScheduleLive, ReadWallClock, StartClock,
       Sleep, WakeUp, Ready, SendPacket, SendFails, ControlFails, NextQuote, SendEnd,
       NextMarker, Interrupt, Elapse, vars

LEMMA CountStep ==
  ASSUME TypeOK, CallInv, MarkerInv, CountInv, [Next]_vars
  PROVE  CountInv' /\ MarkerInv'
<1> USE DEF CountInv, MarkerInv, InLoop
<1>1. planned_packets' = planned_packets /\ version' = version
  BY CallFixed, PlannedFixed DEF callVars
<1>2. /\ sequence \in Nat \ {0} /\ sent_packets \in Nat /\ markers \in Nat
      /\ quotes_out \in Nat /\ END_MARKER_REPEATS \in Nat \ {0}
  BY SenderAssumption DEF TypeOK, Counts
<1>3. CASE Reject
  BY <1>1, <1>2, <1>3 DEF Reject, outVars
<1>4. CASE SendStart
  BY <1>1, <1>2, <1>4 DEF SendStart, Hand, outVars
<1>5. CASE ScheduleLive \/ ReadWallClock \/ StartClock
  BY <1>1, <1>2, <1>5 DEF ScheduleLive, ReadWallClock, StartClock, outVars
<1>6. CASE Sleep \/ WakeUp \/ Ready
  BY <1>1, <1>2, <1>6 DEF Sleep, WakeUp, Ready, outVars
<1>7. CASE SendPacket
  <2>1. version # "live" => TypeOf(sequence) = "quote"
    BY DEF TypeOf
  <2> QED BY <1>1, <1>2, <1>7, <2>1 DEF SendPacket, Hand
<1>8. CASE NextQuote
  BY <1>1, <1>2, <1>8 DEF NextQuote, LeaveLoop, outVars, CallInv
<1>9. CASE SendFails
  BY <1>1, <1>2, <1>9 DEF SendFails, LeaveLoop, outVars
<1>10. CASE SendEnd
  BY <1>1, <1>2, <1>10, HandKeepsTypes DEF SendEnd, Hand, TypeOK, Clocks, CallInv
<1>11. CASE NextMarker
  BY <1>1, <1>2, <1>11 DEF NextMarker, outVars, CallInv
<1>12. CASE Interrupt
  BY <1>1, <1>2, <1>12 DEF Interrupt, LeaveLoop, outVars
<1>13. CASE Elapse
  BY <1>1, <1>2, <1>13 DEF Elapse, outVars
<1>14. CASE ControlFails
  BY <1>1, <1>2, <1>14 DEF ControlFails, outVars
<1>15. CASE UNCHANGED vars
  BY <1>1, <1>15 DEF vars, outVars
<1> QED BY <1>3, <1>4, <1>5, <1>6, <1>7, <1>8, <1>9, <1>10, <1>11, <1>12, <1>13, <1>14, <1>15
        DEF Next, Program, Exited
-------------------------------------------------------------------------------
(* The times in the packets.                                               *)

(* The last datagram carries a time at or before its sending; with times   *)
(* from the schedule, the wall clock of the schedule is not ahead of its   *)
(* pacing clock, and the time carried is that of the deadline before.      *)
StampInv ==
  /\ datagram # None => datagram.stamp <= datagram.at /\ datagram.at <= now
  /\ pc = "anchor" => wall_start_ns <= now
  /\ pc \in InLoop \cup {"count"} /\ version # "live" => wall_start_ns <= start_time_ns
  /\ pc \in {"anchor"} \cup InLoop /\ version # "live" /\ sequence = 1 =>
       datagram.stamp <= wall_start_ns
  /\ pc \in InLoop /\ sequence # 1 /\ ~actual_timestamps =>
       datagram.stamp = wall_start_ns + offset_ns(sequence - 1)
  /\ pc = "count" /\ ~actual_timestamps =>
       datagram.stamp = wall_start_ns + offset_ns(sequence)
  /\ pc = "send" =>
       /\ deadline_ns(sequence) <= ready_time_ns /\ ready_time_ns <= now
       /\ datagram # None => datagram.at <= ready_time_ns
  /\ pc \in {"end", "pause"} => datagram.stamp <= end_time_ns /\ end_time_ns <= now

InOrder ==
  datagram' # datagram =>
    /\ datagram'.stamp <= datagram'.at
    /\ datagram # None => datagram.stamp <= datagram'.stamp

LEMMA OffsetFixed ==
  ASSUME UNCHANGED callVars, NEW n PROVE offset_ns(n)' = offset_ns(n)
BY DEF callVars, offset_ns

LEMMA DatagramNumbers ==
  ASSUME TypeOK, datagram # None PROVE datagram.stamp \in Int /\ datagram.at \in Nat
BY DEF TypeOK, Datagram

LEMMA StampStep ==
  ASSUME TypeOK, CallInv, StampInv, [Next]_vars
  PROVE  StampInv' /\ InOrder
<1> USE DEF StampInv, InOrder, InLoop
<1>1. UNCHANGED callVars /\ version' = version /\ actual_timestamps' = actual_timestamps
  BY CallFixed DEF callVars
<1>2. /\ now \in Nat /\ wall_start_ns \in Nat /\ start_time_ns \in Nat
      /\ ready_time_ns \in Nat /\ end_time_ns \in Nat /\ sequence \in Nat \ {0}
  BY DEF TypeOK, Clocks, Counts
<1>3. datagram # None => datagram.stamp \in Int /\ datagram.at \in Nat
  BY DatagramNumbers
<1>4. CASE Reject
  BY <1>1, <1>2, <1>3, <1>4 DEF Reject, outVars, CallInv
<1>5. CASE SendStart
  BY <1>1, <1>2, <1>3, <1>5 DEF SendStart, Hand, outVars, CallInv
<1>6. CASE ScheduleLive
  BY <1>1, <1>2, <1>3, <1>6 DEF ScheduleLive, outVars, CallInv
<1>7. CASE ReadWallClock
  BY <1>1, <1>2, <1>3, <1>7 DEF ReadWallClock, outVars, CallInv
<1>8. CASE StartClock
  BY <1>1, <1>2, <1>3, <1>8 DEF StartClock, outVars, CallInv
<1>9. CASE Sleep \/ WakeUp
  BY <1>1, <1>2, <1>3, <1>9, OffsetFixed DEF Sleep, WakeUp, clockVars, outVars, CallInv
<1>10. CASE Ready
  <2>1. deadline_ns(sequence)' = deadline_ns(sequence)
    BY <1>1, <1>10, ScheduleFixed DEF Ready, clockVars
  <2> QED BY <1>1, <1>2, <1>3, <1>10, <2>1, OffsetFixed
          DEF Ready, Due, clockVars, outVars, CallInv
<1>11. CASE SendPacket
  <2>1. PICK stamp \in QuoteStamps : Hand(TypeOf(sequence), sequence, stamp)
    BY <1>11 DEF SendPacket
  <2>2. /\ offset_ns(sequence) \in Nat
        /\ sequence # 1 => offset_ns(sequence - 1) \in Nat
                            /\ offset_ns(sequence - 1) <= offset_ns(sequence)
    <3>1. pps \in Nat \ {0}
      BY <1>11 DEF SendPacket, CallInv, Started
    <3>2. sequence # 1 => sequence - 1 \in Nat \ {0} /\ (sequence - 1) + 1 = sequence
      BY <1>2
    <3> QED BY <1>2, <3>1, <3>2, Offsets
  <2>3. /\ pc = "send" /\ pc' = "count" /\ now' = now
        /\ UNCHANGED <<wall_start_ns, start_time_ns, sequence>>
    BY <1>11 DEF SendPacket, clockVars
  <2>4. /\ datagram'.stamp = stamp /\ datagram'.at = now
    BY <2>1 DEF Hand
  <2>5. CASE actual_timestamps
    <3>1. stamp \in ready_time_ns .. now
      BY <2>5 DEF QuoteStamps
    <3> QED BY <1>1, <1>2, <1>3, <2>3, <2>4, <2>5, <3>1
  <2>6. CASE ~actual_timestamps
    <3>1. stamp = wall_start_ns + offset_ns(sequence) /\ version # "live"
      BY <2>6 DEF QuoteStamps, CallInv
    <3>2. wall_start_ns <= start_time_ns /\ deadline_ns(sequence) <= now
      BY <1>2, <2>2, <2>3, <3>1 DEF deadline_ns
    <3>3. stamp <= now
      BY <1>2, <2>2, <3>1, <3>2 DEF deadline_ns
    <3>4. datagram # None => datagram.stamp <= stamp
      BY <1>2, <1>3, <2>2, <2>3, <2>6, <3>1
    <3> QED BY <1>1, <1>2, <1>3, <2>3, <2>4, <2>6, <3>1, <3>2, <3>3, <3>4, OffsetFixed
  <2> QED BY <2>5, <2>6
<1>12. CASE NextQuote
  <2>1. pc = "count" /\ datagram' = datagram /\ now' = now
        /\ wall_start_ns' = wall_start_ns /\ start_time_ns' = start_time_ns
    BY <1>12 DEF NextQuote, clockVars, outVars
  <2>2. CASE sequence = planned_packets
    BY <1>1, <1>2, <1>3, <1>12, <2>1, <2>2 DEF NextQuote, LeaveLoop, CallInv
  <2>3. CASE sequence # planned_packets
    <3>1. sequence' = sequence + 1 /\ sequence' # 1 /\ sequence' - 1 = sequence /\ pc' = "wait"
      BY <1>2, <1>12, <2>3 DEF NextQuote
    <3>2. offset_ns(sequence - 1)' = offset_ns(sequence)
      BY <1>1, <3>1 DEF offset_ns, callVars
    <3> QED BY <1>1, <1>2, <1>3, <2>1, <3>1, <3>2
  <2> QED BY <2>2, <2>3
<1>13. CASE SendFails
  BY <1>1, <1>2, <1>3, <1>13 DEF SendFails, LeaveLoop, outVars, CallInv
<1>14. CASE SendEnd
  BY <1>1, <1>2, <1>3, <1>14 DEF SendEnd, Hand, CallInv
<1>15. CASE NextMarker
  BY <1>1, <1>2, <1>3, <1>15 DEF NextMarker, outVars, CallInv
<1>16. CASE Interrupt
  BY <1>1, <1>2, <1>3, <1>16 DEF Interrupt, LeaveLoop, outVars, CallInv
<1>17. CASE Elapse
  <2>1. /\ now' = now + 1 /\ pc' = pc /\ deadline_ns(sequence)' = deadline_ns(sequence)
        /\ UNCHANGED <<wall_start_ns, start_time_ns, sequence, ready_time_ns, end_time_ns,
                       datagram>>
    BY <1>1, <1>17, ScheduleFixed DEF Elapse, clockVars, outVars
  <2> QED BY <1>1, <1>2, <1>3, <2>1, OffsetFixed DEF CallInv
<1>18. CASE ControlFails
  BY <1>1, <1>2, <1>3, <1>18 DEF ControlFails, outVars, CallInv
<1>19. CASE UNCHANGED vars
  BY <1>1, <1>19, OffsetFixed, ScheduleFixed DEF vars, clockVars, outVars
<1> QED BY <1>4, <1>5, <1>6, <1>7, <1>8, <1>9, <1>10, <1>11, <1>12, <1>13, <1>14, <1>15,
           <1>16, <1>17, <1>18, <1>19 DEF Next, Program, Exited
-------------------------------------------------------------------------------
SenderInv ==
  TypeOK /\ CallInv /\ PaceInv /\ MissedPeriodsBracketed /\ CountInv /\ MarkerInv /\ StampInv

LEMMA SenderInit == Init => SenderInv
<1> SUFFICES ASSUME Init PROVE SenderInv
  OBVIOUS
<1>1. TypeOK /\ CallInv
  BY InitTypes
<1>2. PaceInv /\ MissedPeriodsBracketed
  BY DEF Init, PaceInv, MissedPeriodsBracketed
<1>3. CountInv /\ MarkerInv
  BY DEF Init, CountInv, MarkerInv, InLoop
<1>4. StampInv
  BY DEF Init, StampInv, InLoop
<1> QED BY <1>1, <1>2, <1>3, <1>4 DEF SenderInv

LEMMA SenderInvStep == SenderInv /\ [Next]_vars => SenderInv' /\ InOrder
<1> SUFFICES ASSUME SenderInv, [Next]_vars PROVE SenderInv' /\ InOrder
  OBVIOUS
<1> USE DEF SenderInv
<1>1. TypeOK' /\ CallInv'
  BY TypesStep
<1>2. PaceInv'
  BY <1>1, PaceStep
<1>3. MissedPeriodsBracketed'
  BY MissedStep
<1>4. CountInv' /\ MarkerInv'
  BY CountStep
<1>5. StampInv' /\ InOrder
  BY StampStep
<1> QED BY <1>1, <1>2, <1>3, <1>4, <1>5

LEMMA SenderInvariant == Spec => []SenderInv
BY SenderInit, SenderInvStep, PTL DEF Spec

(* No quote leaves before its deadline, and none is ready later than one   *)
(* oversleep or hold-up behind it, or one hold-up behind its predecessor.  *)
THEOREM PacedByDeadlineHolds == Spec => []PacedByDeadline
<1>1. SenderInv => PacedByDeadline
  <2> SUFFICES ASSUME TypeOK, CallInv, PaceInv, pc = "send" PROVE PacedByDeadline
    BY DEF SenderInv, PacedByDeadline
  <2> DEFINE due == deadline_ns(sequence)
             slack == Larger(STALL, OVERSLEEP - spin_window)
  <2>1. pps \in Nat \ {0} /\ start_time_ns \in Nat /\ sequence \in Nat \ {0}
    BY DEF TypeOK, Clocks, Counts, CallInv, Started
  <2>2. due \in Nat /\ due >= start_time_ns
    BY <2>1, Deadlines
  <2>3. slack \in Nat
    BY SenderAssumption DEF Larger, spin_window
  <2>4. Latest = Larger(due + slack, IF sequence = 1 THEN start_time_ns ELSE datagram.at + STALL)
    BY DEF Latest
  <2>5. due <= ready_time_ns /\ ready_time_ns <= Latest
    BY DEF PaceInv
  <2> HIDE DEF due, slack
  <2>6. \/ ready_time_ns <= due + slack
        \/ sequence # 1 /\ ready_time_ns <= datagram.at + STALL
    <3>1. CASE Latest = due + slack
      BY <2>5, <3>1
    <3>2. CASE Latest # due + slack
      <4>1. Latest = IF sequence = 1 THEN start_time_ns ELSE datagram.at + STALL
        BY <2>4, <3>2 DEF Larger
      <4>2. sequence # 1
        BY <2>1, <2>2, <2>3, <2>4, <3>2, <4>1 DEF Larger
      <4> QED BY <2>5, <4>1, <4>2
    <3> QED BY <3>1, <3>2
  <2> QED BY <2>5, <2>6 DEF PacedByDeadline, due, slack
<1> QED BY <1>1, SenderInvariant, PTL

(* The two statistics of missed periods lie on either side of the number   *)
(* of quotes that were not ready before the next was due.                  *)
THEOREM MissedPeriodsBracketedHolds == Spec => []MissedPeriodsBracketed
<1>1. SenderInv => MissedPeriodsBracketed
  BY DEF SenderInv
<1> QED BY <1>1, SenderInvariant, PTL

(* What the END says of the stream is true, and complete streams have it.  *)
THEOREM EndCountsTheStreamHolds == Spec => []EndCountsTheStream
<1>1. ASSUME SenderInv PROVE EndCountsTheStream
  <2>1. TypeOK /\ CountInv /\ MarkerInv
    BY <1>1 DEF SenderInv
  <2>2. markers > 0 => version # "live"
    BY <2>1 DEF MarkerInv
  <2> QED BY <2>1, <2>2 DEF CountInv, MarkerInv, EndCountsTheStream
<1> QED BY <1>1, SenderInvariant, PTL

(* No datagram carries a time later than its sending, nor one earlier than *)
(* the datagram before.                                                    *)
THEOREM TimestampsInOrderHolds == Spec => TimestampsInOrder
<1>1. SenderInv /\ [Next]_vars => [InOrder]_vars
  BY SenderInvStep
<1>2. [InOrder]_vars =>
        [datagram' # datagram =>
           /\ datagram'.stamp <= datagram'.at
           /\ datagram # None => datagram.stamp <= datagram'.stamp]_vars
  BY DEF InOrder
<1> QED BY <1>1, <1>2, SenderInvariant, PTL DEF Spec, TimestampsInOrder
-------------------------------------------------------------------------------
(* The bench.  Between one datagram and the next: two that follow each     *)
(* other are never equal, so that the kernel takes every one.              *)

FreshInv ==
  /\ pc \in {"settle", "anchor"} => datagram.type = "start"
  /\ pc \in InLoop =>
       IF sequence = 1 THEN datagram.type = "start"
       ELSE datagram.type = "quote" /\ datagram.number = sequence - 1
  /\ pc = "count" => datagram.type = "quote" /\ datagram.number = sequence
  /\ pc = "end" /\ datagram.type = "end" => datagram.at < now
  /\ pc = "pause" => wake = datagram.at + END_MARKER_INTERVAL
  /\ markers <= END_MARKER_REPEATS
  /\ start_time_ns <= now
  /\ version # "first" /\ (pc \in {"end", "pause"} \/ markers > 0) =>
       outcome \in {"complete", "interrupted", "aborted"}

LEMMA FreshStep ==
  ASSUME version # "live", TypeOK, CallInv, MarkerInv, FreshInv, [Next]_vars
  PROVE  FreshInv'
<1> USE DEF FreshInv, InLoop, clockVars
<1>1. version' = version /\ version' # "live"
  BY CallFixed DEF callVars
<1>2. /\ sequence \in Nat \ {0} /\ markers \in Nat /\ now \in Nat /\ start_time_ns \in Nat
      /\ END_MARKER_REPEATS \in Nat \ {0} /\ END_MARKER_INTERVAL \in Nat \ {0}
      /\ datagram # None => datagram.at \in Nat
  BY SenderAssumption, DatagramNumbers DEF TypeOK, Clocks, Counts
<1>3. CASE Reject
  BY <1>1, <1>2, <1>3 DEF Reject, outVars, MarkerInv
<1>4. CASE SendStart
  <2>1. /\ markers = 0 /\ sequence = 1 /\ pc' = "settle" /\ datagram'.type = "start"
        /\ UNCHANGED <<markers, now, start_time_ns>>
    BY <1>4 DEF SendStart, Hand, MarkerInv, CallInv
  <2> QED BY <1>1, <1>2, <2>1
<1>5. CASE ScheduleLive
  BY <1>5 DEF ScheduleLive
<1>6. CASE ReadWallClock \/ StartClock
  BY <1>1, <1>2, <1>6 DEF ReadWallClock, StartClock, outVars, CallInv, MarkerInv
<1>7. CASE Sleep \/ WakeUp \/ Ready
  BY <1>1, <1>2, <1>7 DEF Sleep, WakeUp, Ready, outVars, MarkerInv
<1>8. CASE SendPacket
  <2>1. TypeOf(sequence) = "quote"
    BY DEF TypeOf
  <2>2. datagram'.type = "quote" /\ datagram'.number = sequence
    BY <1>8, <2>1 DEF SendPacket, Hand
  <2> QED BY <1>1, <1>2, <1>8, <2>2 DEF SendPacket, MarkerInv
<1>9. CASE NextQuote
  BY <1>1, <1>2, <1>9 DEF NextQuote, LeaveLoop, outVars, MarkerInv
<1>10. CASE SendFails
  BY <1>1, <1>2, <1>10 DEF SendFails, LeaveLoop, outVars, MarkerInv
<1>11. CASE SendEnd
  <2>1. datagram'.type = "end" /\ datagram'.at = now /\ wake' = now + END_MARKER_INTERVAL
    BY <1>11 DEF SendEnd, Hand
  <2> QED BY <1>1, <1>2, <1>11, <2>1 DEF SendEnd, MarkerInv
<1>12. CASE NextMarker
  <2>1. datagram # None
    BY <1>12 DEF NextMarker, CallInv
  <2> QED BY <1>1, <1>2, <1>12, <2>1 DEF NextMarker, outVars, MarkerInv
<1>13. CASE Interrupt
  BY <1>1, <1>2, <1>13 DEF Interrupt, LeaveLoop, outVars, MarkerInv
<1>14. CASE Elapse
  <2>1. pc = "end" => FALSE
    BY <1>14 DEF Elapse, MayElapse
  <2> QED BY <1>1, <1>2, <1>14, <2>1 DEF Elapse, outVars
<1>15. CASE ControlFails
  BY <1>1, <1>2, <1>15 DEF ControlFails, outVars, MarkerInv
<1>16. CASE UNCHANGED vars
  BY <1>1, <1>16 DEF vars, outVars
<1> QED BY <1>3, <1>4, <1>5, <1>6, <1>7, <1>8, <1>9, <1>10, <1>11, <1>12, <1>13, <1>14,
           <1>15, <1>16 DEF Next, Program, Exited
-------------------------------------------------------------------------------
(* How long the sender is silent.                                          *)

GapInv ==
  /\ pc = "settle" => wake = datagram.at + CONTROL_SETTLE /\ now <= wake + OVERSLEEP
  /\ pc = "anchor" => /\ wake <= datagram.at + CONTROL_SETTLE + OVERSLEEP
                      /\ now <= wake + STALL
  /\ pc \in InLoop =>
       IF sequence = 1
       THEN start_time_ns <= datagram.at + CONTROL_SETTLE + OVERSLEEP + STALL
       ELSE deadline_ns(sequence - 1) <= datagram.at
  /\ pc = "send" => wake = ready_time_ns /\ now <= wake + STALL
  /\ pc = "count" => deadline_ns(sequence) <= datagram.at
  /\ pc = "end" => now < datagram.at + INACTIVITY_TIMEOUT
  /\ pc = "pause" => now <= wake + OVERSLEEP

(* Consecutive deadlines are at most the rounded period and one apart.     *)
LEMMA NextDeadlineNear ==
  ASSUME version # "live", pps \in Nat \ {0}, start_time_ns \in Nat, NEW n \in Nat \ {0}
  PROVE  deadline_ns(n + 1) <= deadline_ns(n) + NANOSECONDS_PER_SECOND \div pps + 1
<1> DEFINE a == (n - 1) * NANOSECONDS_PER_SECOND
           b == n * NANOSECONDS_PER_SECOND
           x == a \div pps
           y == b \div pps
           z == NANOSECONDS_PER_SECOND \div pps
<1>1. NANOSECONDS_PER_SECOND \in Nat /\ n - 1 \in Nat /\ n + 1 - 1 = n
  BY SenderAssumption
<1>2. a \in Nat /\ b \in Nat /\ b = a + NANOSECONDS_PER_SECOND
  BY <1>1
<1>3. offset_ns(n) = x /\ offset_ns(n + 1) = y
  BY <1>1 DEF offset_ns
<1> HIDE DEF a, b
<1>4. /\ x \in Int /\ y \in Int /\ z \in Int
      /\ y * pps <= b /\ NANOSECONDS_PER_SECOND < z * pps + pps /\ a < x * pps + pps
  BY <1>1, <1>2, Division
<1> HIDE DEF x, y, z
<1>5. (x + z + 1) * pps = x * pps + z * pps + pps
  BY <1>4
<1>6. x * pps \in Int /\ y * pps \in Int /\ z * pps \in Int
  BY <1>4
<1>7. y * pps < (x + z + 1) * pps + pps
  BY <1>1, <1>2, <1>4, <1>5, <1>6
<1>8. y <= x + z + 1
  BY <1>4, <1>7, Below
<1> QED BY <1>3, <1>4, <1>8 DEF z, deadline_ns

LEMMA FirstDeadline ==
  ASSUME version # "live", pps \in Nat \ {0}, start_time_ns \in Nat
  PROVE  deadline_ns(1) = start_time_ns
<1>1. (1 - 1) * NANOSECONDS_PER_SECOND = 0 /\ 0 \div pps = 0
  BY SenderAssumption
<1> QED BY <1>1 DEF deadline_ns, offset_ns

(* In the loop the next datagram is at most a period and the delays away.  *)
LEMMA LoopIsNoSilence ==
  ASSUME version # "live", TypeOK, CallInv, PaceInv, GapInv, pc \in InLoop
  PROVE  now < datagram.at + INACTIVITY_TIMEOUT
<1> DEFINE slack == Larger(STALL, OVERSLEEP - SPIN_WINDOW_NS)
           late == slack + STALL
           due == deadline_ns(sequence)
           at == datagram.at
           period == NANOSECONDS_PER_SECOND \div pps
<1>1. /\ OVERSLEEP \in Nat /\ STALL \in Nat /\ SPIN_WINDOW_NS \in Nat
      /\ CONTROL_SETTLE \in Nat /\ INACTIVITY_TIMEOUT \in Nat
      /\ spin_window = SPIN_WINDOW_NS
  BY SenderAssumption, BenchAssumption DEF spin_window
<1>2. slack \in Nat /\ slack >= OVERSLEEP - SPIN_WINDOW_NS /\ slack >= STALL
  BY <1>1 DEF Larger
<1>3. /\ pps \in Nat \ {0} /\ pps \in Rates /\ sequence \in Nat \ {0}
      /\ now \in Nat /\ start_time_ns \in Nat /\ datagram # None
  BY DEF CallInv, Started, InLoop, TypeOK, Clocks, Counts
<1>4. at \in Nat
  BY <1>3, DatagramNumbers
<1>5. due \in Nat
  BY <1>3, Deadlines
<1>6. now <= Larger(due + slack, IF sequence = 1 THEN start_time_ns ELSE at + STALL) + STALL
  <2>1. Latest = Larger(due + slack, IF sequence = 1 THEN start_time_ns ELSE at + STALL)
    BY <1>1 DEF Latest
  <2> HIDE DEF slack, due, at
  <2>2. Latest \in Int /\ Latest >= due + slack
    BY <1>2, <1>3, <1>4, <1>5, <2>1 DEF Larger
  <2>3. CASE pc = "wait"
    BY <1>1, <1>3, <2>1, <2>2, <2>3 DEF PaceInv
  <2>4. CASE pc = "sleep"
    <3>1. now <= due - SPIN_WINDOW_NS + OVERSLEEP
      BY <1>1, <2>4 DEF PaceInv, due
    <3> QED BY <1>1, <1>2, <1>3, <1>5, <2>1, <2>2, <3>1
  <2>5. CASE pc = "send"
    <3>1. ready_time_ns <= Latest /\ now <= ready_time_ns + STALL /\ ready_time_ns \in Nat
      BY <2>5 DEF PaceInv, GapInv, TypeOK, Clocks
    <3> QED BY <1>1, <1>3, <2>1, <2>2, <3>1
  <2> QED BY <2>3, <2>4, <2>5 DEF InLoop
<1> HIDE DEF slack, at
<1>7. CASE sequence = 1
  <2>1. due = start_time_ns
    BY <1>3, <1>7, FirstDeadline
  <2>2. start_time_ns <= at + CONTROL_SETTLE + OVERSLEEP + STALL
    BY <1>7 DEF GapInv, at
  <2>3. now <= start_time_ns + slack + STALL
    BY <1>1, <1>2, <1>3, <1>6, <1>7, <2>1 DEF Larger
  <2>4. CONTROL_SETTLE + OVERSLEEP + STALL + late < INACTIVITY_TIMEOUT
    BY PatienceAssumption DEF slack
  <2> QED BY <1>1, <1>2, <1>3, <1>4, <2>2, <2>3, <2>4 DEF at
<1>8. CASE sequence # 1
  <2>1. deadline_ns(sequence - 1) <= at
    BY <1>8 DEF GapInv, at
  <2>2. sequence - 1 \in Nat \ {0} /\ (sequence - 1) + 1 = sequence
    BY <1>3, <1>8
  <2>3. deadline_ns(sequence - 1) \in Nat
    BY <1>3, <2>2, Deadlines
  <2>4. due <= deadline_ns(sequence - 1) + period + 1
    BY <1>3, <2>2, NextDeadlineNear
  <2>5. period \in Nat
    BY <1>3, PeriodFits
  <2> HIDE DEF due, period
  <2>6. due <= at + period + 1
    BY <1>4, <1>5, <2>1, <2>3, <2>4, <2>5
  <2>7. now <= at + period + 1 + slack + STALL
    <3>1. CASE due + slack >= at + STALL
      BY <1>1, <1>2, <1>3, <1>4, <1>5, <1>6, <1>8, <2>5, <2>6, <3>1 DEF Larger
    <3>2. CASE ~(due + slack >= at + STALL)
      <4>1. now <= at + STALL + STALL
        BY <1>6, <1>8, <3>2 DEF Larger
      <4> QED BY <1>1, <1>2, <1>3, <1>4, <2>5, <4>1
    <3> QED BY <3>1, <3>2
  <2>8. period + 1 + late < INACTIVITY_TIMEOUT
    BY <1>3, PatienceAssumption DEF slack, period
  <2> QED BY <1>1, <1>2, <1>3, <1>4, <2>5, <2>7, <2>8 DEF at
<1> QED BY <1>7, <1>8

LEMMA GapStep ==
  ASSUME version # "live", TypeOK, CallInv, PaceInv, FreshInv, GapInv, [Next]_vars
  PROVE  GapInv'
<1> USE DEF GapInv, InLoop
<1>0. start_time_ns <= now
  BY DEF FreshInv
<1>1. UNCHANGED callVars /\ version' # "live"
  BY CallFixed DEF callVars
<1>2. /\ sequence \in Nat \ {0} /\ now \in Nat /\ wake \in Int /\ start_time_ns \in Nat
      /\ datagram # None => datagram.at \in Nat
  BY DatagramNumbers DEF TypeOK, Clocks, Counts
<1>3. /\ OVERSLEEP \in Nat /\ STALL \in Nat /\ CONTROL_SETTLE \in Nat
      /\ INACTIVITY_TIMEOUT \in Nat /\ END_MARKER_INTERVAL \in Nat
  BY SenderAssumption, BenchAssumption
<1>20. STALL < INACTIVITY_TIMEOUT
  <2>1. SPIN_WINDOW_NS \in Nat
    BY SenderAssumption
  <2> QED BY <1>3, <2>1, PatienceAssumption DEF Larger
<1>4. pc \in InLoop => now < datagram.at + INACTIVITY_TIMEOUT
  BY LoopIsNoSilence
<1>5. UNCHANGED start_time_ns => \A n : deadline_ns(n)' = deadline_ns(n)
  BY <1>1 DEF deadline_ns, offset_ns, callVars
<1>6. CASE Reject \/ ScheduleLive
  BY <1>2, <1>6 DEF Reject, ScheduleLive, clockVars, outVars
<1>7. CASE SendStart
  <2>1. pc' = "settle" /\ wake' = now + CONTROL_SETTLE /\ datagram'.at = now
    BY <1>7 DEF SendStart, Hand
  <2>2. UNCHANGED <<now, start_time_ns>>
    BY <1>7 DEF SendStart, clockVars
  <2> QED BY <1>2, <1>3, <2>1, <2>2
<1>8. CASE ReadWallClock
  BY <1>2, <1>3, <1>8 DEF ReadWallClock, outVars, CallInv
<1>9. CASE StartClock
  BY <1>0, <1>2, <1>3, <1>9 DEF StartClock, outVars, CallInv
<1>10. CASE Sleep \/ WakeUp
  BY <1>2, <1>3, <1>5, <1>10 DEF Sleep, WakeUp, clockVars, outVars
<1>11. CASE Ready
  BY <1>2, <1>3, <1>5, <1>11 DEF Ready, clockVars, outVars
<1>12. CASE SendPacket
  <2>1. datagram'.at = now /\ pc' = "count" /\ UNCHANGED <<now, start_time_ns, sequence>>
    BY <1>12 DEF SendPacket, Hand, clockVars
  <2>2. deadline_ns(sequence)' = deadline_ns(sequence)
    BY <1>1, <2>1, ScheduleFixed
  <2>3. deadline_ns(sequence) <= now
    <3>1. deadline_ns(sequence) \in Nat
      BY <1>2, <1>12, Deadlines DEF SendPacket, CallInv, Started
    <3>2. ready_time_ns \in Nat
      BY DEF TypeOK, Clocks
    <3> QED BY <1>2, <1>12, <3>1, <3>2 DEF SendPacket, PaceInv
  <2> QED BY <1>2, <2>1, <2>2, <2>3
<1>13. CASE NextQuote
  <2>1. /\ pc = "count" /\ datagram' = datagram /\ UNCHANGED <<now, start_time_ns>>
        /\ now <= datagram.at + STALL /\ datagram # None
    BY <1>13 DEF NextQuote, clockVars, outVars, PaceInv, CallInv
  <2>2. CASE sequence = planned_packets
    <3>1. pc' = "end"
      BY <1>1, <1>13, <2>2 DEF NextQuote, LeaveLoop, callVars
    <3> QED BY <1>2, <1>3, <1>20, <2>1, <3>1
  <2>3. CASE sequence # planned_packets
    <3>1. pc' = "wait" /\ sequence' = sequence + 1 /\ sequence' # 1 /\ sequence' - 1 = sequence
      BY <1>2, <1>13, <2>3 DEF NextQuote
    <3>2. deadline_ns(sequence - 1)' = deadline_ns(sequence)
      BY <1>1, <2>1, <3>1 DEF deadline_ns, offset_ns, callVars
    <3> QED BY <1>2, <2>1, <3>1, <3>2
  <2> QED BY <2>2, <2>3
<1>14. CASE SendFails
  BY <1>2, <1>3, <1>4, <1>14 DEF SendFails, LeaveLoop, clockVars, outVars
<1>15. CASE SendEnd
  BY <1>2, <1>3, <1>15 DEF SendEnd, Hand, clockVars
<1>16. CASE NextMarker
  <2>1. END_MARKER_INTERVAL + OVERSLEEP < INACTIVITY_TIMEOUT
    BY PatienceAssumption
  <2>2. wake = datagram.at + END_MARKER_INTERVAL /\ datagram # None
    BY <1>16 DEF NextMarker, FreshInv, CallInv
  <2> QED BY <1>2, <1>3, <1>16, <2>1, <2>2 DEF NextMarker, clockVars, outVars
<1>17. CASE Interrupt
  <2>1. pc = "count" => now < datagram.at + INACTIVITY_TIMEOUT
    <3>1. pc = "count" => now <= datagram.at + STALL /\ datagram # None
      BY DEF PaceInv, CallInv
    <3> QED BY <1>2, <1>3, <1>20, <3>1
  <2> QED BY <1>1, <1>2, <1>3, <1>4, <1>17, <2>1
          DEF Interrupt, LeaveLoop, clockVars, outVars, callVars
<1>18. CASE Elapse
  <2>1. /\ now' = now + 1 /\ pc' = pc /\ UNCHANGED <<wake, start_time_ns, sequence,
                                                     ready_time_ns, datagram>>
    BY <1>18 DEF Elapse, clockVars, outVars
  <2>2. /\ pc # "end"
        /\ pc \in {"settle", "pause"} => now < wake + OVERSLEEP
        /\ pc \in {"anchor", "send"} => now < wake + STALL
    BY <1>18 DEF Elapse, MayElapse
  <2> QED BY <1>2, <1>3, <1>5, <2>1, <2>2
<1>19. CASE ControlFails \/ UNCHANGED vars
  BY <1>5, <1>19 DEF ControlFails, vars, clockVars, outVars
<1> QED BY <1>6, <1>7, <1>8, <1>9, <1>10, <1>11, <1>12, <1>13, <1>14, <1>15, <1>16, <1>17,
           <1>18, <1>19 DEF Next, Program, Exited
-------------------------------------------------------------------------------
(* Behind the sender's exit only the clock goes on.                        *)

OnlyClock ==
  /\ pc = "exit" /\ now' = now + 1
  /\ UNCHANGED <<callVars, pc, wake, clockVars, sequence, sent_packets, ready_time_ns,
                 missed_deadlines, end_time_ns, markers, outcome, outVars, next_reached>>

LEMMA BenchMovesSender == ASSUME [BenchNext]_benchVars PROVE [Next]_vars \/ OnlyClock
<1>1. CASE SenderStep
  BY <1>1 DEF SenderStep, Next
<1>2. CASE Receiver
  BY <1>2 DEF Receiver, Receive, HandleStart, HandleQuote, HandleEnd, TimeOut, HandleTimeout,
              Handles
<1>3. CASE Time
  BY <1>3 DEF Time, Next, OnlyClock
<1>4. CASE UNCHANGED benchVars
  BY <1>4 DEF benchVars
<1> QED BY <1>1, <1>2, <1>3, <1>4 DEF BenchNext

LEMMA NotLive == ASSUME TypeOK PROVE version # "live"
BY BenchAssumption DEF TypeOK

LEMMA ClockKeepsSender ==
  ASSUME SenderInv, FreshInv, OnlyClock PROVE SenderInv' /\ FreshInv'
<1> USE DEF SenderInv, OnlyClock, callVars, clockVars, outVars, InLoop
<1>1. planned_packets' = planned_packets
  BY PlannedFixed
<1>2. TypeOK' /\ CallInv'
  BY DEF TypeOK, CallInv, Started, Clocks, Counts
<1>3. PaceInv' /\ MissedPeriodsBracketed'
  BY DEF PaceInv, MissedPeriodsBracketed
<1>4. CountInv' /\ MarkerInv'
  BY <1>1 DEF CountInv, MarkerInv
<1>5. StampInv' /\ FreshInv'
  <2>1. now \in Nat /\ start_time_ns \in Nat /\ (datagram # None => datagram.at \in Nat)
    BY DatagramNumbers DEF TypeOK, Clocks
  <2> QED BY <2>1 DEF StampInv, FreshInv
<1> QED BY <1>2, <1>3, <1>4, <1>5

LEMMA FreshInit == Init /\ version # "live" => FreshInv
BY SenderAssumption DEF Init, FreshInv, InLoop

LEMMA BenchSender == BenchSpec => [](SenderInv /\ FreshInv)
<1>1. BenchInit => SenderInv /\ FreshInv
  BY SenderInit, FreshInit, NotLive DEF BenchInit, SenderInv
<1>2. SenderInv /\ FreshInv /\ [BenchNext]_benchVars => SenderInv' /\ FreshInv'
  <2> SUFFICES ASSUME SenderInv, FreshInv, [BenchNext]_benchVars PROVE SenderInv' /\ FreshInv'
    OBVIOUS
  <2>1. CASE [Next]_vars
    BY <2>1, SenderInvStep, FreshStep, NotLive DEF SenderInv
  <2>2. CASE OnlyClock
    BY <2>2, ClockKeepsSender
  <2> QED BY <2>1, <2>2, BenchMovesSender
<1> QED BY <1>1, <1>2, PTL DEF BenchSpec

LEMMA BenchGap == BenchSpec => []GapInv
<1>1. BenchInit => GapInv
  BY DEF BenchInit, Init, GapInv, InLoop
<1>2. SenderInv /\ FreshInv /\ GapInv /\ [BenchNext]_benchVars => GapInv'
  <2> SUFFICES ASSUME SenderInv, FreshInv, GapInv, [BenchNext]_benchVars PROVE GapInv'
    OBVIOUS
  <2>1. CASE [Next]_vars
    BY <2>1, GapStep, NotLive DEF SenderInv
  <2>2. CASE OnlyClock
    BY <2>2 DEF OnlyClock, GapInv, InLoop
  <2> QED BY <2>1, <2>2, BenchMovesSender
<1> QED BY <1>1, <1>2, BenchSender, PTL DEF BenchSpec
-------------------------------------------------------------------------------
(* The socket buffer.                                                      *)

Early == {"arguments", "settle", "anchor"}

Queued == [type : {"start", "quote", "end"}, number : Int]

(* What has arrived and is not handled yet; the receiver may hold one.     *)
pending == IF received = None THEN socket_queue ELSE <<received>> \o socket_queue

BenchTypes ==
  /\ socket_queue \in Seq(Queued) /\ received \in Queued \cup {None}
  /\ rcvbuf_errors \in Nat /\ udp_start \in Nat /\ valid_packets \in Nat
  /\ first_packet_time \in Nat \cup {None} /\ last_activity_time \in Nat

(* The START is at the head, the END markers are the last that were sent.  *)
OrderInv ==
  /\ \A i \in 1 .. Len(pending) :
       /\ pending[i].type = "start" => i = 1 /\ ~active /\ report = None
       /\ pending[i].type = "quote" => pc \notin Early
       /\ pending[i].type = "end" =>
            /\ Len(pending) - i < markers
            /\ pending[i].number = sent_packets
  /\ pc = "arguments" =>
       pending = <<>> /\ ~active /\ report = None /\ rcvbuf_errors = 0

(* Every datagram sent was handled, waits, or was dropped and counted.     *)
KernelInv ==
  /\ pending # <<>> /\ pending[1].type = "start" =>
       Len(pending) + rcvbuf_errors = 1 + quotes_out + markers
  /\ active => valid_packets + Len(pending) + rcvbuf_errors = quotes_out + markers

FirstInv ==
  /\ valid_packets > 0 => first_packet_time # None
  /\ first_packet_time # None => pc \notin Early /\ start_time_ns <= first_packet_time

(* A datagram the receiver has not answered for is in front of it.         *)
SilenceInv ==
  /\ pending # <<>> => datagram # None
  /\ active => /\ pc # "arguments" /\ datagram # None
               /\ pending # <<>> \/ datagram.at <= last_activity_time

(* A datagram enters at one end, is handed to the receiver, and leaves at  *)
(* the other.                                                              *)
LEMMA SameSequence ==
  ASSUME NEW S, NEW a \in Seq(S), NEW b \in Seq(S), Len(a) = Len(b),
         \A i \in 1 .. Len(a) : a[i] = b[i]
  PROVE  a = b
OBVIOUS

LEMMA PendingIs ==
  ASSUME BenchTypes
  PROVE  /\ pending \in Seq(Queued) /\ Len(pending) \in Nat
         /\ received = None => pending = socket_queue
         /\ received # None =>
              /\ Len(pending) = Len(socket_queue) + 1 /\ pending[1] = received
              /\ \A i \in 1 .. Len(socket_queue) : pending[i + 1] = socket_queue[i]
         /\ pending = <<>> <=> received = None /\ socket_queue = <<>>
<1>1. CASE received = None
  BY <1>1 DEF BenchTypes, pending
<1>2. CASE received # None
  BY <1>2 DEF BenchTypes, pending
<1> QED BY <1>1, <1>2

LEMMA PendingGrows ==
  ASSUME BenchTypes, NEW d \in Queued, socket_queue' = Append(socket_queue, d),
         received' = received
  PROVE  pending' = Append(pending, d)
<1>1. CASE received = None
  BY <1>1 DEF pending
<1>2. CASE received # None
  <2> DEFINE q == socket_queue
             a == <<received>> \o Append(q, d)
             b == Append(<<received>> \o q, d)
  <2>1. /\ q \in Seq(Queued) /\ received \in Queued /\ Len(q) \in Nat
        /\ <<received>> \in Seq(Queued) /\ Len(<<received>>) = 1 /\ <<received>>[1] = received
    BY <1>2 DEF BenchTypes
  <2>2. /\ Append(q, d) \in Seq(Queued) /\ Len(Append(q, d)) = Len(q) + 1
        /\ Append(q, d)[Len(q) + 1] = d
        /\ \A i \in 1 .. Len(q) : Append(q, d)[i] = q[i]
    BY <2>1
  <2>3. /\ <<received>> \o q \in Seq(Queued) /\ Len(<<received>> \o q) = Len(q) + 1
        /\ (<<received>> \o q)[1] = received
        /\ \A i \in 1 .. Len(q) : (<<received>> \o q)[i + 1] = q[i]
    BY <2>1
  <2>4. /\ a \in Seq(Queued) /\ Len(a) = Len(q) + 2 /\ a[1] = received
        /\ \A i \in 1 .. Len(q) + 1 : a[i + 1] = Append(q, d)[i]
    BY <2>1, <2>2
  <2>5. /\ b \in Seq(Queued) /\ Len(b) = Len(q) + 2 /\ b[Len(q) + 2] = d
        /\ \A i \in 1 .. Len(q) + 1 : b[i] = (<<received>> \o q)[i]
    BY <2>1, <2>3
  <2> HIDE DEF a, b
  <2>6. ASSUME NEW i \in 1 .. Len(a) PROVE a[i] = b[i]
    <3>1. i = 1 \/ i - 1 \in 1 .. Len(q) \/ i = Len(q) + 2
      BY <2>1, <2>4
    <3>2. CASE i = 1
      BY <2>1, <2>3, <2>4, <2>5, <3>2
    <3>3. CASE i - 1 \in 1 .. Len(q)
      <4>1. (i - 1) + 1 = i /\ i - 1 \in 1 .. Len(q) + 1 /\ i \in 1 .. Len(q) + 1
        BY <2>1, <3>3
      <4>2. a[i] = Append(q, d)[i - 1] /\ Append(q, d)[i - 1] = q[i - 1]
        BY <2>2, <2>4, <3>3, <4>1
      <4>3. b[i] = (<<received>> \o q)[i] /\ (<<received>> \o q)[i] = q[i - 1]
        BY <2>3, <2>5, <3>3, <4>1
      <4> QED BY <4>2, <4>3
    <3>4. CASE i = Len(q) + 2
      <4>1. (Len(q) + 1) + 1 = i /\ Len(q) + 1 \in 1 .. Len(q) + 1
        BY <2>1, <3>4
      <4> QED BY <2>2, <2>4, <2>5, <3>4, <4>1
    <3> QED BY <3>1, <3>2, <3>3, <3>4
  <2>7. a = b
    BY <2>4, <2>5, <2>6, SameSequence
  <2> QED BY <1>2, <2>7 DEF pending, a, b
<1> QED BY <1>1, <1>2

LEMMA PendingStays ==
  ASSUME BenchTypes, Receive
  PROVE  pending' = pending /\ received' \in Queued /\ socket_queue' \in Seq(Queued)
<1> DEFINE q == socket_queue
           a == <<Head(q)>> \o Tail(q)
<1>1. /\ received = None /\ q \in Seq(Queued) /\ q # <<>> /\ None \notin Queued
      /\ received' = Head(q) /\ socket_queue' = Tail(q)
  BY BenchAssumption DEF Receive, InCall, BenchTypes, Queued
<1>2. /\ Len(q) \in Nat /\ Len(q) >= 1 /\ Head(q) = q[1] /\ q[1] \in Queued
      /\ Tail(q) \in Seq(Queued) /\ Len(Tail(q)) = Len(q) - 1
      /\ \A i \in 1 .. Len(Tail(q)) : Tail(q)[i] = q[i + 1]
  BY <1>1
<1>3. /\ a \in Seq(Queued) /\ Len(a) = Len(q) /\ a[1] = Head(q)
      /\ \A i \in 1 .. Len(Tail(q)) : a[i + 1] = Tail(q)[i]
  BY <1>2
<1>4. ASSUME NEW i \in 1 .. Len(q) PROVE a[i] = q[i]
  <2>1. CASE i = 1
    BY <1>2, <1>3, <2>1
  <2>2. CASE i # 1
    <3>1. i - 1 \in 1 .. Len(Tail(q)) /\ (i - 1) + 1 = i
      BY <1>2, <2>2
    <3> QED BY <1>2, <1>3, <3>1
  <2> QED BY <2>1, <2>2
<1> HIDE DEF a
<1>5. a = q
  BY <1>1, <1>3, <1>4, SameSequence
<1>6. pending = q /\ pending' = <<received'>> \o socket_queue'
  BY <1>1, <1>2 DEF pending
<1> QED BY <1>1, <1>2, <1>5, <1>6 DEF a

(* What a step of the sender does to the datagram and the counts.          *)
Hands(type) ==
  /\ datagram' # datagram
  /\ datagram'.type = type /\ datagram'.at = now

LEMMA SenderHands ==
  ASSUME SenderInv, FreshInv, Program \/ Interrupt
  PROVE  /\ pc # "exit" /\ pc' # "arguments" /\ (pc' \in Early => pc \in Early)
         /\ UNCHANGED <<callVars, now>>
         /\ UNCHANGED start_time_ns \/ pc \in Early
         /\ \/ /\ UNCHANGED <<datagram, quotes_out, markers>>
               /\ UNCHANGED sent_packets \/ markers = 0
            \/ /\ Hands("start") /\ pc = "arguments" /\ pc' = "settle"
               /\ UNCHANGED <<quotes_out, markers, sent_packets>> /\ markers = 0
               /\ quotes_out = 0
            \/ /\ Hands("quote") /\ pc = "send" /\ pc' = "count"
               /\ quotes_out' = quotes_out + 1 /\ UNCHANGED <<markers, sent_packets>>
               /\ markers = 0
            \/ /\ Hands("end") /\ pc = "end" /\ pc' = "pause"
               /\ datagram'.number = sent_packets
               /\ markers' = markers + 1 /\ UNCHANGED <<quotes_out, sent_packets>>
<1> USE DEF Early
<1>0. TypeOK /\ CallInv /\ MarkerInv /\ CountInv /\ version # "live"
  BY NotLive DEF SenderInv
<1>1. UNCHANGED callVars
  BY CallFixed DEF Next
<1>2. CASE Reject \/ ScheduleLive \/ ReadWallClock \/ StartClock
  BY <1>1, <1>2 DEF Reject, ScheduleLive, ReadWallClock, StartClock, outVars, clockVars
<1>3. CASE Sleep \/ WakeUp \/ Ready
  BY <1>1, <1>3 DEF Sleep, WakeUp, Ready, outVars, clockVars
<1>4. CASE SendStart
  <2>1. /\ pc = "arguments" /\ pc' = "settle" /\ Hand("start", planned_packets, now)
        /\ UNCHANGED <<now, start_time_ns, sent_packets, markers>>
    BY <1>4 DEF SendStart, clockVars
  <2>2. markers = 0 /\ quotes_out = 0 /\ datagram = None
    BY <1>0, <2>1 DEF MarkerInv, CallInv, CountInv, TypeOK, Counts
  <2>3. datagram' # None /\ datagram'.type = "start" /\ datagram'.at = now
        /\ quotes_out' = quotes_out
    <3>1. planned_packets \in Int /\ now \in Int
      BY <1>0, PlannedIsInteger DEF TypeOK, Clocks
    <3> QED BY <1>0, <2>1, <3>1, HandKeepsTypes DEF Hand
  <2> QED BY <1>1, <2>1, <2>2, <2>3 DEF Hands
<1>5. CASE SendPacket
  <2>1. TypeOf(sequence) = "quote"
    BY <1>0 DEF TypeOf
  <2>2. /\ datagram'.type = "quote" /\ datagram'.number = sequence /\ datagram'.at = now
        /\ quotes_out' = quotes_out + 1
    BY <1>5, <2>1 DEF SendPacket, Hand
  <2>3. /\ pc = "send" /\ pc' = "count"
        /\ UNCHANGED <<now, start_time_ns, sent_packets, markers>>
    BY <1>5 DEF SendPacket, clockVars
  <2>4. datagram' # datagram
    <3>1. datagram.type = "start" \/ datagram.number = sequence - 1
      BY <2>3 DEF FreshInv, InLoop
    <3>2. sequence \in Nat
      BY <1>0 DEF TypeOK, Counts
    <3> QED BY <2>2, <3>1, <3>2
  <2>5. markers = 0
    BY <1>0, <2>3 DEF MarkerInv
  <2> QED BY <1>1, <2>2, <2>3, <2>4, <2>5 DEF Hands
<1>6. CASE SendFails \/ ControlFails
  BY <1>0, <1>1, <1>6 DEF SendFails, ControlFails, LeaveLoop, outVars, clockVars
<1>7. CASE NextQuote
  <2>1. markers = 0
    BY <1>0, <1>7 DEF NextQuote, MarkerInv
  <2> QED BY <1>0, <1>1, <1>7, <2>1 DEF NextQuote, LeaveLoop, outVars, clockVars
<1>8. CASE SendEnd
  <2>1. /\ datagram'.type = "end" /\ datagram'.number = sent_packets /\ datagram'.at = now
        /\ quotes_out' = quotes_out
    BY <1>8 DEF SendEnd, Hand
  <2>2. /\ pc = "end" /\ pc' = "pause" /\ markers' = markers + 1
        /\ UNCHANGED <<now, start_time_ns, sent_packets>>
    BY <1>8 DEF SendEnd, clockVars
  <2>3. datagram' # datagram
    <3>1. datagram.type = "end" => datagram.at < now
      BY <2>2 DEF FreshInv
    <3>2. now \in Nat
      BY <1>0 DEF TypeOK, Clocks
    <3> QED BY <2>1, <3>1, <3>2
  <2> QED BY <1>1, <2>1, <2>2, <2>3 DEF Hands
<1>9. CASE NextMarker
  BY <1>1, <1>9 DEF NextMarker, outVars, clockVars
<1>10. CASE Interrupt
  BY <1>0, <1>1, <1>10 DEF Interrupt, LeaveLoop, outVars, clockVars
<1> QED BY <1>2, <1>3, <1>4, <1>5, <1>6, <1>7, <1>8, <1>9, <1>10 DEF Program

BenchInv == BenchTypes /\ OrderInv /\ KernelInv /\ FirstInv /\ SilenceInv

LEMMA SenderKeepsBench ==
  ASSUME SenderInv, FreshInv, SenderInv', BenchInv, SenderStep
  PROVE  BenchInv'
<1> DEFINE q == pending
           d == [type |-> datagram'.type, number |-> datagram'.number]
<1>1. /\ BenchTypes /\ OrderInv /\ KernelInv /\ FirstInv /\ SilenceInv
      /\ UNCHANGED receiverVars /\ Deliver
  BY DEF BenchInv, SenderStep
<1>2. /\ UNCHANGED <<active, valid_packets, first_packet_time, last_activity_time, udp_start,
                     report>>
      /\ UNCHANGED received
      /\ q \in Seq(Queued) /\ Len(q) \in Nat /\ rcvbuf_errors \in Nat /\ valid_packets \in Nat
  BY <1>1, PendingIs DEF BenchTypes, receiverVars, testVars
<1>3. /\ pc # "exit" /\ pc' # "arguments" /\ (pc' \in Early => pc \in Early)
      /\ UNCHANGED start_time_ns \/ pc \in Early
      /\ markers \in Nat /\ quotes_out \in Nat /\ now \in Nat /\ SOCKET_SLOTS \in Nat \ {0}
  BY SenderHands, BenchAssumption DEF SenderStep, SenderInv, TypeOK, Counts, Clocks
<1>4. FirstInv'
  BY <1>1, <1>2, <1>3 DEF FirstInv
<1>5. ASSUME UNCHANGED <<socket_queue, quotes_out, markers, rcvbuf_errors, datagram>>,
             UNCHANGED sent_packets \/ markers = 0
      PROVE  BenchInv'
  <2>0. pending' = pending
    BY <1>2, <1>5 DEF pending
  <2>1. BenchTypes' /\ KernelInv'
    BY <1>1, <1>2, <1>5, <2>0 DEF BenchTypes, KernelInv
  <2>2. OrderInv' /\ SilenceInv'
    BY <1>1, <1>2, <1>3, <1>5, <2>0 DEF OrderInv, SilenceInv
  <2> QED BY <1>4, <2>1, <2>2 DEF BenchInv
<1>6. ASSUME datagram' # datagram
      PROVE  /\ d \in Queued /\ datagram' # None
             /\ \/ /\ socket_queue' = Append(socket_queue, d) /\ pending' = Append(q, d)
                   /\ UNCHANGED rcvbuf_errors
                \/ /\ q # <<>> /\ rcvbuf_errors' = rcvbuf_errors + 1
                   /\ pending' = q /\ UNCHANGED socket_queue
  <2>0. datagram' # None
    BY <1>3, <1>6, SenderHands DEF SenderStep, SenderInv, CallInv, MarkerInv
  <2>1. d \in Queued
    <3>1. datagram' \in Datagram
      BY <2>0 DEF SenderInv, TypeOK
    <3> QED BY <3>1 DEF Queued, Datagram
  <2> HIDE DEF q
  <2>2. CASE Len(socket_queue) < SOCKET_SLOTS
    <3>1. socket_queue' = Append(socket_queue, d) /\ UNCHANGED rcvbuf_errors
      BY <1>1, <1>6, <2>2 DEF Deliver
    <3> QED BY <1>1, <1>2, <2>0, <2>1, <3>1, PendingGrows DEF q
  <2>3. CASE ~(Len(socket_queue) < SOCKET_SLOTS)
    <3>1. UNCHANGED socket_queue /\ rcvbuf_errors' = rcvbuf_errors + 1
      BY <1>1, <1>6, <2>3 DEF Deliver
    <3>2. socket_queue # <<>> /\ pending' = pending
      BY <1>1, <1>2, <1>3, <2>3, <3>1 DEF BenchTypes, pending
    <3> QED BY <1>1, <2>0, <2>1, <3>1, <3>2, PendingIs DEF q
  <2> QED BY <2>2, <2>3
<1>7. ASSUME datagram' # datagram, d.type # "end" => markers = 0,
             d.type = "start" => pc = "arguments" /\ quotes_out = 0,
             d.type = "quote" => pc' \notin Early,
             d.type = "end" => datagram'.number = sent_packets,
             markers' = markers + (IF d.type = "end" THEN 1 ELSE 0),
             quotes_out' = quotes_out + (IF d.type = "quote" THEN 1 ELSE 0),
             sent_packets' = sent_packets
      PROVE  BenchInv'
  <2>1. CASE /\ socket_queue' = Append(socket_queue, d) /\ pending' = Append(q, d)
             /\ UNCHANGED rcvbuf_errors
    <3>1. /\ d \in Queued /\ pending' = Append(q, d) /\ UNCHANGED rcvbuf_errors
          /\ socket_queue' = Append(socket_queue, d)
          /\ d.type = datagram'.type /\ d.number = datagram'.number
      BY <1>2, <1>3, <1>6, <1>7, <2>1
    <3> HIDE DEF d
    <3>2. /\ pending' \in Seq(Queued) /\ Len(pending') = Len(q) + 1
          /\ pending'[Len(q) + 1] = d
          /\ \A i \in 1 .. Len(q) : pending'[i] = q[i]
          /\ pending' # <<>>
      BY <1>2, <3>1
    <3>3. BenchTypes'
      BY <1>1, <1>2, <3>1 DEF BenchTypes
    <3>4. OrderInv'
      <4>1. d.type = "start" => q = <<>> /\ ~active /\ report = None /\ rcvbuf_errors = 0
        BY <1>1, <1>7 DEF OrderInv
      <4> SUFFICES ASSUME NEW i \in 1 .. Len(q) + 1
                   PROVE  /\ pending'[i].type = "start" => i = 1 /\ ~active /\ report = None
                          /\ pending'[i].type = "quote" => pc' \notin Early
                          /\ pending'[i].type = "end" =>
                               /\ Len(pending') - i < markers'
                               /\ pending'[i].number = sent_packets
        BY <1>2, <1>3, <1>7, <3>2 DEF OrderInv
      <4>2. CASE i = Len(q) + 1
        BY <1>2, <1>3, <1>7, <3>1, <3>2, <4>1, <4>2
      <4>3. CASE i \in 1 .. Len(q)
        BY <1>1, <1>2, <1>3, <1>7, <3>2, <4>3 DEF OrderInv
      <4> QED BY <1>2, <4>2, <4>3
    <3>5. KernelInv'
      <4>1. CASE d.type = "start"
        BY <1>1, <1>2, <1>3, <1>7, <3>1, <3>2, <4>1 DEF OrderInv, KernelInv
      <4>2. CASE d.type # "start"
        <5>1. pending'[1].type = "start" => q # <<>> /\ pending'[1] = q[1]
          BY <1>2, <3>2, <4>2
        <5>2. quotes_out' + markers' = quotes_out + markers + 1
          BY <1>3, <1>7, <3>1, <4>2 DEF Queued
        <5>3. /\ q # <<>> /\ q[1].type = "start" =>
                   Len(q) + rcvbuf_errors = 1 + quotes_out + markers
              /\ active => valid_packets + Len(q) + rcvbuf_errors = quotes_out + markers
          BY <1>1 DEF KernelInv
        <5> HIDE DEF q
        <5>4. ASSUME pending'[1].type = "start"
              PROVE  Len(pending') + rcvbuf_errors' = 1 + quotes_out' + markers'
          <6>1. Len(q) + rcvbuf_errors = 1 + quotes_out + markers
            BY <5>1, <5>3, <5>4
          <6>2. /\ Len(pending') = Len(q) + 1 /\ rcvbuf_errors' = rcvbuf_errors
                /\ quotes_out' \in Int /\ markers' \in Int
            BY <1>3, <1>7, <3>1, <3>2
          <6>3. Len(q) \in Int /\ rcvbuf_errors \in Int /\ quotes_out \in Int /\ markers \in Int
            BY <1>2, <1>3
          <6>4. 1 + quotes_out' + markers' = 1 + (quotes_out' + markers')
            BY <6>2
          <6>5. 1 + (quotes_out + markers + 1) = (1 + quotes_out + markers) + 1
            BY <6>3
          <6>6. (Len(q) + rcvbuf_errors) + 1 = Len(pending') + rcvbuf_errors'
            BY <6>2, <6>3
          <6> QED BY <5>2, <6>1, <6>4, <6>5, <6>6
        <5>5. active' => valid_packets' + Len(pending') + rcvbuf_errors' = quotes_out' + markers'
          BY <1>2, <1>3, <3>1, <3>2, <5>2, <5>3
        <5> QED BY <5>4, <5>5 DEF KernelInv
      <4> QED BY <4>1, <4>2
    <3>6. SilenceInv'
      BY <1>1, <1>2, <1>3, <1>6, <1>7, <3>2 DEF SilenceInv
    <3> QED BY <1>4, <3>3, <3>4, <3>5, <3>6 DEF BenchInv
  <2>2. CASE /\ q # <<>> /\ rcvbuf_errors' = rcvbuf_errors + 1
             /\ pending' = q /\ UNCHANGED socket_queue
    <3>1. /\ d \in Queued /\ pending' = q /\ rcvbuf_errors' = rcvbuf_errors + 1
          /\ q # <<>> /\ q[1] \in Queued /\ UNCHANGED socket_queue
      BY <1>2, <1>3, <1>6, <1>7, <2>2
    <3> HIDE DEF d
    <3>2. d.type # "start"
      BY <1>1, <1>7, <3>1 DEF OrderInv
    <3>3. quotes_out' + markers' = quotes_out + markers + 1 /\ markers' >= markers
          /\ markers' \in Nat
      BY <1>3, <1>7, <3>1, <3>2 DEF Queued
    <3>4. BenchTypes' /\ KernelInv'
      BY <1>1, <1>2, <1>3, <1>7, <3>1, <3>3 DEF BenchTypes, KernelInv
    <3>5. OrderInv' /\ SilenceInv'
      BY <1>1, <1>2, <1>3, <1>6, <1>7, <3>1, <3>3 DEF OrderInv, SilenceInv
    <3> QED BY <1>4, <3>4, <3>5 DEF BenchInv
  <2> QED BY <1>6, <1>7, <2>1, <2>2
<1>8. CASE UNCHANGED <<datagram, quotes_out, markers>> /\ (UNCHANGED sent_packets \/ markers = 0)
  <2>1. UNCHANGED kernelVars
    BY <1>1, <1>8 DEF Deliver
  <2> QED BY <1>5, <1>8, <2>1 DEF kernelVars
<1>9. CASE Hands("start") /\ pc = "arguments" /\ quotes_out = 0 /\ markers = 0
           /\ UNCHANGED <<quotes_out, markers, sent_packets>>
  BY <1>7, <1>9, <1>3 DEF Hands
<1>10. CASE /\ Hands("quote") /\ pc = "send" /\ pc' = "count"
            /\ quotes_out' = quotes_out + 1 /\ UNCHANGED <<markers, sent_packets>> /\ markers = 0
  BY <1>7, <1>10, <1>3 DEF Hands, Early
<1>11. CASE /\ Hands("end") /\ pc = "end" /\ pc' = "pause"
            /\ datagram'.number = sent_packets
            /\ markers' = markers + 1 /\ UNCHANGED <<quotes_out, sent_packets>>
  BY <1>7, <1>11, <1>3 DEF Hands
<1> QED BY <1>8, <1>9, <1>10, <1>11, SenderHands DEF SenderStep

(* Handling the head: what stays is in order, and is no START.             *)
LEMMA HandlesHead ==
  ASSUME SenderInv, FreshInv, BenchInv, NEW type, Handles(type)
  PROVE  /\ Len(pending) \in Nat /\ Len(pending) >= 1 /\ Len(pending') = Len(pending) - 1
         /\ pending[1] = received /\ received \in Queued /\ received.type = type
         /\ socket_queue' \in Seq(Queued) /\ received' = None
         /\ pc # "arguments" /\ now \in Nat /\ datagram # None /\ datagram.at <= now
         /\ UNCHANGED <<vars, rcvbuf_errors>>
         /\ OrderInv'
         /\ pending' # <<>> => pending'[1].type # "start"
<1>1. /\ socket_queue \in Seq(Queued) /\ received # None /\ received.type = type
      /\ received \in Queued /\ received' = None
      /\ UNCHANGED <<vars, socket_queue, rcvbuf_errors>>
  BY DEF BenchInv, BenchTypes, Handles, kernelVars
<1>2. /\ Len(pending) \in Nat /\ Len(pending) >= 1 /\ pending[1] = received
      /\ pending' = socket_queue /\ Len(pending') = Len(pending) - 1
      /\ \A i \in 1 .. Len(pending') : pending'[i] = pending[i + 1]
  <2>1. pending' = socket_queue
    BY <1>1 DEF pending
  <2>2. Len(socket_queue) \in Nat
    BY <1>1
  <2> QED BY <1>1, <2>1, <2>2, PendingIs DEF BenchInv
<1>3. pending # <<>> /\ pending \in Seq(Queued)
  BY <1>1, PendingIs DEF BenchInv
<1>4. pc # "arguments" /\ datagram # None /\ datagram.at <= now /\ now \in Nat
  BY <1>3 DEF BenchInv, OrderInv, SilenceInv, SenderInv, StampInv, TypeOK, Clocks
<1>5. UNCHANGED <<pc, markers, sent_packets>> /\ markers \in Nat
  BY <1>1 DEF vars, SenderInv, TypeOK, Counts
<1>6. \A i \in 1 .. Len(pending') : pending'[i].type # "start"
  <2> TAKE i \in 1 .. Len(pending')
  <2>1. i + 1 \in 1 .. Len(pending) /\ i + 1 # 1 /\ pending'[i] = pending[i + 1]
    BY <1>2
  <2> QED BY <2>1 DEF BenchInv, OrderInv
<1>7. OrderInv'
  <2> SUFFICES ASSUME NEW i \in 1 .. Len(pending')
               PROVE  /\ pending'[i].type = "quote" => pc \notin Early
                      /\ pending'[i].type = "end" =>
                           /\ Len(pending') - i < markers
                           /\ pending'[i].number = sent_packets
    BY <1>4, <1>5, <1>6 DEF OrderInv
  <2>1. i + 1 \in 1 .. Len(pending) /\ pending'[i] = pending[i + 1]
        /\ Len(pending') - i = Len(pending) - (i + 1)
    BY <1>2
  <2> QED BY <2>1 DEF BenchInv, OrderInv
<1>8. pending' # <<>> => pending'[1].type # "start"
  BY <1>1, <1>2, <1>6
<1> QED BY <1>1, <1>2, <1>4, <1>7, <1>8

LEMMA ReceiverKeepsBench ==
  ASSUME SenderInv, FreshInv, BenchInv, Receiver
  PROVE  BenchInv'
<1>1. /\ BenchTypes /\ OrderInv /\ KernelInv /\ FirstInv /\ SilenceInv
      /\ valid_packets \in Nat /\ rcvbuf_errors \in Nat /\ quotes_out \in Nat /\ markers \in Nat
      /\ start_time_ns <= now /\ now \in Nat /\ None \notin Nat
  BY BenchAssumption DEF BenchInv, BenchTypes, SenderInv, TypeOK, Clocks, Counts, FreshInv
<1>2. ASSUME NEW type, Handles(type)
      PROVE  /\ UNCHANGED <<pc, now, quotes_out, markers, start_time_ns, datagram, rcvbuf_errors>>
             /\ Len(pending) \in Nat
             /\ socket_queue' \in Seq(Queued) /\ received' \in Queued \cup {None}
             /\ KernelInv' <=> (active' => valid_packets' + (Len(pending) - 1) + rcvbuf_errors
                                              = quotes_out + markers)
  <2>1. /\ UNCHANGED <<pc, now, quotes_out, markers, start_time_ns, datagram, rcvbuf_errors>>
        /\ Len(pending) \in Nat /\ Len(pending') = Len(pending) - 1
        /\ socket_queue' \in Seq(Queued) /\ received' \in Queued \cup {None}
        /\ pending' # <<>> => pending'[1].type # "start"
    BY <1>2, HandlesHead DEF vars, outVars, clockVars
  <2> QED BY <2>1 DEF KernelInv
<1>3. CASE HandleStart
  <2>1. Handles("start")
    BY <1>3 DEF HandleStart
  <2>2. ~active /\ Len(pending) + rcvbuf_errors = 1 + quotes_out + markers
    <3>1. 1 \in 1 .. Len(pending) /\ pending[1].type = "start" /\ pending # <<>>
      BY <2>1, HandlesHead, PendingIs, BenchAssumption DEF BenchInv, Queued
    <3> QED BY <1>1, <3>1 DEF OrderInv, KernelInv
  <2>3. CASE valid_start_control
    <3>1. active' = TRUE /\ valid_packets' = 0 /\ first_packet_time' = None
          /\ last_activity_time' = now /\ udp_start' = rcvbuf_errors
      BY <1>3, <2>3 DEF HandleStart
    <3>2. KernelInv'
      BY <1>1, <1>2, <2>1, <2>2, <3>1
    <3>3. BenchTypes' /\ FirstInv' /\ SilenceInv'
      BY <1>1, <1>2, <2>1, <3>1, HandlesHead DEF BenchTypes, FirstInv, SilenceInv
    <3> QED BY <2>1, <3>2, <3>3, HandlesHead DEF BenchInv
  <2>4. CASE ~valid_start_control
    <3>1. UNCHANGED testVars
      BY <1>3, <2>4 DEF HandleStart
    <3>2. KernelInv'
      BY <1>2, <2>1, <2>2, <3>1 DEF testVars
    <3>3. BenchTypes' /\ FirstInv' /\ SilenceInv'
      BY <1>1, <1>2, <2>1, <2>2, <3>1, HandlesHead DEF BenchTypes, FirstInv, SilenceInv, testVars
    <3> QED BY <2>1, <3>2, <3>3, HandlesHead DEF BenchInv
  <2> QED BY <2>3, <2>4
<1>4. CASE HandleQuote
  <2>1. Handles("quote") /\ pc \notin Early
    <3>1. Handles("quote")
      BY <1>4 DEF HandleQuote
    <3>2. 1 \in 1 .. Len(pending) /\ pending[1].type = "quote"
      BY <3>1, HandlesHead
    <3> QED BY <1>1, <3>1, <3>2 DEF OrderInv
  <2>2. CASE active
    <3>1. RecordQuote
      BY <1>4, <2>2 DEF HandleQuote
    <3>2. KernelInv'
      BY <1>1, <1>2, <2>1, <2>2, <3>1 DEF KernelInv, RecordQuote
    <3>3. BenchTypes' /\ FirstInv' /\ SilenceInv'
      BY <1>1, <1>2, <2>1, <3>1, HandlesHead DEF BenchTypes, FirstInv, SilenceInv, RecordQuote
    <3> QED BY <2>1, <3>2, <3>3, HandlesHead DEF BenchInv
  <2>3. CASE ~active
    <3>1. UNCHANGED testVars
      BY <1>4, <2>3 DEF HandleQuote
    <3>2. KernelInv'
      BY <1>2, <2>1, <2>3, <3>1 DEF testVars
    <3>3. BenchTypes' /\ FirstInv' /\ SilenceInv'
      BY <1>1, <1>2, <2>1, <2>3, <3>1, HandlesHead DEF BenchTypes, FirstInv, SilenceInv, testVars
    <3> QED BY <2>1, <3>2, <3>3, HandlesHead DEF BenchInv
  <2> QED BY <2>2, <2>3
<1>5. CASE HandleEnd
  <2>1. Handles("end") /\ ~active'
        /\ UNCHANGED <<valid_packets, first_packet_time, last_activity_time, udp_start>>
    BY <1>5 DEF HandleEnd, testVars
  <2>2. KernelInv'
    BY <1>2, <2>1
  <2>3. BenchTypes' /\ FirstInv' /\ SilenceInv'
    BY <1>1, <1>2, <2>1, HandlesHead DEF BenchTypes, FirstInv, SilenceInv
  <2> QED BY <2>1, <2>2, <2>3, HandlesHead DEF BenchInv
<1>6. CASE Receive \/ TimeOut
  <2>1. /\ UNCHANGED <<vars, rcvbuf_errors, testVars, report>>
        /\ UNCHANGED pending /\ socket_queue' \in Seq(Queued) /\ received' \in Queued \cup {None}
    <3>1. CASE Receive
      BY <1>1, <3>1, PendingStays DEF Receive
    <3>2. CASE TimeOut
      BY <1>1, <3>2 DEF TimeOut, kernelVars, pending, BenchTypes
    <3> QED BY <1>6, <3>1, <3>2
  <2>2. UNCHANGED <<pc, start_time_ns, sent_packets, datagram, quotes_out, markers>>
    BY <2>1 DEF vars, outVars, clockVars
  <2>3. BenchTypes' /\ FirstInv' /\ SilenceInv'
    BY <1>1, <2>1, <2>2 DEF BenchTypes, FirstInv, SilenceInv, testVars
  <2>4. OrderInv' /\ KernelInv'
    BY <1>1, <2>1, <2>2 DEF OrderInv, KernelInv, testVars
  <2> QED BY <2>3, <2>4 DEF BenchInv
<1>7. CASE HandleTimeout
  <2>1. /\ UNCHANGED <<pc, start_time_ns, sent_packets, datagram, quotes_out, markers,
                       rcvbuf_errors, socket_queue, received>>
        /\ UNCHANGED <<valid_packets, first_packet_time, last_activity_time, udp_start>>
        /\ (active' => active) /\ (active \/ UNCHANGED <<active, report>>)
    BY <1>7 DEF HandleTimeout, testVars, vars, kernelVars, outVars, clockVars
  <2>2. pending' = pending
    BY <2>1 DEF pending
  <2>3. BenchTypes' /\ FirstInv' /\ SilenceInv' /\ KernelInv'
    BY <1>1, <2>1, <2>2 DEF BenchTypes, FirstInv, SilenceInv, KernelInv
  <2>4. OrderInv'
    <3>1. active => \A i \in 1 .. Len(pending) : pending[i].type # "start"
      BY <1>1 DEF OrderInv
    <3>2. active => pc # "arguments"
      BY <1>1 DEF SilenceInv
    <3> QED BY <1>1, <2>1, <2>2, <3>1, <3>2 DEF OrderInv
  <2> QED BY <2>3, <2>4 DEF BenchInv
<1> QED BY <1>3, <1>4, <1>5, <1>6, <1>7 DEF Receiver

LEMMA ClockKeepsBench ==
  ASSUME BenchInv, Time PROVE BenchInv'
<1>1. UNCHANGED <<pc, start_time_ns, sent_packets, datagram, quotes_out, markers, socket_queue,
                  received, rcvbuf_errors, active, valid_packets, first_packet_time,
                  last_activity_time, udp_start, report>>
  BY DEF Time, Elapse, kernelVars, receiverVars, testVars, clockVars, outVars
<1> QED BY <1>1 DEF BenchInv, BenchTypes, pending, OrderInv, KernelInv, FirstInv, SilenceInv

LEMMA BenchHolds == BenchSpec => []BenchInv
<1>1. BenchInit => BenchInv
  BY DEF BenchInit, Init, BenchInv, BenchTypes, pending, OrderInv, KernelInv, FirstInv,
         SilenceInv
<1>2. SenderInv /\ FreshInv /\ SenderInv' /\ BenchInv /\ [BenchNext]_benchVars => BenchInv'
  <2> SUFFICES ASSUME SenderInv, FreshInv, SenderInv', BenchInv, [BenchNext]_benchVars
               PROVE  BenchInv'
    OBVIOUS
  <2>1. CASE UNCHANGED benchVars
    BY <2>1 DEF benchVars, vars, kernelVars, receiverVars, testVars, clockVars, outVars,
                BenchInv, BenchTypes, pending, OrderInv, KernelInv, FirstInv, SilenceInv
  <2> QED BY <2>1, SenderKeepsBench, ReceiverKeepsBench, ClockKeepsBench DEF BenchNext
<1> QED BY <1>1, <1>2, BenchSender, PTL DEF BenchSpec
-------------------------------------------------------------------------------
(* The summaries.                                                          *)

ReportInv ==
  /\ active => pps > 0 /\ planned_packets > 0
  /\ report # None => ~active /\ (report.integrity_ok => valid_packets > 0)

LEMMA RateInTime ==
  ASSUME NEW p \in Nat, NEW unit \in Nat, NEW planned \in Int, NEW valid \in Nat,
         valid >= planned, NEW start \in Nat, NEW first \in Nat, NEW end \in Nat,
         start <= first, first <= end, (end - start) * p <= planned * unit
  PROVE  valid * unit * 1000 >= p * 995 * (end - first)
<1> DEFINE d == end - first
           e == end - start
<1>1. d \in Nat /\ e \in Nat /\ d <= e
  OBVIOUS
<1> HIDE DEF d, e
<1>2. d * p <= e * p /\ planned * unit <= valid * unit
  BY <1>1
<1>3. d * p \in Nat /\ e * p \in Nat /\ planned * unit \in Int /\ valid * unit \in Nat
  BY <1>1
<1>4. d * p <= valid * unit
  BY <1>2, <1>3 DEF e
<1>5. p * 995 * d = 995 * (d * p)
  BY <1>1
<1>6. valid * unit * 1000 = 1000 * (valid * unit)
  BY <1>3
<1>7. 1000 * (valid * unit) >= 995 * (d * p)
  BY <1>3, <1>4
<1> QED BY <1>5, <1>6, <1>7 DEF d

LEMMA SummaryFields ==
  ASSUME NEW sent, NEW end, NEW timed_out, report' = Summary(sent, end, timed_out)
  PROVE  /\ report'.missing = Larger(0, sent - valid_packets)
         /\ report'.integrity_ok <=> sent = planned_packets /\ Larger(0, sent - valid_packets) = 0
         /\ report'.rate_ok <=> rate_ok(end)
         /\ report'.end_time = end /\ report'.timed_out = timed_out
         /\ report'.udp_start = udp_start
         /\ report'.RcvbufErrors = rcvbuf_errors - udp_start
         /\ report'.sender = outcome
         /\ report'.silence = IF timed_out THEN timed_out_at - last_activity_time ELSE 0
BY DEF Summary, RcvbufErrors

LEMMA SummaryInTime ==
  ASSUME SenderInv, BenchInv, ReportInv, active, NEW sent \in Int, NEW end \in Nat, NEW timed_out,
         report' = Summary(sent, end, timed_out),
         UNCHANGED <<vars, valid_packets, first_packet_time>>
  PROVE  OnTimeStreamPasses' /\ (report'.integrity_ok => valid_packets' > 0)
<1>1. /\ planned_packets \in Int /\ planned_packets > 0 /\ valid_packets \in Nat
      /\ pps \in Nat /\ start_time_ns \in Nat /\ NANOSECONDS_PER_SECOND \in Nat
      /\ first_packet_time \in Nat \cup {None}
      /\ valid_packets > 0 => first_packet_time # None
      /\ first_packet_time # None => start_time_ns <= first_packet_time
  BY PlannedIsInteger, SenderAssumption
     DEF SenderInv, BenchInv, BenchTypes, FirstInv, ReportInv, TypeOK, Clocks
<1>2. /\ report'.integrity_ok <=> sent = planned_packets /\ Larger(0, sent - valid_packets) = 0
      /\ report'.rate_ok <=> rate_ok(end)
      /\ report'.end_time = end
  BY SummaryFields
<1>3. report'.integrity_ok => valid_packets >= planned_packets
  BY <1>1, <1>2 DEF Larger
<1>4. /\ planned_packets' = planned_packets /\ UNCHANGED <<pps, start_time_ns>>
  BY PlannedFixed DEF vars, callVars, clockVars
<1>5. ASSUME report'.integrity_ok, end > first_packet_time,
             (end - start_time_ns) * pps <= planned_packets * NANOSECONDS_PER_SECOND
      PROVE  rate_ok(end)
  <2>1. first_packet_time # None /\ first_packet_time \in Nat
    BY <1>1, <1>3, <1>5
  <2>2. start_time_ns <= first_packet_time /\ first_packet_time <= end
    BY <1>1, <1>5, <2>1
  <2>3. valid_packets * NANOSECONDS_PER_SECOND * 1000
          >= pps * 995 * (end - first_packet_time)
    BY <1>1, <1>3, <1>5, <2>1, <2>2, RateInTime
  <2> QED BY <1>5, <2>1, <2>3 DEF rate_ok
<1> QED BY <1>1, <1>2, <1>3, <1>4, <1>5 DEF OnTimeStreamPasses

LEMMA SummaryExplained ==
  ASSUME SenderInv, FreshInv, BenchInv, active, Handles("end"),
         report' = Summary(actual_sent(received.number), now, FALSE)
  PROVE  KernelExplainsMissing'
<1> DEFINE sent == actual_sent(received.number)
           missing == Larger(0, sent - valid_packets)
           n == Len(pending)
<1>1. n \in Nat /\ n >= 1 /\ 1 \in 1 .. n /\ pending[1] = received /\ received.type = "end"
  BY HandlesHead
<1>2. n - 1 < markers /\ received.number = sent_packets
  BY <1>1 DEF BenchInv, OrderInv
<1>3. /\ markers \in Nat /\ quotes_out \in Nat /\ valid_packets \in Nat
      /\ rcvbuf_errors \in Nat /\ udp_start \in Nat /\ markers <= END_MARKER_REPEATS
      /\ END_MARKER_REPEATS \in Nat /\ version # "live"
  BY SenderAssumption, NotLive DEF SenderInv, TypeOK, Counts, BenchInv, BenchTypes, FreshInv
<1>4. valid_packets + n + rcvbuf_errors = quotes_out + markers
  BY DEF BenchInv, KernelInv
<1>5. ASSUME outcome \notin {"interrupted", "aborted"} PROVE sent = quotes_out
  <2>1. markers > 0
    BY <1>1, <1>2, <1>3
  <2>2. sent_packets = quotes_out
    BY <1>3, <1>5, <2>1 DEF SenderInv, CountInv
  <2>3. version # "first" => quotes_out = planned_packets
    BY <1>3, <1>5, <2>1 DEF FreshInv, SenderInv, CountInv
  <2> QED BY <1>1, <1>2, <2>2, <2>3 DEF actual_sent
<1> HIDE DEF sent
<1>6. report' = Summary(sent, now, FALSE)
  BY DEF sent
<1> HIDE DEF missing, n
<1>7. /\ report'.missing = missing /\ report'.udp_start = udp_start
      /\ report'.RcvbufErrors = rcvbuf_errors - udp_start /\ report'.sender = outcome
  BY <1>6, SummaryFields DEF missing
<1>8. ASSUME outcome \notin {"interrupted", "aborted"}
      PROVE  /\ udp_start = 0 => missing <= rcvbuf_errors - udp_start
             /\ rcvbuf_errors - udp_start <= missing + END_MARKER_REPEATS - 1
  BY <1>1, <1>2, <1>3, <1>4, <1>5, <1>8 DEF missing, Larger
<1> QED BY <1>7, <1>8 DEF KernelExplainsMissing

ReportsInv == ReportInv /\ KernelExplainsMissing /\ OnTimeStreamPasses

(* Summaries are made once, and what they were made from stays.            *)
LEMMA ReportFrame ==
  ASSUME ReportsInv, BenchInv, UNCHANGED <<callVars, report, active, valid_packets,
                                           first_packet_time>>,
         UNCHANGED start_time_ns \/ pc \in Early
  PROVE  ReportsInv'
<1>1. planned_packets' = planned_packets /\ pps' = pps
  BY PlannedFixed DEF callVars
<1>2. ReportInv' /\ KernelExplainsMissing'
  BY <1>1 DEF ReportsInv, ReportInv, KernelExplainsMissing
<1>3. report # None /\ report.integrity_ok => UNCHANGED start_time_ns
  BY DEF ReportsInv, ReportInv, BenchInv, FirstInv
<1>4. OnTimeStreamPasses'
  BY <1>1, <1>3 DEF ReportsInv, OnTimeStreamPasses
<1> QED BY <1>2, <1>4 DEF ReportsInv

LEMMA ReportsHold == BenchSpec => []ReportsInv
<1>1. BenchInit => ReportsInv
  BY DEF BenchInit, ReportsInv, ReportInv, KernelExplainsMissing, OnTimeStreamPasses
<1>2. SenderInv /\ FreshInv /\ BenchInv /\ ReportsInv /\ [BenchNext]_benchVars => ReportsInv'
  <2> SUFFICES ASSUME SenderInv, FreshInv, BenchInv, ReportsInv, [BenchNext]_benchVars
               PROVE  ReportsInv'
    OBVIOUS
  <2>1. CASE SenderStep
    BY <2>1, SenderHands, ReportFrame DEF SenderStep, receiverVars, testVars
  <2>2. CASE Time \/ UNCHANGED benchVars
    BY <2>2, ReportFrame DEF Time, Elapse, benchVars, vars, receiverVars, testVars, clockVars
  <2>3. CASE HandleStart
    <3>1. Handles("start") /\ UNCHANGED report
      BY <2>3 DEF HandleStart
    <3>2. report = None
      <4>1. 1 \in 1 .. Len(pending) /\ pending[1].type = "start"
        BY <3>1, HandlesHead
      <4> QED BY <4>1 DEF BenchInv, OrderInv
    <3>3. KernelExplainsMissing' /\ OnTimeStreamPasses'
      BY <3>1, <3>2 DEF KernelExplainsMissing, OnTimeStreamPasses
    <3>4. planned_packets' = planned_packets /\ pps' = pps
      BY <3>1, PlannedFixed DEF Handles, vars, callVars
    <3>5. active' => pps > 0 /\ planned_packets > 0
      <4>1. CASE valid_start_control
        BY <4>1 DEF valid_start_control
      <4>2. CASE ~valid_start_control
        BY <2>3, <4>2 DEF HandleStart, testVars, ReportsInv, ReportInv
      <4> QED BY <4>1, <4>2
    <3>6. ReportInv'
      BY <3>1, <3>2, <3>4, <3>5 DEF ReportInv
    <3> QED BY <3>3, <3>6 DEF ReportsInv
  <2>4. CASE HandleQuote
    <3>1. UNCHANGED <<vars, report>>
      BY <2>4 DEF HandleQuote, Handles
    <3>2. CASE active
      <4>1. report = None /\ active' = active
        BY <2>4, <3>2 DEF HandleQuote, RecordQuote, ReportsInv, ReportInv
      <4>2. planned_packets' = planned_packets /\ pps' = pps
        BY <3>1, PlannedFixed DEF vars, callVars
      <4> QED BY <3>1, <4>1, <4>2
              DEF ReportsInv, ReportInv, KernelExplainsMissing, OnTimeStreamPasses
    <3>3. CASE ~active
      BY <2>4, <3>1, <3>3, ReportFrame DEF HandleQuote, testVars, vars, clockVars
    <3> QED BY <3>2, <3>3
  <2>5. CASE HandleEnd
    <3>1. Handles("end") /\ UNCHANGED vars
      BY <2>5 DEF HandleEnd, Handles
    <3>2. CASE active
      <4> DEFINE sent == actual_sent(received.number)
      <4>1. /\ report' = Summary(sent, now, FALSE) /\ ~active'
            /\ UNCHANGED <<valid_packets, first_packet_time>>
        BY <2>5, <3>2 DEF HandleEnd
      <4>2. sent \in Int
        <5>1. received \in Queued /\ planned_packets \in Int
          BY <3>1, HandlesHead, PlannedIsInteger DEF SenderInv
        <5> QED BY <5>1 DEF actual_sent, Queued
      <4>3. now \in Nat
        BY <3>1, HandlesHead
      <4>4. KernelExplainsMissing'
        BY <3>1, <3>2, <4>1, SummaryExplained
      <4> HIDE DEF sent
      <4>5. OnTimeStreamPasses' /\ (report'.integrity_ok => valid_packets' > 0)
        BY <3>1, <3>2, <4>1, <4>2, <4>3, SummaryInTime DEF ReportsInv
      <4> QED BY <4>1, <4>4, <4>5 DEF ReportsInv, ReportInv
    <3>3. CASE ~active
      BY <2>5, <3>1, <3>3, ReportFrame DEF HandleEnd, testVars, vars, clockVars
    <3> QED BY <3>2, <3>3
  <2>6. CASE HandleTimeout
    <3>1. UNCHANGED vars
      BY <2>6 DEF HandleTimeout
    <3>2. CASE active /\ Silent
      <4>1. /\ report' = Summary(planned_packets, last_activity_time, TRUE) /\ ~active'
            /\ UNCHANGED <<valid_packets, first_packet_time>>
        BY <2>6, <3>2 DEF HandleTimeout
      <4>2. planned_packets \in Int /\ last_activity_time \in Nat
        BY PlannedIsInteger DEF SenderInv, BenchInv, BenchTypes
      <4>3. OnTimeStreamPasses' /\ (report'.integrity_ok => valid_packets' > 0)
        BY <3>1, <3>2, <4>1, <4>2, SummaryInTime DEF ReportsInv
      <4>4. report'.timed_out
        BY <4>1, SummaryFields
      <4> QED BY <4>1, <4>3, <4>4 DEF ReportsInv, ReportInv, KernelExplainsMissing
    <3>3. CASE ~(active /\ Silent)
      BY <2>6, <3>1, <3>3, ReportFrame DEF HandleTimeout, testVars, vars, clockVars
    <3> QED BY <3>2, <3>3
  <2>7. CASE Receive \/ TimeOut
    BY <2>7, ReportFrame DEF Receive, TimeOut, testVars, vars, clockVars
  <2> QED BY <2>1, <2>2, <2>3, <2>4, <2>5, <2>6, <2>7 DEF BenchNext, Receiver
<1> QED BY <1>1, <1>2, BenchSender, BenchHolds, PTL DEF BenchSpec

(***************************************************************************)
(* "Missing packets" and the kernel's RcvbufErrors explain each other:     *)
(* whatever the buffer holds and however late the receiver is, a quote is  *)
(* only missing because the kernel dropped and counted it, and beyond the  *)
(* missing quotes it counts END markers only.                              *)
(***************************************************************************)
THEOREM KernelExplainsMissingHolds == BenchSpec => []KernelExplainsMissing
<1>1. ReportsInv => KernelExplainsMissing
  BY DEF ReportsInv
<1> QED BY <1>1, ReportsHold, PTL

(***************************************************************************)
(* The rate check, which measures from the first quote received and not    *)
(* from the start of the stream, passes every whole stream whose END was   *)
(* handled in time, for every rate and duration.                           *)
(***************************************************************************)
THEOREM OnTimeStreamPassesHolds == BenchSpec => []OnTimeStreamPasses
<1>1. ReportsInv => OnTimeStreamPasses
  BY DEF ReportsInv
<1> QED BY <1>1, ReportsHold, PTL
-------------------------------------------------------------------------------
(* Giving up.                                                              *)

LEMMA SenderNotSilent ==
  ASSUME SenderInv, FreshInv, GapInv, pc \notin {"arguments", "exit"}, datagram # None
  PROVE  now < datagram.at + INACTIVITY_TIMEOUT
<1>1. /\ OVERSLEEP \in Nat /\ STALL \in Nat /\ CONTROL_SETTLE \in Nat
      /\ INACTIVITY_TIMEOUT \in Nat /\ END_MARKER_INTERVAL \in Nat
      /\ SPIN_WINDOW_NS \in Nat
  BY SenderAssumption, BenchAssumption
<1>2. /\ CONTROL_SETTLE + OVERSLEEP + STALL < INACTIVITY_TIMEOUT
      /\ END_MARKER_INTERVAL + OVERSLEEP < INACTIVITY_TIMEOUT
  BY <1>1, PatienceAssumption DEF Larger
<1>3. /\ now \in Nat /\ wake \in Int /\ datagram.at \in Nat
      /\ TypeOK /\ CallInv /\ PaceInv /\ version # "live"
  BY DatagramNumbers, NotLive DEF SenderInv, TypeOK, Clocks
<1>4. CASE pc \in {"settle", "anchor"}
  BY <1>1, <1>2, <1>3, <1>4 DEF GapInv
<1>5. CASE pc \in InLoop
  BY <1>3, <1>5, LoopIsNoSilence
<1>6. CASE pc = "count"
  BY <1>1, <1>2, <1>3, <1>6 DEF PaceInv, GapInv
<1>7. CASE pc = "end"
  BY <1>7 DEF GapInv
<1>8. CASE pc = "pause"
  BY <1>1, <1>2, <1>3, <1>8 DEF GapInv, FreshInv
<1> QED BY <1>3, <1>4, <1>5, <1>6, <1>7, <1>8 DEF TypeOK, InLoop

(* What a call that has timed out had seen, until it is handled.           *)
TimedOutInv ==
  timed_out_at # None =>
    /\ timed_out_at \in Nat /\ received = None
    /\ active => \/ pc = "exit"
                 \/ timed_out_at < last_activity_time + INACTIVITY_TIMEOUT

GivingUpInv == TimedOutInv /\ GivenUpWhenOver

LEMMA TimedOut ==
  ASSUME SenderInv, FreshInv, GapInv, BenchInv, TimeOut
  PROVE  TimedOutInv'
<1>1. /\ received = None /\ pending = <<>> /\ timed_out_at' = now
      /\ UNCHANGED <<received, active, pc, last_activity_time>>
  BY DEF TimeOut, InCall, pending, testVars, vars
<1>2. now \in Nat /\ last_activity_time \in Nat /\ INACTIVITY_TIMEOUT \in Nat
  BY BenchAssumption DEF SenderInv, TypeOK, Clocks, BenchInv, BenchTypes
<1>3. ASSUME active, pc # "exit"
      PROVE  now < last_activity_time + INACTIVITY_TIMEOUT
  <2>1. pc # "arguments" /\ datagram # None /\ datagram.at <= last_activity_time
    BY <1>1, <1>3 DEF BenchInv, SilenceInv
  <2>2. datagram.at \in Nat /\ now < datagram.at + INACTIVITY_TIMEOUT
    BY <1>3, <2>1, DatagramNumbers, SenderNotSilent DEF SenderInv
  <2> QED BY <1>2, <2>1, <2>2
<1> QED BY <1>1, <1>2, <1>3 DEF TimedOutInv

(***************************************************************************)
(* The first receiver gives up nobody who is still sending, unless the     *)
(* silence it judges is one of its own making: whenever a call times out,  *)
(* a running sender was heard less than the two seconds ago, since these   *)
(* are longer than a sender in time is silent (PatienceAssumption) and     *)
(* what waits in the buffer ends a call at once.                           *)
(***************************************************************************)
THEOREM GivenUpWhenOverHolds == BenchSpec => []GivenUpWhenOver
<1>1. BenchInit => GivingUpInv
  BY DEF BenchInit, GivingUpInv, TimedOutInv, GivenUpWhenOver
<1>2. SenderInv /\ FreshInv /\ GapInv /\ BenchInv /\ GivingUpInv /\ [BenchNext]_benchVars
        => GivingUpInv'
  <2> SUFFICES ASSUME SenderInv, FreshInv, GapInv, BenchInv, TimedOutInv, GivenUpWhenOver,
                      [BenchNext]_benchVars
               PROVE  GivingUpInv'
    BY DEF GivingUpInv
  <2> USE DEF GivingUpInv
  <2>1. CASE SenderStep
    <3>1. UNCHANGED <<active, received, timed_out_at, last_activity_time, report>> /\ pc # "exit"
      BY <2>1, SenderHands DEF SenderStep, receiverVars, testVars
    <3> QED BY <3>1 DEF TimedOutInv, GivenUpWhenOver
  <2>2. CASE Time \/ Receive \/ UNCHANGED benchVars
    <3>1. /\ UNCHANGED <<active, timed_out_at, last_activity_time, report, pc>>
          /\ timed_out_at = None \/ UNCHANGED received
      BY <2>2 DEF Time, Elapse, Receive, InCall, benchVars, vars, receiverVars, testVars
    <3> QED BY <3>1 DEF TimedOutInv, GivenUpWhenOver
  <2>3. CASE TimeOut
    <3>1. UNCHANGED <<report, pc>>
      BY <2>3 DEF TimeOut, vars
    <3> QED BY <2>3, <3>1, TimedOut DEF GivenUpWhenOver
  <2>4. ASSUME NEW type, Handles(type)
        PROVE  timed_out_at' = None /\ UNCHANGED pc
    BY <2>4 DEF Handles, TimedOutInv, vars
  <2>5. CASE HandleStart \/ HandleQuote
    BY <2>4, <2>5 DEF HandleStart, HandleQuote, TimedOutInv, GivenUpWhenOver
  <2>6. CASE HandleEnd
    <3>1. timed_out_at' = None /\ UNCHANGED pc
      BY <2>4, <2>6 DEF HandleEnd
    <3>2. CASE active
      <4>1. report' = Summary(actual_sent(received.number), now, FALSE)
        BY <2>6, <3>2 DEF HandleEnd
      <4> QED BY <3>1, <4>1, SummaryFields DEF TimedOutInv, GivenUpWhenOver
    <3>3. CASE ~active
      BY <2>6, <3>1, <3>3 DEF HandleEnd, TimedOutInv, GivenUpWhenOver
    <3> QED BY <3>2, <3>3
  <2>7. CASE HandleTimeout
    <3>1. timed_out_at # None /\ timed_out_at' = None /\ UNCHANGED pc
      BY <2>7 DEF HandleTimeout, vars
    <3>2. CASE active /\ Silent
      <4>1. report' = Summary(planned_packets, last_activity_time, TRUE)
        BY <2>7, <3>2 DEF HandleTimeout
      <4>2. report'.silence = timed_out_at - last_activity_time
        BY <4>1, SummaryFields
      <4>3. timed_out_at \in Nat /\ last_activity_time \in Nat /\ INACTIVITY_TIMEOUT \in Nat
        BY <3>1, BenchAssumption DEF TimedOutInv, BenchInv, BenchTypes
      <4>4. timed_out_at - last_activity_time >= INACTIVITY_TIMEOUT => pc = "exit"
        BY <3>1, <3>2, <4>3 DEF TimedOutInv
      <4> QED BY <3>1, <4>2, <4>4 DEF TimedOutInv, GivenUpWhenOver
    <3>3. CASE ~(active /\ Silent)
      BY <2>7, <3>1, <3>3 DEF HandleTimeout, TimedOutInv, GivenUpWhenOver
    <3> QED BY <3>2, <3>3
  <2> QED BY <2>1, <2>2, <2>3, <2>5, <2>6, <2>7 DEF BenchNext, Receiver
<1>3. GivingUpInv => GivenUpWhenOver
  BY DEF GivingUpInv
<1> QED BY <1>1, <1>2, <1>3, BenchSender, BenchGap, BenchHolds, PTL DEF BenchSpec
===============================================================================
