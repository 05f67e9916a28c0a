------------------------------ MODULE PacedSender ------------------------------
(***************************************************************************)
(* The paced senders in time: "first" is host/send_market_stream.py and    *)
(* send_market_stream_2.py, "optimized" and "optimized2" are the files of  *)
(* those names, "live" is phase4/pynq/phase4_9_live_udp_sender.py.  Each   *)
(* quote has a deadline on a fixed schedule; the program sleeps until      *)
(* shortly before it, spins up to it and sends.                            *)
(*                                                                         *)
(* Time passes in Elapse: while the program sleeps (longer than it asked   *)
(* for by at most OVERSLEEP), while it spins, and while it is held up (by  *)
(* at most STALL each) at the end of a spin, on its way to the socket and  *)
(* on its way back.  Both clocks of the program, perf_counter_ns and       *)
(* time_ns, are now.  Printing is left out.                                *)
(***************************************************************************)
EXTENDS Integers

CONSTANTS
  Versions,                  (* the programs to choose from                *)
  Rates, Durations,          (* --pps; --duration, in nanoseconds          *)
  NANOSECONDS_PER_SECOND,    (* the unit of time, coarse in an instance    *)
  MAX_PPS, MAX_PLANNED_PACKETS,
  MAX_FIELD,                 (* 0xFFFFFFFF                                 *)
  SPIN_WINDOW_NS,            (* sleeps end that long before the deadline   *)
  LIVE_SLEEP_FROM, LIVE_SPIN_WINDOW, LIVE_LEAD,
                             (* 500 us, 200 us and 100 ms in "live"        *)
  CONTROL_SETTLE, END_MARKER_INTERVAL, END_MARKER_REPEATS,
  OVERSLEEP, STALL,          (* bounds, see above                          *)
  None                       (* no datagram sent yet                       *)

(* stamp is the time the datagram carries, at the time of its sending.     *)
Datagram == [type : {"start", "quote", "end"}, number : Int, stamp : Int, at : Nat]

ASSUME SenderAssumption ==
  /\ Versions \subseteq {"first", "optimized", "optimized2", "live"}
  /\ Rates \subseteq Int /\ Durations \subseteq Int
  /\ NANOSECONDS_PER_SECOND \in Nat \ {0}
  /\ MAX_PPS \in 1 .. NANOSECONDS_PER_SECOND
  /\ MAX_PLANNED_PACKETS \in Nat /\ MAX_FIELD \in Nat
  /\ SPIN_WINDOW_NS \in Nat /\ LIVE_LEAD \in Nat
  /\ LIVE_SPIN_WINDOW \in Nat /\ LIVE_SLEEP_FROM \in Nat
  /\ LIVE_SPIN_WINDOW <= LIVE_SLEEP_FROM
  /\ CONTROL_SETTLE \in Nat /\ END_MARKER_INTERVAL \in Nat \ {0}
  /\ END_MARKER_REPEATS \in Nat \ {0}
  /\ OVERSLEEP \in Nat /\ STALL \in Nat
  /\ None \notin Datagram

VARIABLES
  version, pps, duration, actual_timestamps,   (* how it was called        *)
  pc,                (* "arguments", "settle", "anchor"; "wait", "sleep",  *)
                     (* "send", "count" in the loop; "end", "pause";       *)
                     (* "exit"                                             *)
  now,
  wake,              (* when the sleep asked for ends; when a step became  *)
                     (* due that may be held up                            *)
  wall_start_ns, start_time_ns, sequence, sent_packets, ready_time_ns,
  missed_deadlines, end_time_ns,
  markers,           (* END markers sent                                   *)
  outcome,           (* "running", then how the stream ended: "failed" by  *)
                     (* an error in the loop, "aborted" by an error or     *)
                     (* Ctrl-C elsewhere                                   *)
  datagram,          (* the last datagram handed to the socket             *)
  quotes_out,        (* history: quotes handed to the socket               *)
  next_reached       (* history: quotes that were ready only when the next *)
                     (* one was due                                        *)

callVars == <<version, pps, duration, actual_timestamps>>
clockVars == <<wall_start_ns, start_time_ns>>
outVars == <<datagram, quotes_out>>
vars == <<callVars, pc, now, wake, clockVars, sequence, sent_packets, ready_time_ns,
          missed_deadlines, end_time_ns, markers, outcome, outVars, next_reached>>

Init ==
  /\ version \in Versions /\ pps \in Rates /\ duration \in Durations
  /\ actual_timestamps \in {TRUE, version # "optimized2"}
  /\ pc = "arguments" /\ now = 0 /\ wake = 0
  /\ wall_start_ns = 0 /\ start_time_ns = 0
  /\ sequence = 1 /\ sent_packets = 0 /\ ready_time_ns = 0
  /\ missed_deadlines = 0 /\ end_time_ns = 0 /\ markers = 0
  /\ outcome = "running"
  /\ datagram = None /\ quotes_out = 0 /\ next_reached = 0
-------------------------------------------------------------------------------
(* The arguments.                                                          *)

(* Python's round of a quotient: to even when it lies in the middle.       *)
round(a, b) ==
  LET q == a \div b
      twice == 2 * (a % b)
  IN  IF twice > b \/ (twice = b /\ q % 2 = 1) THEN q + 1 ELSE q

duration_ms == round(duration * 1000, NANOSECONDS_PER_SECOND)

planned_packets ==
  LET planned == round(pps * duration, NANOSECONDS_PER_SECOND)
  IN  IF version = "live" /\ planned < 2 THEN 2 ELSE planned

validate_arguments ==
  /\ pps \in 1 .. MAX_PPS
  /\ duration > 0
  /\ planned_packets \in 1 .. MAX_FIELD
  /\ duration_ms <= MAX_FIELD

OptimizedAccepts ==
  /\ pps \in 1 .. MAX_PPS
  /\ duration > 0
  /\ planned_packets \in 1 .. MAX_PLANNED_PACKETS
  /\ version = "optimized" => duration_ms <= MAX_FIELD

LiveAccepts == pps > 0 /\ duration > 0

Accepted ==
  CASE version = "first" -> validate_arguments
    [] version = "live"  -> LiveAccepts
    [] OTHER             -> OptimizedAccepts

(* What struct.pack takes for the fields of the START.                     *)
StartPacks == pps <= MAX_FIELD /\ planned_packets <= MAX_FIELD /\ duration_ms <= MAX_FIELD
-------------------------------------------------------------------------------
(* The schedule.                                                           *)

offset_ns(n) ==
  IF version = "live" THEN (n - 1) * (NANOSECONDS_PER_SECOND \div pps)
                      ELSE ((n - 1) * NANOSECONDS_PER_SECOND) \div pps

(* Mutated form: the period counts from the quote before.                  *)
deadline_after_last(n) ==
  IF n = 1 THEN start_time_ns ELSE ready_time_ns + offset_ns(2)

deadline_ns(n) == start_time_ns + offset_ns(n)

sleep_from == IF version = "live" THEN LIVE_SLEEP_FROM ELSE SPIN_WINDOW_NS
spin_window == IF version = "live" THEN LIVE_SPIN_WINDOW ELSE SPIN_WINDOW_NS

(* Mutated form: the period is rounded up.                                 *)
MissedPeriodRoundedUp(lateness) ==
  CASE version = "optimized"  -> lateness * pps >= NANOSECONDS_PER_SECOND
    [] version = "optimized2" -> lateness > NANOSECONDS_PER_SECOND \div pps
    [] OTHER                  -> FALSE

(* "optimized" has the period as a float, "optimized2" rounded down; the   *)
(* others keep no statistics of lateness.                                  *)
MissedPeriod(lateness) ==
  CASE version = "optimized"  -> lateness * pps >= NANOSECONDS_PER_SECOND
    [] version = "optimized2" -> lateness >= NANOSECONDS_PER_SECOND \div pps
    [] OTHER                  -> FALSE
-------------------------------------------------------------------------------
(* Handing a datagram to the socket.                                       *)

Hand(type, number, stamp) ==
  /\ datagram' = [type |-> type, number |-> number, stamp |-> stamp, at |-> now]
  /\ quotes_out' = IF type = "quote" THEN quotes_out + 1 ELSE quotes_out

TypeOf(n) ==
  CASE version = "live" /\ n = 1               -> "start"
    [] version = "live" /\ n = planned_packets -> "end"
    [] OTHER                                   -> "quote"

(* The time a quote carries: its deadline on the wall clock, or the time   *)
(* when it was built.                                                      *)
QuoteStamps ==
  IF actual_timestamps THEN ready_time_ns .. now
                       ELSE {wall_start_ns + offset_ns(sequence)}

Reject ==
  /\ pc = "arguments"
  /\ ~Accepted
  /\ pc' = "exit" /\ outcome' = "rejected"
  /\ UNCHANGED <<callVars, now, wake, clockVars, sequence, sent_packets, ready_time_ns,
                 missed_deadlines, end_time_ns, markers, outVars, next_reached>>

SendStart ==
  /\ pc = "arguments" /\ Accepted /\ version # "live"
  /\ StartPacks
  /\ Hand("start", planned_packets, now)
  /\ wake' = now + CONTROL_SETTLE
  /\ pc' = "settle"
  /\ UNCHANGED <<callVars, now, clockVars, sequence, sent_packets, ready_time_ns,
                 missed_deadlines, end_time_ns, markers, outcome, next_reached>>

(* The live sender has START and END in its loop and a lead instead of the *)
(* pause after the START.                                                  *)
ScheduleLive ==
  /\ pc = "arguments" /\ Accepted /\ version = "live"
  /\ start_time_ns' = now + LIVE_LEAD
  /\ pc' = "wait"
  /\ UNCHANGED <<callVars, now, wake, wall_start_ns, sequence, sent_packets,
                 ready_time_ns, missed_deadlines, end_time_ns, markers, outcome,
                 outVars, next_reached>>

ReadWallClock ==
  /\ pc = "settle" /\ now >= wake
  /\ wall_start_ns' = now /\ wake' = now
  /\ pc' = "anchor"
  /\ UNCHANGED <<callVars, now, start_time_ns, sequence, sent_packets, ready_time_ns,
                 missed_deadlines, end_time_ns, markers, outcome, outVars, next_reached>>

(* Mutated form: the pacing clock is read before the wall clock.           *)
StartClockEarly ==
  /\ pc = "anchor"
  /\ wall_start_ns' = now /\ start_time_ns' = wake
  /\ pc' = "wait"
  /\ UNCHANGED <<callVars, now, wake, sequence, sent_packets, ready_time_ns,
                 missed_deadlines, end_time_ns, markers, outcome, outVars, next_reached>>

StartClock ==
  /\ pc = "anchor"
  /\ start_time_ns' = now
  /\ pc' = "wait"
  /\ UNCHANGED <<callVars, now, wake, wall_start_ns, sequence, sent_packets, ready_time_ns,
                 missed_deadlines, end_time_ns, markers, outcome, outVars, next_reached>>
-------------------------------------------------------------------------------
(* wait_until.                                                             *)

Sleep ==
  /\ pc = "wait"
  /\ deadline_ns(sequence) - now > sleep_from
  /\ wake' = deadline_ns(sequence) - spin_window
  /\ pc' = "sleep"
  /\ UNCHANGED <<callVars, now, clockVars, sequence, sent_packets, ready_time_ns,
                 missed_deadlines, end_time_ns, markers, outcome, outVars, next_reached>>

WakeUp ==
  /\ pc = "sleep" /\ now >= wake
  /\ pc' = "wait"
  /\ UNCHANGED <<callVars, now, wake, clockVars, sequence, sent_packets, ready_time_ns,
                 missed_deadlines, end_time_ns, markers, outcome, outVars, next_reached>>

(* Mutated form: the wait is over only at the deadline itself.             *)
DueExactly == now = deadline_ns(sequence)

Due == now >= deadline_ns(sequence)

(* The wait is over; the lateness goes into the statistics.                *)
Ready ==
  /\ pc = "wait" /\ Due
  /\ ready_time_ns' = now /\ wake' = now
  /\ missed_deadlines' =
       missed_deadlines + (IF MissedPeriod(now - deadline_ns(sequence)) THEN 1 ELSE 0)
  /\ next_reached' = next_reached + (IF now >= deadline_ns(sequence + 1) THEN 1 ELSE 0)
  /\ pc' = "send"
  /\ UNCHANGED <<callVars, now, clockVars, sequence, sent_packets, end_time_ns, markers,
                 outcome, outVars>>
-------------------------------------------------------------------------------
(* The loop and its end.                                                   *)

SendPacket ==
  /\ pc = "send"
  /\ TypeOf(sequence) = "start" => StartPacks
  /\ \E stamp \in QuoteStamps : Hand(TypeOf(sequence), sequence, stamp)
  /\ wake' = now
  /\ pc' = "count"
  /\ UNCHANGED <<callVars, now, clockVars, sequence, sent_packets, ready_time_ns,
                 missed_deadlines, end_time_ns, markers, outcome, next_reached>>

(* Behind the loop: the END markers, which "live" has sent in the loop.    *)
LeaveLoop(how) ==
  /\ pc' = IF version = "live" THEN "exit" ELSE "end"
  /\ end_time_ns' = now
  /\ outcome' = how

(* Mutated form: the count is taken when the wait is over.                 *)
NextQuoteCountsAhead ==
  /\ pc = "count"
  /\ sent_packets' = IF sequence = planned_packets THEN sequence ELSE sequence + 1
  /\ IF sequence = planned_packets
     THEN LeaveLoop("complete") /\ UNCHANGED sequence
     ELSE /\ sequence' = sequence + 1
          /\ pc' = "wait" /\ UNCHANGED <<end_time_ns, outcome>>
  /\ UNCHANGED <<callVars, now, wake, clockVars, ready_time_ns, missed_deadlines, markers,
                 outVars, next_reached>>

NextQuote ==
  /\ pc = "count"
  /\ sent_packets' = sequence
  /\ IF sequence = planned_packets
     THEN LeaveLoop("complete") /\ UNCHANGED sequence
     ELSE /\ sequence' = sequence + 1
          /\ pc' = "wait" /\ UNCHANGED <<end_time_ns, outcome>>
  /\ UNCHANGED <<callVars, now, wake, clockVars, ready_time_ns, missed_deadlines, markers,
                 outVars, next_reached>>

(* A send that raises: only the first version has its END in a finally.    *)
SendFails ==
  /\ pc = "send"
  /\ IF version = "first" THEN LeaveLoop("failed")
     ELSE pc' = "exit" /\ outcome' = "failed" /\ UNCHANGED end_time_ns
  /\ UNCHANGED <<callVars, now, wake, clockVars, sequence, sent_packets, ready_time_ns,
                 missed_deadlines, markers, outVars, next_reached>>

(* A START that does not pack, or a control packet whose send raises.      *)
ControlFails ==
  /\ \/ pc = "arguments" /\ Accepted /\ version # "live"
     \/ pc = "end"
  /\ pc' = "exit" /\ outcome' = "aborted"
  /\ UNCHANGED <<callVars, now, wake, clockVars, sequence, sent_packets, ready_time_ns,
                 missed_deadlines, end_time_ns, markers, outVars, next_reached>>

SendEnd ==
  /\ pc = "end"
  /\ Hand("end", sent_packets, end_time_ns)
  /\ markers' = markers + 1
  /\ wake' = now + END_MARKER_INTERVAL
  /\ pc' = "pause"
  /\ UNCHANGED <<callVars, now, clockVars, sequence, sent_packets, ready_time_ns,
                 missed_deadlines, end_time_ns, outcome, next_reached>>

NextMarker ==
  /\ pc = "pause" /\ now >= wake
  /\ pc' = IF markers < END_MARKER_REPEATS THEN "end" ELSE "exit"
  /\ UNCHANGED <<callVars, now, wake, clockVars, sequence, sent_packets, ready_time_ns,
                 missed_deadlines, end_time_ns, markers, outcome, outVars, next_reached>>

(* Ctrl-C: caught in the loop only, and not at all by "live".  Between the *)
(* send and the line behind it (pc "count") a quote is out that            *)
(* sent_packets does not count.                                            *)
Interrupt ==
  /\ pc \notin {"arguments", "exit"}
  /\ IF version # "live" /\ pc \in {"wait", "sleep", "send", "count"}
     THEN LeaveLoop("interrupted")
     ELSE pc' = "exit" /\ outcome' = "aborted" /\ UNCHANGED end_time_ns
  /\ UNCHANGED <<callVars, now, wake, clockVars, sequence, sent_packets, ready_time_ns,
                 missed_deadlines, markers, outVars, next_reached>>
-------------------------------------------------------------------------------
(* Where the program lets time pass.                                       *)
MayElapse ==
  \/ pc \in {"settle", "sleep", "pause"} /\ now < wake + OVERSLEEP
  \/ pc \in {"anchor", "send", "count"} /\ now < wake + STALL
  \/ pc = "wait" /\ deadline_ns(sequence) - now \in 1 - STALL .. sleep_from

Elapse ==
  /\ MayElapse
  /\ now' = now + 1
  /\ UNCHANGED <<callVars, pc, wake, clockVars, sequence, sent_packets, ready_time_ns,
                 missed_deadlines, end_time_ns, markers, outcome, outVars, next_reached>>

Program ==
  \/ Reject \/ SendStart \/ ScheduleLive \/ ReadWallClock \/ StartClock
  \/ Sleep \/ WakeUp \/ Ready \/ SendPacket \/ SendFails \/ NextQuote
  \/ ControlFails \/ SendEnd \/ NextMarker

Exited == pc = "exit" /\ UNCHANGED vars

Next == Program \/ Interrupt \/ Elapse \/ Exited

Spec == Init /\ [][Next]_vars

(* The program is scheduled and its clock goes on.                         *)
FairSpec == Spec /\ WF_vars(Program \/ Elapse)
-------------------------------------------------------------------------------
Larger(a, b) == IF a >= b THEN a ELSE b

Clocks ==
  /\ now \in Nat /\ wake \in Int
  /\ wall_start_ns \in Nat /\ start_time_ns \in Nat
  /\ ready_time_ns \in Nat /\ end_time_ns \in Nat

Counts ==
  /\ sequence \in Nat \ {0}
  /\ sent_packets \in Nat /\ markers \in Nat
  /\ missed_deadlines \in Nat /\ quotes_out \in Nat /\ next_reached \in Nat

(* Types.                                                                  *)
TypeOK ==
  /\ version \in Versions /\ pps \in Rates /\ duration \in Durations
  /\ actual_timestamps \in BOOLEAN
  /\ pc \in {"arguments", "settle", "anchor", "wait", "sleep", "send", "count", "end",
             "pause", "exit"}
  /\ Clocks
  /\ Counts
  /\ outcome \in {"running", "rejected", "complete", "interrupted", "failed", "aborted"}
  /\ datagram \in Datagram \cup {None}

(***************************************************************************)
(* Pacing: no quote leaves before its deadline, and delay does not         *)
(* accumulate from packet to packet (docs/phase2_udp_communication.md:947).*)
(* A quote is ready as late behind its deadline as one sleep came back     *)
(* beyond the spin or one hold-up lasted, or else at most one hold-up      *)
(* behind the quote before.                                                *)
(***************************************************************************)
PacedByDeadline ==
  pc = "send" =>
    /\ ready_time_ns >= deadline_ns(sequence)
    /\ \/ ready_time_ns <= deadline_ns(sequence) + Larger(STALL, OVERSLEEP - spin_window)
       \/ sequence # 1 /\ ready_time_ns <= datagram.at + STALL

(***************************************************************************)
(* "Missed pacing periods" of the optimized senders: the first counts only *)
(* quotes that were not ready until the next was due, the second counts    *)
(* every such quote.  Neither is exact, because deadlines are rounded down *)
(* and the period is not, or once for all.                                 *)
(***************************************************************************)
MissedPeriodsBracketed ==
  /\ version = "optimized"  => missed_deadlines <= next_reached
  /\ version = "optimized2" => missed_deadlines >= next_reached

(***************************************************************************)
(* The END markers come behind all quotes and carry their number, or one   *)
(* less when Ctrl-C came between a send and its count; a complete stream   *)
(* has every quote and every marker, and an interrupted one every marker   *)
(* unless their sending is cut short as well.  An error in the loop leaves *)
(* only the first version its markers.                                     *)
(***************************************************************************)
EndCountsTheStream ==
  /\ markers > 0 =>
       /\ datagram.type = "end"
       /\ \/ datagram.number = quotes_out
          \/ outcome \in {"interrupted", "aborted"} /\ datagram.number = quotes_out - 1
  /\ outcome = "complete" /\ version # "live" => quotes_out = planned_packets
  /\ pc = "exit" /\ outcome \in {"complete", "interrupted"} /\ version # "live" =>
       markers = END_MARKER_REPEATS
  /\ pc = "exit" /\ outcome = "failed" =>
       markers = IF version = "first" THEN END_MARKER_REPEATS ELSE 0

(***************************************************************************)
(* The times in the packets: no datagram carries a time later than its     *)
(* sending, and they never go back from one to the next, although the      *)
(* START, the quotes and the END get theirs in three different ways.       *)
(***************************************************************************)
TimestampsInOrder ==
  [][datagram' # datagram =>
       /\ datagram'.stamp <= datagram'.at
       /\ datagram # None => datagram.stamp <= datagram'.stamp]_vars

(* Every call comes to an end, however late the program is woken.          *)
SenderExits == <>(pc = "exit")
===============================================================================
