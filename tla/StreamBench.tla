------------------------------ MODULE StreamBench ------------------------------
(***************************************************************************)
(* One test of the Phase 2 bench in time: a paced sender, the receiver's   *)
(* socket buffer, and the receiver.  The direct Ethernet link loses and    *)
(* reorders nothing; a datagram that finds the buffer full is dropped by   *)
(* the kernel, which counts it.  The receiver may be late for anything:    *)
(* for its next call, and between the return of a call and the line that   *)
(* reads the clock and acts on what the call returned.                     *)
(*                                                                         *)
(* The sender "first" faces pynq/receive_market_stream.py or _2.py, which  *)
(* look at the clock after every half second of silence; the others face   *)
(* pynq/receive_market_stream_optimized.py, which reads the kernel's       *)
(* counters instead.  Duplicates and strangers are in StreamReceiver; the  *)
(* numbers of an ordered stream without them need no table of those seen.  *)
(***************************************************************************)
EXTENDS PacedSender, Sequences

CONSTANTS
  SOCKET_SLOTS,        (* datagrams the socket buffer holds                *)
  SOCKET_TIMEOUT,      (* half a second                                    *)
  INACTIVITY_TIMEOUT   (* two seconds                                      *)

(* The live sender faces another receiver.                                 *)
ASSUME BenchAssumption ==
  /\ "live" \notin Versions
  /\ SOCKET_SLOTS \in Nat \ {0}
  /\ SOCKET_TIMEOUT \in Nat \ {0}
  /\ INACTIVITY_TIMEOUT \in Nat
  /\ None \notin Nat /\ None \notin [type : {"start", "quote", "end"}, number : Int]

(* Two seconds are longer than a sender is silent: a period is at most one *)
(* second, and what the bounds on its delays add to it is less.            *)
ASSUME PatienceAssumption ==
  LET late == Larger(STALL, OVERSLEEP - SPIN_WINDOW_NS) + STALL
  IN  /\ CONTROL_SETTLE + OVERSLEEP + STALL + late < INACTIVITY_TIMEOUT
      /\ \A r \in Rates :
            r > 0 => NANOSECONDS_PER_SECOND \div r + 1 + late < INACTIVITY_TIMEOUT
      /\ END_MARKER_INTERVAL + OVERSLEEP < INACTIVITY_TIMEOUT

VARIABLES
  socket_queue, rcvbuf_errors,   (* the kernel: buffer, RcvbufErrors       *)
  active, valid_packets, first_packet_time, last_activity_time,
  udp_start,                     (* RcvbufErrors at the START              *)
  called_at,                     (* when the receive call was made         *)
  received,                      (* the datagram a call has returned with, *)
                                 (* until it is handled                    *)
  timed_out_at,                  (* history: when a call timed out, until  *)
                                 (* that is handled                        *)
  report,                        (* the summary, or None                   *)
  end_queued                     (* history: an END got into the buffer    *)

testVars == <<active, valid_packets, first_packet_time, last_activity_time, udp_start>>
receiverVars == <<testVars, called_at, received, timed_out_at, report>>
kernelVars == <<socket_queue, rcvbuf_errors, end_queued>>
benchVars == <<vars, kernelVars, receiverVars>>

BenchInit ==
  /\ Init
  /\ socket_queue = <<>> /\ rcvbuf_errors = 0 /\ end_queued = FALSE
  /\ active = FALSE /\ valid_packets = 0
  /\ first_packet_time = None /\ last_activity_time = 0
  /\ udp_start = 0 /\ called_at = 0 /\ received = None /\ timed_out_at = None
  /\ report = None
-------------------------------------------------------------------------------
(* The kernel takes what the sender has just sent.                         *)
Deliver ==
  IF datagram' = datagram THEN UNCHANGED kernelVars
  ELSE IF Len(socket_queue) < SOCKET_SLOTS
       THEN /\ socket_queue' =
                 Append(socket_queue, [type |-> datagram'.type, number |-> datagram'.number])
            /\ end_queued' = (end_queued \/ datagram'.type = "end")
            /\ UNCHANGED rcvbuf_errors
       ELSE /\ rcvbuf_errors' = rcvbuf_errors + 1
            /\ UNCHANGED <<socket_queue, end_queued>>

SenderStep ==
  /\ Program \/ Interrupt
  /\ Deliver
  /\ UNCHANGED receiverVars
-------------------------------------------------------------------------------
(* The receiver.                                                           *)

InCall == received = None /\ timed_out_at = None

(* recvfrom_into returns with a datagram.                                  *)
Receive ==
  /\ InCall
  /\ socket_queue # <<>>
  /\ received' = Head(socket_queue)
  /\ socket_queue' = Tail(socket_queue)
  /\ UNCHANGED <<vars, rcvbuf_errors, end_queued, testVars, called_at, timed_out_at, report>>

(* socket.timeout, in the first version: nothing waits at that moment.     *)
TimeOut ==
  /\ version = "first"
  /\ InCall
  /\ socket_queue = <<>> /\ now >= called_at + SOCKET_TIMEOUT
  /\ timed_out_at' = now
  /\ UNCHANGED <<vars, kernelVars, testVars, called_at, received, report>>

(* The next call follows the handling.                                     *)
Handles(type) ==
  /\ received # None
  /\ received.type = type
  /\ received' = None
  /\ called_at' = now
  /\ UNCHANGED <<vars, kernelVars, timed_out_at>>

valid_start_control ==
  /\ pps > 0
  /\ duration_ms > 0
  /\ planned_packets \in 1 .. MAX_PLANNED_PACKETS

(* Mutated form: the test is timed from its START.                         *)
HandleStartTimed ==
  /\ Handles("start")
  /\ IF valid_start_control
     THEN /\ active' = TRUE /\ valid_packets' = 0
          /\ first_packet_time' = now /\ last_activity_time' = now
          /\ udp_start' = rcvbuf_errors
     ELSE UNCHANGED testVars
  /\ UNCHANGED report

(* A START that the check refuses is ignored.                              *)
HandleStart ==
  /\ Handles("start")
  /\ IF valid_start_control
     THEN /\ active' = TRUE /\ valid_packets' = 0
          /\ first_packet_time' = None /\ last_activity_time' = now
          /\ udp_start' = rcvbuf_errors
     ELSE UNCHANGED testVars
  /\ UNCHANGED report

(* Mutated form: a quote is no activity.                                   *)
RecordQuoteQuietly ==
  /\ valid_packets' = valid_packets + 1
  /\ first_packet_time' = IF first_packet_time = None THEN now ELSE first_packet_time
  /\ UNCHANGED <<active, last_activity_time, udp_start>>

(* The first valid quote starts the clock of the rate.                     *)
RecordQuote ==
  /\ valid_packets' = valid_packets + 1
  /\ first_packet_time' = IF first_packet_time = None THEN now ELSE first_packet_time
  /\ last_activity_time' = now
  /\ UNCHANGED <<active, udp_start>>

HandleQuote ==
  /\ Handles("quote")
  /\ IF active THEN RecordQuote ELSE UNCHANGED testVars
  /\ UNCHANGED report

(* At least 99.5 % of the target, over the time from the first quote.      *)
rate_ok(end_time) ==
  /\ first_packet_time # None
  /\ end_time > first_packet_time
  /\ valid_packets * NANOSECONDS_PER_SECOND * 1000
       >= pps * 995 * (end_time - first_packet_time)

(* Mutated form: the count in the END is not looked at.                    *)
actual_sent_planned(count) == planned_packets

(* Which count the END of an interrupted sender gives is in StreamReceiver;*)
(* a count of 0 becomes the planned one in the later versions.             *)
actual_sent(count) == IF version # "first" /\ count = 0 THEN planned_packets ELSE count

(* The errors of /proc/net/snmp since the START.                           *)
RcvbufErrors == rcvbuf_errors - udp_start

(* silence: how long nothing had come when the last call timed out.        *)
Summary(sent, end_time, timed_out) ==
  LET missing == Larger(0, sent - valid_packets)
  IN  [missing |-> missing, integrity_ok |-> sent = planned_packets /\ missing = 0,
       rate_ok |-> rate_ok(end_time), end_time |-> end_time, timed_out |-> timed_out,
       udp_start |-> udp_start, RcvbufErrors |-> RcvbufErrors, sender |-> outcome,
       silence |-> IF timed_out THEN timed_out_at - last_activity_time ELSE 0]

(* Mutated form: an END is looked at only behind a quote.                  *)
HandleEndAfterQuote ==
  /\ Handles("end")
  /\ IF active /\ valid_packets > 0
     THEN /\ report' = Summary(actual_sent(received.number), now, FALSE)
          /\ active' = FALSE
          /\ UNCHANGED <<valid_packets, first_packet_time, last_activity_time, udp_start>>
     ELSE UNCHANGED <<testVars, report>>

HandleEnd ==
  /\ Handles("end")
  /\ IF active
     THEN /\ report' = Summary(actual_sent(received.number), now, FALSE)
          /\ active' = FALSE
          /\ UNCHANGED <<valid_packets, first_packet_time, last_activity_time, udp_start>>
     ELSE UNCHANGED <<testVars, report>>

Silent == now - last_activity_time >= INACTIVITY_TIMEOUT

(* The line behind socket.timeout, where the clock is read.                *)
HandleTimeout ==
  /\ timed_out_at # None
  /\ timed_out_at' = None
  /\ called_at' = now
  /\ IF active /\ Silent
     THEN /\ report' = Summary(planned_packets, last_activity_time, TRUE)
          /\ active' = FALSE
          /\ UNCHANGED <<valid_packets, first_packet_time, last_activity_time, udp_start>>
     ELSE UNCHANGED <<testVars, report>>
  /\ UNCHANGED <<vars, kernelVars, received>>

Receiver ==
  \/ Receive \/ HandleStart \/ HandleQuote \/ HandleEnd
  \/ TimeOut \/ HandleTimeout

(* Time goes on behind the sender's exit while the receiver waits for it.  *)
Time ==
  \/ /\ Elapse
     /\ UNCHANGED <<kernelVars, receiverVars>>
  \/ /\ pc = "exit" /\ version = "first" /\ active
     /\ InCall /\ socket_queue = <<>> /\ now < called_at + SOCKET_TIMEOUT
     /\ now' = now + 1
     /\ UNCHANGED <<callVars, pc, wake, clockVars, sequence, sent_packets, ready_time_ns,
                    missed_deadlines, end_time_ns, markers, outcome, outVars, next_reached,
                    kernelVars, receiverVars>>

BenchNext == SenderStep \/ Receiver \/ Time \/ (pc = "exit" /\ UNCHANGED benchVars)

BenchSpec == BenchInit /\ [][BenchNext]_benchVars

(* Both programs run on and the clock with them.                           *)
BenchFairSpec == BenchSpec /\ WF_benchVars(SenderStep \/ Time) /\ WF_benchVars(Receiver)
-------------------------------------------------------------------------------
(***************************************************************************)
(* "Missing packets" and the kernel's RcvbufErrors tell the same losses    *)
(* (docs/phase2_udp_communication.md:1282): unless the sender was          *)
(* interrupted, every missing quote is among the errors counted since the  *)
(* START, if the START was handled before the first drop, and beyond the   *)
(* missing quotes only END markers are.                                    *)
(***************************************************************************)
KernelExplainsMissing ==
  report # None /\ ~report.timed_out
  /\ report.sender \notin {"interrupted", "aborted"} =>
    /\ report.udp_start = 0 => report.missing <= report.RcvbufErrors
    /\ report.RcvbufErrors <= report.missing + END_MARKER_REPEATS - 1

(***************************************************************************)
(* The rate check is fair to a stream in time: when all quotes arrived and *)
(* the END was handled within one period of the last deadline, it passes,  *)
(* however late single quotes were sent and handled on the way.            *)
(***************************************************************************)
OnTimeStreamPasses ==
  report # None /\ report.integrity_ok /\ report.end_time > first_packet_time
  /\ (report.end_time - start_time_ns) * pps <= planned_packets * NANOSECONDS_PER_SECOND
    => report.rate_ok

(***************************************************************************)
(* Inactivity is judged by the clock behind the call that timed out.  When *)
(* the first receiver gives up a sender that is not gone, then less than   *)
(* the two seconds had passed in silence when the call timed out, and the  *)
(* rest is a delay of the receiver itself: neither a late sender nor a     *)
(* receiver late for its calls is enough.                                  *)
(***************************************************************************)
GivenUpWhenOver ==
  report # None /\ report.timed_out /\ report.silence >= INACTIVITY_TIMEOUT => pc = "exit"

(***************************************************************************)
(* A test is reported: in the first version always, in the later ones when *)
(* at least one END marker found room in the buffer.                       *)
(***************************************************************************)
StreamReported == active /\ (version = "first" \/ end_queued) ~> report # None
===============================================================================
