----------------------------- MODULE StreamReceiver -----------------------------
(***************************************************************************)
(* The Phase 2 stream test: host/send_market_stream*.py announce a number  *)
(* of quotes with a START, send them numbered from 1 and close with five   *)
(* equal END markers; pynq/receive_market_stream* count what arrives and   *)
(* print a summary.  The receiver runs on through many tests.              *)
(*                                                                         *)
(* UDP may lose, duplicate, delay and reorder every datagram: any datagram *)
(* that was sent may arrive at any later time, any number of times.  The   *)
(* five END markers are one datagram here.                                 *)
(***************************************************************************)
EXTENDS Integers, Sequences, FiniteSets

CONSTANTS
  Senders,         (* addresses of sender sockets, one stream each         *)
  Planned,         (* planned number of quotes of each stream              *)
  Versions,        (* of the receiver: "first" is receive_market_stream.py *)
                   (* and _2.py, where a silent stream times out and the   *)
                   (* count of an END is taken as it is; "later" the       *)
                   (* optimized ones, which repair that count              *)
  MaxArrivals,     (* bound: datagrams that arrive                         *)
  None             (* no sender; no report yet                             *)

ASSUME StreamTestAssumption ==
  /\ Planned \in [Senders -> Nat \ {0}]
  /\ Versions \subseteq {"first", "later"}
  /\ MaxArrivals \in Nat
  /\ None \notin Senders

VARIABLES
  phase,           (* of each sender: "idle", "streaming" or "ended"       *)
  sent,            (* the quotes it has sent                               *)
  sent_packets,    (* the quotes it has counted, once send() returned      *)
  running, version,
  active, sender, planned_packets, seen_sequences,
  valid_packets, invalid_packets, duplicate_packets, out_of_order_packets,
  highest_sequence,
  report,          (* the last summary; with the history it is about       *)
  heard,           (* history: quotes taken as the test's own since its    *)
                   (* START, duplicates too                                *)
  arrivals

senderVars == <<phase, sent, sent_packets>>
counters == <<valid_packets, invalid_packets, duplicate_packets,
              out_of_order_packets, highest_sequence>>
testVars == <<active, sender, planned_packets, seen_sequences>>
vars == <<senderVars, running, version, testVars, counters, report, heard, arrivals>>

Init ==
  /\ phase = [s \in Senders |-> "idle"]
  /\ sent = [s \in Senders |-> 0] /\ sent_packets = [s \in Senders |-> 0]
  /\ running = TRUE /\ version \in Versions
  /\ active = FALSE /\ sender = None /\ planned_packets = 0 /\ seen_sequences = {}
  /\ valid_packets = 0 /\ invalid_packets = 0
  /\ duplicate_packets = 0 /\ out_of_order_packets = 0
  /\ highest_sequence = 0
  /\ report = None
  /\ heard = <<>> /\ arrivals = 0
-------------------------------------------------------------------------------
(* The senders.                                                            *)

SendStart(s) ==
  /\ phase[s] = "idle"
  /\ phase' = [phase EXCEPT ![s] = "streaming"]
  /\ UNCHANGED <<sent, sent_packets>>

SendQuote(s) ==
  /\ phase[s] = "streaming"
  /\ sent_packets[s] = sent[s] /\ sent[s] < Planned[s]
  /\ sent' = [sent EXCEPT ![s] = @ + 1]
  /\ UNCHANGED <<phase, sent_packets>>

Count(s) ==
  /\ phase[s] = "streaming"
  /\ sent_packets' = [sent_packets EXCEPT ![s] = sent[s]]
  /\ UNCHANGED <<phase, sent>>

(* After the last quote, or early when the user interrupts the sender: it  *)
(* may be anywhere then, between sending a quote and counting it too.      *)
SendEnd(s) ==
  /\ phase[s] = "streaming"
  /\ phase' = [phase EXCEPT ![s] = "ended"]
  /\ UNCHANGED <<sent, sent_packets>>

Start(s)    == [type |-> "start", sender |-> s]
Quote(s, n) == [type |-> "quote", sender |-> s, sequence |-> n]
End(s)      == [type |-> "end", sender |-> s, sequence |-> sent_packets[s]]
(* A stranger's datagram of the wrong length, magic or version; one whose  *)
(* other fields are wrong, which any socket may send.                      *)
Garbled     == [type |-> "garbled"]
Other(s)    == [type |-> "other", sender |-> s]

Deliverable ==
  {Start(s) : s \in {s \in Senders : phase[s] # "idle"}}
  \cup (UNION {{Quote(s, n) : n \in 1 .. sent[s]} : s \in Senders})
  \cup {End(s) : s \in {s \in Senders : phase[s] = "ended"}}
  \cup {Garbled} \cup {Other(s) : s \in Senders}
-------------------------------------------------------------------------------
(* The receiver, by what becomes of a datagram.                            *)

Arrives(d) ==
  /\ running
  /\ arrivals < MaxArrivals
  /\ d \in Deliverable
  /\ arrivals' = arrivals + 1
  /\ UNCHANGED <<senderVars, running, version>>

(* A START begins a new test, even in the middle of one.                   *)
HandleStart(d) ==
  /\ Arrives(d)
  /\ d.type = "start"
  /\ active' = TRUE /\ sender' = d.sender
  /\ planned_packets' = Planned[d.sender] /\ seen_sequences' = {}
  /\ valid_packets' = 0 /\ invalid_packets' = 0
  /\ duplicate_packets' = 0 /\ out_of_order_packets' = 0
  /\ highest_sequence' = 0
  /\ heard' = <<>>
  /\ UNCHANGED report

(* Mutated form: the repair takes a count of one for none.                 *)
actual_sent_above_one(count) ==
  IF version = "first" \/ count \in 2 .. planned_packets THEN count ELSE planned_packets

(* The END marker carries the sender's count, as its sequence and as its   *)
(* quantity; the later versions repair a count out of range.               *)
actual_sent(count) ==
  IF version = "first" \/ count \in 1 .. planned_packets THEN count ELSE planned_packets

missing_packets(count) == IF count > valid_packets THEN count - valid_packets ELSE 0

integrity_ok(count) ==
  /\ count = planned_packets
  /\ missing_packets(count) = 0
  /\ invalid_packets = 0
  /\ duplicate_packets = 0
  /\ out_of_order_packets = 0

finish(count, timed_out) ==
  /\ report' = [stream |-> sender, actual_sent |-> count,
                missing_packets |-> missing_packets(count),
                integrity_ok |-> integrity_ok(count),
                timed_out |-> timed_out, heard |-> heard]
  /\ active' = FALSE /\ sender' = None /\ seen_sequences' = {}
  /\ UNCHANGED <<planned_packets, counters, heard>>

HandleEnd(d) ==
  /\ Arrives(d)
  /\ d.type = "end"
  /\ active /\ d.sender = sender
  /\ finish(actual_sent(d.sequence), FALSE)

(* Mutated form: the sender is not looked at.                              *)
IsQuoteOfAnyone(d) ==
  /\ active
  /\ d.type = "quote" /\ d.sequence \in 1 .. planned_packets

IsQuote(d) ==
  /\ active
  /\ d.type = "quote" /\ d.sender = sender
  /\ d.sequence \in 1 .. planned_packets

(* Mutated form: late is what comes behind its turn.                       *)
HandleQuoteByTurn(d) ==
  /\ Arrives(d)
  /\ IsQuote(d)
  /\ d.sequence \notin seen_sequences
  /\ seen_sequences' = seen_sequences \cup {d.sequence}
  /\ valid_packets' = valid_packets + 1
  /\ out_of_order_packets' =
       out_of_order_packets + (IF d.sequence < valid_packets + 1 THEN 1 ELSE 0)
  /\ highest_sequence' = IF d.sequence > highest_sequence THEN d.sequence ELSE highest_sequence
  /\ heard' = Append(heard, d)
  /\ UNCHANGED <<active, sender, planned_packets, invalid_packets, duplicate_packets, report>>

HandleQuote(d) ==
  /\ Arrives(d)
  /\ IsQuote(d)
  /\ d.sequence \notin seen_sequences
  /\ seen_sequences' = seen_sequences \cup {d.sequence}
  /\ valid_packets' = valid_packets + 1
  /\ out_of_order_packets' =
       out_of_order_packets + (IF d.sequence < highest_sequence THEN 1 ELSE 0)
  /\ highest_sequence' = IF d.sequence > highest_sequence THEN d.sequence ELSE highest_sequence
  /\ heard' = Append(heard, d)
  /\ UNCHANGED <<active, sender, planned_packets, invalid_packets, duplicate_packets, report>>

(* Mutated form: a duplicate counts as a valid quote as well.              *)
HandleDuplicateAsValid(d) ==
  /\ Arrives(d)
  /\ IsQuote(d)
  /\ d.sequence \in seen_sequences
  /\ valid_packets' = valid_packets + 1
  /\ heard' = Append(heard, d)
  /\ UNCHANGED <<testVars, invalid_packets, duplicate_packets, out_of_order_packets,
                 highest_sequence, report>>

HandleDuplicate(d) ==
  /\ Arrives(d)
  /\ IsQuote(d)
  /\ d.sequence \in seen_sequences
  /\ duplicate_packets' = duplicate_packets + 1
  /\ heard' = Append(heard, d)
  /\ UNCHANGED <<testVars, valid_packets, invalid_packets, out_of_order_packets,
                 highest_sequence, report>>

(* Whatever else arrives during a test counts as invalid, except a         *)
(* stranger's END; without a test it is ignored.                           *)
HandleInvalid(d) ==
  /\ Arrives(d)
  /\ d.type \in {"garbled", "quote", "other"}
  /\ active /\ ~IsQuote(d)
  /\ invalid_packets' = invalid_packets + 1
  /\ UNCHANGED <<testVars, valid_packets, duplicate_packets, out_of_order_packets,
                 highest_sequence, report, heard>>

Ignore(d) ==
  /\ Arrives(d)
  /\ IF active THEN d.type = "end" /\ d.sender # sender ELSE d.type # "start"
  /\ UNCHANGED <<testVars, counters, report, heard>>

(* Mutated form: the inactivity is only looked at once a quote has come.   *)
InactivityAfterQuote ==
  /\ version = "first"
  /\ running
  /\ active /\ valid_packets > 0
  /\ finish(planned_packets, TRUE)
  /\ UNCHANGED <<senderVars, running, version, arrivals>>

(* Two seconds without a datagram, in the first version only.              *)
Inactivity ==
  /\ version = "first"
  /\ running
  /\ active
  /\ finish(planned_packets, TRUE)
  /\ UNCHANGED <<senderVars, running, version, arrivals>>

(* Ctrl-C: the loop ends, a test in progress is not reported.              *)
Stop ==
  /\ running
  /\ running' = FALSE
  /\ UNCHANGED <<senderVars, version, testVars, counters, report, heard, arrivals>>

Send == /\ \E s \in Senders : SendStart(s) \/ SendQuote(s) \/ Count(s) \/ SendEnd(s)
        /\ UNCHANGED <<running, version, testVars, counters, report, heard, arrivals>>

Next ==
  \/ Send
  \/ \E d \in Deliverable :
       \/ HandleStart(d) \/ HandleEnd(d) \/ HandleQuote(d) \/ HandleDuplicate(d)
       \/ HandleInvalid(d) \/ Ignore(d)
  \/ Inactivity
  \/ Stop

Spec == Init /\ [][Next]_vars

(* The socket times out every half second.                                 *)
FairSpec == Spec /\ WF_vars(Inactivity)
-------------------------------------------------------------------------------
QuotesUpTo(n) == {Quote(s, m) : s \in Senders, m \in 1 .. n}
Numbers(quotes) == {quotes[i].sequence : i \in DOMAIN quotes}
WholeStream(s) == [i \in 1 .. Planned[s] |-> Quote(s, i)]

SenderTypes ==
  /\ phase \in [Senders -> {"idle", "streaming", "ended"}]
  /\ sent \in [Senders -> Nat] /\ sent_packets \in [Senders -> Nat]
  /\ \A s \in Senders : sent[s] <= Planned[s] /\ sent[s] - sent_packets[s] \in 0 .. 1

TestTypes ==
  /\ active \in BOOLEAN
  /\ active => sender \in Senders /\ planned_packets = Planned[sender]
  /\ ~active => sender = None
  /\ planned_packets \in Nat
  /\ heard \in Seq(QuotesUpTo(planned_packets))

CounterTypes ==
  /\ seen_sequences \subseteq 1 .. planned_packets
  /\ highest_sequence \in 0 .. planned_packets
  /\ valid_packets \in Nat /\ invalid_packets \in Nat
  /\ duplicate_packets \in Nat /\ out_of_order_packets \in Nat

(* Types; what a test has seen is within what its START announced.         *)
TypeOK ==
  /\ SenderTypes
  /\ running \in BOOLEAN /\ version \in Versions /\ arrivals \in 0 .. MaxArrivals
  /\ TestTypes
  /\ CounterTypes

(***************************************************************************)
(* "Integrity" in the summary of a test, which a PASS takes, means that    *)
(* the receiver heard the announced quotes of that sender's stream, every  *)
(* one, once and in order, and no other: through restarted tests, late and *)
(* foreign packets.                                                        *)
(***************************************************************************)
IntegrityMeansStreamArrived ==
  report # None /\ report.integrity_ok => report.heard = WholeStream(report.stream)

(***************************************************************************)
(* The missing packets of a summary, a mere difference of two counts, are  *)
(* the numbers up to the count it is about that were never heard, but for  *)
(* one case: a quote heard and not counted, the last one sent before a     *)
(* Ctrl-C, makes up for one that was lost.                                 *)
(***************************************************************************)
MissingAccounted ==
  report # None =>
    LET count     == report.actual_sent
        unheard   == (1 .. count) \ Numbers(report.heard)
        uncounted == Numbers(report.heard) \ (1 .. count)
    IN  /\ report.missing_packets =
             IF unheard = {} THEN 0 ELSE Cardinality(unheard) - Cardinality(uncounted)
        /\ uncounted # {} =>
             uncounted = {sent[report.stream]} /\ sent[report.stream] = count + 1

(***************************************************************************)
(* During a test the counters are those of the packets since its START: a  *)
(* duplicate is a number heard before, out of order is a first hearing     *)
(* after a larger number.                                                  *)
(***************************************************************************)
CountersExact ==
  active =>
    /\ duplicate_packets = Len(heard) - Cardinality(Numbers(heard))
    /\ out_of_order_packets =
         Cardinality({i \in DOMAIN heard :
                        /\ \A j \in 1 .. i - 1 : heard[j] # heard[i]
                        /\ \E j \in 1 .. i - 1 : heard[j].sequence > heard[i].sequence})

(***************************************************************************)
(* The END supplies the actual sent count (docs/phase2_udp_communication   *)
(* .md:934), and nearly does: the "Packets sent" of a summary are what the *)
(* sender sent or one less, after a Ctrl-C between a send and its count.   *)
(* Where the later versions repair a count of none, at most one was sent.  *)
(***************************************************************************)
SentWithinOne ==
  report # None /\ ~report.timed_out =>
    \/ sent[report.stream] - report.actual_sent \in 0 .. 1
    \/ /\ version = "later"
       /\ report.actual_sent = Planned[report.stream] /\ sent[report.stream] <= 1

(***************************************************************************)
(* "Prevents unrelated UDP traffic from contaminating a test" (docs/       *)
(* phase2_udp_communication.md:974): a test whose own packets all arrived, *)
(* once and in order, has integrity whatever else arrived.                 *)
(***************************************************************************)
UnrelatedTrafficHarmless ==
  report # None /\ report.heard = WholeStream(report.stream) => report.integrity_ok

(***************************************************************************)
(* In the first version every test comes to an end, whatever is lost: the  *)
(* inactivity timeout stands in for the END marker.                        *)
(***************************************************************************)
TestsEnd == version = "first" /\ active ~> (~active \/ ~running)
===============================================================================
