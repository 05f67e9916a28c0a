----------------------------- MODULE SenderSession -----------------------------
(***************************************************************************)
(* The engine under the packets that the shipped senders build: the whole  *)
(* session of a sender, in order and without loss, one packet at a time    *)
(* through the DMA.  What comes out is the sequence of decisions.          *)
(***************************************************************************)
EXTENDS EngineWrapper, Sequences

CONSTANTS
  Session,   (* the packets of the session, in order                       *)
  SPACING    (* fewest clocks between two packets, 8 behind the parser     *)

ASSUME SessionAssumption ==
  /\ Session \in Seq(Packet)
  /\ SPACING \in Nat \ {0}

VARIABLES
  presented,   (* packets presented so far                                 *)
  age,         (* clocks since the last one, at most SPACING               *)
  decisions    (* history: the decisions taken                             *)

vars == <<engineVars, presented, age, decisions>>

Init ==
  /\ EngineInit
  /\ presented = 0
  /\ age = SPACING
  /\ decisions = <<>>

Observe == decisions' = IF signal = None THEN decisions ELSE Append(decisions, signal)

Present ==
  /\ presented < Len(Session)
  /\ age = SPACING
  /\ EngineTick(Session[presented + 1])
  /\ presented' = presented + 1
  /\ age' = 1
  /\ Observe

IdleClock ==
  /\ EngineTick(None)
  /\ age' = IF age < SPACING THEN age + 1 ELSE age
  /\ UNCHANGED presented
  /\ Observe

Next == Present \/ IdleClock

(* The clock runs on, and the sender goes through its loop.                *)
Spec == Init /\ [][Next]_vars /\ WF_vars(IdleClock) /\ WF_vars(Present)
-------------------------------------------------------------------------------
(* phase5/pynq/phase5_decision_ila_test.py: a warm-up around an unchanging *)
(* touch and three quotes that move the quantities.                        *)
QuotePacket(side, seq, id, price, quantity) ==
  [message_type |-> MESSAGE_QUOTE_UPDATE, side |-> side, seq |-> seq,
   instrument_id |-> id, price_ticks |-> price, quantity |-> quantity]

StreamPacket(message_type) == [message_type |-> message_type]

BID_PRICE == 10000
ASK_PRICE == 10002
PriceOf(side) == IF side = BID THEN BID_PRICE ELSE ASK_PRICE

IlaQuote(side, seq, quantity) == QuotePacket(side, seq, 1, PriceOf(side), quantity)

IlaSession ==
  <<StreamPacket(MESSAGE_STREAM_START), IlaQuote(BID, 2, 100)>>
  \o [sample \in 1 .. 32 |-> IlaQuote(sample % 2, 2 + sample, 100)]
  \o <<IlaQuote(ASK, 35, 100), IlaQuote(BID, 36, 300), IlaQuote(ASK, 37, 500),
       StreamPacket(MESSAGE_STREAM_END)>>

IlaDecision(trade, score) == [slot |-> 0, trade_signal |-> trade,
                              direction_score |-> score, required_score |-> 104]

(* The last warm-up sample is decided upon too.                            *)
IlaDecisions == <<IlaDecision(HOLD, 0), IlaDecision(HOLD, 0),
                  IlaDecision(BUY, 200), IlaDecision(SELL, -200)>>

(***************************************************************************)
(* With the shipped windows and weights the script sees exactly the        *)
(* decisions it announces and docs/phase5_weighted_decision.md:2150-2154   *)
(* lists, in that order and no other one, whatever the buffers held at     *)
(* power-up; decisions are never taken back.                               *)
(***************************************************************************)
IlaDecisionsExact == <>[](decisions = IlaDecisions)
-------------------------------------------------------------------------------
(* phase4/pynq/phase4_9_live_udp_sender.py: START, quotes, END; side and   *)
(* instrument both follow from the packet's index.                         *)
build_packet(packet_index, total_packets) ==
  LET sequence == packet_index + 1 IN
  CASE packet_index = 0 -> StreamPacket(MESSAGE_STREAM_START)
    [] packet_index = total_packets - 1 -> StreamPacket(MESSAGE_STREAM_END)
    [] OTHER -> QuotePacket(sequence % 2, sequence, 1 + (packet_index % 4),
                            100000 + (packet_index % 1000), 1 + (packet_index % 100))

LiveSession(total_packets) ==
  [n \in 1 .. total_packets |-> build_packet(n - 1, total_packets)]

(***************************************************************************)
(* README.md:69: the path that starts with this sender ends in a decision. *)
(***************************************************************************)
LiveSessionDecides == <>(decisions # <<>>)
===============================================================================
