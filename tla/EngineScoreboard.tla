---------------------------- MODULE EngineScoreboard ----------------------------
(***************************************************************************)
(* The engine beside the atomic engine: the parser presents packets at     *)
(* least SPACING clocks apart, the reference handles each at once, and its *)
(* decisions are delayed by the LATENCY of the pipeline.                   *)
(*                                                                         *)
(* The parser needs eight beats for a packet, so SPACING is 8 on the       *)
(* board; smaller values ask how much of that distance the engine needs.   *)
(***************************************************************************)
EXTENDS EngineWrapper, AtomicEngine, FiniteSets

CONSTANTS
  MaxSeq,      (* highest sequence number a sender uses                    *)
  SPACING,     (* clocks between two packets                               *)
  MaxPackets   (* bound: packets presented in a behaviour                  *)

(* The number 2^32 - 1 is left out: it would make the tracker expect 0.    *)
ASSUME ScoreboardAssumption ==
  /\ MaxSeq \in Nat /\ MaxSeq < NumSeqNos - 1
  /\ SPACING \in Nat /\ SPACING > 0
  /\ MaxPackets \in Nat

VARIABLES
  age,         (* clocks since the last packet was presented, at most LATENCY *)
  packets,     (* packets presented so far                                 *)
  expected     (* the reference's decisions of the last LATENCY clocks,    *)
               (* newest first                                             *)

scoreboardVars == <<age, packets, expected>>
vars == <<engineVars, atomicVars, scoreboardVars>>

(* filter, tracker, book, two feature stages and three decision stages     *)
LATENCY == 8

Init ==
  /\ EngineInit
  /\ AtomicInit
  /\ age = LATENCY
  /\ packets = 0
  /\ expected = [i \in 1 .. LATENCY |-> None]

Shift(d) == expected' = [i \in 1 .. LATENCY |->
                           IF i = 1 THEN d ELSE expected[i - 1]]

(* Packets as senders number them.                                         *)
Presented == {p \in Packet : p.message_type = MESSAGE_QUOTE_UPDATE => p.seq <= MaxSeq}

PacketClock(p) ==
  /\ age >= SPACING
  /\ packets < MaxPackets
  /\ EngineTick(p)
  /\ Handle(p)
  /\ Shift(decided')
  /\ age' = 1
  /\ packets' = packets + 1

IdleClock ==
  /\ EngineTick(None)
  /\ Shift(None)
  /\ age' = IF age < LATENCY THEN age + 1 ELSE age
  /\ UNCHANGED <<atomicVars, packets>>

Next == (\E p \in Presented : PacketClock(p)) \/ IdleClock

Spec == Init /\ [][Next]_vars
-------------------------------------------------------------------------------
(***************************************************************************)
(* Every decision the atomic engine takes leaves the pipeline exactly      *)
(* LATENCY clocks after its packet, with the same slot, signal and scores, *)
(* and nothing else leaves it: no quote of an old stream, a rejected       *)
(* packet or a half-filled window is ever decided upon, and no pulse       *)
(* flushes a quote that was due.                                           *)
(***************************************************************************)
DecisionsMatchReference == signal = expected[LATENCY]

(***************************************************************************)
(* Once a packet has passed the stages that keep state, the registers of   *)
(* all five hold what the atomic engine holds: filter state, baseline,     *)
(* books and windows agree, so nothing of a packet is lost on the way even *)
(* where it has not led to a decision yet.                                 *)
(***************************************************************************)
SettledStateAgrees ==
  age >= 4 =>
    /\ stream_active = in_stream
    /\ in_stream => sequence_initialized = (taken # {})
    /\ in_stream /\ taken # {} => last_seq \in taken /\ \A n \in taken : n <= last_seq
    /\ \A s \in Slot, side \in Side :
         best[s][side] = IF initialized[s][side] THEN level[s][side] ELSE None
    /\ \A s \in Slot : sample_count[s] = Len(window[s])

(***************************************************************************)
(* missing_count counts the numbers between the first quote and the newest *)
(* that had no effect, and so more than UDP lost: a quote of an unknown    *)
(* instrument keeps its number although the filter drops it, and a quote   *)
(* that was overtaken stays counted.  A START forgets them all.            *)
(***************************************************************************)
MissingCountsFiltered ==
  age >= 4 /\ in_stream =>
    missing_count =
      Cardinality({n \in 0 .. MaxSeq \ taken : \E a, b \in taken : a < n /\ n < b})

(***************************************************************************)
(* A stream pulse finds the tracker, the book and the first feature stage  *)
(* without a quote in flight: the pulses overtake the quotes on their way, *)
(* and only the distance between packets keeps them apart.                 *)
(***************************************************************************)
PulsesFlushNothing ==
  stream_start_pulse \/ stream_end_pulse =>
    quote = None /\ tracked = None /\ book_update = None /\ calculation = None

(***************************************************************************)
(* docs/phase5_weighted_decision.md:1843: STREAM_END prevents further      *)
(* decisions.  The decision stage has no stream input, so this rests on    *)
(* the parser's distance between packets being no shorter than the         *)
(* pipeline.                                                               *)
(***************************************************************************)
NoDecisionAfterEnd == signal # None => stream_active
===============================================================================
