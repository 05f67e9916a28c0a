------------------------------ MODULE AtomicEngine ------------------------------
(***************************************************************************)
(* What the whole engine promises, with no pipeline: every packet has its  *)
(* complete effect at once, and a quote that leaves its instrument with an *)
(* uncrossed book and a full window is decided upon immediately.           *)
(***************************************************************************)
EXTENDS EngineParameters, Sequences, Functions

VARIABLES
  in_stream,  (* a START was the last stream packet                        *)
  taken,      (* numbers of the quotes of this stream that took effect     *)
  best,       (* latest level per slot and side, None where nothing quoted *)
  window,     (* midpoints of the last SLOW uncrossed books, oldest first  *)
  decided     (* the decision on the packet handled last, or None          *)

atomicVars == <<in_stream, taken, best, window, decided>>

NothingQuoted == [s \in Slot |-> [side \in Side |-> None]]
NoMidpoints   == [s \in Slot |-> <<>>]

AtomicInit ==
  /\ in_stream = FALSE
  /\ taken = {}
  /\ best = NothingQuoted
  /\ window = NoMidpoints
  /\ decided = None

Last(n, seq) == IF Len(seq) <= n THEN seq
                ELSE SubSeq(seq, Len(seq) - n + 1, Len(seq))

Average(n, seq) == SumFunction(Last(n, seq)) \div n

(* The trade that the midpoints seq and the touch bid, ask call for.       *)
Verdict(s, bid, ask, seq) ==
  LET score == TREND_WEIGHT * (Average(FAST, seq) - Average(SLOW, seq))
                 + IMBALANCE_WEIGHT * (bid.quantity - ask.quantity)
      needed == BASE_THRESHOLD + SPREAD_WEIGHT * (ask.price - bid.price)
  IN  [slot |-> s,
       trade_signal |-> IF score > needed THEN BUY
                        ELSE IF -score > needed THEN SELL ELSE HOLD,
       direction_score |-> score,
       required_score |-> needed]

StartStream ==
  /\ in_stream' = TRUE
  /\ taken' = {}
  /\ best' = NothingQuoted
  /\ window' = NoMidpoints
  /\ decided' = None

EndStream ==
  /\ in_stream' = FALSE
  /\ decided' = None
  /\ UNCHANGED <<taken, best, window>>

Ignore ==
  /\ decided' = None
  /\ UNCHANGED <<in_stream, taken, best, window>>

(* A quote of the slot s that is newer than all before it.                 *)
Take(s, p) ==
  LET level1 == [price |-> p.price_ticks, quantity |-> p.quantity]
      touch  == [best[s] EXCEPT ![p.side] = level1]
      both   == None \notin {touch[BID], touch[ASK]}
      longer == Last(SLOW, Append(window[s], touch[BID].price + touch[ASK].price))
  IN  /\ taken' = taken \cup {p.seq}
      /\ best' = [best EXCEPT ![s] = touch]
      /\ IF both /\ touch[BID].price <= touch[ASK].price
         THEN /\ window' = [window EXCEPT ![s] = longer]
              /\ decided' = IF Len(longer) < SLOW THEN None
                            ELSE Verdict(s, touch[BID], touch[ASK], longer)
         ELSE decided' = None /\ UNCHANGED window
      /\ UNCHANGED in_stream

HandleQuote(p) ==
  LET slots == {s \in Slot : InstrumentIds[s] = p.instrument_id}
      fresh == \A n \in taken : p.seq > n
  IN  \/ in_stream /\ fresh /\ \E s \in slots : Take(s, p)
      \/ ~(in_stream /\ fresh /\ slots # {}) /\ Ignore

Handle(p) ==
  \/ p.message_type = MESSAGE_STREAM_START /\ StartStream
  \/ p.message_type = MESSAGE_STREAM_END /\ EndStream
  \/ p.message_type = MESSAGE_QUOTE_UPDATE /\ HandleQuote(p)
===============================================================================
