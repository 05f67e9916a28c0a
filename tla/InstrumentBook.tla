----------------------------- MODULE InstrumentBook -----------------------------
(***************************************************************************)
(* phase5/rtl/hft_instrument_book.sv: the latest bid and ask of every      *)
(* instrument.  A quote replaces one side and, in the same clock, a        *)
(* snapshot of both sides is registered for the feature engine.  All       *)
(* assignments are nonblocking: the snapshot must take the quoted side     *)
(* from the input, because the memory still holds the old value.           *)
(* One step is one rising clock edge.                                      *)
(***************************************************************************)
EXTENDS Hft1

VARIABLES
  level,        (* xxx_price_mem and xxx_quantity_mem of a slot and side   *)
  initialized,  (* xxx_initialized_mem                                     *)
  book_update   (* the registered snapshot, or None                        *)

bookVars == <<level, initialized, book_update>>

ClearedLevels == [s \in Slot |-> [side \in Side |-> NoLevel]]
NothingInitialized == [s \in Slot |-> [side \in Side |-> FALSE]]

BookInit ==
  /\ level = ClearedLevels
  /\ initialized = NothingInitialized
  /\ book_update = None

BookStart ==
  /\ level' = ClearedLevels
  /\ initialized' = NothingInitialized
  /\ book_update' = None

(* Mutated form: the end of a stream clears the books.                     *)
BookEndClears ==
  /\ level' = ClearedLevels
  /\ initialized' = NothingInitialized
  /\ book_update' = None

(* The end of a stream leaves the books in place for inspection.           *)
BookEnd ==
  /\ book_update' = None
  /\ UNCHANGED <<level, initialized>>

Snapshot(slot, bid, ask, complete) ==
  [slot |-> slot, bid |-> bid, ask |-> ask, book_valid |-> complete,
   crossed_book |-> complete /\ ask.price < bid.price]

(* Mutated form: the snapshot reads both sides from the memory, which a    *)
(* nonblocking assignment has not changed yet.                             *)
BookQuoteFromMemory(q) ==
  LET quoted == [price |-> q.price, quantity |-> q.quantity]
  IN  /\ level' = [level EXCEPT ![q.slot][q.side] = quoted]
      /\ initialized' = [initialized EXCEPT ![q.slot][q.side] = TRUE]
      /\ book_update' = Snapshot(q.slot, level[q.slot][BID], level[q.slot][ASK],
                                 initialized[q.slot][Opposite(q.side)])

BookQuote(q) ==
  LET quoted == [price |-> q.price, quantity |-> q.quantity]
      other  == level[q.slot][Opposite(q.side)]
  IN  /\ level' = [level EXCEPT ![q.slot][q.side] = quoted]
      /\ initialized' = [initialized EXCEPT ![q.slot][q.side] = TRUE]
      /\ book_update' = Snapshot(q.slot,
                                 IF q.side = BID THEN quoted ELSE other,
                                 IF q.side = ASK THEN quoted ELSE other,
                                 initialized[q.slot][Opposite(q.side)])

(* Mutated form: book_update_valid is not lowered by default.              *)
BookIdleHolds == UNCHANGED bookVars

BookIdle ==
  /\ book_update' = None
  /\ UNCHANGED <<level, initialized>>

BookTick(start_pulse, end_pulse, q) ==
  \/ start_pulse /\ BookStart
  \/ ~start_pulse /\ end_pulse /\ BookEnd
  \/ ~start_pulse /\ ~end_pulse /\ q # None /\ BookQuote(q)
  \/ ~start_pulse /\ ~end_pulse /\ q = None /\ BookIdle

(* Alone, the book runs in any environment.                                *)
BookNext ==
  \E start_pulse, end_pulse \in BOOLEAN, q \in Quote \cup {None} :
    BookTick(start_pulse, end_pulse, q)

BookSpec == BookInit /\ [][BookNext]_bookVars
-------------------------------------------------------------------------------
(* Memories hold quoted levels, and zero exactly where nothing was quoted. *)
BookTypeOK ==
  /\ level \in [Slot -> [Side -> Level]]
  /\ initialized \in [Slot -> [Side -> BOOLEAN]]
  /\ book_update \in BookUpdate \cup {None}
  /\ \A s \in Slot, side \in Side :
       ~initialized[s][side] => level[s][side] = NoLevel

(* The memories and the snapshot as the abstract table and its view.       *)
Best == [s \in Slot |-> [side \in Side |->
           IF initialized[s][side] THEN level[s][side] ELSE None]]

Shown == IF book_update = None \/ ~book_update.book_valid THEN None
         ELSE [slot |-> book_update.slot, bid |-> book_update.bid,
               ask |-> book_update.ask, tradable |-> ~book_update.crossed_book]

Promise == INSTANCE LatestQuotes WITH best <- Best, shown <- Shown

(***************************************************************************)
(* The book implements the abstract table of latest quotes: what it shows  *)
(* is always the combination of the newest bid and the newest ask of this  *)
(* stream for the instrument just quoted, never a mixture with an older    *)
(* memory value, another instrument or an earlier stream.                  *)
(***************************************************************************)
ImplementsLatestQuotes == Promise!Spec
===============================================================================
