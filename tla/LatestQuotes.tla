------------------------------ MODULE LatestQuotes ------------------------------
(***************************************************************************)
(* What the instrument book promises, without registers or memories: a     *)
(* table of the newest quote of each side, and after every quote that      *)
(* leaves its instrument with both sides, a view of exactly those two.     *)
(***************************************************************************)
EXTENDS Hft1

VARIABLES
  best,   (* newest level quoted in this stream per slot and side, or None *)
  shown   (* the view published by the last step, or None                  *)

Init ==
  /\ best = [s \in Slot |-> [side \in Side |-> None]]
  /\ shown = None

NewStream ==
  /\ best' = [s \in Slot |-> [side \in Side |-> None]]
  /\ shown' = None

View(s, table) ==
  IF None \in {table[s][BID], table[s][ASK]} THEN None
  ELSE [slot |-> s, bid |-> table[s][BID], ask |-> table[s][ASK],
        tradable |-> table[s][BID].price <= table[s][ASK].price]

Quoted(q) ==
  /\ best' = [best EXCEPT ![q.slot][q.side] =
                [price |-> q.price, quantity |-> q.quantity]]
  /\ shown' = View(q.slot, best')

NothingQuoted ==
  /\ shown' = None
  /\ UNCHANGED best

Next == NewStream \/ (\E q \in Quote : Quoted(q)) \/ NothingQuoted

Spec == Init /\ [][Next]_<<best, shown>>
===============================================================================
