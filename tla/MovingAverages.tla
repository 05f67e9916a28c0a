----------------------------- MODULE MovingAverages -----------------------------
(***************************************************************************)
(* What the feature engine promises, without rings, pointers or running    *)
(* sums: per instrument the midpoints of the last SLOW samples of this     *)
(* stream, and once there are SLOW of them one feature per sample, whose   *)
(* trend is the mean of the newest FAST minus the mean of all, published   *)
(* one clock after the sample was taken.                                   *)
(***************************************************************************)
EXTENDS Hft1, Sequences, Functions

CONSTANTS FAST, SLOW

VARIABLES
  window,   (* the newest midpoints of each slot, oldest first             *)
  due,      (* the sample whose feature the next clock publishes, or None  *)
  feature   (* the published feature, or None                              *)

Newest(n, seq) ==
  IF Len(seq) <= n THEN seq ELSE SubSeq(seq, Len(seq) - n + 1, Len(seq))

Mean(n, seq) == SumFunction(Newest(n, seq)) \div n

Init ==
  /\ window = [s \in Slot |-> <<>>]
  /\ due = None
  /\ feature = None

NewStream ==
  /\ window' = [s \in Slot |-> <<>>]
  /\ due' = None
  /\ feature' = None

EndOfStream ==
  /\ due' = None
  /\ feature' = None
  /\ UNCHANGED window

Publish ==
  feature' = IF due = None THEN None
             ELSE [slot |-> due.slot,
                   trend |-> Mean(FAST, window[due.slot]) - Mean(SLOW, window[due.slot]),
                   imbalance |-> due.imbalance, spread |-> due.spread]

Sample(s, bid, ask) ==
  /\ Publish
  /\ window' = [window EXCEPT ![s] = Newest(SLOW, Append(@, bid.price + ask.price))]
  /\ due' = IF Len(window'[s]) < SLOW THEN None
            ELSE [slot |-> s, imbalance |-> bid.quantity - ask.quantity,
                  spread |-> ask.price - bid.price]

NoSample ==
  /\ Publish
  /\ due' = None
  /\ UNCHANGED window

Next ==
  \/ NewStream
  \/ EndOfStream
  \/ \E s \in Slot, bid, ask \in Level :
       bid.price <= ask.price /\ Sample(s, bid, ask)
  \/ NoSample

Spec == Init /\ [][Next]_<<window, due, feature>>
===============================================================================
