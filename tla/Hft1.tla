--------------------------------- MODULE Hft1 ---------------------------------
(***************************************************************************)
(* The HFT1 protocol as the programmable-logic pipeline sees it once the   *)
(* parser has decoded a packet: message types, sides, instruments and the  *)
(* quote record that travels from stage to stage.                          *)
(*                                                                         *)
(* A register group qualified by a valid bit (quote_valid and quote_xxx,   *)
(* tracked_quote_valid and tracked_xxx, ...) is one variable here: None    *)
(* when the valid bit is low, the record when it is high.  The RTL keeps   *)
(* the old field values when the bit falls, but every reader tests the bit *)
(* first.  Timestamps only ride along with a quote and are left out.       *)
(***************************************************************************)
EXTENDS Integers

CONSTANTS
  NumSeqNos,      (* number of sequence numbers, 2^32 in the RTL           *)
  NumSlots,       (* number of instrument slots, 5 in the RTL              *)
  InstrumentIds,  (* the identifier configured for each slot               *)
  Instrument,     (* identifiers a packet may carry, known or not          *)
  Price,          (* price_ticks values                                    *)
  Quantity,       (* quantity values                                       *)
  None            (* a register group whose valid bit is low               *)

SeqNo == 0 .. NumSeqNos - 1
Slot  == 0 .. NumSlots - 1

BID  == 0
ASK  == 1
Side == {BID, ASK}

Opposite(side) == IF side = BID THEN ASK ELSE BID

MESSAGE_QUOTE_UPDATE == 1
MESSAGE_STREAM_START == 4
MESSAGE_STREAM_END   == 5

(* What the parser presents next to packet_valid for a packet without      *)
(* errors: the type is known and the side is legal.                        *)
Packet ==
  [message_type : {MESSAGE_QUOTE_UPDATE}, side : Side, seq : SeqNo,
   instrument_id : Instrument, price_ticks : Price, quantity : Quantity]
  \cup
  [message_type : {MESSAGE_STREAM_START, MESSAGE_STREAM_END}]

(* A quote after the filter has replaced the identifier by its slot.       *)
Quote == [slot : Slot, side : Side, seq : SeqNo,
          price : Price, quantity : Quantity]

(* One side of a book; both fields are zero until it is quoted.            *)
NoLevel == [price |-> 0, quantity |-> 0]
Level == [price : Price, quantity : Quantity] \cup {NoLevel}

(* The snapshot of a book after a quote.  Its sequence number is read by   *)
(* nobody and left out.                                                    *)
BookUpdate == [slot : Slot, bid : Level, ask : Level,
               book_valid : BOOLEAN, crossed_book : BOOLEAN]

ASSUME Hft1Assumption ==
  /\ NumSeqNos \in Nat /\ NumSeqNos > 1
  /\ NumSlots \in Nat /\ NumSlots > 0
  /\ InstrumentIds \in [Slot -> Instrument]
  /\ \A s, t \in Slot : InstrumentIds[s] = InstrumentIds[t] => s = t
  /\ Price \subseteq Nat
  /\ Quantity \subseteq Nat
  /\ None \notin Quote \cup Packet \cup Level \cup BookUpdate
===============================================================================
