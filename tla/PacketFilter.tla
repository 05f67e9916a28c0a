------------------------------ MODULE PacketFilter ------------------------------
(***************************************************************************)
(* phase5/rtl/hft_packet_filter.sv: turns the parser's completed packets   *)
(* into stream pulses and, while a stream is active, into quotes of the    *)
(* configured instruments.  One step is one rising clock edge.             *)
(***************************************************************************)
EXTENDS Hft1

VARIABLES
  stream_active,
  stream_start_pulse,
  stream_end_pulse,
  unknown_instrument,
  quote               (* the accepted quote with its slot, or None         *)

filterVars == <<stream_active, stream_start_pulse, stream_end_pulse,
                unknown_instrument, quote>>

FilterInit ==
  /\ stream_active = FALSE
  /\ stream_start_pulse = FALSE
  /\ stream_end_pulse = FALSE
  /\ unknown_instrument = FALSE
  /\ quote = None

(* The case statement over the configured identifiers.                     *)
Known(id) == \E s \in Slot : InstrumentIds[s] = id
SlotOf(id) == CHOOSE s \in Slot : InstrumentIds[s] = id

QuoteOf(p) == [slot |-> SlotOf(p.instrument_id), side |-> p.side, seq |-> p.seq,
               price |-> p.price_ticks, quantity |-> p.quantity]

(* The four pulses last one clock: each is low unless this clock raises it. *)
Pulses(start, end, unknown) ==
  /\ stream_start_pulse' = start
  /\ stream_end_pulse' = end
  /\ unknown_instrument' = unknown

FilterStart(p) ==
  /\ p.message_type = MESSAGE_STREAM_START
  /\ stream_active' = TRUE
  /\ quote' = None
  /\ Pulses(TRUE, FALSE, FALSE)

FilterEnd(p) ==
  /\ p.message_type = MESSAGE_STREAM_END
  /\ stream_active' = FALSE
  /\ quote' = None
  /\ Pulses(FALSE, TRUE, FALSE)

(* Mutated form: quotes pass outside a stream.                             *)
FilterQuoteAlways(p) ==
  /\ p.message_type = MESSAGE_QUOTE_UPDATE
  /\ Known(p.instrument_id)
  /\ quote' = QuoteOf(p)
  /\ Pulses(FALSE, FALSE, FALSE)
  /\ UNCHANGED stream_active

FilterQuote(p) ==
  /\ p.message_type = MESSAGE_QUOTE_UPDATE
  /\ stream_active
  /\ Known(p.instrument_id)
  /\ quote' = QuoteOf(p)
  /\ Pulses(FALSE, FALSE, FALSE)
  /\ UNCHANGED stream_active

FilterUnknown(p) ==
  /\ p.message_type = MESSAGE_QUOTE_UPDATE
  /\ stream_active
  /\ ~Known(p.instrument_id)
  /\ quote' = None
  /\ Pulses(FALSE, FALSE, TRUE)
  /\ UNCHANGED stream_active

FilterIdle ==
  /\ quote' = None
  /\ Pulses(FALSE, FALSE, FALSE)
  /\ UNCHANGED stream_active

FilterInactive(p) ==
  /\ p.message_type = MESSAGE_QUOTE_UPDATE
  /\ ~stream_active
  /\ FilterIdle

(* p is the decoded packet, None when packet_valid is low.  A packet with   *)
(* packet_error up never counts: for the filter it is no packet at all.     *)
FilterTick(p) ==
  \/ /\ p # None
     /\ FilterStart(p) \/ FilterEnd(p) \/ FilterQuote(p) \/ FilterUnknown(p)
          \/ FilterInactive(p)
  \/ p = None /\ FilterIdle

(* Registers keep their types and at most one pulse is up at a time.        *)
FilterTypeOK ==
  /\ stream_active \in BOOLEAN
  /\ stream_start_pulse \in BOOLEAN
  /\ stream_end_pulse \in BOOLEAN
  /\ unknown_instrument \in BOOLEAN
  /\ quote \in Quote \cup {None}
  /\ ~(stream_start_pulse /\ stream_end_pulse)
  /\ stream_start_pulse \/ stream_end_pulse => quote = None
===============================================================================
