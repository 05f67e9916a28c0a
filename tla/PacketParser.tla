------------------------------ MODULE PacketParser ------------------------------
(***************************************************************************)
(* phase5/rtl/hft_packet_parser.sv: a one-beat AXI4-Stream register that   *)
(* decodes, on the way through, every eight beats as one HFT1 packet.      *)
(* One step is one rising clock edge.                                      *)
(*                                                                         *)
(* A beat carries four bytes, data[1] the first on the wire, its byte      *)
(* enables and TLAST.  An interface whose TVALID is low is None here, and  *)
(* error_flags is the set of its bits that are set.                        *)
(***************************************************************************)
EXTENDS Integers

CONSTANTS
  Word,              (* the four-byte words that may arrive                *)
  TLAST_PER_PACKET,  (* framing: TLAST on every packet, or on every batch  *)
  None               (* an interface that presents nothing                 *)

Byte == 0 .. 255
KEEP_ALL == 15
Beat == [data : Word, keep : 0 .. KEEP_ALL, last : BOOLEAN]

ErrorFlags == {"MAGIC", "VERSION", "MESSAGE_TYPE", "SIDE", "RESERVED", "KEEP",
               "EARLY_TLAST", "MISSING_TLAST"}

ASSUME ParserAssumption ==
  /\ Word \subseteq [1 .. 4 -> Byte]
  /\ TLAST_PER_PACKET \in BOOLEAN
  /\ None \notin Beat
  /\ \A flags \in SUBSET ErrorFlags : flags # None

VARIABLES
  m_axis,          (* the forwarded beat, or None                          *)
  word_index,      (* position of the next beat in its packet              *)
  packet_errors,   (* errors of the beats of this packet so far            *)
  fields,          (* the eight decoded words, as they were captured       *)
  completion       (* error_flags in the one clock a completion pulse is   *)
                   (* up, None in all others                               *)

parserVars == <<m_axis, word_index, packet_errors, fields, completion>>

WordIndex == 0 .. 7
packet_valid == completion = {}
packet_error == completion \notin {None, {}}

ParserInit ==
  /\ m_axis = None
  /\ word_index = 0
  /\ packet_errors = {}
  /\ fields \in [WordIndex -> {[i \in 1 .. 4 |-> 0]}]
  /\ completion = None

(* The first byte on the wire becomes the most significant one.            *)
byte_swap32(w) == ((w[1] * 256 + w[2]) * 256 + w[3]) * 256 + w[4]

MAGIC == byte_swap32(<<72, 70, 84, 49>>)   \* "HFT1"

(* Mutated forms: the occupied register is overwritten; a beat is taken    *)
(* only together with the handover of another.                             *)
s_axis_tready_always(m_axis_tready) == TRUE
s_axis_tready_handover(m_axis_tready) == m_axis # None /\ m_axis_tready

s_axis_tready(m_axis_tready) == m_axis = None \/ m_axis_tready

(* A set of flags that is raised under a condition.                        *)
Raise(flag, condition) == IF condition THEN {flag} ELSE {}

KeepErrors(beat) == Raise("KEEP", beat.keep # KEEP_ALL)

TlastErrors(index, beat) ==
  Raise("EARLY_TLAST", index # 7 /\ beat.last)
  \cup Raise("MISSING_TLAST", TLAST_PER_PACKET /\ index = 7 /\ ~beat.last)

(* Mutated form: the side of a stream message is not looked at.            *)
TypeErrorsOfQuotes(message_type, side) ==
  Raise("SIDE", message_type = 1 /\ side \notin {0, 1})
  \cup Raise("MESSAGE_TYPE", message_type \notin {1, 4, 5})

(* Quotes have side 0 or 1, stream messages side 0; without a known type   *)
(* nothing is said about the side.                                         *)
TypeErrors(message_type, side) ==
  Raise("SIDE", \/ message_type = 1 /\ side \notin {0, 1}
                \/ message_type \in {4, 5} /\ side # 0)
  \cup Raise("MESSAGE_TYPE", message_type \notin {1, 4, 5})

HeaderErrors(index, w) ==
  CASE index = 0 -> Raise("MAGIC", byte_swap32(w) # MAGIC)
    [] index = 1 -> Raise("VERSION", w[1] # 1) \cup TypeErrors(w[2], w[3])
                      \cup Raise("RESERVED", w[4] # 0)
    [] OTHER     -> {}

current_errors(index, beat) ==
  KeepErrors(beat) \cup TlastErrors(index, beat) \cup HeaderErrors(index, beat.data)

(* A beat that is taken is decoded by its position.                        *)
Capture(beat) ==
  /\ fields' = [fields EXCEPT ![word_index] = beat.data]
  /\ word_index' = (word_index + 1) % 8

(* Mutated form: each beat replaces the errors of those before it.         *)
MidPacketForgets(beat) ==
  /\ word_index # 7
  /\ Capture(beat)
  /\ packet_errors' = current_errors(word_index, beat)
  /\ completion' = None

(* Mutated form: TLAST completes a packet wherever it comes.               *)
MidPacketEndsOnTlast(beat) ==
  /\ word_index # 7
  /\ Capture(beat)
  /\ packet_errors' = packet_errors \cup current_errors(word_index, beat)
  /\ completion' = IF beat.last THEN packet_errors' ELSE None

MidPacket(beat) ==
  /\ word_index # 7
  /\ Capture(beat)
  /\ packet_errors' = packet_errors \cup current_errors(word_index, beat)
  /\ completion' = None

(* Mutated form: the errors are not cleared for the next packet.           *)
LastOfPacketKeepsErrors(beat) ==
  /\ word_index = 7
  /\ Capture(beat)
  /\ completion' = packet_errors \cup current_errors(word_index, beat)
  /\ packet_errors' = completion'

LastOfPacket(beat) ==
  /\ word_index = 7
  /\ Capture(beat)
  /\ completion' = packet_errors \cup current_errors(word_index, beat)
  /\ packet_errors' = {}

NoBeat ==
  /\ completion' = None
  /\ UNCHANGED <<word_index, packet_errors, fields>>

(* s_axis is the offered beat, None when TVALID is low.                    *)
axis_fire(s_axis, m_axis_tready) == s_axis # None /\ s_axis_tready(m_axis_tready)

ForwardBeat(s_axis, m_axis_tready) ==
  m_axis' = IF s_axis_tready(m_axis_tready) THEN s_axis ELSE m_axis

ParserTick(s_axis, m_axis_tready) ==
  /\ ForwardBeat(s_axis, m_axis_tready)
  /\ \/ axis_fire(s_axis, m_axis_tready) /\ (MidPacket(s_axis) \/ LastOfPacket(s_axis))
     \/ ~axis_fire(s_axis, m_axis_tready) /\ NoBeat

(* The decoded outputs, as the packet filter reads them.                   *)
decoded ==
  [message_type |-> fields[1][2], side |-> fields[1][3],
   seq |-> byte_swap32(fields[2]), instrument_id |-> byte_swap32(fields[5]),
   price_ticks |-> byte_swap32(fields[6]), quantity |-> byte_swap32(fields[7])]

ParserTypeOK ==
  /\ m_axis \in Beat \cup {None}
  /\ word_index \in WordIndex
  /\ packet_errors \subseteq ErrorFlags
  /\ DOMAIN fields = WordIndex
  /\ completion = None \/ completion \subseteq ErrorFlags
  /\ word_index = 0 => packet_errors = {}
  /\ completion # None => word_index = 0
===============================================================================
