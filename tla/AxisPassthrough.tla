---------------------------- MODULE AxisPassthrough ----------------------------
(***************************************************************************)
(* phase3/rtl/axis_passthrough.sv: the one-beat register between the two   *)
(* DMA channels that the parser was later built around.  One step is one   *)
(* rising clock edge.  What a beat carries (data and TLAST; the parser's   *)
(* register adds the byte enables) makes no difference to the register.    *)
(***************************************************************************)
EXTENDS Sequences

CONSTANTS
  Beat,        (* what the input may present                               *)
  None         (* an interface whose TVALID is low                         *)

VARIABLES
  m_axis,      (* the stored beat, or None                                 *)
  accepted,    (* history: the beats taken from the input                  *)
  delivered    (* history: the beats the output side took                  *)

vars == <<m_axis, accepted, delivered>>

Init ==
  /\ m_axis = None
  /\ accepted = <<>>
  /\ delivered = <<>>

(* Empty, or drained in this clock.                                        *)
s_axis_tready(m_axis_tready) == m_axis = None \/ m_axis_tready

(* The register loads whatever the input presents whenever it is ready.    *)
Clock(s_axis, m_axis_tready) ==
  /\ m_axis' = IF s_axis_tready(m_axis_tready) THEN s_axis ELSE m_axis
  /\ accepted' = IF s_axis # None /\ s_axis_tready(m_axis_tready)
                 THEN Append(accepted, s_axis) ELSE accepted
  /\ delivered' = IF m_axis # None /\ m_axis_tready
                  THEN Append(delivered, m_axis) ELSE delivered

Next == \E s_axis \in Beat \cup {None}, m_axis_tready \in BOOLEAN :
          Clock(s_axis, m_axis_tready)

Spec == Init /\ [][Next]_vars
===============================================================================
