------------------------------ MODULE ParserStream ------------------------------
(***************************************************************************)
(* The parser between the two DMA channels.  MM2S sends transfers one beat *)
(* after the other and holds each until the parser takes it; S2MM takes    *)
(* beats when it is ready.  Both may pause at any clock.  A transfer may   *)
(* be anything a buffer can hold: packets, broken packets, a length that   *)
(* is no multiple of a packet.                                             *)
(***************************************************************************)
EXTENDS PacketParser, Sequences

CONSTANTS
  Transfer,      (* the transfers MM2S may be given: sequences of records  *)
                 (* of a beat and its position pos in the packet it was    *)
                 (* cut from                                               *)
  MaxTransfers   (* bound: transfers in a behaviour                        *)

(* A beat in the sender's hands, with its place in the packet it is from.  *)
TaggedBeat == [pos : WordIndex, beat : Beat]

ASSUME StreamAssumption ==
  /\ Transfer \subseteq Seq(TaggedBeat) \ {<<>>}
  /\ MaxTransfers \in Nat

(* Transfers that are cut from a buffer of packets, wherever they end: the *)
(* positions run on from 0, only a header has the magic word, and the DMA  *)
(* sets TLAST on the last beat.                                            *)
TransfersOfPackets ==
  \A t \in Transfer :
    /\ \A i \in 1 .. Len(t) : t[i].pos = (i - 1) % 8
    /\ \A i \in 1 .. Len(t) : byte_swap32(t[i].beat.data) = MAGIC => t[i].pos = 0
    /\ t[Len(t)].beat.last

VARIABLES
  transfers,   (* transfers started                                        *)
  remaining,   (* what MM2S has still to send of the transfer              *)
  tvalid,      (* MM2S presents the first of these                         *)
  accepted,    (* history: what the parser took                            *)
  delivered,   (* history: the beats S2MM took                             *)
  quiet        (* clocks since the last completion pulse, at most 8        *)

streamVars == <<transfers, remaining, tvalid, accepted, delivered, quiet>>
vars == <<parserVars, streamVars>>

Init ==
  /\ ParserInit
  /\ transfers = 0
  /\ remaining = <<>>
  /\ tvalid = FALSE
  /\ accepted = <<>>
  /\ delivered = <<>>
  /\ quiet = 8

s_axis == IF tvalid THEN Head(remaining).beat ELSE None

(* Software starts a transfer on the idle channel.                         *)
StartTransfer ==
  /\ remaining = <<>>
  /\ transfers < MaxTransfers
  /\ remaining' \in Transfer
  /\ transfers' = transfers + 1
  /\ tvalid' = FALSE
  /\ UNCHANGED accepted

(* MM2S keeps TVALID up until the beat is taken, and raises it when it     *)
(* pleases while it has beats left.                                        *)
SendBeats(fire, pause) ==
  /\ remaining' = IF fire THEN Tail(remaining) ELSE remaining
  /\ accepted' = IF fire THEN Append(accepted, Head(remaining)) ELSE accepted
  /\ tvalid' = ((tvalid /\ ~fire) \/ (remaining' # <<>> /\ ~pause))
  /\ UNCHANGED transfers

SinkClock(m_axis_tready) ==
  delivered' = IF m_axis # None /\ m_axis_tready THEN Append(delivered, m_axis)
               ELSE delivered

Clock(m_axis_tready, pause) ==
  /\ ParserTick(s_axis, m_axis_tready)
  /\ StartTransfer \/ SendBeats(axis_fire(s_axis, m_axis_tready), pause)
  /\ SinkClock(m_axis_tready)
  /\ quiet' = IF completion' # None THEN 0
              ELSE IF quiet < 8 THEN quiet + 1 ELSE quiet

Next == \E m_axis_tready, pause \in BOOLEAN : Clock(m_axis_tready, pause)

Spec == Init /\ [][Next]_vars

(* Neither channel pauses for ever: software arms S2MM with the length of  *)
(* the transfer before it starts MM2S.                                     *)
FairSpec == Spec /\ WF_vars(Clock(TRUE, FALSE))
-------------------------------------------------------------------------------
TypeOK ==
  /\ ParserTypeOK
  /\ transfers \in 0 .. MaxTransfers
  /\ tvalid => remaining # <<>>
  /\ quiet \in 0 .. 8

(* The beats of a sequence of tagged ones.                                 *)
Beats(seq) == [i \in 1 .. Len(seq) |-> seq[i].beat]

(***************************************************************************)
(* The register neither loses, repeats, reorders nor alters a beat,        *)
(* whichever side stalls: what was accepted is what was delivered, then    *)
(* the beat it holds.                                                      *)
(***************************************************************************)
BeatsForwardedInOrder ==
  Beats(accepted) = IF m_axis = None THEN delivered ELSE Append(delivered, m_axis)

Passthrough == INSTANCE AxisPassthrough WITH accepted <- Beats(accepted)

(***************************************************************************)
(* The parser took over the Phase 3 register (the comment at lines         *)
(* 145-149): whatever it decodes on the way, it passes beats on clock by   *)
(* clock as axis_passthrough.sv does.  In particular a beat that S2MM has  *)
(* not taken stays as it is.                                               *)
(***************************************************************************)
ImplementsPassthrough == Passthrough!Spec

(* The eight beats accepted last.                                          *)
LastEight == SubSeq(accepted, Len(accepted) - 7, Len(accepted))

(***************************************************************************)
(* There is one completion for every eight accepted beats, in the clock    *)
(* after the eighth, however the beats were stalled.                       *)
(***************************************************************************)
CompletionPerEightBeats ==
  [][completion' # None <=> accepted' # accepted /\ Len(accepted') % 8 = 0]_vars

(***************************************************************************)
(* What a completion reports is about exactly the last eight beats: their  *)
(* errors, none of the packet before, and their words in the decoded       *)
(* fields.                                                                 *)
(***************************************************************************)
CompletionReportsLastEight ==
  completion # None =>
    /\ completion = UNION {current_errors(i - 1, LastEight[i].beat) : i \in 1 .. 8}
    /\ \A i \in 1 .. 8 : fields[i - 1] = LastEight[i].beat.data

(***************************************************************************)
(* A valid packet is one packet of the sender: truncated transfers move    *)
(* the packet boundary for all that follow, but no mixture of two packets  *)
(* passes for a packet, as long as no payload word looks like a header     *)
(* (TransfersOfPackets).                                                   *)
(***************************************************************************)
ValidPacketsAreWhole ==
  packet_valid => \A i \in 1 .. 8 : LastEight[i].pos = i - 1

(***************************************************************************)
(* Two completions are at least eight clocks apart: the distance the       *)
(* engine behind the parser relies on.                                     *)
(***************************************************************************)
CompletionsSpaced == [][completion' # None => quiet >= 7]_vars

(* phase4_9_live_udp_dma_test.py: the receiver's own check of a packet.    *)
protocol_is_valid(w) ==
  /\ w[1] = <<72, 70, 84, 49>>
  /\ w[2][1] = 1
  /\ w[2][4] = 0
  /\ w[2][2] \in {1, 4, 5}
  /\ w[2][3] \in (IF w[2][2] = 1 THEN {0, 1} ELSE {0})

(***************************************************************************)
(* The receiver's count of valid packets and the parser's are about the    *)
(* same packets: on well-framed packets both checks decide alike (the      *)
(* comment "Apply the same basic HFT1 checks as the RTL parser").          *)
(***************************************************************************)
SoftwareCheckAgrees ==
  completion # None /\ completion \cap {"KEEP", "EARLY_TLAST", "MISSING_TLAST"} = {} =>
    (packet_valid <=> protocol_is_valid([i \in 1 .. 8 |-> LastEight[i].beat.data]))

(***************************************************************************)
(* Backpressure drains: every transfer that was started passes through to  *)
(* the last beat.                                                          *)
(***************************************************************************)
TransfersComplete == remaining # <<>> ~> remaining = <<>> /\ m_axis = None
===============================================================================
