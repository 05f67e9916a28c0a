--------------------------- MODULE ParserStreamProofs ---------------------------
(***************************************************************************)
(* Theorems about the parser between the DMA channels, for all transfers,  *)
(* all stalls and either framing.                                          *)
(***************************************************************************)
EXTENDS ParserStream, SequenceTheorems, TLAPS

(* The sequences are sequences, and the packet position, the history and   *)
(* the distance from the last completion keep step.                        *)
StreamInv ==
  /\ word_index \in WordIndex
  /\ m_axis \in Beat \cup {None}
  /\ remaining \in Seq(TaggedBeat)
  /\ accepted \in Seq(TaggedBeat)
  /\ delivered \in Seq(Beat)
  /\ tvalid \in BOOLEAN
  /\ tvalid => remaining # <<>>
  /\ word_index = Len(accepted) % 8
  /\ packet_errors \subseteq ErrorFlags
  /\ quiet \in 0 .. 8
  /\ quiet >= word_index
  /\ BeatsForwardedInOrder

LEMMA BeatsOfSeq ==
  ASSUME NEW seq \in Seq(TaggedBeat)
  PROVE  Beats(seq) \in Seq(Beat) /\ Len(Beats(seq)) = Len(seq)
<1>1. \A i \in 1 .. Len(seq) : seq[i] \in TaggedBeat
  BY ElementOfSeq
<1>2. \A i \in 1 .. Len(seq) : seq[i].beat \in Beat
  BY <1>1 DEF TaggedBeat
<1>3. Len(seq) \in Nat
  BY LenProperties
<1> QED BY <1>2, <1>3, IsASeq DEF Beats

LEMMA BeatsAppend ==
  ASSUME NEW seq \in Seq(TaggedBeat), NEW b \in TaggedBeat
  PROVE  Beats(Append(seq, b)) = Append(Beats(seq), b.beat)
<1>1. /\ Append(seq, b) \in Seq(TaggedBeat)
      /\ Len(Append(seq, b)) = Len(seq) + 1
      /\ \A i \in 1 .. Len(seq) : Append(seq, b)[i] = seq[i]
      /\ Append(seq, b)[Len(seq) + 1] = b
  BY AppendProperties
<1>2. b.beat \in Beat
  BY DEF TaggedBeat
<1>3. Beats(seq) \in Seq(Beat) /\ Len(Beats(seq)) = Len(seq) /\ Len(seq) \in Nat
  BY BeatsOfSeq, LenProperties
<1>4. /\ Append(Beats(seq), b.beat) \in Seq(Beat)
      /\ Len(Append(Beats(seq), b.beat)) = Len(seq) + 1
      /\ \A i \in 1 .. Len(seq) : Append(Beats(seq), b.beat)[i] = seq[i].beat
      /\ Append(Beats(seq), b.beat)[Len(seq) + 1] = b.beat
  BY <1>2, <1>3, AppendProperties DEF Beats
<1>5. Beats(Append(seq, b)) \in Seq(Beat) /\ Len(Beats(Append(seq, b))) = Len(seq) + 1
  BY <1>1, BeatsOfSeq
<1>6. ASSUME NEW i \in 1 .. Len(seq) + 1
      PROVE  Beats(Append(seq, b))[i] = Append(Beats(seq), b.beat)[i]
  <2>1. Beats(Append(seq, b))[i] = Append(seq, b)[i].beat
    <3>1. i \in 1 .. Len(Append(seq, b))
      BY <1>1
    <3> QED BY <3>1 DEF Beats
  <2>2. CASE i \in 1 .. Len(seq)
    BY <2>1, <2>2, <1>1, <1>4
  <2>3. CASE i = Len(seq) + 1
    BY <2>1, <2>3, <1>1, <1>4
  <2> QED BY <1>3, <2>2, <2>3
<1> QED BY <1>4, <1>5, <1>6, SeqEqual

LEMMA ErrorsAreFlags ==
  \A index, beat : current_errors(index, beat) \subseteq ErrorFlags
<1> TAKE index, beat
<1>1. \A flag, condition : flag \in ErrorFlags => Raise(flag, condition) \subseteq ErrorFlags
  BY DEF Raise
<1>2. /\ "MAGIC" \in ErrorFlags /\ "VERSION" \in ErrorFlags /\ "MESSAGE_TYPE" \in ErrorFlags
      /\ "SIDE" \in ErrorFlags /\ "RESERVED" \in ErrorFlags /\ "KEEP" \in ErrorFlags
      /\ "EARLY_TLAST" \in ErrorFlags /\ "MISSING_TLAST" \in ErrorFlags
  BY DEF ErrorFlags
<1>3. KeepErrors(beat) \subseteq ErrorFlags
  BY <1>1, <1>2 DEF KeepErrors
<1>4. TlastErrors(index, beat) \subseteq ErrorFlags
  BY <1>1, <1>2 DEF TlastErrors
<1>5. \A w : HeaderErrors(index, w) \subseteq ErrorFlags
  <2> TAKE w
  <2>1. TypeErrors(w[2], w[3]) \subseteq ErrorFlags
    BY <1>1, <1>2 DEF TypeErrors
  <2>2. CASE index = 0
    BY <2>2, <1>1, <1>2 DEF HeaderErrors
  <2>3. CASE index = 1
    <3>1. HeaderErrors(index, w) = Raise("VERSION", w[1] # 1) \cup TypeErrors(w[2], w[3])
                                     \cup Raise("RESERVED", w[4] # 0)
      BY <2>3 DEF HeaderErrors
    <3> QED BY <3>1, <2>1, <1>1, <1>2
  <2>4. CASE index # 0 /\ index # 1
    BY <2>4 DEF HeaderErrors
  <2> QED BY <2>2, <2>3, <2>4
<1> QED BY <1>3, <1>4, <1>5 DEF current_errors

LEMMA FlagsAreNotNone == \A flags : flags \subseteq ErrorFlags => flags # None
BY ParserAssumption

(* Counting modulo eight.                                                  *)
LEMMA NextOfEight ==
  /\ \A n \in Nat : n % 8 \in 0 .. 7 /\ (n + 1) % 8 = ((n % 8) + 1) % 8
  /\ \A k \in 0 .. 7 : (k + 1) % 8 = IF k = 7 THEN 0 ELSE k + 1
OBVIOUS

LEMMA StreamInit == Init => StreamInv
<1> SUFFICES ASSUME Init PROVE StreamInv
  OBVIOUS
<1>1. /\ word_index = 0 /\ m_axis = None /\ remaining = <<>> /\ accepted = <<>>
      /\ delivered = <<>> /\ tvalid = FALSE /\ quiet = 8
      /\ packet_errors = {}
  BY DEF Init, ParserInit
<1>2. Len(<<>>) = 0 /\ <<>> \in Seq(TaggedBeat) /\ <<>> \in Seq(Beat)
  BY EmptySeq
<1>3. Beats(<<>>) = <<>>
  BY <1>2, BeatsOfSeq, EmptySeq
<1>4. BeatsForwardedInOrder
  BY <1>1, <1>3 DEF BeatsForwardedInOrder
<1>5. word_index \in WordIndex /\ word_index = Len(accepted) % 8 /\ quiet \in 0 .. 8
      /\ quiet >= word_index
  BY <1>1, <1>2, NextOfEight DEF WordIndex
<1> QED BY <1>1, <1>2, <1>4, <1>5 DEF StreamInv

(* What a clock does to the parser's position and to the history.          *)
LEMMA FireCounts ==
  ASSUME StreamInv, NEW r \in BOOLEAN, NEW pause \in BOOLEAN, Clock(r, pause),
         axis_fire(s_axis, r)
  PROVE  /\ tvalid /\ remaining # <<>> /\ Head(remaining) \in TaggedBeat
         /\ s_axis = Head(remaining).beat /\ s_axis \in Beat
         /\ accepted' = Append(accepted, Head(remaining))
         /\ remaining' = Tail(remaining) /\ tvalid' \in BOOLEAN
         /\ tvalid' => remaining' # <<>>
         /\ m_axis' = s_axis /\ (m_axis = None \/ r)
         /\ word_index' = (word_index + 1) % 8
         /\ packet_errors' \subseteq ErrorFlags
         /\ completion' # None <=> word_index = 7
<1>1. tvalid /\ remaining # <<>> /\ s_axis = Head(remaining).beat
  BY DEF axis_fire, s_axis, StreamInv
<1>2. Head(remaining) \in TaggedBeat
  BY <1>1, HeadTailProperties DEF StreamInv
<1>3. s_axis \in Beat
  BY <1>1, <1>2 DEF TaggedBeat
<1>4. /\ accepted' = Append(accepted, Head(remaining)) /\ remaining' = Tail(remaining)
      /\ tvalid' \in BOOLEAN /\ (tvalid' => remaining' # <<>>)
  BY <1>1 DEF Clock, StartTransfer, SendBeats
<1>5. m_axis' = s_axis /\ (m_axis = None \/ r)
  BY DEF Clock, ParserTick, ForwardBeat, axis_fire, s_axis_tready
<1>6. MidPacket(s_axis) \/ LastOfPacket(s_axis)
  BY DEF Clock, ParserTick
<1>7. packet_errors \cup current_errors(word_index, s_axis) \subseteq ErrorFlags
  BY ErrorsAreFlags DEF StreamInv
<1>8. /\ word_index' = (word_index + 1) % 8
      /\ completion' # None <=> word_index = 7
      /\ packet_errors' \subseteq ErrorFlags
  <2>1. CASE MidPacket(s_axis)
    BY <2>1, <1>7 DEF MidPacket, Capture
  <2>2. CASE LastOfPacket(s_axis)
    BY <2>2, <1>7, FlagsAreNotNone DEF LastOfPacket, Capture
  <2> QED BY <1>6, <2>1, <2>2
<1> QED BY <1>1, <1>2, <1>3, <1>4, <1>5, <1>8

LEMMA NoFireKeeps ==
  ASSUME StreamInv, NEW r \in BOOLEAN, NEW pause \in BOOLEAN, Clock(r, pause),
         ~axis_fire(s_axis, r)
  PROVE  /\ UNCHANGED <<accepted, word_index, packet_errors>>
         /\ completion' = None
         /\ remaining' \in Seq(TaggedBeat)
         /\ tvalid' \in BOOLEAN /\ (tvalid' => remaining' # <<>>)
         /\ m_axis' = IF m_axis = None \/ r THEN None ELSE m_axis
<1>1. UNCHANGED <<word_index, packet_errors>> /\ completion' = None
  BY DEF Clock, ParserTick, NoBeat
<1>2. accepted' = accepted
  BY DEF Clock, StartTransfer, SendBeats
<1>3. remaining' \in Seq(TaggedBeat) /\ tvalid' \in BOOLEAN /\ (tvalid' => remaining' # <<>>)
  BY StreamAssumption DEF Clock, StartTransfer, SendBeats, StreamInv
<1>4. m_axis' = IF m_axis = None \/ r THEN None ELSE m_axis
  BY DEF Clock, ParserTick, ForwardBeat, axis_fire, s_axis_tready
<1> QED BY <1>1, <1>2, <1>3, <1>4

LEMMA ClockKeepsInv ==
  ASSUME StreamInv, NEW r \in BOOLEAN, NEW pause \in BOOLEAN, Clock(r, pause)
  PROVE  StreamInv'
<1>1. delivered' = IF m_axis # None /\ r THEN Append(delivered, m_axis) ELSE delivered
  BY DEF Clock, SinkClock
<1>2. delivered' \in Seq(Beat)
  BY <1>1, AppendProperties DEF StreamInv
<1>3. quiet' = IF completion' # None THEN 0 ELSE IF quiet < 8 THEN quiet + 1 ELSE quiet
  BY DEF Clock
<1>4. Beats(accepted) = IF m_axis = None THEN delivered ELSE Append(delivered, m_axis)
  BY DEF StreamInv, BeatsForwardedInOrder
<1>5. None \notin Beat
  BY ParserAssumption
<1>6. CASE axis_fire(s_axis, r)
  <2>1. /\ remaining # <<>> /\ Head(remaining) \in TaggedBeat
        /\ s_axis = Head(remaining).beat /\ s_axis \in Beat
        /\ accepted' = Append(accepted, Head(remaining))
        /\ remaining' = Tail(remaining) /\ tvalid' \in BOOLEAN
        /\ tvalid' => remaining' # <<>>
        /\ m_axis' = s_axis /\ (m_axis = None \/ r)
        /\ word_index' = (word_index + 1) % 8
        /\ packet_errors' \subseteq ErrorFlags
        /\ completion' # None <=> word_index = 7
    BY <1>6, FireCounts
  <2>2. /\ accepted' \in Seq(TaggedBeat) /\ Len(accepted') = Len(accepted) + 1
        /\ Len(accepted) \in Nat /\ remaining' \in Seq(TaggedBeat)
    BY <2>1, AppendProperties, HeadTailProperties, LenProperties DEF StreamInv
  <2>3. word_index' \in WordIndex /\ word_index' = Len(accepted') % 8
    <3>1. word_index = Len(accepted) % 8
      BY DEF StreamInv
    <3>2. word_index' = Len(accepted') % 8
      BY <2>1, <2>2, <3>1, NextOfEight
    <3>3. Len(accepted') \in Nat
      BY <2>2
    <3> QED BY <3>2, <3>3, NextOfEight DEF WordIndex
  <2>4. quiet' \in 0 .. 8 /\ quiet' >= word_index'
    <3>1. /\ word_index \in 0 .. 7 /\ quiet \in 0 .. 8 /\ quiet >= word_index
          /\ word_index' = IF word_index = 7 THEN 0 ELSE word_index + 1
      BY <2>1, NextOfEight DEF StreamInv, WordIndex
    <3>2. CASE word_index = 7
      BY <3>1, <3>2, <2>1, <1>3
    <3>3. CASE word_index # 7
      BY <3>1, <3>3, <2>1, <1>3
    <3> QED BY <3>2, <3>3
  <2>5. Beats(accepted') = Append(Beats(accepted), s_axis)
    BY <2>1, BeatsAppend DEF StreamInv
  <2>6. Beats(accepted') = Append(delivered', m_axis') /\ m_axis' # None
    BY <2>1, <2>5, <1>1, <1>4, <1>5
  <2> QED BY <1>2, <2>1, <2>2, <2>3, <2>4, <2>6 DEF StreamInv, BeatsForwardedInOrder
<1>7. CASE ~axis_fire(s_axis, r)
  <2>1. /\ UNCHANGED <<accepted, word_index, packet_errors>>
        /\ completion' = None
        /\ remaining' \in Seq(TaggedBeat)
        /\ tvalid' \in BOOLEAN /\ (tvalid' => remaining' # <<>>)
        /\ m_axis' = IF m_axis = None \/ r THEN None ELSE m_axis
    BY <1>7, NoFireKeeps
  <2>2. quiet' \in 0 .. 8 /\ quiet' >= word_index'
    BY <2>1, <1>3 DEF StreamInv, WordIndex
  <2>3. Beats(accepted)' = IF m_axis' = None THEN delivered' ELSE Append(delivered', m_axis')
    BY <2>1, <1>1, <1>4
  <2> QED BY <1>2, <2>1, <2>2, <2>3 DEF StreamInv, BeatsForwardedInOrder
<1> QED BY <1>6, <1>7

LEMMA StreamInvHolds == Spec => []StreamInv
<1>1. Init => StreamInv BY StreamInit
<1>2. StreamInv /\ [Next]_vars => StreamInv'
  <2>1. ASSUME StreamInv, Next PROVE StreamInv'
    BY <2>1, ClockKeepsInv DEF Next
  <2>2. ASSUME StreamInv, UNCHANGED vars PROVE StreamInv'
    BY <2>2 DEF StreamInv, BeatsForwardedInOrder, vars, parserVars, streamVars
  <2> QED BY <2>1, <2>2
<1> QED BY <1>1, <1>2, PTL DEF Spec
-------------------------------------------------------------------------------
(* The register between the DMA channels is a queue of one beat: whatever  *)
(* is sent and whoever stalls, nothing is lost, repeated or reordered.     *)
THEOREM BeatsForwardedInOrderHolds == Spec => []BeatsForwardedInOrder
<1>1. StreamInv => BeatsForwardedInOrder BY DEF StreamInv
<1> QED BY <1>1, StreamInvHolds, PTL

(* The parser never reports two packets less than eight clocks apart,      *)
(* which is the SPACING under which the engine's theorems are proved.      *)
THEOREM CompletionsSpacedHolds == Spec => CompletionsSpaced
<1>1. StreamInv /\ [Next]_vars => [completion' # None => quiet >= 7]_vars
  <2> SUFFICES ASSUME StreamInv, Next, completion' # None PROVE quiet >= 7
    OBVIOUS
  <2>1. PICK r \in BOOLEAN, pause \in BOOLEAN : Clock(r, pause)
    BY DEF Next
  <2>2. axis_fire(s_axis, r)
    BY <2>1, NoFireKeeps
  <2>3. word_index = 7
    BY <2>1, <2>2, FireCounts
  <2> QED BY <2>3 DEF StreamInv
<1> QED BY <1>1, StreamInvHolds, PTL DEF Spec, CompletionsSpaced

(* Exactly every eighth accepted beat completes a packet.                  *)
THEOREM CompletionPerEightBeatsHolds == Spec => CompletionPerEightBeats
<1>1. StreamInv /\ [Next]_vars =>
        [completion' # None <=> accepted' # accepted /\ Len(accepted') % 8 = 0]_vars
  <2> SUFFICES ASSUME StreamInv, Next
               PROVE  completion' # None <=> accepted' # accepted /\ Len(accepted') % 8 = 0
    OBVIOUS
  <2>1. PICK r \in BOOLEAN, pause \in BOOLEAN : Clock(r, pause)
    BY DEF Next
  <2>2. CASE ~axis_fire(s_axis, r)
    BY <2>1, <2>2, NoFireKeeps
  <2>3. CASE axis_fire(s_axis, r)
    <3>1. /\ Head(remaining) \in TaggedBeat /\ accepted' = Append(accepted, Head(remaining))
          /\ completion' # None <=> word_index = 7
      BY <2>1, <2>3, FireCounts
    <3>2. Len(accepted') = Len(accepted) + 1 /\ Len(accepted) \in Nat
      BY <3>1, AppendProperties, LenProperties DEF StreamInv
    <3>3. accepted' # accepted
      BY <3>2
    <3>4. word_index = Len(accepted) % 8
      BY DEF StreamInv
    <3> QED BY <3>1, <3>2, <3>3, <3>4
  <2> QED BY <2>2, <2>3
<1> QED BY <1>1, StreamInvHolds, PTL DEF Spec, CompletionPerEightBeats

(* The parser's register does, clock by clock and with the same stalls,    *)
(* what the Phase 3 passthrough does.                                      *)
THEOREM ParserImplementsPassthrough == Spec => ImplementsPassthrough
<1>1. Init => Passthrough!Init
  <2>1. Beats(<<>>) = <<>>
    BY BeatsOfSeq, EmptySeq
  <2> QED BY <2>1 DEF Init, ParserInit, Passthrough!Init
<1>2. StreamInv /\ [Next]_vars => [Passthrough!Next]_Passthrough!vars
  <2>1. ASSUME StreamInv, Next PROVE Passthrough!Next
    <3>1. PICK r \in BOOLEAN, pause \in BOOLEAN : Clock(r, pause)
      BY <2>1 DEF Next
    <3>2. delivered' = IF m_axis # None /\ r THEN Append(delivered, m_axis) ELSE delivered
      BY <3>1 DEF Clock, SinkClock
    <3>3. None \notin Beat
      BY ParserAssumption
    <3>4. CASE axis_fire(s_axis, r)
      <4>1. /\ Head(remaining) \in TaggedBeat
            /\ s_axis = Head(remaining).beat /\ s_axis \in Beat
            /\ accepted' = Append(accepted, Head(remaining))
            /\ m_axis' = s_axis /\ (m_axis = None \/ r)
        BY <2>1, <3>1, <3>4, FireCounts
      <4>2. Beats(accepted') = Append(Beats(accepted), s_axis)
        BY <2>1, <4>1, BeatsAppend DEF StreamInv
      <4>3. Passthrough!Clock(s_axis, r)
        BY <3>2, <3>3, <4>1, <4>2 DEF Passthrough!Clock, Passthrough!s_axis_tready
      <4> QED BY <4>1, <4>3 DEF Passthrough!Next
    <3>5. CASE ~axis_fire(s_axis, r)
      <4>1. accepted' = accepted /\ m_axis' = IF m_axis = None \/ r THEN None ELSE m_axis
        BY <2>1, <3>1, <3>5, NoFireKeeps
      <4>2. Passthrough!Clock(None, r)
        BY <3>2, <4>1 DEF Passthrough!Clock, Passthrough!s_axis_tready
      <4> QED BY <4>2 DEF Passthrough!Next
    <3> QED BY <3>4, <3>5
  <2>2. UNCHANGED vars => UNCHANGED Passthrough!vars
    BY DEF vars, parserVars, streamVars, Passthrough!vars
  <2> QED BY <2>1, <2>2
<1> QED BY <1>1, <1>2, StreamInvHolds, PTL DEF Spec, ImplementsPassthrough, Passthrough!Spec
-------------------------------------------------------------------------------
(* What the beats start + 1 .. start + n of a sequence, read as the first  *)
(* n beats of a packet, raise as errors.                                   *)
ErrorsOf(seq, start, n) ==
  UNION {current_errors(i, seq[start + i + 1].beat) : i \in 0 .. n - 1}

(* The words of those beats are what fields holds.                         *)
Captured(seq, start, n) == \A i \in 0 .. n - 1 : fields[i] = seq[start + i + 1].beat.data

(* The registers speak of the beats of the packet that is arriving, and a  *)
(* completion of the eight beats before.                                   *)
PacketInv ==
  /\ DOMAIN fields = WordIndex
  /\ packet_errors = ErrorsOf(accepted, Len(accepted) - word_index, word_index)
  /\ Captured(accepted, Len(accepted) - word_index, word_index)
  /\ completion # None =>
       /\ Len(accepted) >= 8
       /\ completion = ErrorsOf(accepted, Len(accepted) - 8, 8)
       /\ Captured(accepted, Len(accepted) - 8, 8)

(* Where the history and what is still to be sent join: transfers are cut  *)
(* only behind a beat with TLAST.                                          *)
LinkInv ==
  /\ \A k \in 1 .. Len(accepted) :
       byte_swap32(accepted[k].beat.data) = MAGIC => accepted[k].pos = 0
  /\ \A k \in 1 .. Len(accepted) - 1 :
       accepted[k].beat.last \/ accepted[k + 1].pos = (accepted[k].pos + 1) % 8
  /\ \A k \in 1 .. Len(remaining) :
       byte_swap32(remaining[k].beat.data) = MAGIC => remaining[k].pos = 0
  /\ \A k \in 1 .. Len(remaining) - 1 :
       remaining[k + 1].pos = (remaining[k].pos + 1) % 8
  /\ remaining # <<>> => remaining[Len(remaining)].beat.last
  /\ accepted # <<>> /\ ~accepted[Len(accepted)].beat.last =>
       /\ remaining # <<>>
       /\ remaining[1].pos = (accepted[Len(accepted)].pos + 1) % 8

(* Taking a beat decodes it by its position.                               *)
LEMMA FireCaptures ==
  ASSUME StreamInv, NEW r \in BOOLEAN, NEW pause \in BOOLEAN, Clock(r, pause),
         axis_fire(s_axis, r)
  PROVE  /\ fields' = [fields EXCEPT ![word_index] = Head(remaining).beat.data]
         /\ word_index # 7 =>
              /\ word_index' = word_index + 1
              /\ packet_errors' = packet_errors
                                    \cup current_errors(word_index, Head(remaining).beat)
              /\ completion' = None
         /\ word_index = 7 =>
              /\ word_index' = 0
              /\ packet_errors' = {}
              /\ completion' = packet_errors
                                 \cup current_errors(word_index, Head(remaining).beat)
<1>1. s_axis = Head(remaining).beat
  BY FireCounts
<1>2. MidPacket(s_axis) \/ LastOfPacket(s_axis)
  BY DEF Clock, ParserTick
<1>3. word_index \in 0 .. 7
  BY DEF StreamInv, WordIndex
<1>4. CASE MidPacket(s_axis)
  <2>1. (word_index + 1) % 8 = word_index + 1
    BY <1>3, <1>4, NextOfEight DEF MidPacket
  <2> QED BY <1>1, <1>4, <2>1 DEF MidPacket, Capture
<1>5. CASE LastOfPacket(s_axis)
  <2>1. (word_index + 1) % 8 = 0
    BY <1>5, NextOfEight DEF LastOfPacket
  <2> QED BY <1>1, <1>5, <2>1 DEF LastOfPacket, Capture
<1> QED BY <1>2, <1>4, <1>5

(* A beat more: the errors up to there, and the new beat's own.            *)
LEMMA ErrorsOfAppend ==
  ASSUME NEW seq \in Seq(TaggedBeat), NEW b \in TaggedBeat, NEW n \in Nat, n <= Len(seq)
  PROVE  ErrorsOf(Append(seq, b), Len(seq) - n, n + 1)
           = ErrorsOf(seq, Len(seq) - n, n) \cup current_errors(n, b.beat)
<1>1. /\ Len(seq) \in Nat
      /\ \A i \in 1 .. Len(seq) : Append(seq, b)[i] = seq[i]
      /\ Append(seq, b)[Len(seq) + 1] = b
  BY AppendProperties, LenProperties
<1> DEFINE start == Len(seq) - n
<1>2. \A i \in 0 .. n - 1 : Append(seq, b)[start + i + 1] = seq[start + i + 1]
  <2> SUFFICES ASSUME NEW i \in 0 .. n - 1
               PROVE  Append(seq, b)[start + i + 1] = seq[start + i + 1]
    OBVIOUS
  <2>1. start + i + 1 \in 1 .. Len(seq)
    BY <1>1
  <2> QED BY <2>1, <1>1
<1>3. Append(seq, b)[start + n + 1] = b
  BY <1>1
<1>4. \A i : i \in 0 .. (n + 1) - 1 <=> i \in 0 .. n - 1 \/ i = n
  OBVIOUS
<1> HIDE DEF start
<1>5. ASSUME NEW x
      PROVE  x \in ErrorsOf(Append(seq, b), start, n + 1)
               <=> x \in ErrorsOf(seq, start, n) \/ x \in current_errors(n, b.beat)
  <2>1. x \in ErrorsOf(Append(seq, b), start, n + 1) <=>
          \E i \in 0 .. (n + 1) - 1 : x \in current_errors(i, Append(seq, b)[start + i + 1].beat)
    BY DEF ErrorsOf
  <2>2. x \in ErrorsOf(seq, start, n) <=>
          \E i \in 0 .. n - 1 : x \in current_errors(i, seq[start + i + 1].beat)
    BY DEF ErrorsOf
  <2> QED BY <2>1, <2>2, <1>2, <1>3, <1>4
<1> QED BY <1>5 DEF start

LEMMA ErrorsOfNone == \A seq, start : ErrorsOf(seq, start, 0) = {}
BY DEF ErrorsOf

LEMMA PacketInit == Init => PacketInv /\ LinkInv
<1> SUFFICES ASSUME Init PROVE PacketInv /\ LinkInv
  OBVIOUS
<1>1. /\ word_index = 0 /\ packet_errors = {} /\ completion = None
      /\ fields \in [WordIndex -> {[i \in 1 .. 4 |-> 0]}]
      /\ accepted = <<>> /\ remaining = <<>>
  BY DEF Init, ParserInit
<1>2. Len(accepted) = 0 /\ Len(remaining) = 0
  BY <1>1, EmptySeq
<1>3. packet_errors = ErrorsOf(accepted, Len(accepted) - word_index, word_index)
  BY <1>1, ErrorsOfNone
<1>4. Captured(accepted, Len(accepted) - word_index, word_index)
  BY <1>1 DEF Captured
<1>5. PacketInv
  BY <1>1, <1>3, <1>4 DEF PacketInv
<1>6. LinkInv
  BY <1>1, <1>2 DEF LinkInv
<1> QED BY <1>5, <1>6

LEMMA ClockKeepsPacket ==
  ASSUME StreamInv, PacketInv, NEW r \in BOOLEAN, NEW pause \in BOOLEAN, Clock(r, pause)
  PROVE  PacketInv'
<1>1. CASE ~axis_fire(s_axis, r)
  <2>1. UNCHANGED <<accepted, word_index, packet_errors>> /\ completion' = None
    BY <1>1, NoFireKeeps
  <2>2. fields' = fields
    BY <1>1 DEF Clock, ParserTick, NoBeat
  <2> QED BY <2>1, <2>2 DEF PacketInv, Captured, ErrorsOf
<1>2. CASE axis_fire(s_axis, r)
  <2> DEFINE b == Head(remaining)
             n == Len(accepted)
             w == word_index
             errs == packet_errors \cup current_errors(w, b.beat)
  <2>1. b \in TaggedBeat /\ accepted' = Append(accepted, b)
    BY <1>2, FireCounts
  <2>2. /\ fields' = [fields EXCEPT ![w] = b.beat.data]
        /\ w # 7 => w' = w + 1 /\ packet_errors' = errs /\ completion' = None
        /\ w = 7 => w' = 0 /\ packet_errors' = {} /\ completion' = errs
    BY <1>2, FireCaptures
  <2>3. /\ n \in Nat /\ n' = n + 1 /\ w \in 0 .. 7 /\ w <= n
        /\ \A i \in 1 .. n : accepted'[i] = accepted[i]
        /\ accepted'[n + 1] = b
    <3>1. n \in Nat /\ w \in 0 .. 7 /\ w = n % 8
      BY LenProperties DEF StreamInv, WordIndex
    <3>2. w <= n
      BY <3>1
    <3> QED BY <2>1, <3>1, <3>2, AppendProperties DEF StreamInv
  <2>4. DOMAIN fields' = WordIndex
    BY <2>2 DEF PacketInv
  <2>5. errs = ErrorsOf(accepted', n - w, w + 1)
    <3>1. packet_errors = ErrorsOf(accepted, n - w, w)
      BY DEF PacketInv
    <3>2. accepted \in Seq(TaggedBeat) /\ w \in Nat
      BY <2>3 DEF StreamInv
    <3> HIDE DEF b, w
    <3>3. ErrorsOf(Append(accepted, b), n - w, w + 1)
            = ErrorsOf(accepted, n - w, w) \cup current_errors(w, b.beat)
      BY <2>1, <2>3, <3>2, ErrorsOfAppend
    <3> QED BY <2>1, <3>1, <3>3
  <2>6. \A i \in 0 .. w : fields'[i] = accepted'[(n - w) + i + 1].beat.data
    <3> SUFFICES ASSUME NEW i \in 0 .. w
                 PROVE  fields'[i] = accepted'[(n - w) + i + 1].beat.data
      OBVIOUS
    <3>1. CASE i = w
      <4>1. fields'[w] = b.beat.data
        BY <2>2, <2>3 DEF PacketInv, WordIndex
      <4>2. (n - w) + i + 1 = n + 1
        BY <3>1, <2>3
      <4> QED BY <4>1, <4>2, <3>1, <2>3
    <3>2. CASE i # w
      <4>1. i \in 0 .. w - 1 /\ (n - w) + i + 1 \in 1 .. n /\ i \in WordIndex
        <5>1. n \in Nat /\ w \in 0 .. 7 /\ w <= n
          BY <2>3
        <5> HIDE DEF n, w
        <5>2. i \in 0 .. w - 1
          BY <3>2, <5>1
        <5>3. (n - w) + i + 1 \in 1 .. n
          BY <5>1, <5>2
        <5>4. i \in WordIndex
          BY <5>1, <5>2 DEF WordIndex
        <5> QED BY <5>2, <5>3, <5>4
      <4>2. fields'[i] = fields[i]
        BY <2>2, <3>2, <4>1 DEF PacketInv
      <4>3. fields[i] = accepted[(n - w) + i + 1].beat.data
        BY <4>1 DEF PacketInv, Captured
      <4> QED BY <4>1, <4>2, <4>3, <2>3
    <3> QED BY <3>1, <3>2
  <2> HIDE DEF errs, b
  <2>7. CASE w # 7
    <3>1. w' = w + 1 /\ packet_errors' = errs /\ completion' = None /\ n' - w' = n - w
      BY <2>2, <2>3, <2>7
    <3>2. packet_errors' = ErrorsOf(accepted', n' - w', w')
      BY <3>1, <2>5
    <3>3. Captured(accepted, n - w, w)'
      <4> SUFFICES ASSUME NEW i \in 0 .. w' - 1
                   PROVE  fields'[i] = accepted'[(n' - w') + i + 1].beat.data
        BY DEF Captured
      <4>1. i \in 0 .. w
        BY <3>1, <2>3
      <4> QED BY <4>1, <3>1, <2>6
    <3>4. packet_errors' = ErrorsOf(accepted, Len(accepted) - word_index, word_index)'
      BY <3>2 DEF ErrorsOf
    <3> QED BY <2>4, <3>1, <3>3, <3>4 DEF PacketInv
  <2>8. CASE w = 7
    <3>1. w' = 0 /\ packet_errors' = {} /\ completion' = errs /\ n' - 8 = n - 7 /\ n' >= 8
      BY <2>2, <2>3, <2>8
    <3>2. completion' = ErrorsOf(accepted', n' - 8, 8)
      BY <3>1, <2>5, <2>8
    <3>3. Captured(accepted, n - 8, 8)'
      <4> SUFFICES ASSUME NEW i \in 0 .. 8 - 1
                   PROVE  fields'[i] = accepted'[(n' - 8) + i + 1].beat.data
        BY DEF Captured
      <4>1. (n' - 8) + i + 1 = (n - w) + i + 1
        BY <2>3, <2>8
      <4>2. i \in 0 .. w
        BY <2>8
      <4> QED BY <4>1, <4>2, <2>6
    <3>4. packet_errors' = ErrorsOf(accepted, n - w, w)' /\ Captured(accepted, n - w, w)'
      BY <3>1 DEF ErrorsOf, Captured
    <3>5. completion' = ErrorsOf(accepted, n - 8, 8)'
      BY <3>2 DEF ErrorsOf
    <3> QED BY <2>4, <3>1, <3>3, <3>4, <3>5 DEF PacketInv
  <2> QED BY <2>7, <2>8
<1> QED BY <1>1, <1>2

LEMMA PacketInvHolds == Spec => []PacketInv
<1>1. Init => PacketInv BY PacketInit
<1>2. StreamInv /\ PacketInv /\ [Next]_vars => PacketInv'
  <2>1. ASSUME StreamInv, PacketInv, Next PROVE PacketInv'
    BY <2>1, ClockKeepsPacket DEF Next
  <2>2. ASSUME PacketInv, UNCHANGED vars PROVE PacketInv'
    BY <2>2 DEF PacketInv, Captured, ErrorsOf, vars, parserVars, streamVars
  <2> QED BY <2>1, <2>2
<1> QED BY <1>1, <1>2, StreamInvHolds, PTL DEF Spec

(* The last eight beats by their place in the history.                     *)
LEMMA LastEightAt ==
  ASSUME StreamInv, Len(accepted) >= 8
  PROVE  \A i \in 1 .. 8 : LastEight[i] = accepted[(Len(accepted) - 8) + i]
                           /\ LastEight[i] \in TaggedBeat
<1>1. accepted \in Seq(TaggedBeat) /\ Len(accepted) \in Nat
  BY LenProperties DEF StreamInv
<1> DEFINE m == Len(accepted) - 7
<1>2. m \in Int /\ m >= 1 /\ Len(accepted) \in Int
  BY <1>1
<1>3. \A k \in m .. Len(accepted) : accepted[k] \in TaggedBeat
  BY <1>1, <1>2, ElementOfSeq
<1>4. \A i \in 1 .. (Len(accepted) - m) + 1 : LastEight[i] = accepted[(m + i) - 1]
  <2> HIDE DEF m
  <2>1. \A i \in 1 .. (Len(accepted) - m) + 1 :
          SubSeq(accepted, m, Len(accepted))[i] = accepted[(m + i) - 1]
    BY <1>2, <1>3, SubSeqProperties
  <2> QED BY <2>1 DEF LastEight, m
<1> SUFFICES ASSUME NEW i \in 1 .. 8
             PROVE  LastEight[i] = accepted[(Len(accepted) - 8) + i]
                    /\ LastEight[i] \in TaggedBeat
  OBVIOUS
<1>5. (m + i) - 1 = (Len(accepted) - 8) + i /\ (Len(accepted) - m) + 1 = 8
      /\ (m + i) - 1 \in m .. Len(accepted)
  BY <1>2
<1> QED BY <1>3, <1>4, <1>5

LEMMA CompletionIsAboutLastEight ==
  ASSUME StreamInv, PacketInv, completion # None
  PROVE  /\ Len(accepted) >= 8
         /\ \A x : x \in completion <=>
                     \E i \in 1 .. 8 : x \in current_errors(i - 1, LastEight[i].beat)
         /\ \A i \in 1 .. 8 : fields[i - 1] = LastEight[i].beat.data
<1>1. /\ Len(accepted) >= 8
      /\ completion = ErrorsOf(accepted, Len(accepted) - 8, 8)
      /\ Captured(accepted, Len(accepted) - 8, 8)
  BY DEF PacketInv
<1>2. Len(accepted) \in Nat
  BY LenProperties DEF StreamInv
<1> DEFINE start == Len(accepted) - 8
<1>3. \A i \in 1 .. 8 : LastEight[i] = accepted[start + i]
  BY <1>1, LastEightAt
<1>4. start \in Nat
  BY <1>1, <1>2
<1> HIDE DEF start
<1>5. \A i \in 1 .. 8 : i - 1 \in 0 .. 8 - 1 /\ (start + (i - 1)) + 1 = start + i
  BY <1>4
<1>6. \A i \in 0 .. 8 - 1 : i + 1 \in 1 .. 8 /\ (i + 1) - 1 = i
                            /\ start + (i + 1) = (start + i) + 1
  BY <1>4
<1>7. ASSUME NEW i \in 1 .. 8 PROVE fields[i - 1] = LastEight[i].beat.data
  <2>1. fields[i - 1] = accepted[(start + (i - 1)) + 1].beat.data
    BY <1>1, <1>5 DEF Captured, start
  <2> QED BY <2>1, <1>3, <1>5
<1>8. ASSUME NEW x
      PROVE  x \in completion <=>
               \E i \in 1 .. 8 : x \in current_errors(i - 1, LastEight[i].beat)
  <2>1. x \in completion <=>
          \E i \in 0 .. 8 - 1 : x \in current_errors(i, accepted[(start + i) + 1].beat)
    BY <1>1 DEF ErrorsOf, start
  <2>2. ASSUME NEW i \in 0 .. 8 - 1, x \in current_errors(i, accepted[(start + i) + 1].beat)
        PROVE  \E j \in 1 .. 8 : x \in current_errors(j - 1, LastEight[j].beat)
    <3>1. i + 1 \in 1 .. 8 /\ (i + 1) - 1 = i /\ start + (i + 1) = (start + i) + 1
      BY <1>6
    <3>2. LastEight[i + 1] = accepted[(start + i) + 1]
      BY <3>1, <1>3
    <3>3. x \in current_errors((i + 1) - 1, LastEight[i + 1].beat)
      BY <2>2, <3>1, <3>2
    <3> QED BY <3>1, <3>3
  <2>3. ASSUME NEW i \in 1 .. 8, x \in current_errors(i - 1, LastEight[i].beat)
        PROVE  \E j \in 0 .. 8 - 1 : x \in current_errors(j, accepted[(start + j) + 1].beat)
    <3>1. i - 1 \in 0 .. 8 - 1 /\ LastEight[i] = accepted[(start + (i - 1)) + 1]
      BY <1>3, <1>5
    <3> QED BY <2>3, <3>1
  <2> QED BY <2>1, <2>2, <2>3
<1> QED BY <1>1, <1>7, <1>8

(* A completion is about the last eight beats and about nothing else: the  *)
(* flags are theirs, whatever stalled between them, and so are the decoded *)
(* fields.                                                                 *)
THEOREM CompletionReportsLastEightHolds == Spec => []CompletionReportsLastEight
<1>1. StreamInv /\ PacketInv => CompletionReportsLastEight
  <2> SUFFICES ASSUME StreamInv, PacketInv, completion # None
               PROVE  /\ completion = UNION {current_errors(i - 1, LastEight[i].beat) : i \in 1 .. 8}
                      /\ \A i \in 1 .. 8 : fields[i - 1] = LastEight[i].beat.data
    BY DEF CompletionReportsLastEight
  <2>1. ASSUME NEW x
        PROVE  x \in completion <=>
                 x \in (UNION {current_errors(i - 1, LastEight[i].beat) : i \in 1 .. 8})
    <3>1. x \in completion <=>
            \E i \in 1 .. 8 : x \in current_errors(i - 1, LastEight[i].beat)
      BY CompletionIsAboutLastEight
    <3> QED BY <3>1
  <2>2. completion \subseteq ErrorFlags
    BY ErrorsAreFlags DEF PacketInv, ErrorsOf
  <2> QED BY <2>1, CompletionIsAboutLastEight
<1> QED BY <1>1, StreamInvHolds, PacketInvHolds, PTL

(* Four bytes are determined by the number they make.                      *)
LEMMA MagicIsOneWord ==
  ASSUME NEW w \in Word
  PROVE  byte_swap32(w) = MAGIC <=> w = <<72, 70, 84, 49>>
<1>1. w \in [1 .. 4 -> Byte]
  BY ParserAssumption
<1>2. w[1] \in 0 .. 255 /\ w[2] \in 0 .. 255 /\ w[3] \in 0 .. 255 /\ w[4] \in 0 .. 255
  BY <1>1 DEF Byte
<1>3. MAGIC = ((72 * 256 + 70) * 256 + 84) * 256 + 49
  BY DEF MAGIC, byte_swap32
<1>4. byte_swap32(w) = MAGIC <=> w[1] = 72 /\ w[2] = 70 /\ w[3] = 84 /\ w[4] = 49
  <2> DEFINE a == w[1]
             b == w[2]
             c == w[3]
             d == w[4]
  <2>1. byte_swap32(w) = ((a * 256 + b) * 256 + c) * 256 + d
    BY DEF byte_swap32
  <2>2. a \in 0 .. 255 /\ b \in 0 .. 255 /\ c \in 0 .. 255 /\ d \in 0 .. 255
    BY <1>2
  <2> HIDE DEF a, b, c, d
  <2>3. ((a * 256 + b) * 256 + c) * 256 + d = ((72 * 256 + 70) * 256 + 84) * 256 + 49
          <=> a = 72 /\ b = 70 /\ c = 84 /\ d = 49
    BY <2>2
  <2> QED BY <2>1, <2>3, <1>3 DEF a, b, c, d
<1>5. w = <<72, 70, 84, 49>> <=> w[1] = 72 /\ w[2] = 70 /\ w[3] = 84 /\ w[4] = 49
  <2>1. w = [i \in 1 .. 4 |-> w[i]]
    BY <1>1
  <2>2. ASSUME w[1] = 72, w[2] = 70, w[3] = 84, w[4] = 49
        PROVE  w = <<72, 70, 84, 49>>
    BY <2>1, <2>2
  <2> QED BY <2>2
<1> QED BY <1>4, <1>5

(* Which flags a beat can raise at its position.                           *)
LEMMA FlagsByPosition ==
  ASSUME NEW index \in WordIndex, NEW beat
  PROVE  /\ \A x \in current_errors(index, beat) :
              \/ x \in {"KEEP", "EARLY_TLAST", "MISSING_TLAST"}
              \/ x \in HeaderErrors(index, beat.data)
         /\ HeaderErrors(index, beat.data) \subseteq current_errors(index, beat)
         /\ HeaderErrors(0, beat.data) = {} <=> byte_swap32(beat.data) = MAGIC
         /\ HeaderErrors(1, beat.data) = {} <=>
              /\ beat.data[1] = 1 /\ beat.data[4] = 0
              /\ TypeErrors(beat.data[2], beat.data[3]) = {}
         /\ index > 1 => HeaderErrors(index, beat.data) = {}
<1> DEFINE w == beat.data
<1>1. \A x \in KeepErrors(beat) : x = "KEEP"
  BY DEF KeepErrors, Raise
<1>2. \A x \in TlastErrors(index, beat) : x \in {"EARLY_TLAST", "MISSING_TLAST"}
  BY DEF TlastErrors, Raise
<1>3. HeaderErrors(0, w) = Raise("MAGIC", byte_swap32(w) # MAGIC)
  BY DEF HeaderErrors
<1>4. HeaderErrors(1, w) = Raise("VERSION", w[1] # 1) \cup TypeErrors(w[2], w[3])
                             \cup Raise("RESERVED", w[4] # 0)
  BY DEF HeaderErrors
<1>5. index > 1 => HeaderErrors(index, w) = {}
  BY DEF HeaderErrors, WordIndex
<1>6. HeaderErrors(0, w) = {} <=> byte_swap32(w) = MAGIC
  BY <1>3 DEF Raise
<1>7. HeaderErrors(1, w) = {} <=> w[1] = 1 /\ w[4] = 0 /\ TypeErrors(w[2], w[3]) = {}
  <2> DEFINE T == TypeErrors(w[2], w[3])
  <2>1. HeaderErrors(1, w) = Raise("VERSION", w[1] # 1) \cup T \cup Raise("RESERVED", w[4] # 0)
    BY <1>4
  <2> HIDE DEF T
  <2> QED BY <2>1 DEF Raise, T
<1> QED BY <1>1, <1>2, <1>5, <1>6, <1>7 DEF current_errors

LEMMA TypeErrorsNone ==
  ASSUME NEW t, NEW side
  PROVE  TypeErrors(t, side) = {} <=>
           t \in {1, 4, 5} /\ side \in (IF t = 1 THEN {0, 1} ELSE {0})
BY DEF TypeErrors, Raise

(* On packets whose framing is right the parser in the programmable logic  *)
(* and the receiving software on the processor decide alike, byte for      *)
(* byte: what one counts as valid the other counts too.                    *)
THEOREM SoftwareCheckAgreesHolds == Spec => []SoftwareCheckAgrees
<1>1. ASSUME StreamInv, PacketInv, completion # None,
             completion \cap {"KEEP", "EARLY_TLAST", "MISSING_TLAST"} = {}
      PROVE  packet_valid <=> protocol_is_valid([i \in 1 .. 8 |-> LastEight[i].beat.data])
  <2> DEFINE w == [i \in 1 .. 8 |-> LastEight[i].beat.data]
             errs(i) == current_errors(i - 1, LastEight[i].beat)
             head(i) == HeaderErrors(i - 1, w[i])
  <2>1. /\ \A x : x \in completion <=> \E i \in 1 .. 8 : x \in errs(i)
        /\ Len(accepted) >= 8
    BY <1>1, CompletionIsAboutLastEight
  <2>2. \A i \in 1 .. 8 : i - 1 \in WordIndex /\ w[i] = LastEight[i].beat.data
    BY DEF WordIndex
  <2>3. \A i \in 1 .. 8 :
          /\ \A x \in errs(i) :
               \/ x \in {"KEEP", "EARLY_TLAST", "MISSING_TLAST"}
               \/ x \in head(i)
          /\ head(i) \subseteq errs(i)
    BY <2>2, FlagsByPosition
  <2>4. \A i \in 1 .. 8 : i # 1 /\ i # 2 => head(i) = {}
    <3> SUFFICES ASSUME NEW i \in 1 .. 8, i # 1, i # 2 PROVE head(i) = {}
      OBVIOUS
    <3>1. i - 1 > 1
      OBVIOUS
    <3> QED BY <3>1, <2>2, FlagsByPosition
  <2> HIDE DEF errs, head
  <2>5. completion = {} <=> head(1) = {} /\ head(2) = {}
    <3>1. ASSUME completion = {} PROVE head(1) = {} /\ head(2) = {}
      BY <3>1, <2>1, <2>3
    <3>2. ASSUME head(1) = {}, head(2) = {} PROVE completion = {}
      <4> SUFFICES ASSUME NEW x \in completion PROVE FALSE
        OBVIOUS
      <4>1. PICK i \in 1 .. 8 : x \in errs(i)
        BY <2>1
      <4>2. x \notin {"KEEP", "EARLY_TLAST", "MISSING_TLAST"}
        BY <1>1
      <4>3. x \in head(i)
        BY <4>1, <4>2, <2>3
      <4> QED BY <4>3, <3>2, <2>4
    <3> QED BY <3>1, <3>2
  <2>6. w[1] \in Word
    <3>1. LastEight[1] \in TaggedBeat
      BY <2>1, <1>1, LastEightAt
    <3>2. w[1] = LastEight[1].beat.data
      OBVIOUS
    <3> QED BY <3>1, <3>2 DEF TaggedBeat, Beat
  <2>7. head(1) = {} <=> w[1] = <<72, 70, 84, 49>>
    <3>1. HeaderErrors(0, w[1]) = {} <=> byte_swap32(w[1]) = MAGIC
      <4>1. 0 \in WordIndex /\ w[1] = LastEight[1].beat.data
        BY DEF WordIndex
      <4> HIDE DEF w
      <4> QED BY <4>1, FlagsByPosition
    <3>2. head(1) = HeaderErrors(0, w[1])
      BY DEF head
    <3> QED BY <3>1, <3>2, <2>6, MagicIsOneWord
  <2>8. head(2) = {} <=> /\ w[2][1] = 1 /\ w[2][4] = 0
                         /\ TypeErrors(w[2][2], w[2][3]) = {}
    <3>1. HeaderErrors(1, w[2]) = {} <=> /\ w[2][1] = 1 /\ w[2][4] = 0
                                         /\ TypeErrors(w[2][2], w[2][3]) = {}
      <4>1. 1 \in WordIndex /\ w[2] = LastEight[2].beat.data
        BY DEF WordIndex
      <4> HIDE DEF w
      <4> QED BY <4>1, FlagsByPosition
    <3>2. head(2) = HeaderErrors(1, w[2])
      BY DEF head
    <3> QED BY <3>1, <3>2
  <2> HIDE DEF w
  <2>9. packet_valid <=> protocol_is_valid(w)
    BY <2>5, <2>7, <2>8, TypeErrorsNone DEF packet_valid, protocol_is_valid
  <2> QED BY <2>9 DEF w
<1>2. StreamInv /\ PacketInv => SoftwareCheckAgrees
  BY <1>1 DEF SoftwareCheckAgrees
<1> QED BY <1>2, StreamInvHolds, PacketInvHolds, PTL

-------------------------------------------------------------------------------
(* A transfer taken up where one ended.                                    *)
LEMMA StartKeepsLink ==
  ASSUME TransfersOfPackets, StreamInv, LinkInv, remaining = <<>>,
         remaining' \in Transfer, accepted' = accepted
  PROVE  LinkInv'
<1> DEFINE t == remaining'
<1>1. t \in Seq(TaggedBeat) /\ t # <<>> /\ Len(t) \in Nat
  BY StreamAssumption, LenProperties
<1>2. /\ \A i \in 1 .. Len(t) : t[i].pos = (i - 1) % 8
      /\ \A i \in 1 .. Len(t) : byte_swap32(t[i].beat.data) = MAGIC => t[i].pos = 0
      /\ t[Len(t)].beat.last
  BY DEF TransfersOfPackets
<1>3. \A k \in 1 .. Len(t) - 1 : t[k + 1].pos = (t[k].pos + 1) % 8
  <2> SUFFICES ASSUME NEW k \in 1 .. Len(t) - 1
               PROVE  t[k + 1].pos = (t[k].pos + 1) % 8
    OBVIOUS
  <2>1. k \in 1 .. Len(t) /\ k + 1 \in 1 .. Len(t) /\ k - 1 \in Nat
        /\ (k + 1) - 1 = (k - 1) + 1
    BY <1>1
  <2>2. t[k].pos = (k - 1) % 8 /\ t[k + 1].pos = ((k - 1) + 1) % 8
    BY <2>1, <1>2
  <2> QED BY <2>1, <2>2, NextOfEight
<1>4. ~(accepted # <<>> /\ ~accepted[Len(accepted)].beat.last)
  BY DEF LinkInv
<1>5. /\ \A k \in 1 .. Len(accepted) :
           byte_swap32(accepted[k].beat.data) = MAGIC => accepted[k].pos = 0
      /\ \A k \in 1 .. Len(accepted) - 1 :
           accepted[k].beat.last \/ accepted[k + 1].pos = (accepted[k].pos + 1) % 8
  BY DEF LinkInv
<1> QED BY <1>2, <1>3, <1>4, <1>5 DEF LinkInv

(* A beat handed over.                                                     *)
LEMMA FireKeepsLink ==
  ASSUME StreamInv, LinkInv, remaining # <<>>,
         accepted' = Append(accepted, Head(remaining)), remaining' = Tail(remaining)
  PROVE  LinkInv'
<1> DEFINE a == accepted
             b == remaining[1]
             n == Len(accepted)
             m == Len(remaining)
<1>1. a \in Seq(TaggedBeat) /\ remaining \in Seq(TaggedBeat) /\ n \in Nat /\ m \in Nat
  BY LenProperties DEF StreamInv
<1>2. /\ Head(remaining) = b /\ b \in TaggedBeat /\ m >= 1
      /\ Tail(remaining) \in Seq(TaggedBeat) /\ Len(Tail(remaining)) = m - 1
      /\ \A i \in 1 .. m - 1 : Tail(remaining)[i] = remaining[i + 1]
  <2>1. /\ Head(remaining) \in TaggedBeat /\ Tail(remaining) \in Seq(TaggedBeat)
        /\ Len(Tail(remaining)) = m - 1
        /\ \A i \in 1 .. m - 1 : Tail(remaining)[i] = remaining[i + 1]
    BY <1>1, HeadTailProperties
  <2>2. Head(remaining) = b
    BY <1>1
  <2>3. m >= 1
    BY <1>1, EmptySeq
  <2> QED BY <2>1, <2>2, <2>3
<1>3. /\ Len(accepted') = n + 1
      /\ \A i \in 1 .. n : accepted'[i] = a[i]
      /\ accepted'[n + 1] = b
  BY <1>1, <1>2, AppendProperties
<1>4. /\ Len(remaining') = m - 1
      /\ \A i \in 1 .. m - 1 : remaining'[i] = remaining[i + 1]
      /\ remaining' # <<>> <=> m > 1
  <2>1. Len(remaining') = m - 1 /\ \A i \in 1 .. m - 1 : remaining'[i] = remaining[i + 1]
    BY <1>2
  <2>2. remaining' # <<>> <=> Len(remaining') # 0
    BY <1>2, EmptySeq
  <2>3. m - 1 # 0 <=> m > 1
    BY <1>1, <1>2
  <2> HIDE DEF m
  <2> QED BY <2>1, <2>2, <2>3
<1>5. /\ \A k \in 1 .. n : byte_swap32(a[k].beat.data) = MAGIC => a[k].pos = 0
      /\ \A k \in 1 .. n - 1 : a[k].beat.last \/ a[k + 1].pos = (a[k].pos + 1) % 8
      /\ \A k \in 1 .. m : byte_swap32(remaining[k].beat.data) = MAGIC => remaining[k].pos = 0
      /\ \A k \in 1 .. m - 1 : remaining[k + 1].pos = (remaining[k].pos + 1) % 8
      /\ remaining[m].beat.last
      /\ n > 0 /\ ~a[n].beat.last => b.pos = (a[n].pos + 1) % 8
  <2>1. n > 0 => a # <<>>
    BY EmptySeq
  <2> QED BY <2>1 DEF LinkInv
<1>6. ASSUME NEW k \in 1 .. n + 1, byte_swap32(accepted'[k].beat.data) = MAGIC
      PROVE  accepted'[k].pos = 0
  <2>1. CASE k \in 1 .. n
    BY <2>1, <1>3, <1>5, <1>6
  <2>2. CASE k = n + 1
    <3>1. 1 \in 1 .. m
      BY <1>1, <1>2
    <3> QED BY <3>1, <2>2, <1>3, <1>5, <1>6
  <2> QED BY <2>1, <2>2, <1>1
<1>7. ASSUME NEW k \in 1 .. (n + 1) - 1
      PROVE  accepted'[k].beat.last \/ accepted'[k + 1].pos = (accepted'[k].pos + 1) % 8
  <2>1. CASE k \in 1 .. n - 1
    <3>1. k \in 1 .. n /\ k + 1 \in 1 .. n
      BY <2>1, <1>1
    <3> QED BY <2>1, <3>1, <1>3, <1>5
  <2>2. CASE k = n
    <3>1. k \in 1 .. n /\ n > 0
      BY <2>2, <1>1
    <3> QED BY <2>2, <3>1, <1>3, <1>5
  <2> QED BY <2>1, <2>2, <1>1
<1>8. ASSUME NEW k \in 1 .. m - 1, byte_swap32(remaining'[k].beat.data) = MAGIC
      PROVE  remaining'[k].pos = 0
  <2>1. k + 1 \in 1 .. m
    BY <1>1
  <2> QED BY <2>1, <1>4, <1>5, <1>8
<1>9. ASSUME NEW k \in 1 .. (m - 1) - 1
      PROVE  remaining'[k + 1].pos = (remaining'[k].pos + 1) % 8
  <2>1. k \in 1 .. m - 1 /\ k + 1 \in 1 .. m - 1
    BY <1>1
  <2> QED BY <2>1, <1>4, <1>5
<1>10. m > 1 => remaining'[m - 1].beat.last
  <2>1. m > 1 => m - 1 \in 1 .. m - 1 /\ (m - 1) + 1 = m
    BY <1>1
  <2> QED BY <2>1, <1>4, <1>5
<1>11. ASSUME ~accepted'[n + 1].beat.last
       PROVE  m > 1 /\ remaining'[1].pos = (accepted'[n + 1].pos + 1) % 8
  <2>1. m # 1
    BY <1>11, <1>3, <1>5
  <2>2. m > 1 /\ 1 \in 1 .. m - 1
    BY <2>1, <1>1, <1>2
  <2> QED BY <2>2, <1>3, <1>4, <1>5
<1> HIDE DEF a, b, m
<1> QED BY <1>3, <1>4, <1>6, <1>7, <1>8, <1>9, <1>10, <1>11 DEF LinkInv

LEMMA LinkInvHolds ==
  ASSUME TransfersOfPackets
  PROVE  Spec => []LinkInv
<1>1. Init => LinkInv BY PacketInit
<1>2. StreamInv /\ LinkInv /\ [Next]_vars => LinkInv'
  <2>1. ASSUME StreamInv, LinkInv, NEW r \in BOOLEAN, NEW pause \in BOOLEAN, Clock(r, pause)
        PROVE  LinkInv'
    <3>1. CASE axis_fire(s_axis, r)
      <4>1. /\ remaining # <<>> /\ accepted' = Append(accepted, Head(remaining))
            /\ remaining' = Tail(remaining)
        BY <2>1, <3>1, FireCounts
      <4> QED BY <2>1, <4>1, FireKeepsLink
    <3>2. CASE ~axis_fire(s_axis, r)
      <4>1. accepted' = accepted
        BY <2>1, <3>2, NoFireKeeps
      <4>2. CASE StartTransfer
        <5>1. remaining = <<>> /\ remaining' \in Transfer
          BY <4>2 DEF StartTransfer
        <5> QED BY <2>1, <4>1, <5>1, StartKeepsLink
      <4>3. CASE ~StartTransfer
        <5>1. remaining' = remaining
          BY <2>1, <3>2, <4>3 DEF Clock, SendBeats
        <5> QED BY <2>1, <4>1, <5>1 DEF LinkInv
      <4> QED BY <4>2, <4>3
    <3> QED BY <3>1, <3>2
  <2>2. ASSUME StreamInv, LinkInv, Next PROVE LinkInv'
    BY <2>1, <2>2 DEF Next
  <2>3. ASSUME LinkInv, UNCHANGED vars PROVE LinkInv'
    BY <2>3 DEF LinkInv, vars, parserVars, streamVars
  <2> QED BY <2>2, <2>3
<1> QED BY <1>1, <1>2, StreamInvHolds, PTL DEF Spec

(* However many transfers end in the middle of a packet and move the       *)
(* packet boundary: what the parser calls valid was one packet of the      *)
(* sender.  Behind the magic word, the only mark of a packet's first beat, *)
(* TLAST is the only place where a transfer ends, and on the first seven   *)
(* beats it is an error.                                                   *)
THEOREM ValidPacketsAreWholeHolds ==
  ASSUME TransfersOfPackets
  PROVE  Spec => []ValidPacketsAreWhole
<1>1. ASSUME StreamInv, PacketInv, LinkInv, packet_valid
      PROVE  \A i \in 1 .. 8 : LastEight[i].pos = i - 1
  <2> DEFINE n == Len(accepted) - 8
             p(i) == LastEight[i].pos
  <2>1. completion = {} /\ completion # None
    BY <1>1, FlagsAreNotNone DEF packet_valid
  <2>2. Len(accepted) >= 8 /\ Len(accepted) \in Nat
    BY <1>1, <2>1, CompletionIsAboutLastEight, LenProperties DEF StreamInv
  <2>3. \A i \in 1 .. 8 : current_errors(i - 1, LastEight[i].beat) = {}
    BY <1>1, <2>1, CompletionIsAboutLastEight
  <2>4. \A i \in 1 .. 8 : LastEight[i] = accepted[n + i]
    BY <1>1, <2>2, LastEightAt
  <2>5. p(1) = 0
    <3>1. HeaderErrors(0, LastEight[1].beat.data) = {}
      <4>1. 0 \in WordIndex /\ current_errors(0, LastEight[1].beat) = {}
        BY <2>3 DEF WordIndex
      <4> QED BY <4>1, FlagsByPosition
    <3>2. byte_swap32(LastEight[1].beat.data) = MAGIC
      <4>1. 0 \in WordIndex
        BY DEF WordIndex
      <4> QED BY <4>1, <3>1, FlagsByPosition
    <3>3. n + 1 \in 1 .. Len(accepted)
      BY <2>2
    <3>4. LastEight[1] = accepted[n + 1]
      BY <2>4
    <3> HIDE DEF n
    <3> QED BY <1>1, <3>2, <3>3, <3>4 DEF LinkInv
  <2>6. \A i \in 1 .. 7 : ~LastEight[i].beat.last
    <3> SUFFICES ASSUME NEW i \in 1 .. 7, LastEight[i].beat.last PROVE FALSE
      OBVIOUS
    <3>1. current_errors(i - 1, LastEight[i].beat) = {} /\ i - 1 # 7
      BY <2>3
    <3>2. "EARLY_TLAST" \in TlastErrors(i - 1, LastEight[i].beat)
      BY <3>1 DEF TlastErrors, Raise
    <3> QED BY <3>1, <3>2 DEF current_errors
  <2>7. \A i \in 1 .. 7 : p(i + 1) = (p(i) + 1) % 8
    <3> SUFFICES ASSUME NEW i \in 1 .. 7 PROVE p(i + 1) = (p(i) + 1) % 8
      OBVIOUS
    <3>1. /\ n + i \in 1 .. Len(accepted) - 1 /\ (n + i) + 1 = n + (i + 1)
          /\ i \in 1 .. 8 /\ i + 1 \in 1 .. 8
      BY <2>2
    <3>2. LastEight[i] = accepted[n + i] /\ LastEight[i + 1] = accepted[(n + i) + 1]
      <4>1. LastEight[i] = accepted[n + i] /\ LastEight[i + 1] = accepted[n + (i + 1)]
        BY <2>4, <3>1
      <4> QED BY <4>1, <3>1
    <3> QED BY <1>1, <2>6, <3>1, <3>2 DEF LinkInv
  <2> HIDE DEF p
  <2>8. p(1) = 0 /\ p(2) = 1 /\ p(3) = 2 /\ p(4) = 3
    <3>1. p(2) = (p(1) + 1) % 8 /\ p(3) = (p(2) + 1) % 8 /\ p(4) = (p(3) + 1) % 8
      BY <2>7
    <3> QED BY <3>1, <2>5
  <2>9. p(5) = 4 /\ p(6) = 5 /\ p(7) = 6 /\ p(8) = 7
    <3>1. /\ p(5) = (p(4) + 1) % 8 /\ p(6) = (p(5) + 1) % 8 /\ p(7) = (p(6) + 1) % 8
          /\ p(8) = (p(7) + 1) % 8
      BY <2>7
    <3> QED BY <3>1, <2>8
  <2>10. \A i \in 1 .. 8 : p(i) = i - 1
    <3> SUFFICES ASSUME NEW i \in 1 .. 8 PROVE p(i) = i - 1
      OBVIOUS
    <3>1. i = 1 \/ i = 2 \/ i = 3 \/ i = 4 \/ i = 5 \/ i = 6 \/ i = 7 \/ i = 8
      OBVIOUS
    <3> QED BY <3>1, <2>8, <2>9
  <2> QED BY <2>10 DEF p
<1>2. StreamInv /\ PacketInv /\ LinkInv => ValidPacketsAreWhole
  BY <1>1 DEF ValidPacketsAreWhole
<1>3. Spec => []LinkInv
  BY LinkInvHolds
<1> QED BY <1>2, <1>3, StreamInvHolds, PacketInvHolds, PTL
===============================================================================
