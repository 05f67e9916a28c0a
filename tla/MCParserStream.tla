----------------------------- MODULE MCParserStream -----------------------------
(***************************************************************************)
(* Transfers for model-checking ParserStream: whole packets with every     *)
(* kind of header, and a good packet with one fault of framing.            *)
(***************************************************************************)
EXTENDS ParserStream

Good == <<72, 70, 84, 49>>
Quote == <<1, 1, 1, 0>>
Data == <<0, 0, 1, 1>>

Headers == {<<Good, h>> : h \in {<<1, 1, 0, 0>>, Quote, <<1, 1, 2, 0>>,
                                 <<1, 4, 0, 0>>, <<1, 4, 1, 0>>, <<1, 5, 0, 0>>,
                                 <<1, 3, 0, 0>>, <<2, 1, 0, 0>>, <<1, 1, 0, 7>>}}
           \cup {<<Data, Quote>>}

MCWord == {h[1] : h \in Headers} \cup {h[2] : h \in Headers} \cup {Data, <<0, 0, 0, 0>>}

(* The beats of a packet whose last one carries TLAST if last.             *)
PacketBeats(header, last) ==
  [i \in 1 .. 8 |-> [pos |-> i - 1,
                     beat |-> [data |-> IF i <= 2 THEN header[i] ELSE Data,
                               keep |-> KEEP_ALL, last |-> last /\ i = 8]]]

Whole == {PacketBeats(h, TRUE) : h \in Headers}
GoodPacket(last) == PacketBeats(<<Good, Quote>>, last)

(* Cut after n beats, where the DMA sets TLAST.                            *)
Truncated(n) == [SubSeq(GoodPacket(TRUE), 1, n) EXCEPT ![n].beat.last = TRUE]
Broken == {[GoodPacket(TRUE) EXCEPT ![3].beat.keep = 7],
           [GoodPacket(TRUE) EXCEPT ![5].beat.last = TRUE]}
Batch == GoodPacket(FALSE) \o GoodPacket(TRUE)

MCTransfer == Whole \cup {Truncated(3), Truncated(7), Batch} \cup Broken

(* The transfers above are cut from packets, as ParserStreamProofs assumes *)
(* for ValidPacketsAreWhole.                                               *)
ASSUME MCTransfersOfPackets == TransfersOfPackets
===============================================================================
