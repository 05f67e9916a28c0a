# Verification of the HFT1 pipeline

This directory holds TLA+ models of the PYNQ-Z2 market-data pipeline, the TLC
configurations that check them, and TLAPS proofs of their most important
properties.  Every model is translated from the source files named with it;
`PROJECT.json` gives the lines for each definition.

## The system

    laptop                     PYNQ-Z2, processing system      programmable logic
    sender script  --UDP-->  receiver script --DMA MM2S-->  packet parser --> S2MM
                                                              |  completed packets
                                                              v
           filter --> sequence tracker --> instrument book --> feature engine --> decision

| part | source | state it keeps | operations |
| --- | --- | --- | --- |
| sender | `phase4/pynq/phase4_9_live_udp_sender.py`, `phase5/pynq/phase5_decision_ila_test.py` | packet index | build and send the next packet |
| UDP | | datagrams in flight | lose, duplicate, reorder |
| receiver | `phase4/pynq/phase4_9_live_udp_dma_test.py`, batched: `pynq/phase4_9_live_udp_recvmmsg_dma.py` with `pynq/receive_udp_dma.c` | datagrams of the last call, pending batch, counters, seen numbers | receive, validate, count, batch, transfer, time out, Ctrl-C, verdict |
| stream senders | `host/send_market_stream*.py` | the schedule, quotes sent, lateness | check arguments, START, sleep, spin, send, count, interrupt, END markers |
| kernel | | the receiver's socket buffer, RcvbufErrors | queue or drop |
| stream receivers | `pynq/receive_market_stream*` | the test in progress, its counters and seen numbers | START, quote, duplicate, invalid, END, inactivity, Ctrl-C |
| passthrough | `phase3/rtl/axis_passthrough.sv` | one-beat register | forward a beat |
| parser | `phase5/rtl/hft_packet_parser.sv` | one-beat register, word index, errors of the packet, decoded fields | forward a beat, decode it, complete every eighth |
| filter | `phase5/rtl/hft_packet_filter.sv` | `stream_active` | START, END, quote, unknown instrument |
| tracker | `phase5/rtl/hft_sequence_tracker.sv` | last and expected number, counters | first, in-order, duplicate, gap, out-of-order |
| book | `phase5/rtl/hft_instrument_book.sv` | bid and ask per instrument, initialised flags | replace one side, publish a snapshot |
| feature engine | `phase5/rtl/hft_feature_engine.sv` | two rings and running sums per instrument, warm-up state | sample, roll, calculate |
| decision | `phase5/rtl/weighted_decsion.sv` | three pipeline stages | weigh, score, compare |

The stages of the engine communicate by registered ports: a register group and a
valid bit, read by the next stage one clock later.  The filter's START and END
pulses are broadcast to tracker, book and feature engine in the same clock, while
quotes need one clock per stage; the decision stage has no stream input at all.
What is hard is therefore: pulses that overtake quotes; buffers that are never
cleared; nonblocking assignments that read old values; a parser whose packet
position survives a transfer; back-pressure at any clock; loss, duplication and
reordering of datagrams; numbers that wrap; batches that fail or close in the middle
of what one receive call returned; senders that interrupt each other's tests; senders
that are woken late and catch up in bursts a socket buffer may not hold; Ctrl-C between
a step and its bookkeeping.
Sender, UDP and receiver run independently; the receiver itself is one thread, which
only Ctrl-C interrupts.  `PROJECT.json` lists each such hazard
at its line with the properties that cover it.

## Modules

TLA+ state is shared by EXTENDS: the stages declare their own variables with their
own `...Init` and `...Tick`, and `EngineWrapper` conjoins the ticks, because all
registers of the design switch on the same clock edge.  A register group with a
valid bit is one variable, `None` when the bit is low.

| module | models | checked through |
| --- | --- | --- |
| `Hft1`, `EngineParameters` | message types, quotes, parameters and their assumptions | all |
| `PacketFilter` | the filter | `EngineScoreboard` |
| `SequenceTracker` | the tracker | `QuoteFeed`, `EngineScoreboard` |
| `QuoteFeed` | a numbered stream over UDP into the tracker | `MCQuoteFeed` |
| `InstrumentBook` | the book | `EngineScoreboard` |
| `LatestQuotes` | abstract: a table of the newest levels and a view of them | refined by the book of `EngineScoreboard` |
| `FeatureEngine` | the feature engine | `FeatureRefinement`, `EngineScoreboard` |
| `MovingAverages` | abstract: windows of midpoints as sequences | refined in `FeatureRefinement` |
| `WeightedDecision` | the decision stages | `EngineScoreboard`, `SenderSession` |
| `EngineWrapper` | the five stages on one clock | `EngineScoreboard`, `SenderSession` |
| `AtomicEngine` | abstract: each packet handled completely at once | run beside the engine |
| `EngineScoreboard` | engine and reference, packets at least SPACING clocks apart | `MCEngineScoreboard` |
| `AxisPassthrough` | the passthrough of Phase 3, which is also what the parser is to the stream | refined by `ParserStream` |
| `PacketParser` | the parser | `ParserStream` |
| `ParserStream` | the parser between MM2S and S2MM | `MCParserStream` |
| `SenderSession` | the engine under the packets of the shipped senders | `MCSenderSession` |
| `LiveReceiver` | the two live receivers, `variant` telling them apart | itself |
| `PacedSender` | the five paced senders in time, `version` telling them apart | itself |
| `StreamBench` | a paced sender, the socket buffer and a stream receiver in time | itself |
| `StreamReceiver` | the Phase 2 senders, UDP and receivers, `version` telling the receivers apart | `MCStreamReceiver` |

Correspondence: one step of a `...Tick` is one rising edge.  Reset is the initial
state.  In `PacketParser` a beat is four bytes, byte enables and TLAST; the decoded
outputs are the captured words.  Timestamps ride along with every quote, are read by
no one in the engine, and are left out there; `PacedSender` has them.  Widths of the
arithmetic: the sequence numbers and the tracker's counters are taken modulo
`NumSeqNos` (2^32 on the board); sums, trend and scores are integers, because 36, 38,
34 and 64 bits hold their exact values.

The programs are modelled by the line where something can happen in between: in
`LiveReceiver` a datagram is counted in one step and appended in another, and a
transfer, its tally and the clearing of the batch are three, because Ctrl-C falls
between them; in `PacedSender` and in `StreamReceiver` the send and the line that counts
it are two for the same reason.  In `PacedSender` time is an integer that moves in
`Elapse`, while the program sleeps, spins or is held up; sleeping is late by at most
`OVERSLEEP`, and the program may be held up by `STALL` at the end of every spin, between
the reading of the clock and the send, and between the send and its count;
`perf_counter_ns` and `time_ns` are the same clock (the wall clock is not set during a
test).  A send may fail, of a quote (`SendFails`) and of a START or END (`ControlFails`).
`StreamBench` adds the direct Ethernet link, which loses and reorders nothing, and the
socket buffer, which does lose; there "optimized" stands for both optimized versions,
whose traffic is the same.  Its receiver has a step where a call returns (`Receive`,
`TimeOut`) and one where the clock is read and the result handled (`HandleStart`,
`HandleQuote`, `HandleEnd`, `HandleTimeout`); any time may pass between the two.

## Runs

| run | question | bounds | 
| --- | --- | --- |
| `quote_feed` | does the tracker keep order and account for every arrival? | 8 numbers, 5 quotes, 7 arrivals: gaps, duplicates, late quotes, two streams; `missing_count` stays below the modulus as it does on the board |
| `quote_feed_wrap` | what happens at number 2^32 - 1? | 4 numbers, the stream crosses the end; a late quote is forwarded (finding) |
| `feature_refinement` | do rings and running sums implement the moving averages? | windows of 2 and 4, power-up contents of 0 or 7, any updates, START and END at any clock |
| `engine` | do the decisions of the pipeline match those of a reference without one? | 2 instruments and an unknown one, 2 prices, distance 8, 6 packets: a full window, a START or END after it, gaps, late quotes and quotes the filter drops; BUY, SELL and HOLD all come out, books are crossed, locked and open |
| `parser_stream` | is every beat forwarded, every eighth a packet, and does back-pressure drain? | two transfers of ten kinds of packets, truncated after 3 and 7 beats, a batch of two, two framing faults, any stalls |
| `decision_ila` | does the ILA script see the decisions it announces? | shipped windows 8 and 32 and weights, all 38 packets |
| `live_sender` | does the live sender's traffic lead to a decision? | 200 packets (finding: it does not) |
| `live_receiver` | does batching keep the order, do the counters add up, and what does PASS mean? | both variants, 3 packets, batches of 2, calls of 1 or 2 datagrams, 5 arrivals: a full and a partial batch, one that fills in the middle of a call, every packet lost, repeated or late, Ctrl-C anywhere |
| `stream_receiver` | what do the counts of a summary say, and does every test end? | both versions of the receiver; streams of 3 and 1, Ctrl-C anywhere in the sender; 6 arrivals of anything sent so far or foreign: a whole test of 5 and one datagram to spoil it, or two short tests |
| `stream_unrelated` | can foreign traffic spoil a test? | the later receivers (finding: one datagram can) |
| `paced_sender` | do quotes leave on schedule, and are the statistics, the timestamps and the END what they say? | a second of 12 units; 1, 5 and 13 packets per second, a period of whole units, a broken one, one below the unit; 1 to 5 quotes (12 in the live sender), wake-ups 3 units late and hold-ups of 1, arguments refused and STARTs that do not fit their fields |
| `stream_bench` | does the kernel counter explain the losses, is the rate check fair, who is given up? | a second of 4 units, 2 to 4 packets per second and as many quotes, more than one receiver takes; a buffer of 2 datagrams, 2 END markers, a receiver that is late at will, before a call and between its return and the reading of the clock; the sender is late by its waking only, the proofs have its hold-ups too |

`LATENCY` is 8 because a packet passes filter, tracker, book, two feature stages and
three decision stages.  With distance 7 the run `engine` violates
`NoDecisionAfterEnd`: the eight beats of a packet are exactly enough.  At distance 4
`PulsesFlushNothing` still holds, at 3 a pulse meets a quote.

Small bounds are enough where one more of a thing meets no new case: a batch is
empty, partial or full at any datagram; a buffer is overrun by two quotes as by a
thousand; a schedule that is a broken number of units shows every way its
divisions can round within five quotes.  Where they are not enough there is a proof.

`StreamReceiver` and `StreamBench` run the first version of the receiver, which has the
inactivity timeout, and a later one, which has none and repairs the count of an END.
`stream_unrelated` takes a later one, whose file the quoted sentence is about.

Three properties say less than one would wish, because the code does.  Ctrl-C between a
send and its count makes the END announce one quote less than was sent: `SentWithinOne`
allows that one, and `MissingAccounted` says what it does to the missing packets (quotes 1
and 3 of three arrive, the END says 2: nothing is missing).  `GivenUpWhenOver` looks at
the moment the receive call timed out, since the clock the code judges by is read later:
a receiver held up in between gives up a sender that runs.

Fairness: `ParserStream!FairSpec` lets the clock on which S2MM is ready and MM2S
does not pause happen again and again; software arms S2MM with the whole length
before it starts MM2S, so neither channel stalls for ever.  `SenderSession!Spec`
lets the clock run and the sender walk through its loop.  `LiveReceiver!FairSpec`: a
socket that stays silent times out, and the program runs on, each DMA transfer
returning or raising an error; receiving is not fair, since UDP promises nothing.
`StreamReceiver!FairSpec`: the receiver looks at its clock after every half-second
timeout of the socket; the bound on arrivals is what makes the network fall silent.
`PacedSender!FairSpec`: the program is scheduled again and the clock goes on, one
condition for both, since no step need come before time has passed.
`StreamBench!BenchFairSpec`: the same for the sender, and the receiver takes what waits
in its buffer or times out; both are runnable processes of a fair scheduler.

## Proofs

Every invariant and every action property that a passing run checks is also a theorem,
for every value of the constants; only liveness is left to TLC.  The eight modules whose
names end in `Proofs` hold the theorems; they assume only what `Hft1Assumption`,
`ParameterAssumption`, `RecordAssumption`, `FeedAssumption`, `ScoreboardAssumption`,
`ParserAssumption`, `StreamAssumption`, `StreamTestAssumption`, `ReceiverAssumption`,
`SenderAssumption`, `BenchAssumption` and `PatienceAssumption` say of the constants, and
what each theorem names.  TLC evaluates these assumptions in the runs, and has checked
the inductive invariants below on the instances of the runs before they were proved.

- Tracker: `FeedInv` couples the registers to the history: with a baseline,
  `last_seq` is the number of the last accepted position and `missing_count` the
  number of positions skipped.  Order alone is not inductive, since the tracker
  judges a quote by its number and not by its position.  `NoWrap` keeps the
  stream below number 2^32 - 1; `quote_feed_wrap` shows that it is needed for order.
  It is not needed for the types and for `EveryArrivalCounted`, whose invariant says only
  what each counter has counted.
- Book: `BookTypeOK` says that what is not initialised is zero, which makes the
  map from memories to the table of `LatestQuotes` step-wise correct.
- Feature engine: `WarmupInv` adds the types to the relation between state,
  counter and pointers.  `SumsInv` says what the rings hold: the midpoints of the window at
  the places behind the pointer, and in the running sums their sum.  Subtracting the
  midpoint that is overwritten keeps the sum because the ring's oldest place is the one
  under the pointer; that a sum loses its first term and gains a last one is proved by
  a least counterexample, since the induction theorems of the library cannot be used.
  With it every step of the engine is one of `MovingAverages`.
- Engine: `EarlyInv` ties what may be in flight in the first four stages to the
  `age` of the last packet, `LateInv` does so for the decision stages.  The comparison with
  the reference has its invariant in parts, one per stage: `CoreInv` (the stream state, the
  numbers taken, books and windows, each as it will be when the packet in flight has
  passed), `GapsInv` (the missing numbers as a set), `RecordsInv` (what the registers between
  two stages hold at each age) and `DecisionsInv` (the queue of expected decisions).  All need
  SPACING >= 4: two packets in the early stages at once are not in the
  invariant.  With distance 3 TLC finds `DecisionsMatchReference` and `PulsesFlushNothing`
  violated; the other two claims still hold there on the instance of the run.
  `StagesRunAlone` projects a behaviour of the engine to one of each stage, which carries
  the refinements of book and feature engine over, at any distance.
- Parser: `StreamInv` ties `word_index` and `quiet` to the length of the accepted
  history; `CompletionsSpaced` is the premise SPACING = 8 of the engine.  With the beats
  it has taken and delivered mapped to those of `AxisPassthrough`, every clock of the
  parser is a clock of the passthrough.  `PacketInv` says that captured words and errors
  are those of the beats since the last boundary; `LinkInv` says how the positions of
  consecutive beats follow each other.  `ValidPacketsAreWhole` needs its hypothesis
  `TransfersOfPackets`: a payload word that looks like a header defeats it, on the board too.
- Live receivers: `ReceiverInv` has the types, `FlowInv` (which list a batch is in at
  which step), the order of batches, `NumberInv` (the counters of sequence numbers with
  the set of numbers seen, since the sum alone does not tell a duplicate from a late
  packet) and `ConsecutiveInv` (as long as all counters of faults are 0, the packets
  given to the parser are consecutive).  PASS demands those zeros, which gives the
  stream.  `IndexInv` does the same for the index of mismatch examples, `RepeatInv` for
  the batch that the handler of Ctrl-C sends again.
- Paced senders: `SenderInv` has the types, what may be in use at which step
  (`CallInv`), the bounds of the clock (`PaceInv`), the missed periods, the counts
  (`CountInv`, `MarkerInv`) and the order of timestamps (`StampInv`).  The lemmas on
  division at the beginning carry the rounding: consecutive deadlines are at least the
  rounded period apart and at most one more, and a lateness of a whole period reaches
  the next one.
- Bench: `FreshInv` has two datagrams in a row differ, so that the kernel takes each;
  `OrderInv` keeps the START at the head of the buffer and the END markers behind the
  quotes, and `KernelInv` is the balance of a test: handled, waiting and dropped are
  together what was sent.  When the first END comes up there are only markers left, which
  explains the missing quotes.  `FirstInv` has the first quote later than the start of the
  schedule, which is why the rate check is fair.  `SilenceInv` has what the receiver
  has not answered for in front of it, and `GapInv` bounds the sender's silence at each of
  its steps: by `PatienceAssumption` that is less than the inactivity timeout.  These speak
  of `pending`, the datagram a call has returned with and the buffer behind it.
  `TimedOutInv` keeps what held when a call timed out until that is handled.
- Stream receiver: `OrderInv` says that valid and duplicate packets together are as
  many as were heard, and that without duplicates and late packets those heard rise;
  as many rising numbers as the stream has are the stream.  The types come first,
  because the sum alone does not keep the numbers within the announced ones.  `CountInv`
  says which sets the counters are the cardinalities of, and `EndInv` that no more is sent
  behind an END and that the counted quotes are those sent or one less, in every version.

Only model-checked is liveness, which is out of the prover's reach: `TransfersComplete`,
`VerdictReached`, `TestsEnd`, `SenderExits`, `StreamReported` and `IlaDecisionsExact`, the
course of one fixed session.  The runs leave out most type invariants, because the
theorems have them for all constants.

## Disagreements

Three runs end in a violation, each of a sentence of the documentation or of a comment
(`PROJECT.json`, "findings").  Others were met without a run of their own:

- `docs/phase5_weighted_decision.md:828` has an erroneous packet raise `packet_valid`
  and `packet_error` together; the parser raises exactly one (lines 226-227).
- `docs/phase2_udp_communication.md:934` has the END supply the sent count.  After Ctrl-C
  between a send and its count it is one short (`send_market_stream.py:184-191`,
  `send_market_stream_optimized2.py:210-213`), and the quote not counted may then hide a
  lost one.  The later stream receivers replace the 0 of a sender interrupted before it
  counted a quote by the planned number (`receive_market_stream_optimized2.c:275`).
- `receive_market_stream.py` reads the clock of its inactivity timeout behind the
  `except` (line 219): held up there, it gives up a slow sender whose next quote waits in
  the buffer already.
- `phase4_9_live_udp_dma_test.py:397` says of the flush behind the loop "Preserve and
  verify a partial batch if the sender stopped early."  The loop also ends when a batch
  fails (line 395), with that batch pending, and line 398 sends it again.  The recvmmsg
  variant has the same comment (line 494) and guards the call (line 495).
- Ctrl-C in a transfer has the handler send the batch again
  (`phase4_9_live_udp_recvmmsg_dma.py:500`), and the run may still be judged PASS:
  `InterruptedPassRepeatsLastBatch` says how much then went through twice.
- Senders accept arguments whose START the receivers ignore: a duration that rounds to
  0 ms, and in the first two versions more than ten million packets.  The sender then
  streams to a receiver that reports nothing.  `send_market_stream_optimized2.py` does
  not check `duration_ms` against its 32-bit field, and ends with `struct.error`.
- `docs/phase2_udp_communication.md:1282` takes the equality of missing packets and
  RcvbufErrors for the rule: `KernelExplainsMissing` gives its limits, drops before the
  START is handled and drops of END markers.
- "Missed pacing periods" is a lower bound in `send_market_stream_optimized.py` and an
  upper bound in `send_market_stream_optimized2.py` of the quotes that were not ready
  before the next was due (`MissedPeriodsBracketed`).
- With the START lost the live receiver has no planned count, and its check of that
  count passes (line 424): `PassMeansStreamArrived` says what PASS then means.
- As committed, `phase4_9_live_udp_dma_test.py` has an unterminated docstring
  and does not run, `send_market_stream_optimized2.py` has a stray `s` on line 14 and
  does not start, and line 49 of `receive_market_stream_optimized2.c` has a comment
  with one slash and does not compile.  The models take the evident intent.

## Not modelled

The DMA test scripts, the single-packet scripts and the test benches (reasons in
`PROJECT.json`); the Vivado files are generated.  Of the receivers: CPU and socket
statistics, the periodic progress lines, and the batching statistics of recvmmsg.  Of
the senders: the average and maximum lateness.  Ctrl-C is possible between two steps
and at any point of a transfer; the counting of one datagram is not split further.
Setting the wall clock during a test, and an END whose count a foreign program forged,
are not modelled.

## Plan

What could be added next:

1. Parser and engine in one composition, with the distance of packets as a step of the
   parser and not as the premise of the engine it is now.
2. The batched transfers of the DMA test scripts, as a client of `ParserStream`.
