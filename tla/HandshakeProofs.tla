--------------------------- MODULE HandshakeProofs ---------------------------
(***************************************************************************)
(* The filter with ready and valid lines, for any number of samples, any   *)
(* values and any width of sc_int.                                         *)
(*                                                                         *)
(* Neither ready line is ever lowered, so after the first sample nobody    *)
(* waits for anybody: that nothing is lost rests on the three threads      *)
(* falling into step.  The invariant lists the phases they go through, in  *)
(* which the lines and the loop indices are those of one count of samples. *)
(***************************************************************************)
EXTENDS Handshake, Remainders, TLAPS

-----------------------------------------------------------------------------
\* The records of the threads.
SourceType == [at : {"reset", "release", "send", "await"}, i : 0 .. Samples,
               reset : BOOLEAN, in : sc_int, in_valid : BOOLEAN]
FirType == [at : {"start", "idle", "answer"}, taps : [Tap -> sc_int], in_ready : BOOLEAN,
            out : sc_int, out_valid : BOOLEAN, taken : 0 .. Samples]
SinkType == [at : {"look", "ended"}, i : 0 .. Samples, out_ready : BOOLEAN, read : 0 .. Samples]
USE DEF SourceType, FirType, SinkType

Typed ==
    /\ stim \in [0 .. Samples - 1 -> sc_int] /\ stopped \in BOOLEAN
    /\ source \in SourceType
    /\ fir \in FirType
    /\ sink \in SinkType

\* A sample on the line is the one of the loop index; the source waits with one.
OnTheLine == /\ source.in_valid => source.i < Samples /\ source.in = stim[source.i]
             /\ source.at = "await" => source.in_valid

\* The reset, and the first sample on the line: nothing taken, nothing read.
Beginning ==
    /\ \/ source.at = "reset" /\ fir.at = "start" /\ ~source.reset /\ ~source.in_valid
       \/ source.at = "release" /\ fir.at = "idle" /\ source.reset /\ ~source.in_valid
       \/ source.at = "send" /\ fir.at = "idle" /\ ~source.reset /\ ~source.in_valid
       \/ source.at = "await" /\ fir.at = "idle" /\ ~source.reset /\ source.in_valid
    /\ source.i = 0
    /\ ~fir.in_ready /\ ~fir.out_valid /\ fir.taken = 0
    /\ sink.i = 0 /\ ~sink.out_ready /\ sink.read = 0

\* The first sample is taken; the source has not seen in_ready, the sink nothing.
FirstTaken ==
    /\ source.at = "await" /\ ~source.reset /\ source.i = 0
    /\ fir.at = "answer" /\ fir.in_ready /\ fir.out_valid /\ fir.taken = 1
    /\ sink.i = 0 /\ ~sink.out_ready /\ sink.read = 0

\* The first output is read; the filter has not seen out_ready, and keeps it valid.
FirstRead ==
    /\ source.at = "send" /\ ~source.reset /\ source.i = 1 /\ ~source.in_valid
    /\ fir.at = "answer" /\ fir.in_ready /\ fir.out_valid /\ fir.taken = 1
    /\ sink.i = 1 /\ sink.out_ready /\ sink.read = 1

\* From here on the sink has looked once more than it has had outputs.
\* A sample is on the line and every output is read.
Offered ==
    /\ source.at = "await" /\ ~source.reset /\ source.i = fir.taken /\ source.in_valid
    /\ fir.at = "idle" /\ fir.in_ready /\ ~fir.out_valid /\ fir.taken \in 1 .. Samples - 1
    /\ sink.i = fir.taken + 1 /\ sink.out_ready /\ sink.read = fir.taken

\* The line is free and an output is to be read.
Answered ==
    /\ source.at = "send" /\ ~source.reset /\ source.i = fir.taken /\ ~source.in_valid
    /\ fir.at = "answer" /\ fir.in_ready /\ fir.out_valid /\ fir.taken \in 2 .. Samples - 1
    /\ sink.i = fir.taken /\ sink.out_ready /\ sink.read = fir.taken - 1

\* The sink has looked as often as there are samples, and all of them are taken.
Over == /\ fir.taken = Samples /\ sink.i = Samples
        /\ sink.read = IF Samples = 1 THEN 1 ELSE Samples - 1

InPhase == \/ stopped /\ Over
           \/ /\ ~stopped /\ sink.at = "look"
              /\ Beginning \/ FirstTaken \/ FirstRead \/ Offered \/ Answered

\* The inductive invariant.
IInv == Typed /\ OnTheLine /\ SamplesTakenOnce /\ Convolved /\ InPhase

-----------------------------------------------------------------------------
(***************************************************************************)
(* Lemmas: the sizes, and what an sc_int keeps.                            *)
(***************************************************************************)

\* The assumptions on the constants, one by one.
LEMMA Sizes ==
    /\ Samples \in Nat /\ Samples >= 1 /\ Limit \in Nat /\ Limit >= 1 /\ 2 * Limit \in Nat \ {0}
    /\ Values \subseteq sc_int /\ sc_int \subseteq Int /\ 0 \in sc_int
BY SizesAssumption DEF sc_int

\* Whatever the sum, what is kept of it has the width.
LEMMA WrapInRange ==
    ASSUME NEW x \in Int
    PROVE  Wrap(x) \in sc_int
<1>. DEFINE d == 2 * Limit
            r == (x + Limit) % d
<1>1. d \in Nat \ {0} /\ x + Limit \in Int
  BY Sizes
<1>. HIDE DEF d
<1>2. r \in 0 .. (d - 1)
  BY <1>1
<1>. HIDE DEF r
<1>3. r - Limit \in -Limit .. Limit - 1
  BY <1>2, Sizes DEF d
<1>. QED  BY <1>3 DEF Wrap, sc_int, r, d

\* The output is the sum of the taps, each with its coefficient.
LEMMA FilteredIs ==
    ASSUME NEW taps \in [Tap -> sc_int]
    PROVE  /\ Filtered(taps) = Wrap(1 * taps[0] + 5 * taps[1] + 10 * taps[2]
                                      + 5 * taps[3] + 1 * taps[4])
           /\ Filtered(taps) \in sc_int
<1>1. coef[0] = 1 /\ coef[1] = 5 /\ coef[2] = 10 /\ coef[3] = 5 /\ coef[4] = 1
  BY DEF coef, Tap
<1>2. /\ taps[0] \in Int /\ taps[1] \in Int /\ taps[2] \in Int /\ taps[3] \in Int
      /\ taps[4] \in Int
  <2>1. 0 \in Tap /\ 1 \in Tap /\ 2 \in Tap /\ 3 \in Tap /\ 4 \in Tap
    BY DEF Tap
  <2>2. \A t \in Tap : taps[t] \in Int
    BY Sizes
  <2>. QED  BY <2>1, <2>2
<1>3. 1 * taps[0] + 5 * taps[1] + 10 * taps[2] + 5 * taps[3] + 1 * taps[4] \in Int
  BY <1>2
<1>4. Filtered(taps) = Wrap(1 * taps[0] + 5 * taps[1] + 10 * taps[2]
                              + 5 * taps[3] + 1 * taps[4])
  BY <1>1 DEF Filtered
<1>. QED  BY <1>3, <1>4, WrapInRange

\* The taps shift by one when the sample on the line is the next one.
LEMMA TakenInOrder ==
    ASSUME IInv, source.in_valid, source.i = fir.taken, fir' = Take(fir), stim' = stim
    PROVE  /\ fir'.at = "answer" /\ fir'.taken = fir.taken + 1
           /\ fir'.in_ready /\ fir'.out_valid
           /\ fir' \in FirType
           /\ SamplesTakenOnce' /\ Convolved'
<1>. DEFINE taps == [t \in Tap |-> IF t = 0 THEN source.in ELSE fir.taps[t - 1]]
<1>1. fir' = [fir EXCEPT !.at = "answer", !.taps = taps, !.in_ready = TRUE,
                         !.out = Filtered(taps), !.out_valid = TRUE, !.taken = fir.taken + 1]
  BY DEF Take
<1>2. /\ fir.taken \in Nat /\ fir.taken < Samples /\ source.in = stim[fir.taken]
      /\ source.in \in sc_int /\ fir.taps \in [Tap -> sc_int]
      /\ \A t \in Tap : fir.taps[t] = Sample(fir.taken - 1 - t)
  BY Sizes DEF IInv, Typed, OnTheLine, SamplesTakenOnce
<1>3. taps \in [Tap -> sc_int]
  BY <1>2 DEF Tap
<1>4. \A t \in Tap : taps[t] = Sample((fir.taken + 1) - 1 - t)
  <2>1. ASSUME NEW t \in Tap PROVE taps[t] = Sample((fir.taken + 1) - 1 - t)
    <3>1. CASE t = 0
      <4>1. (fir.taken + 1) - 1 - t = fir.taken /\ ~(fir.taken < 0)
        BY <1>2, <3>1
      <4>. QED  BY <1>2, <3>1, <4>1 DEF Sample
    <3>2. CASE t # 0
      <4>1. t - 1 \in Tap /\ fir.taken - 1 - (t - 1) = (fir.taken + 1) - 1 - t
        BY <1>2, <3>2 DEF Tap
      <4>2. fir.taps[t - 1] = Sample(fir.taken - 1 - (t - 1))
        BY <1>2, <4>1
      <4>. QED  BY <3>2, <4>1, <4>2
    <3>. QED  BY <3>1, <3>2
  <2>. QED  BY <2>1
<1>. HIDE DEF taps
<1>5. Filtered(taps) \in sc_int
  BY <1>3, FilteredIs
<1>6. fir.taken + 1 \in 0 .. Samples
  BY <1>2, Sizes
<1>7. fir' \in FirType
  BY <1>1, <1>3, <1>5, <1>6 DEF IInv, Typed
<1>8. /\ fir'.at = "answer" /\ fir'.taps = taps /\ fir'.out = Filtered(taps)
      /\ fir'.taken = fir.taken + 1 /\ fir'.in_ready /\ fir'.out_valid
  BY <1>1 DEF IInv, Typed
<1>9. SamplesTakenOnce'
  BY <1>4, <1>6, <1>8, Sizes DEF SamplesTakenOnce, Sample
<1>10. Convolved'
  <2>1. /\ taps[0] = Sample(fir'.taken - 1) /\ taps[1] = Sample(fir'.taken - 2)
        /\ taps[2] = Sample(fir'.taken - 3) /\ taps[3] = Sample(fir'.taken - 4)
        /\ taps[4] = Sample(fir'.taken - 5)
    BY <1>2, <1>4, <1>8 DEF Tap
  <2>2. fir'.out = Wrap(1 * Sample(fir'.taken - 1) + 5 * Sample(fir'.taken - 2)
                          + 10 * Sample(fir'.taken - 3) + 5 * Sample(fir'.taken - 4)
                          + 1 * Sample(fir'.taken - 5))
    BY <1>3, <1>8, <2>1, FilteredIs
  <2>3. \A k : Sample(k)' = Sample(k)
    BY DEF Sample
  <2>. QED  BY <2>2 DEF Convolved, Sample, Wrap
<1>. QED  BY <1>7, <1>8, <1>9, <1>10

\* When it takes nothing, what it has taken is as it was.
LEMMA NothingTaken ==
    ASSUME IInv, fir'.taps = fir.taps, fir'.taken = fir.taken, fir'.out = fir.out,
           fir'.out_valid => fir.out_valid, stim' = stim
    PROVE  SamplesTakenOnce' /\ Convolved'
BY DEF IInv, SamplesTakenOnce, Convolved, Sample, Wrap

-----------------------------------------------------------------------------
(***************************************************************************)
(* One lemma per phase: what an edge of the clock makes of it.             *)
(***************************************************************************)

LEMMA InitInv == Init => IInv
<1>. SUFFICES ASSUME Init PROVE IInv
  OBVIOUS
<1>1. Typed
  <2>1. /\ stim \in [0 .. Samples - 1 -> Values] /\ stopped = FALSE
        /\ source = [at |-> "reset", i |-> 0, reset |-> FALSE, in |-> 0, in_valid |-> FALSE]
        /\ fir = [at |-> "start", taps |-> [t \in Tap |-> 0], in_ready |-> FALSE,
                  out |-> 0, out_valid |-> FALSE, taken |-> 0]
        /\ sink = [at |-> "look", i |-> 0, out_ready |-> FALSE, read |-> 0]
    BY DEF Init
  <2>2. 0 \in 0 .. Samples /\ 0 \in sc_int
    BY Sizes
  <2>4. stim \in [0 .. Samples - 1 -> sc_int]
    <3>1. Values \subseteq sc_int
      BY Sizes
    <3>. QED  BY <2>1, <3>1
  <2>3. fir \in FirType
    <3>1. [t \in Tap |-> 0] \in [Tap -> sc_int]
      BY <2>2
    <3>. QED  BY <2>1, <2>2, <3>1
  <2>. QED  BY <2>1, <2>2, <2>3, <2>4 DEF Typed
<1>2. SamplesTakenOnce
  BY Sizes DEF Init, SamplesTakenOnce, Sample, Tap
<1>3. OnTheLine /\ Convolved
  BY DEF Init, OnTheLine, Convolved
<1>4. InPhase
  BY DEF Init, InPhase, Beginning
<1>. QED  BY <1>1, <1>2, <1>3, <1>4 DEF IInv

\* What the source's thread does between two edges.
LEMMA SourceStep ==
    ASSUME IInv, Source, stim' = stim
    PROVE  /\ source' \in SourceType
           /\ OnTheLine'
<1>1. /\ source \in SourceType
      /\ OnTheLine /\ stim \in [0 .. Samples - 1 -> sc_int]
  BY DEF IInv, Typed
<1>2. CASE SourceResets
  BY <1>1, <1>2 DEF SourceResets, OnTheLine
<1>3. CASE SourceSends
  <2>1. CASE source.i < Samples
    <3>1. source' = [source EXCEPT !.at = "await", !.in = stim[source.i], !.in_valid = TRUE]
      BY <1>3, <2>1 DEF SourceSends
    <3>2. source.i \in 0 .. Samples - 1 /\ stim[source.i] \in sc_int
      BY <1>1, <2>1, Sizes
    <3>. QED  BY <1>1, <2>1, <3>1, <3>2 DEF OnTheLine
  <2>2. CASE ~(source.i < Samples)
    BY <1>1, <1>3, <2>2 DEF SourceSends, OnTheLine
  <2>. QED  BY <2>1, <2>2
<1>4. CASE SourceAwaits
  <2>1. CASE fir.in_ready
    <3>1. source' = [source EXCEPT !.at = "send", !.i = source.i + 1, !.in_valid = FALSE]
      BY <1>4, <2>1 DEF SourceAwaits
    <3>2. source.i + 1 \in 0 .. Samples
      <4>1. source.i < Samples
        BY <1>1, <1>4 DEF SourceAwaits, OnTheLine
      <4>. QED  BY <1>1, <4>1, Sizes
    <3>. QED  BY <1>1, <3>1, <3>2 DEF OnTheLine
  <2>2. CASE ~fir.in_ready
    BY <1>1, <1>4, <2>2 DEF SourceAwaits, OnTheLine
  <2>. QED  BY <2>1, <2>2
<1>. QED  BY <1>2, <1>3, <1>4 DEF Source

\* An edge that leaves the samples alone; the sink either goes on or stops.
LEMMA EdgeParts ==
    ASSUME IInv, Next
    PROVE  /\ ~stopped /\ sink.at = "look" /\ stim' = stim /\ Source /\ Fir /\ Sink
           /\ stopped' = (sink'.at = "ended")
           /\ sink' \in SinkType
           /\ stopped' \in BOOLEAN
<1>1. /\ ~stopped /\ stim' = stim /\ Source /\ Fir /\ Sink /\ stopped' = (sink'.at = "ended")
  BY DEF Next
<1>2. sink.at = "look"
  BY <1>1 DEF IInv, InPhase
<1>3. /\ sink \in SinkType
      /\ fir.taken \in 0 .. Samples
  BY DEF IInv, Typed
<1>4. CASE SinkReads
  <2>1. sink' = [sink EXCEPT !.i = sink.i + 1, !.out_ready = TRUE, !.read = fir.taken]
    BY <1>4 DEF SinkReads
  <2>2. sink.i + 1 \in 0 .. Samples
    BY <1>3, <1>4, Sizes DEF SinkReads
  <2>. QED  BY <1>1, <1>2, <1>3, <2>1, <2>2
<1>5. CASE SinkLooks \/ SinkStops
  BY <1>1, <1>2, <1>3, <1>5 DEF SinkLooks, SinkStops
<1>. QED  BY <1>1, <1>4, <1>5 DEF Sink

\* Before the first sample is taken nobody reads; it is taken at the edge after
\* the one that puts it on the line.
LEMMA BeginningStep ==
    ASSUME IInv, Next, Beginning
    PROVE  IInv' /\ (fir'.taken # fir.taken => sink.read = fir.taken)
<1>1. /\ stim' = stim /\ Source /\ Fir /\ Sink /\ sink.at = "look"
      /\ stopped' = (sink'.at = "ended") /\ stopped' \in BOOLEAN
      /\ sink' \in SinkType
      /\ source' \in SourceType
      /\ OnTheLine'
      /\ stim \in [0 .. Samples - 1 -> sc_int]
  BY EdgeParts, SourceStep DEF IInv, Typed
<1>2. sink' = sink /\ stopped' = FALSE
  BY <1>1, Sizes DEF Beginning, Sink, SinkReads, SinkLooks, SinkStops
<1>3. CASE source.at = "await"
  <2>1. source' = source
    BY <1>1, <1>3 DEF Beginning, Source, SourceResets, SourceSends, SourceAwaits
  <2>2. fir' = Take(fir)
    BY <1>1, <1>3 DEF Beginning, Fir, FirStarts, FirIdles, FirAnswers
  <2>3. source.in_valid /\ source.i = fir.taken
    BY <1>3 DEF Beginning
  <2>4. /\ fir'.at = "answer" /\ fir'.taken = fir.taken + 1
        /\ fir'.in_ready /\ fir'.out_valid
        /\ fir' \in FirType
        /\ SamplesTakenOnce' /\ Convolved'
    BY <1>1, <2>2, <2>3, TakenInOrder
  <2>5. Typed'
    BY <1>1, <2>4 DEF Typed
  <2>6. FirstTaken'
    BY <1>2, <1>3, <2>1, <2>4 DEF Beginning, FirstTaken
  <2>. QED  BY <1>1, <1>2, <2>4, <2>5, <2>6 DEF IInv, InPhase, Beginning
<1>4. CASE source.at # "await"
  <2>1. /\ fir' = [fir EXCEPT !.at = "idle"]
    <3>1. fir \in FirType
      BY DEF IInv, Typed
    <3>2. CASE source.at \in {"reset", "release"}
      <4>1. fir' = [fir EXCEPT !.at = "idle", !.in_ready = FALSE, !.out_valid = FALSE]
        BY <1>1, <3>2 DEF Beginning, Fir, FirStarts, FirIdles, FirAnswers
      <4>2. fir.in_ready = FALSE /\ fir.out_valid = FALSE
        BY <3>1 DEF Beginning
      <4>. QED  BY <3>1, <4>1, <4>2
    <3>3. CASE source.at = "send"
      BY <1>1, <3>3 DEF Beginning, Fir, FirStarts, FirIdles, FirAnswers, Take
    <3>. QED  BY <1>4, <3>2, <3>3 DEF Beginning
  <2>2. /\ fir' \in FirType
        /\ fir'.at = "idle" /\ fir'.taps = fir.taps /\ fir'.in_ready = fir.in_ready
        /\ fir'.out = fir.out /\ fir'.out_valid = fir.out_valid /\ fir'.taken = fir.taken
    BY <2>1 DEF IInv, Typed
  <2>3. SamplesTakenOnce' /\ Convolved'
    BY <1>1, <2>2, NothingTaken
  <2>4. Typed'
    BY <1>1, <2>2 DEF Typed
  <2>5. Beginning'
    <3>1. source'.i = 0 /\
             \/ source'.at = "release" /\ source'.reset /\ ~source'.in_valid
             \/ source'.at = "send" /\ ~source'.reset /\ ~source'.in_valid
             \/ source'.at = "await" /\ ~source'.reset /\ source'.in_valid
      <4>1. source \in SourceType
        BY DEF IInv, Typed
      <4>2. CASE source.at \in {"reset", "release"}
        BY <1>1, <4>1, <4>2 DEF Beginning, Source, SourceResets, SourceSends, SourceAwaits
      <4>3. CASE source.at = "send"
        <5>1. source' = [source EXCEPT !.at = "await", !.in = stim[source.i], !.in_valid = TRUE]
          BY <1>1, <4>3, Sizes DEF Beginning, Source, SourceResets, SourceSends, SourceAwaits
        <5>. QED  BY <4>1, <4>3, <5>1 DEF Beginning
      <4>. QED  BY <1>4, <4>2, <4>3 DEF Beginning
    <3>. QED  BY <1>2, <2>2, <3>1 DEF Beginning
  <2>. QED  BY <1>1, <1>2, <2>2, <2>3, <2>4, <2>5 DEF IInv, InPhase
<1>. QED  BY <1>3, <1>4

\* The source sees in_ready, the sink the first output.
LEMMA FirstTakenStep ==
    ASSUME IInv, Next, FirstTaken
    PROVE  IInv' /\ (fir'.taken # fir.taken => sink.read = fir.taken)
<1>1. /\ stim' = stim /\ Source /\ Fir /\ Sink /\ sink.at = "look"
      /\ stopped' = (sink'.at = "ended") /\ stopped' \in BOOLEAN
      /\ sink' \in SinkType
      /\ source' \in SourceType
      /\ OnTheLine'
      /\ stim \in [0 .. Samples - 1 -> sc_int]
  BY EdgeParts, SourceStep DEF IInv, Typed
<1>2. /\ source \in SourceType
      /\ sink \in SinkType
  BY DEF IInv, Typed
<1>3. fir' = fir
  BY DEF FirstTaken, Fir, FirStarts, FirIdles, FirAnswers, Next
<1>4. source' = [source EXCEPT !.at = "send", !.i = source.i + 1, !.in_valid = FALSE]
  BY <1>1 DEF FirstTaken, Source, SourceResets, SourceSends, SourceAwaits
<1>5. sink' = [sink EXCEPT !.i = sink.i + 1, !.out_ready = TRUE, !.read = fir.taken]
  BY <1>1, Sizes DEF FirstTaken, Sink, SinkReads, SinkLooks, SinkStops
<1>6. FirstRead'
  BY <1>2, <1>3, <1>4, <1>5 DEF FirstTaken, FirstRead
<1>7. sink'.at = "look" /\ stopped' = FALSE
  BY <1>1, <1>2, <1>5
<1>8. SamplesTakenOnce' /\ Convolved'
  BY <1>1, <1>3, NothingTaken
<1>9. Typed'
  BY <1>1, <1>3 DEF IInv, Typed
<1>. QED  BY <1>1, <1>3, <1>6, <1>7, <1>8, <1>9 DEF IInv, InPhase

\* The filter gives the output up that the sink has read, and the source offers
\* the next sample. Only with a single sample is there none: the sink then stops.
LEMMA AnsweredStep ==
    ASSUME IInv, Next, FirstRead \/ Answered
    PROVE  IInv' /\ fir'.taken = fir.taken
<1>1. /\ stim' = stim /\ Source /\ Fir /\ Sink /\ sink.at = "look"
      /\ stopped' = (sink'.at = "ended") /\ stopped' \in BOOLEAN
      /\ sink' \in SinkType
      /\ source' \in SourceType
      /\ OnTheLine'
      /\ stim \in [0 .. Samples - 1 -> sc_int]
  BY EdgeParts, SourceStep DEF IInv, Typed
<1>2. /\ source \in SourceType
      /\ sink \in SinkType
      /\ fir \in FirType
  BY DEF IInv, Typed
<1>3. /\ source.at = "send" /\ ~source.reset /\ source.i = fir.taken /\ ~source.in_valid
      /\ fir.at = "answer" /\ fir.in_ready /\ fir.out_valid /\ fir.taken >= 1
      /\ sink.i = fir.taken /\ sink.out_ready /\ fir.taken \in Nat
      /\ fir.taken = Samples => Samples = 1 /\ sink.read = 1
  BY Sizes DEF FirstRead, Answered
<1>4. fir' = [fir EXCEPT !.at = "idle", !.out_valid = FALSE]
  <2>1. fir' = Take([fir EXCEPT !.out_valid = FALSE])
    BY <1>1, <1>3 DEF Fir, FirStarts, FirIdles, FirAnswers
  <2>2. fir' = [[fir EXCEPT !.out_valid = FALSE] EXCEPT !.at = "idle"]
    BY <1>3, <2>1 DEF Take
  <2>. QED  BY <1>2, <2>2
<1>5. /\ fir' \in FirType
      /\ fir'.at = "idle" /\ fir'.taps = fir.taps /\ fir'.in_ready
      /\ fir'.out = fir.out /\ ~fir'.out_valid /\ fir'.taken = fir.taken
  BY <1>2, <1>3, <1>4
<1>6. SamplesTakenOnce' /\ Convolved'
  BY <1>1, <1>5, NothingTaken
<1>7. Typed'
  BY <1>1, <1>5 DEF Typed
<1>8. CASE fir.taken = Samples
  <2>1. sink' = [sink EXCEPT !.at = "ended"]
    BY <1>2, <1>1, <1>3, <1>8 DEF Sink, SinkReads, SinkLooks, SinkStops
  <2>2. sink'.at = "ended" /\ Over'
    BY <1>2, <1>3, <1>5, <1>8, <2>1 DEF Over
  <2>. QED  BY <1>1, <1>5, <1>6, <1>7, <2>2 DEF IInv, InPhase
<1>9. CASE fir.taken < Samples
  <2>1. sink' = [sink EXCEPT !.i = sink.i + 1, !.out_ready = TRUE, !.read = fir.taken]
    BY <1>1, <1>3, <1>9 DEF Sink, SinkReads, SinkLooks, SinkStops
  <2>2. source' = [source EXCEPT !.at = "await", !.in = stim[source.i], !.in_valid = TRUE]
    BY <1>1, <1>3, <1>9 DEF Source, SourceResets, SourceSends, SourceAwaits
  <2>3. /\ source'.at = "await" /\ ~source'.reset /\ source'.i = fir'.taken
        /\ source'.in_valid
    BY <1>2, <1>3, <1>5, <2>2
  <2>4. /\ sink'.at = "look" /\ sink'.i = fir'.taken + 1 /\ sink'.out_ready
        /\ sink'.read = fir'.taken
    BY <1>1, <1>2, <1>3, <1>5, <2>1
  <2>5. fir'.taken \in 1 .. Samples - 1
    BY <1>3, <1>5, <1>9, Sizes
  <2>6. Offered'
    BY <1>5, <2>3, <2>4, <2>5 DEF Offered
  <2>. QED  BY <1>1, <1>5, <1>6, <1>7, <2>4, <2>6 DEF IInv, InPhase
<1>10. fir.taken <= Samples
  BY <1>2, Sizes
<1>. QED  BY <1>3, <1>8, <1>9, <1>10, Sizes

\* The filter takes the sample, the source sees in_ready and goes on. The sink,
\* which has looked once too often, may be over before the last output.
LEMMA OfferedStep ==
    ASSUME IInv, Next, Offered
    PROVE  IInv' /\ sink.read = fir.taken
<1>1. /\ stim' = stim /\ Source /\ Fir /\ Sink /\ sink.at = "look"
      /\ stopped' = (sink'.at = "ended") /\ stopped' \in BOOLEAN
      /\ sink' \in SinkType
      /\ source' \in SourceType
      /\ OnTheLine'
      /\ stim \in [0 .. Samples - 1 -> sc_int]
  BY EdgeParts, SourceStep DEF IInv, Typed
<1>2. /\ source \in SourceType
  BY DEF IInv, Typed
<1>3. source' = [source EXCEPT !.at = "send", !.i = source.i + 1, !.in_valid = FALSE]
  BY <1>1 DEF Offered, Source, SourceResets, SourceSends, SourceAwaits
<1>4. fir' = Take(fir)
  BY <1>1 DEF Offered, Fir, FirStarts, FirIdles, FirAnswers
<1>5. /\ fir'.at = "answer" /\ fir'.taken = fir.taken + 1
      /\ fir'.in_ready /\ fir'.out_valid
      /\ fir' \in FirType
      /\ SamplesTakenOnce' /\ Convolved'
  BY <1>1, <1>4, TakenInOrder DEF Offered
<1>6. Typed'
  BY <1>1, <1>5 DEF Typed
<1>7. fir.taken \in Nat /\ fir.taken >= 1 /\ fir.taken + 1 <= Samples
  BY Sizes DEF Offered
<1>8. CASE fir.taken + 1 = Samples
  <2>1. sink' = [sink EXCEPT !.at = "ended"]
    BY <1>1, <1>8 DEF Offered, Sink, SinkReads, SinkLooks, SinkStops
  <2>2. sink \in SinkType /\ Samples # 1 /\ fir.taken = Samples - 1
    BY <1>7, <1>8, Sizes DEF IInv, Typed
  <2>3. sink'.at = "ended" /\ Over'
    BY <1>5, <1>7, <1>8, <2>1, <2>2 DEF Over, Offered
  <2>. QED  BY <1>1, <1>5, <1>6, <2>3 DEF IInv, InPhase, Offered
<1>9. CASE fir.taken + 1 < Samples
  <2>1. sink' = sink
    BY <1>1, <1>9 DEF Offered, Sink, SinkReads, SinkLooks, SinkStops
  <2>2. /\ source'.at = "send" /\ ~source'.reset /\ source'.i = fir'.taken
        /\ ~source'.in_valid
    BY <1>2, <1>3, <1>5 DEF Offered
  <2>3. fir'.taken \in 2 .. Samples - 1
    BY <1>5, <1>7, <1>9, Sizes
  <2>4. sink.i = fir'.taken /\ sink.out_ready /\ sink.read = fir'.taken - 1
    BY <1>5, <1>7 DEF Offered
  <2>5. Answered'
    BY <1>5, <2>1, <2>2, <2>3, <2>4 DEF Answered
  <2>. QED  BY <1>1, <1>5, <1>6, <2>1, <2>5 DEF IInv, InPhase, Offered
<1>. QED  BY <1>7, <1>8, <1>9, Sizes

-----------------------------------------------------------------------------
(***************************************************************************)
(* The theorems.                                                           *)
(***************************************************************************)

LEMMA NextStep ==
    ASSUME IInv, Next
    PROVE  IInv' /\ (fir'.taken # fir.taken => sink.read = fir.taken)
<1>1. Beginning \/ FirstTaken \/ FirstRead \/ Offered \/ Answered
  BY DEF IInv, InPhase, Next
<1>. QED  BY <1>1, BeginningStep, FirstTakenStep, AnsweredStep, OfferedStep

LEMMA InvInductive == IInv /\ [Next]_vars => IInv'
<1>1. ASSUME IInv, UNCHANGED vars PROVE IInv'
  BY <1>1 DEF vars, IInv, Typed, OnTheLine, SamplesTakenOnce, Convolved, Sample, Wrap,
     InPhase, Over, Beginning, FirstTaken, FirstRead, Offered, Answered
<1>. QED  BY <1>1, NextStep

LEMMA InvAlways == Spec => []IInv
<1>1. Init => IInv
  BY InitInv
<1>2. IInv /\ [Next]_vars => IInv'
  BY InvInductive
<1>. QED  BY <1>1, <1>2, PTL DEF Spec

\* Signals carry values of their width whatever the sums are, and the loops of
\* the test bench stay in their bounds (tb.cc:17, 39).
THEOREM TypeCorrect == Spec => []TypeOK
<1>1. IInv => TypeOK
  BY DEF IInv, Typed, TypeOK
<1>. QED  BY <1>1, InvAlways, PTL

\* Although in_ready is never lowered (fir.cc:22), the filter takes every sample
\* once and in order, however many there are.
THEOREM TakenOnce == Spec => []SamplesTakenOnce
<1>1. IInv => SamplesTakenOnce
  BY DEF IInv
<1>. QED  BY <1>1, InvAlways, PTL

\* Every valid output is the convolution of the last five samples with the
\* coefficients, cut off to the width (fir.cc:29-33).
THEOREM AlwaysConvolved == Spec => []Convolved
<1>1. IInv => Convolved
  BY DEF IInv
<1>. QED  BY <1>1, InvAlways, PTL

\* Although out_ready is never lowered (tb.cc:45), the filter replaces no output
\* that the sink has not read.
THEOREM NeverLoses == Spec => NoOutputLost
<1>1. IInv /\ [Next]_vars => [fir'.taken # fir.taken => sink.read = fir.taken]_vars
  BY NextStep
<1>. QED  BY <1>1, InvAlways, PTL DEF Spec, NoOutputLost

\* The number of the output that the sink's i-th look finds: from the second look on
\* it is one behind.
ReadsBehind == sink.read = IF sink.i <= 1 THEN sink.i ELSE sink.i - 1

\* The loop of tb::sink over, the filter has an output that nobody has read.
LastUnread == sink.i = Samples /\ fir.taken = Samples /\ sink.read = Samples - 1

\* What the 64 reads of the code are, for any number of samples but one: since the
\* filter holds the first output for another cycle (fir.cc:34-38 waits for an
\* out_ready that tb.cc:45 raises as it reads), the sink reads it twice, every
\* other output once, and the last one never.
THEOREM LastNeverRead ==
    Spec => [](ReadsBehind /\ (stopped /\ Samples > 1 => LastUnread))
<1>1. IInv => ReadsBehind
  <2>1. IInv => sink.i \in Nat /\ fir.taken \in Nat
    BY Sizes DEF IInv, Typed
  <2>. QED
    BY <2>1, Sizes
       DEF IInv, InPhase, Over, Beginning, FirstTaken, FirstRead, Offered, Answered, ReadsBehind
<1>2. IInv => (stopped /\ Samples > 1 => LastUnread)
  BY Sizes DEF IInv, InPhase, Over, LastUnread
<1>. QED  BY <1>1, <1>2, InvAlways, PTL

-----------------------------------------------------------------------------
(***************************************************************************)
(* How many edges the simulation takes.                                    *)
(***************************************************************************)

\* The edges left when the first output has been read: one for each sample offered and
\* one for each output but the first, less the one that is never read.
AfterFirstRead == IF Samples = 1 THEN 1 ELSE 2 * Samples - 2

\* The edges to the first sample on the line.
BeforeFirst == IF source.at = "reset" THEN 4 ELSE IF source.at = "release" THEN 3
                 ELSE IF source.at = "send" THEN 2 ELSE 1

EdgesLeft ==
    IF stopped THEN 0
    ELSE IF fir.taken = 0 THEN BeforeFirst + 1 + AfterFirstRead
    ELSE IF sink.i = 0 THEN 1 + AfterFirstRead
    ELSE IF sink.i = 1 THEN AfterFirstRead
    ELSE 2 * (Samples - 1 - fir.taken) + IF fir.at = "idle" THEN 1 ELSE 2

LEMMA EdgeTaken ==
    ASSUME IInv, Next
    PROVE  EdgesLeft' = EdgesLeft - 1
<1>1. /\ ~stopped /\ sink.at = "look" /\ Source /\ Fir /\ Sink
      /\ stopped' = (sink'.at = "ended") /\ stim' = stim
  BY EdgeParts DEF Next
<1>2. Typed /\ Samples \in Nat /\ Samples >= 1
  BY Sizes DEF IInv
<1>s. /\ source \in SourceType /\ fir \in FirType /\ sink \in SinkType
  BY <1>2 DEF Typed
<1>3. CASE Beginning
  <2>1. sink' = sink /\ ~stopped' /\ fir.taken = 0 /\ sink.i = 0 /\ fir'.taken \in Nat
    <3>1. sink' = sink
      BY <1>1, <1>2, <1>3 DEF Beginning, Sink, SinkReads, SinkLooks, SinkStops
    <3>2. fir'.taken \in Nat
      BY <1>2, NextStep DEF IInv, Typed
    <3>. QED  BY <1>1, <1>3, <3>1, <3>2 DEF Beginning
  <2>2. CASE source.at = "await"
    <3>1. fir' = Take(fir) /\ source.in_valid /\ source.i = fir.taken
      BY <1>1, <1>3, <2>2 DEF Beginning, Fir, FirStarts, FirIdles, FirAnswers
    <3>2. fir'.taken = 1
      BY <1>1, <2>1, <3>1, TakenInOrder
    <3>3. BeforeFirst = 1
      BY <2>2 DEF BeforeFirst
    <3>. QED  BY <1>1, <1>2, <2>1, <3>2, <3>3 DEF EdgesLeft, AfterFirstRead
  <2>3. CASE source.at # "await"
    <3>1. fir'.taken = 0
      <4>1. CASE source.at \in {"reset", "release"}
        <5>1. fir' = [fir EXCEPT !.at = "idle", !.in_ready = FALSE, !.out_valid = FALSE]
          BY <1>1, <1>3, <4>1 DEF Beginning, Fir, FirStarts, FirIdles, FirAnswers
        <5>. QED  BY <1>s, <2>1, <5>1
      <4>2. CASE source.at = "send"
        <5>1. fir' = [fir EXCEPT !.at = "idle"]
          BY <1>1, <1>3, <4>2 DEF Beginning, Fir, FirStarts, FirIdles, FirAnswers, Take
        <5>. QED  BY <1>s, <2>1, <5>1
      <4>. QED  BY <1>3, <2>3, <4>1, <4>2 DEF Beginning
    <3>2. source'.at = IF source.at = "reset" THEN "release"
                         ELSE IF source.at = "release" THEN "send" ELSE "await"
      <4>1. CASE source.at \in {"reset", "release"}
        BY <1>1, <1>s, <4>1 DEF Source, SourceResets, SourceSends, SourceAwaits
      <4>2. CASE source.at = "send"
        <5>1. source' = [source EXCEPT !.at = "await", !.in = stim[source.i], !.in_valid = TRUE]
          BY <1>1, <1>2, <1>3, <4>2 DEF Beginning, Source, SourceResets, SourceSends, SourceAwaits
        <5>. QED  BY <1>s, <4>2, <5>1
      <4>. QED  BY <1>3, <2>3, <4>1, <4>2 DEF Beginning
    <3>3. BeforeFirst' = BeforeFirst - 1 /\ BeforeFirst \in Int
      BY <1>3, <2>3, <3>2 DEF Beginning, BeforeFirst
    <3>. QED  BY <1>1, <1>2, <2>1, <3>1, <3>3 DEF EdgesLeft, AfterFirstRead
  <2>. QED  BY <2>2, <2>3
<1>4. CASE FirstTaken
  <2>1. sink' = [sink EXCEPT !.i = sink.i + 1, !.out_ready = TRUE, !.read = fir.taken]
    BY <1>1, <1>2, <1>4 DEF FirstTaken, Sink, SinkReads, SinkLooks, SinkStops
  <2>2. sink.i = 0 /\ fir.taken = 1
    BY <1>4 DEF FirstTaken
  <2>3. sink'.i = 1 /\ ~stopped'
    <3>1. sink'.i = sink.i + 1 /\ sink'.at = sink.at
      BY <1>s, <2>1
    <3>2. ~stopped'
      BY <1>1, <3>1
    <3>3. sink'.i = 1
      BY <2>2, <3>1
    <3>. QED  BY <3>2, <3>3
  <2>4. fir' = fir
    BY <1>1, <1>4 DEF FirstTaken, Fir, FirStarts, FirIdles, FirAnswers
  <2>. QED  BY <1>1, <1>2, <2>2, <2>3, <2>4 DEF EdgesLeft, AfterFirstRead
<1>5. CASE FirstRead \/ Answered
  <2>1. /\ sink.i = fir.taken /\ fir.taken \in 1 .. Samples /\ fir.at = "answer"
        /\ fir.taken = Samples => FirstRead
        /\ FirstRead <=> fir.taken = 1
    BY <1>2, <1>5 DEF FirstRead, Answered
  <2>2. fir' = Take([fir EXCEPT !.out_valid = FALSE]) /\ ~source.in_valid
    BY <1>1, <1>5 DEF FirstRead, Answered, Fir, FirStarts, FirIdles, FirAnswers
  <2>3. fir'.at = "idle" /\ fir'.taken = fir.taken
    BY <1>s, <2>2 DEF Take
  <2>4. CASE fir.taken = Samples
    <3>1. sink' = [sink EXCEPT !.at = "ended"]
      BY <1>1, <1>2, <2>1, <2>4 DEF Sink, SinkReads, SinkLooks, SinkStops
    <3>2. stopped' /\ Samples = 1
      BY <1>1, <1>s, <2>1, <2>4, <3>1
    <3>. QED  BY <1>1, <1>2, <2>1, <2>4, <3>2 DEF EdgesLeft, AfterFirstRead
  <2>5. CASE fir.taken < Samples
    <3>1. sink' = [sink EXCEPT !.i = sink.i + 1, !.out_ready = TRUE, !.read = fir.taken]
      BY <1>1, <1>2, <1>5, <2>1, <2>5
         DEF FirstRead, Answered, Sink, SinkReads, SinkLooks, SinkStops
    <3>2. sink'.i = fir.taken + 1 /\ ~stopped'
      BY <1>1, <1>s, <2>1, <3>1
    <3>. QED  BY <1>1, <1>2, <2>1, <2>3, <2>5, <3>2 DEF EdgesLeft, AfterFirstRead
  <2>. QED  BY <1>2, <2>1, <2>4, <2>5
<1>6. CASE Offered
  <2>1. /\ fir.taken \in 1 .. Samples - 1 /\ sink.i = fir.taken + 1 /\ fir.at = "idle"
        /\ ~fir.out_valid /\ source.in_valid /\ source.i = fir.taken
    BY <1>6 DEF Offered
  <2>2. fir' = Take(fir)
    BY <1>1, <1>6 DEF Offered, Fir, FirStarts, FirIdles, FirAnswers
  <2>3. fir'.taken = fir.taken + 1 /\ fir'.at = "answer"
    BY <1>1, <2>1, <2>2, TakenInOrder
  <2>4. CASE sink.i = Samples
    <3>1. sink' = [sink EXCEPT !.at = "ended"]
      BY <1>1, <1>2, <2>4 DEF Sink, SinkReads, SinkLooks, SinkStops
    <3>2. stopped'
      BY <1>1, <1>s, <3>1
    <3>. QED  BY <1>1, <1>2, <2>1, <2>4, <3>2 DEF EdgesLeft
  <2>5. CASE sink.i < Samples
    <3>1. sink' = sink
      BY <1>1, <1>2, <2>1, <2>5 DEF Sink, SinkReads, SinkLooks, SinkStops
    <3>2. sink'.i = fir.taken + 1 /\ fir.taken \in 1 .. Samples - 2
      BY <1>2, <2>1, <2>5, <3>1
    <3>3. ~stopped'
      BY <1>1, <3>1
    <3>. QED  BY <1>1, <1>2, <2>1, <2>3, <3>2, <3>3 DEF EdgesLeft
  <2>. QED  BY <1>2, <2>1, <2>4, <2>5
<1>. QED  BY <1>1, <1>3, <1>4, <1>5, <1>6 DEF IInv, InPhase

\* The simulation takes 2 * Samples + 3 edges of the clock (six, if there is one sample),
\* whatever the samples are, and the sink calls sc_stop (tb.cc:48) at the last of them.
\* Of SinkEnds this leaves that the clock ticks until then.
THEOREM EdgesCounted ==
    Spec => /\ EdgesLeft = 5 + AfterFirstRead
            /\ [](EdgesLeft \in Nat /\ (EdgesLeft = 0 <=> stopped))
            /\ [][EdgesLeft' = EdgesLeft - 1]_vars
<1>1. Init => EdgesLeft = 5 + AfterFirstRead
  BY Sizes DEF Init, EdgesLeft, BeforeFirst, AfterFirstRead
<1>2. IInv => EdgesLeft \in Nat /\ (EdgesLeft = 0 <=> stopped)
  <2>. SUFFICES ASSUME IInv PROVE EdgesLeft \in Nat /\ (EdgesLeft = 0 <=> stopped)
    OBVIOUS
  <2>1. Samples \in Nat /\ Samples >= 1 /\ fir.taken \in 0 .. Samples /\ sink.i \in Nat
    BY Sizes DEF IInv, Typed
  <2>2. ~stopped => fir.taken < Samples \/ sink.i <= 1
    BY <2>1 DEF IInv, InPhase, Beginning, FirstTaken, FirstRead, Offered, Answered
  <2>3. AfterFirstRead \in Nat \ {0} /\ BeforeFirst \in Nat
    BY <2>1 DEF AfterFirstRead, BeforeFirst
  <2>. QED  BY <2>1, <2>2, <2>3 DEF EdgesLeft
<1>3. IInv /\ [Next]_vars => [EdgesLeft' = EdgesLeft - 1]_vars
  BY EdgeTaken
<1>. QED  BY <1>1, <1>2, <1>3, InvAlways, PTL DEF Spec
=============================================================================
