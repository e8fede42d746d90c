----------------------------- MODULE Handshake -----------------------------
(* The FIR filter with ready and valid lines and its test bench:            *)
(* fir_handshaking/fir.cc and tb.cc.                                        *)
(*                                                                          *)
(* The three threads are clocked. A step is one edge of the clock: each     *)
(* thread runs from the wait() it is at ("at") to its next one, reading the *)
(* signals as the previous edge left them (unprimed) and writing what the   *)
(* next edge will see (primed). The record of a thread holds the signals it *)
(* drives.                                                                  *)
EXTENDS Integers

CONSTANTS Samples, \* the test bench sends, and reads, so many (64 in the code)
          Values,  \* what a sample may be
          Limit    \* of sc_int: 2^15, for sc_int<16> in the code

sc_int == -Limit .. Limit - 1

ASSUME SizesAssumption == /\ {Samples, Limit} \subseteq Nat \ {0}
                          /\ Values \subseteq sc_int

VARIABLES
  stim,   \* the samples of the test bench
  source, \* tb::source: loop index i; reset, in, in_valid
  fir,    \* fir::fir_core: taps; in_ready, out, out_valid; history: the
          \* number of samples taken, which numbers the output
  sink,   \* tb::sink: loop index i; out_ready; history: the number of the
          \* output it read last
  stopped \* sc_stop was called

vars == <<stim, source, fir, sink, stopped>>
-----------------------------------------------------------------------------
WrapNot(x) == x
\* What an sc_int keeps of a sum.
Wrap(x) == ((x + Limit) % (2 * Limit)) - Limit

Tap == 0 .. 4
coef == [t \in Tap |-> <<1, 5, 10, 5, 1>>[t + 1]]

\* out_val: the sum wraps after every term, so it wraps once.
FilteredShort(taps) == Wrap(coef[0] * taps[0] + coef[1] * taps[1] + coef[2] * taps[2]
                              + coef[3] * taps[3])
Filtered(taps) == Wrap(coef[0] * taps[0] + coef[1] * taps[1] + coef[2] * taps[2]
                         + coef[3] * taps[3] + coef[4] * taps[4])

Init ==
  /\ stim \in [0 .. Samples - 1 -> Values]
  /\ source = [at |-> "reset", i |-> 0, reset |-> FALSE, in |-> 0, in_valid |-> FALSE]
  /\ fir = [at |-> "start", taps |-> [t \in Tap |-> 0], in_ready |-> FALSE,
            out |-> 0, out_valid |-> FALSE, taken |-> 0]
  /\ sink = [at |-> "look", i |-> 0, out_ready |-> FALSE, read |-> 0]
  /\ stopped = FALSE

SourceResetsForGood ==
  \/ source.at = "reset"
     /\ source' = [source EXCEPT !.at = "release", !.in_valid = FALSE, !.reset = TRUE]
  \/ source.at = "release" /\ source' = [source EXCEPT !.at = "send"]

\* An edge of reset.
SourceResets ==
  \/ source.at = "reset"
     /\ source' = [source EXCEPT !.at = "release", !.in_valid = FALSE, !.reset = TRUE]
  \/ source.at = "release" /\ source' = [source EXCEPT !.at = "send", !.reset = FALSE]

\* After the last sample the thread is over.
SourceSends ==
  /\ source.at = "send"
  /\ source' = IF source.i < Samples
               THEN [source EXCEPT !.at = "await", !.in = stim[source.i], !.in_valid = TRUE]
               ELSE source

SourceAwaitsHolding ==
  /\ source.at = "await"
  /\ source' = IF fir.in_ready THEN [source EXCEPT !.at = "send", !.i = @ + 1] ELSE source

SourceAwaits ==
  /\ source.at = "await"
  /\ source' = IF fir.in_ready
               THEN [source EXCEPT !.at = "send", !.i = @ + 1, !.in_valid = FALSE]
               ELSE source

Source == SourceResets \/ SourceSends \/ SourceAwaits

\* The filter takes the sample that is on the line, or waits for one. It never
\* lowers in_ready again.
Take(f) ==
  LET taps == [t \in Tap |-> IF t = 0 THEN source.in ELSE f.taps[t - 1]]
  IN  IF source.in_valid
      THEN [f EXCEPT !.at = "answer", !.taps = taps, !.in_ready = TRUE,
                     !.out = Filtered(taps), !.out_valid = TRUE, !.taken = @ + 1]
      ELSE [f EXCEPT !.at = "idle"]

\* A reset that is up at an edge takes the thread back to its start.
FirStarts ==
  /\ source.reset \/ fir.at = "start"
  /\ fir' = [fir EXCEPT !.at = "idle", !.in_ready = FALSE, !.out_valid = FALSE]

FirIdles == ~source.reset /\ fir.at = "idle" /\ fir' = Take(fir)

FirAnswers ==
  /\ ~source.reset /\ fir.at = "answer"
  /\ fir' = IF sink.out_ready THEN Take([fir EXCEPT !.out_valid = FALSE]) ELSE fir

Fir == FirStarts \/ FirIdles \/ FirAnswers

SinkReadsSlowly ==
  \/ sink.at = "look" /\ sink.i < Samples /\ fir.out_valid
     /\ sink' = [sink EXCEPT !.at = "pause", !.i = @ + 1, !.out_ready = TRUE, !.read = fir.taken]
  \/ sink.at = "pause" /\ sink' = [sink EXCEPT !.at = "pause again"]
  \/ sink.at = "pause again" /\ sink' = [sink EXCEPT !.at = "look"]

\* The sink reads what is valid and raises out_ready, for good; it looks again
\* at the next edge. After the last one it stops the simulation.
SinkReads ==
  /\ sink.at = "look" /\ sink.i < Samples /\ fir.out_valid
  /\ sink' = [sink EXCEPT !.i = @ + 1, !.out_ready = TRUE, !.read = fir.taken]

SinkLooks ==
  /\ sink.at = "look" /\ sink.i < Samples /\ ~fir.out_valid
  /\ UNCHANGED sink

SinkStops ==
  /\ sink.at = "look" /\ sink.i = Samples
  /\ sink' = [sink EXCEPT !.at = "ended"]

Sink == SinkReads \/ SinkLooks \/ SinkStops

Next == /\ ~stopped
        /\ Source /\ Fir /\ Sink
        /\ stopped' = (sink'.at = "ended")
        /\ UNCHANGED stim

\* sc_start keeps the clock going until sc_stop.
Spec == Init /\ [][Next]_vars /\ WF_vars(Next)
-----------------------------------------------------------------------------
\* Signals carry values of their width, loops stay in their bounds.
TypeOK ==
  /\ source.i \in 0 .. Samples /\ source.in \in sc_int
  /\ fir.taps \in [Tap -> sc_int] /\ fir.out \in sc_int
  /\ fir.taken \in 0 .. Samples
  /\ sink.i \in 0 .. Samples /\ sink.read \in 0 .. Samples

Sample(k) == IF k < 0 THEN 0 ELSE stim[k]

\* Although in_ready stays up from the first sample on (fir.cc:22), so that the
\* source never waits for the filter again, the filter takes every sample once
\* and in order: its taps are the last five samples sent.
SamplesTakenOnce ==
  /\ fir.taken <= Samples
  /\ \A t \in Tap : fir.taps[t] = Sample(fir.taken - 1 - t)

\* Every output is the convolution of the samples up to its own with the
\* coefficients, whatever the width cuts off on the way.
Convolved ==
  fir.out_valid =>
    fir.out = Wrap(1 * Sample(fir.taken - 1) + 5 * Sample(fir.taken - 2)
                     + 10 * Sample(fir.taken - 3) + 5 * Sample(fir.taken - 4)
                     + 1 * Sample(fir.taken - 5))

\* out_ready stays up as well (tb.cc:45), so the filter no longer waits for the
\* sink: still no output is replaced before the sink has read it.
NoOutputLost == [][fir'.taken # fir.taken => sink.read = fir.taken]_vars

\* Neither side waits for ever: the sink gets its samples and stops.
SinkEnds == <>stopped

\* The k-th output the sink reads "coming from DUT" (tb.cc:36) is the k-th the
\* filter computes.
OutputsReadOnce == sink.read = sink.i
=============================================================================
