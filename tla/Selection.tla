------------------------------ MODULE Selection ------------------------------
(***************************************************************************)
(* Which parts of a recording become its highlight: Select of              *)
(* internal/highlight/score.go, from the score of every second to the      *)
(* segments that Cut joins, against what the comments say they are.        *)
(* Scores are small integers here; how they come about (Probe, Score) is   *)
(* left open.                                                              *)
(***************************************************************************)
EXTENDS Integers, Sequences, FiniteSets, SequencesExt

CONSTANTS Seconds,      \* bound: the length of a recording
          Scores,       \* bound: the scores a second can have
          Threshold,    \* a score above it is a hit ...
          Exits,        \* ... and a hit goes on down to this one; 0: no hysteresis
          Gaps,         \* values of MergeGap,
          MinDurations, \* of MinDuration,
          MaxDurations, \* of MaxDuration
          PerClip,      \* and of MaxPerClip
          Pad           \* seconds added on either side

\* applyDefaults of config.go replaces every other setting; an ExitRatio is
\* below 1, so that an exit is below the threshold.
ASSUME SelectionAssumption ==
    /\ Scores \subseteq Int /\ Exits \subseteq 0 .. Threshold - 1
    /\ {Seconds, Threshold} \cup Gaps \cup MinDurations \cup MaxDurations
         \cup PerClip \subseteq Nat \ {0}
    /\ Pad \in Nat

VARIABLES
  scores,   \* the score of every second that Probe found
  options,  \* the settings the selection was made under
  cuts,     \* the segments that were selected, in order
  selected  \* is the selection done?

selectionVars == <<scores, options, cuts, selected>>

Clip == [0 .. Seconds - 1 -> Scores]
SelectionOptions == [exit : Exits, gap : Gaps, min : MinDurations, max : MaxDurations,
            perClip : PerClip]
Segment == [start : 0 .. Seconds, end : 0 .. Seconds]

SelectionTypeOK ==
    /\ scores \in Clip \cup {<<>>} /\ options \in SelectionOptions \cup {<<>>}
    /\ \A i \in DOMAIN cuts : cuts[i] \in Segment
    /\ selected \in BOOLEAN

SelectionInit ==
    scores = <<>> /\ options = <<>> /\ cuts = <<>> /\ selected = FALSE

-----------------------------------------------------------------------------
(* The algorithm.                                                          *)

Duration(s) == s.end - s.start

\* mean: the sum of a segment's scores.
Total(score, s) ==
    LET sum[k \in 0 .. Duration(s)] ==
            IF k = 0 THEN 0 ELSE sum[k - 1] + score[s.start + k - 1]
    IN  sum[Duration(s)]

\* HysteresisMask: a second is a hit above the threshold; once in, as long as
\* the score does not fall below exit.
HysteresisMask(score, exit) ==
    LET low == IF 0 < exit /\ exit < Threshold THEN exit ELSE Threshold
        on[i \in 0 .. Seconds - 1] ==
            IF i > 0 /\ on[i - 1] THEN score[i] >= low ELSE score[i] > Threshold
    IN  on

\* Second i opens a run, or goes on with the last one, if it is a hit.
Scan(runs, hit, i) ==
    IF ~hit[i] THEN runs
    ELSE IF runs # <<>> /\ runs[Len(runs)].end = i
         THEN [runs EXCEPT ![Len(runs)].end = i + 1]
         ELSE Append(runs, [start |-> i, end |-> i + 1])

\* RawSegments, MaskSegments: the runs of hits.
Runs(hit) ==
    LET runs[i \in 0 .. Seconds] ==
            IF i = 0 THEN <<>> ELSE Scan(runs[i - 1], hit, i - 1)
    IN  runs[Seconds]

\* As if the gap itself were still bridged.
JoinRunAtGap(merged, s, gap) ==
    IF merged # <<>> /\ s.start - merged[Len(merged)].end <= gap
    THEN [merged EXCEPT ![Len(merged)].end = s.end]
    ELSE Append(merged, s)

\* A run joins the stretch before it if less than gap seconds are between them.
JoinRun(merged, s, gap) ==
    IF merged # <<>> /\ s.start - merged[Len(merged)].end < gap
    THEN [merged EXCEPT ![Len(merged)].end = s.end]
    ELSE Append(merged, s)

MergeRuns(runs, gap) ==
    LET merged[k \in 0 .. Len(runs)] ==
            IF k = 0 THEN <<>> ELSE JoinRun(merged[k - 1], runs[k], gap)
    IN  merged[Len(runs)]

\* The window of w seconds moves on by the k-th second: its sum takes one
\* score in and one out, and the best so far is replaced by a better one only.
Slide(last, score, s, w, k) ==
    LET sum == last.sum + score[s.start + k + w - 1] - score[s.start + k - 1]
    IN  IF sum > last.best
        THEN [sum |-> sum, best |-> sum, at |-> s.start + k]
        ELSE [sum |-> sum, best |-> last.best, at |-> last.at]

Window(i, w) == [start |-> i, end |-> i + w]

\* bestWindow: the first of the best windows of w seconds in s.
BestWindow(score, s, w) ==
    LET first == Total(score, Window(s.start, w))
        slide[k \in 0 .. Duration(s) - w] ==
            IF k = 0 THEN [sum |-> first, best |-> first, at |-> s.start]
            ELSE Slide(slide[k - 1], score, s, w, k)
    IN  IF w >= Duration(s) THEN s ELSE Window(slide[Duration(s) - w].at, w)

Padded(s) == [start |-> IF s.start < Pad THEN 0 ELSE s.start - Pad,
              end |-> IF s.end + Pad > Seconds THEN Seconds ELSE s.end + Pad]

\* s has the higher average of two segments.
HigherMean(score, s, t) ==
    Total(score, s) * Duration(t) > Total(score, t) * Duration(s)

\* How many of S are kept.
Kept(S, n) == IF Cardinality(S) < n THEN Cardinality(S) ELSE n

\* The best n of them, in order of time; between equals the sorts decide.
TopSegments(score, found, n) ==
    {[i \in DOMAIN p |-> found[p[i]]] :
        p \in {q \in [1 .. Kept(DOMAIN found, n) -> DOMAIN found] :
                 /\ IsInjective(q)
                 /\ \A i, j \in DOMAIN q :
                       i < j => found[q[i]].start <= found[q[j]].start
                 /\ \A i \in DOMAIN q, k \in DOMAIN found \ Range(q) :
                       ~HigherMean(score, found[k], found[q[i]])}}

\* The seconds that count, under the settings of the selection.
Hits(score, o) ==
    IF o.exit > 0 THEN HysteresisMask(score, o.exit)
    ELSE [i \in 0 .. Seconds - 1 |-> score[i] > Threshold]

\* Select.
Select(score, o) ==
    LET merged == MergeRuns(Runs(Hits(score, o)), o.gap)
        long == {k \in DOMAIN merged : Duration(merged[k]) >= o.min}
    IN  TopSegments(score,
                    [k \in long |-> Padded(BestWindow(score, merged[k], o.max))],
                    o.perClip)

\* ffmpeg decodes the recording (Probe, Score).
Probe ==
    /\ scores = <<>> /\ scores' \in Clip
    /\ UNCHANGED <<options, cuts, selected>>

\* analyzeClip selects under the settings of the moment.
Analyze ==
    /\ scores # <<>> /\ ~selected /\ selected' = TRUE
    /\ \E o \in SelectionOptions :
          options' = o /\ \E segs \in Select(scores, o) : cuts' = segs
    /\ UNCHANGED scores

SelectionNext == Probe \/ Analyze

-----------------------------------------------------------------------------
(* What the cuts are, second by second.                                    *)

\* Above the threshold, or not below exit ever since (score.go:133-139).
IsHit(i) ==
    IF options.exit = 0 THEN scores[i] > Threshold
    ELSE \E j \in 0 .. i : /\ scores[j] > Threshold
                           /\ \A k \in j + 1 .. i : scores[k] >= options.exit

\* No gap seconds in a row without a hit from i to j (highlight.go:35-38).
Together(i, j) ==
    /\ IsHit(i) /\ IsHit(j)
    /\ \A q \in i .. j - options.gap + 1 :
          \E k \in q .. q + options.gap - 1 : IsHit(k)

\* The longest stretches of seconds that belong together, if long enough.
Stretches ==
    LET inside == {ij \in (0 .. Seconds - 1) \X (0 .. Seconds - 1) :
                      ij[1] <= ij[2] /\ Together(ij[1], ij[2])}
    IN  {[start |-> ij[1], end |-> ij[2] + 1] :
            ij \in {p \in inside :
                      /\ \A q \in inside : q[1] <= p[1] /\ q[2] >= p[2] => q = p
                      /\ p[2] + 1 - p[1] >= options.min}}

\* The part of a stretch that is kept: of the longest allowed, one with the
\* highest scores.
IsBestPart(w, s) ==
    LET length == IF Duration(s) > options.max THEN options.max ELSE Duration(s)
        parts == {[start |-> i, end |-> i + length] : i \in s.start .. s.end - length}
    IN  /\ w \in parts
        /\ \A v \in parts : /\ Total(scores, v) <= Total(scores, w)
                            /\ Total(scores, v) = Total(scores, w) => w.start <= v.start

\* Cut c is of stretch s: its best part with the padding on either side.
IsCutOf(c, s) == \E w \in Segment : IsBestPart(w, s) /\ c = Padded(w)

\* The cuts are the best parts of the stretches with the highest averages, as
\* many as are allowed and each once, in order of time (score.go:179-183), ...
SegmentsAreBest ==
    \E of \in [DOMAIN cuts -> Stretches] :
        /\ IsInjective(of)
        /\ \A i \in DOMAIN cuts : IsCutOf(cuts[i], of[i])
        /\ Len(cuts) = Kept(Stretches, options.perClip)
        /\ \A i, j \in DOMAIN cuts : i < j => cuts[i].start <= cuts[j].start
        /\ \A i \in DOMAIN cuts, s \in Stretches \ Range(of) :
              \A c \in Segment : IsCutOf(c, s) => ~HigherMean(scores, c, cuts[i])

\* ... and Cut takes no second twice, unless the padding is wider than the gaps
\* that part two of them.
NothingTwice ==
    options.gap >= 2 * Pad =>
        \A i, j \in DOMAIN cuts : i < j => cuts[i].end <= cuts[j].start

\* The highlight of a recording is what the comments say: the scan that masks,
\* merges, trims and pads finds the stretches defined second by second, loses
\* none of the best and repeats no second (Select, score.go:184-226).
HighlightIsRight == selected => SegmentsAreBest /\ NothingTwice
=============================================================================
