---------------------------- MODULE TimelineOps ----------------------------
(***************************************************************************)
(* TimelineAccumulator, ChannelSpans and leak_split of                     *)
(* src/src/mcap_timeline.rs as operators: what each method returns, or     *)
(* leaves of its receiver.  Timeline feeds them any spans and records,     *)
(* McapRead the data of a recording.                                       *)
(***************************************************************************)
EXTENDS Integers, Sequences, FiniteSets, FiniteSetsExt

CONSTANTS
    STEP_GAP_NS,
    MaxTime,    \* u64::MAX, where Shifted saturates
    None

Time == 0..MaxTime
Span == {s \in [start_ns : Time, end_ns : Time] : s.start_ns <= s.end_ns}
GapKinds == {"Step", "Split", "Pause"}
Gap == [at : Time, jump : Int, kind : GapKinds]
Closed == [segment : Nat, earlier : Span \cup {None}, last : Span,
           duration_ns : Nat, gap : Gap \cup {None}]
Accumulator ==
    [authoritative : BOOLEAN, total_ns : Nat, clock_steps : Nat,
     segment : Nat, next_segment : Nat,
     earlier : Span \cup {None}, last : Span \cup {None},
     gap : Gap \cup {None}, previous : Closed \cup {None},
     merged : SUBSET [from : Nat, into : Nat, offset : Int],
     abandoned : SUBSET Nat]

-----------------------------------------------------------------------------
(* Arithmetic and spans.                                                   *)

Abs(x) == IF x < 0 THEN -x ELSE x
SaturatingSub(x, y) == IF x >= y THEN x - y ELSE 0
Clamp(t) == IF t < 0 THEN 0 ELSE IF t > MaxTime THEN MaxTime ELSE t

Length(s) == SaturatingSub(s.end_ns, s.start_ns)
Shifted(s, offset) == [start_ns |-> Clamp(s.start_ns + offset),
                       end_ns |-> Clamp(s.end_ns + offset)]
Merge(s, t) ==
    [start_ns |-> IF s.start_ns <= t.start_ns THEN s.start_ns ELSE t.start_ns,
     end_ns |-> IF s.end_ns >= t.end_ns THEN s.end_ns ELSE t.end_ns]
MergeInto(option, s) == IF option = None THEN s ELSE Merge(option, s)

-----------------------------------------------------------------------------
(* TimelineAccumulator.                                                    *)

NewAccumulator(authoritative) ==
    [authoritative |-> authoritative, total_ns |-> 0, clock_steps |-> 0,
     segment |-> 0, next_segment |-> 0, earlier |-> None, last |-> None,
     gap |-> None, previous |-> None, merged |-> {}, abandoned |-> {}]

\* Variant: a span shorter than the step is trimmed too.
TrimmedAlways(last, trim) == [last EXCEPT !.end_ns = @ - trim]

\* A span that may hold data of after the step ends earlier by its size.
Trimmed(last, trim) ==
    IF Length(last) >= trim THEN [last EXCEPT !.end_ns = @ - trim] ELSE last

\* Closes the open segment, its last span trimmed.
Close(a, trim) ==
    LET last == Trimmed(a.last, trim)
        duration == Length(MergeInto(a.earlier, last))
    IN  IF a.last = None
        THEN [a EXCEPT !.earlier = None]
        ELSE [a EXCEPT !.total_ns = @ + duration,
                       !.segment = a.next_segment + 1,
                       !.next_segment = @ + 1,
                       !.earlier = None,
                       !.last = None,
                       !.previous = [segment |-> a.segment, earlier |-> a.earlier,
                                     last |-> last, duration_ns |-> duration,
                                     gap |-> a.gap]]

\* Variant: the joined segment stays the open one's index.
SettleKeepsSegment(a) ==
    LET p == a.previous
    IN  IF a.gap = None \/ p = None
        THEN a
        ELSE IF a.gap.kind # "Pause"
        THEN a
        ELSE [a EXCEPT !.total_ns = SaturatingSub(@, p.duration_ns),
                       !.merged = @ \cup {[from |-> a.segment, into |-> p.segment, offset |-> 0]},
                       !.earlier = MergeInto(@, MergeInto(p.earlier, p.last)),
                       !.gap = p.gap,
                       !.previous = None]

\* A tentative pause becomes one: the open segment joins the previous one.
SettlePause(a) ==
    LET p == a.previous
        before == MergeInto(p.earlier, p.last)
    IN  IF a.gap = None \/ p = None
        THEN a
        ELSE IF a.gap.kind # "Pause"
        THEN a
        ELSE [a EXCEPT !.total_ns = SaturatingSub(@, p.duration_ns),
                       !.merged = @ \cup {[from |-> a.segment, into |-> p.segment, offset |-> 0]},
                       !.segment = p.segment,
                       !.earlier = MergeInto(@, before),
                       !.gap = p.gap,
                       !.previous = None]

\* Does span return from a stray excursion, the open segment?
Returns(a, span) ==
    /\ a.gap # None
    /\ a.previous # None
    /\ a.last # None
    /\ Length(MergeInto(a.earlier, a.last)) <= STEP_GAP_NS
    /\ Abs(span.start_ns - a.previous.last.end_ns) <= STEP_GAP_NS

\* Variant: the jump into the excursion still counts.
ReopenedCounted(a) ==
    [a EXCEPT !.total_ns = SaturatingSub(@, a.previous.duration_ns),
              !.abandoned = @ \cup {a.segment},
              !.segment = a.previous.segment,
              !.earlier = a.previous.earlier,
              !.last = a.previous.last,
              !.gap = a.previous.gap,
              !.previous = None]

\* Variant: the data before the excursion is forgotten but for its last span.
ReopenedShort(a) ==
    [a EXCEPT !.total_ns = SaturatingSub(@, a.previous.duration_ns),
              !.clock_steps = IF a.gap.kind = "Step" THEN SaturatingSub(@, 1) ELSE @,
              !.abandoned = @ \cup {a.segment},
              !.segment = a.previous.segment,
              !.earlier = None,
              !.last = a.previous.last,
              !.gap = a.previous.gap,
              !.previous = None]

\* The excursion is dropped and the segment before it open again.
Reopened(a) ==
    [a EXCEPT !.total_ns = SaturatingSub(@, a.previous.duration_ns),
              !.clock_steps = IF a.gap.kind = "Step" THEN SaturatingSub(@, 1) ELSE @,
              !.abandoned = @ \cup {a.segment},
              !.segment = a.previous.segment,
              !.earlier = a.previous.earlier,
              !.last = a.previous.last,
              !.gap = a.previous.gap,
              !.previous = None]

\* What a jump is taken for.
KindOf(a, jump) ==
    IF ~a.authoritative THEN "Step" ELSE IF jump > 0 THEN "Pause" ELSE "Split"

\* A jump that no excursion explains closes the open segment.
Opened(a, span) ==
    LET jump == span.start_ns - a.last.end_ns
        kind == KindOf(a, jump)
        c == Close(SettlePause(a), 0)
    IN  [c EXCEPT !.clock_steps = IF kind = "Step" THEN @ + 1 ELSE @,
                  !.gap = [at |-> span.start_ns, jump |-> jump, kind |-> kind]]

\* The accumulator as the jump, if there is one, leaves it.
AfterJump(a, span) ==
    IF a.last = None THEN a
    ELSE IF Abs(span.start_ns - a.last.end_ns) <= STEP_GAP_NS THEN a
    ELSE IF Returns(a, span) THEN Reopened(a)
    ELSE Opened(a, span)

Push(a, span) ==
    LET b == AfterJump(a, span)
        earlier == IF b.last = None THEN b.earlier ELSE MergeInto(b.earlier, b.last)
        c == [b EXCEPT !.earlier = earlier, !.last = span]
    IN  IF Length(MergeInto(earlier, span)) > STEP_GAP_NS THEN SettlePause(c) ELSE c

\* Does a record of this size describe the jump that opened the segment, and
\* how long was the pause beside it (Gap::described_by)?
Paused(gap, step) ==
    LET paused == gap.jump - step IN IF Abs(paused) <= STEP_GAP_NS THEN 0 ELSE paused
DescribedBy(gap, step, last) ==
    /\ last = None \/ SaturatingSub(last.end_ns, gap.at) <= STEP_GAP_NS
    /\ \/ Paused(gap, step) = 0
       \/ Paused(gap, step) > 0 /\ (gap.jump > 0) = (step > 0)

\* Variant: the previous segment is read but not taken.
JoinKeepsPrevious(a, step, paused) ==
    LET p == a.previous
        before == Shifted(MergeInto(p.earlier, p.last), step)
    IN  IF p = None
        THEN [a EXCEPT !.total_ns = @ + paused]
        ELSE [a EXCEPT !.total_ns = SaturatingSub(@, p.duration_ns),
                       !.merged = @ \cup {[from |-> p.segment, into |-> a.segment, offset |-> step]},
                       !.earlier = MergeInto(@, before),
                       !.gap = None]

\* The previous segment joins the open one, moved by the step into its clock;
\* without one, the pause counts in the duration only.
JoinAcrossStep(a, step, paused) ==
    LET p == a.previous
        before == Shifted(MergeInto(p.earlier, p.last), step)
    IN  IF p = None
        THEN [a EXCEPT !.total_ns = @ + paused]
        ELSE [a EXCEPT !.total_ns = SaturatingSub(@, p.duration_ns),
                       !.merged = @ \cup {[from |-> p.segment, into |-> a.segment, offset |-> step]},
                       !.earlier = MergeInto(@, before),
                       !.gap = None,
                       !.previous = None]

\* A record confirms the jump it describes, or closes the segment as a step.
RecordStep(a, step, trim) ==
    IF a.gap # None /\ DescribedBy(a.gap, step, a.last)
    THEN LET paused == Paused(a.gap, step)
             b == [a EXCEPT !.gap = None,
                            !.clock_steps = IF a.gap.kind # "Step" THEN @ + 1 ELSE @]
         IN  IF a.authoritative /\ paused > 0 THEN JoinAcrossStep(b, step, paused) ELSE b
    ELSE LET s == [SettlePause(a) EXCEPT !.gap = None]
         IN  [Close(s, IF trim THEN Abs(step) ELSE 0) EXCEPT !.clock_steps = @ + 1]

-----------------------------------------------------------------------------
(* ChannelSpans and finishing.                                             *)

PushSpan(e, segment, span) ==
    [s \in DOMAIN e \cup {segment} |->
        IF s # segment THEN e[s]
        ELSE IF s \in DOMAIN e THEN Merge(e[s], span) ELSE span]

\* The segment that segment is joined to in the end, and the offset to its
\* clock, after following at most n joins.
Canonical(merged, segment, n) ==
    LET hop[k \in 0..n] ==
            IF k = 0 THEN [segment |-> segment, offset |-> 0]
            ELSE LET h == hop[k - 1]
                     m == CHOOSE x \in merged : x.from = h.segment
                 IN  IF \E x \in merged : x.from = h.segment
                     THEN [segment |-> m.into, offset |-> h.offset + m.offset]
                     ELSE h
    IN  hop[n]

\* finish_merged: the extent of each segment the channel is left in.
JoinedExtents(a, e) ==
    LET kept == DOMAIN e \ a.abandoned
        root(s) == Canonical(a.merged, s, Cardinality(a.merged))
        moved(s) == Shifted(e[s], root(s).offset)
        of(r) == {s \in kept : root(s).segment = r}
    IN  [r \in {root(s).segment : s \in kept} |->
            [start_ns |-> Min({moved(s).start_ns : s \in of(r)}),
             end_ns |-> Max({moved(s).end_ns : s \in of(r)})]]

SpanNs(joined) == MapThenSumSet(LAMBDA s : Length(joined[s]), DOMAIN joined)

\* finish_with_spans: the accumulator it turns into a Timeline.
Finished(a) == Close(SettlePause(a), 0)

-----------------------------------------------------------------------------
(* leak_split: of the messages written before a record, how many were      *)
(* taken before the step.  A message is a pair of its log_time and its     *)
(* channel; before and after are the times on either side, or None.        *)

\* Variant: what was written before a record was taken before the step.
SplitNever(times, step, before, after) == Len(times)

LeakSplit(times, step, before, after) ==
    LET points == (IF before = None THEN <<>> ELSE <<before>>)
                    \o [i \in DOMAIN times |-> times[i][1]]
        e == points[Len(points)]
        delta(i) == points[i] - points[i - 1]
        miss(i) == Abs(delta(i) - step)
        \* The data after the record go on in the time base of the last message.
        leaks == after = None \/ Abs(after - e) < Abs(after - e - step)
        pairs == {i \in 2..Len(points) :
                    /\ \A j \in i..Len(points) : Abs(points[j] - e) <= STEP_GAP_NS
                    /\ miss(i) <= STEP_GAP_NS /\ miss(i) < Abs(delta(i))}
        best == {i \in pairs :
                    \A j \in pairs : miss(i) < miss(j) \/ (miss(i) = miss(j) /\ i >= j)}
    IN  IF times = <<>> \/ ~leaks \/ pairs = {} THEN Len(times)
        ELSE Max(best) - 1 - (Len(points) - Len(times))
=============================================================================
