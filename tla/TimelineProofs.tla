-------------------------- MODULE TimelineProofs --------------------------
(***************************************************************************)
(* Proofs about Timeline for files of any length, any spans, any records   *)
(* and any gap: the types, that what is taken back was added, what the     *)
(* number of clock steps means, with and without authoritative records,    *)
(* that a stray excursion leaves no trace, that following joins ends, and  *)
(* that the channel in every chunk lasts as long as the recording.         *)
(*                                                                         *)
(* The last is about two accounts of the same data.  The accumulator keeps *)
(* a total and merges spans as segments are joined; the channel keeps what *)
(* was pushed, and its segments are joined at the end.  The extents of the *)
(* joined segments, X in the lemmas, tell both: each is the least span     *)
(* around what is joined to it (Covers), and the total is the sum of all   *)
(* but the open one's (Tallies).  Every method changes X in one of four    *)
(* ways: a span is pushed, a segment is joined, closed or abandoned.       *)
(***************************************************************************)
EXTENDS Timeline, InductionProofs

\* With authoritative records no jump is a step, without them every one is.
OfMode(a, gap) ==
    gap # None => IF a.authoritative THEN gap.kind # "Step" ELSE gap.kind = "Step"

\* Segments have an index of their own, and abandoned ones do not come back.
Distinct(a) ==
    /\ a.segment <= a.next_segment
    /\ a.segment \notin a.abandoned
    /\ IsFiniteSet(a.abandoned)
    /\ a.abandoned \subseteq 0..a.next_segment
    /\ a.previous # None =>
          /\ a.previous.segment <= a.next_segment
          /\ a.previous.segment # a.segment
          /\ a.previous.segment \notin a.abandoned

\* What may be taken back is there: the time of the previous segment, and
\* without authority one step for the jump to the open segment and another
\* for the jump to the previous one.
Backed(a) ==
    /\ OfMode(a, a.gap)
    /\ a.previous # None =>
          /\ OfMode(a, a.previous.gap)
          /\ a.total_ns >= a.previous.duration_ns
    /\ ~a.authoritative =>
          /\ a.gap # None => a.clock_steps >= 1
          /\ a.previous # None /\ a.previous.gap # None => a.clock_steps >= 1
          /\ a.gap # None /\ a.previous # None /\ a.previous.gap # None => a.clock_steps >= 2

Sound(a) == a \in Accumulator /\ Distinct(a) /\ Backed(a)

\* A jump opens a segment with the span after it.
GapHasData(a) == a.gap # None => a.last # None

\* The steps that are not boundaries between kept segments; all steps, when
\* records are authoritative.
Excess(a) ==
    IF a.authoritative THEN a.clock_steps
    ELSE a.clock_steps - a.next_segment + Cardinality(a.abandoned)

-----------------------------------------------------------------------------
(* Spans.                                                                  *)

LEMMA LengthType == ASSUME NEW s \in Span PROVE Length(s) \in Nat
BY DEF Length, SaturatingSub, Span, Time

LEMMA MergeType == ASSUME NEW s \in Span, NEW t \in Span PROVE Merge(s, t) \in Span
BY TimelineAssumption DEF Merge, Span, Time

LEMMA MergeIntoType ==
    ASSUME NEW o \in Span \cup {None}, NEW s \in Span PROVE MergeInto(o, s) \in Span
BY MergeType DEF MergeInto

LEMMA ShiftedType == ASSUME NEW s \in Span, NEW n \in Int PROVE Shifted(s, n) \in Span
BY TimelineAssumption DEF Shifted, Clamp, Span, Time

LEMMA TrimmedType == ASSUME NEW s \in Span, NEW n \in Nat PROVE Trimmed(s, n) \in Span
BY TimelineAssumption DEF Trimmed, Length, SaturatingSub, Span, Time

-----------------------------------------------------------------------------
(* The accumulator.                                                        *)

\* Close, for an open segment.
LEMMA CloseFields ==
    ASSUME NEW a \in Accumulator, NEW trim \in Nat, a.last # None
    PROVE  LET c == Close(a, trim)
           IN  /\ c \in Accumulator
               /\ c.authoritative = a.authoritative
               /\ c.clock_steps = a.clock_steps
               /\ c.segment = a.next_segment + 1
               /\ c.next_segment = a.next_segment + 1
               /\ c.gap = a.gap
               /\ c.previous # None
               /\ c.previous.segment = a.segment
               /\ c.previous.gap = a.gap
               /\ c.total_ns >= c.previous.duration_ns
               /\ c.abandoned = a.abandoned
<1> DEFINE last == Trimmed(a.last, trim)
           d == Length(MergeInto(a.earlier, last))
           p == [segment |-> a.segment, earlier |-> a.earlier,
                 last |-> last, duration_ns |-> d, gap |-> a.gap]
<1>1. last \in Span
  BY TrimmedType DEF Accumulator
<1>2. d \in Nat
  BY <1>1, MergeIntoType, LengthType DEF Accumulator
<1>3. p \in Closed
  BY <1>1, <1>2 DEF Closed, Accumulator
<1>4. p # None
  BY <1>3, TimelineAssumption
<1> HIDE DEF last, d
<1>5. Close(a, trim) = [a EXCEPT !.total_ns = @ + d,
                       !.segment = a.next_segment + 1,
                       !.next_segment = @ + 1,
                       !.earlier = None,
                       !.last = None,
                       !.previous = p]
  BY DEF Close, last, d
<1> HIDE DEF p
<1>6. p.segment = a.segment /\ p.gap = a.gap /\ p.duration_ns = d
  BY DEF p
<1>7. Close(a, trim) \in Accumulator
  <2>1. a.total_ns + d \in Nat /\ a.next_segment + 1 \in Nat
    BY <1>2 DEF Accumulator
  <2>2. Close(a, trim) = [authoritative |-> a.authoritative, total_ns |-> a.total_ns + d,
              clock_steps |-> a.clock_steps, segment |-> a.next_segment + 1,
              next_segment |-> a.next_segment + 1, earlier |-> None, last |-> None,
              gap |-> a.gap, previous |-> p, merged |-> a.merged, abandoned |-> a.abandoned]
    BY <1>5 DEF Accumulator
  <2> QED
    BY <1>3, <2>1, <2>2 DEF Accumulator
<1>8. /\ Close(a, trim).authoritative = a.authoritative
      /\ Close(a, trim).clock_steps = a.clock_steps
      /\ Close(a, trim).segment = a.next_segment + 1
      /\ Close(a, trim).next_segment = a.next_segment + 1
      /\ Close(a, trim).gap = a.gap
      /\ Close(a, trim).abandoned = a.abandoned
      /\ Close(a, trim).previous = p
      /\ Close(a, trim).total_ns = a.total_ns + d
  BY <1>5 DEF Accumulator
<1>9. a.total_ns + d >= d
  BY <1>2 DEF Accumulator
<1> QED
  BY <1>4, <1>6, <1>7, <1>8, <1>9

\* SettlePause joins segments; it neither counts nor uncounts a step.
LEMMA SettleSound ==
    ASSUME NEW a, Sound(a)
    PROVE  /\ Sound(SettlePause(a))
           /\ Excess(SettlePause(a)) = Excess(a)
           /\ SettlePause(a).authoritative = a.authoritative
           /\ SettlePause(a).next_segment = a.next_segment
           /\ SettlePause(a).last = a.last
           /\ SettlePause(a).gap # None => a.gap # None
<1> DEFINE p == a.previous
           before == MergeInto(p.earlier, p.last)
           s == SettlePause(a)
<1> USE DEF Sound
<1>1. CASE a.gap = None \/ p = None \/ a.gap.kind # "Pause"
  BY <1>1 DEF SettlePause
<1>2. CASE a.gap # None /\ p # None /\ a.gap.kind = "Pause"
  <2>1. p \in Closed
    BY <1>2 DEF Accumulator
  <2>2. before \in Span
    BY <2>1, MergeIntoType DEF Closed
  <2> DEFINE total == SaturatingSub(a.total_ns, p.duration_ns)
             merged == a.merged \cup {[from |-> a.segment, into |-> p.segment, offset |-> 0]}
             earlier == MergeInto(a.earlier, before)
  <2>3. total \in Nat
    BY <2>1 DEF SaturatingSub, Closed, Accumulator
  <2>4. merged \in SUBSET [from : Nat, into : Nat, offset : Int]
    BY <2>1 DEF Closed, Accumulator
  <2>5. earlier \in Span
    BY <2>2, MergeIntoType DEF Accumulator
  <2>6. s = [a EXCEPT !.total_ns = total, !.merged = merged, !.segment = p.segment,
                      !.earlier = earlier, !.gap = p.gap, !.previous = None]
    BY <1>2 DEF SettlePause
  <2> HIDE DEF total, merged, earlier, before, s
  <2>7. s = [authoritative |-> a.authoritative, total_ns |-> total,
             clock_steps |-> a.clock_steps, segment |-> p.segment,
             next_segment |-> a.next_segment, earlier |-> earlier, last |-> a.last,
             gap |-> p.gap, previous |-> None, merged |-> merged, abandoned |-> a.abandoned]
    BY <2>6 DEF Accumulator
  <2>8. s \in Accumulator
    BY <2>1, <2>3, <2>4, <2>5, <2>7 DEF Accumulator, Closed
  <2>9. Distinct(s)
    BY <1>2, <2>7 DEF Distinct
  <2>10. Backed(s)
    BY <1>2, <2>7 DEF Backed, OfMode
  <2> QED
    BY <1>2, <2>7, <2>8, <2>9, <2>10 DEF Excess, s
<1> QED
  BY <1>1, <1>2

\* Opened: without authority the jump is a step and a new boundary.
LEMMA OpenedSound ==
    ASSUME NEW a, Sound(a), NEW span \in Span, a.last # None
    PROVE  /\ Sound(Opened(a, span))
           /\ Excess(Opened(a, span)) = Excess(a)
           /\ Opened(a, span).authoritative = a.authoritative
           /\ Opened(a, span).next_segment >= a.next_segment
<1> DEFINE jump == span.start_ns - a.last.end_ns
           kind == KindOf(a, jump)
           s == SettlePause(a)
           c == Close(s, 0)
           steps == IF kind = "Step" THEN c.clock_steps + 1 ELSE c.clock_steps
           gap == [at |-> span.start_ns, jump |-> jump, kind |-> kind]
           o == Opened(a, span)
<1> USE DEF Sound
<1>1. s \in Accumulator /\ Distinct(s) /\ Backed(s) /\ s.last # None
      /\ s.authoritative = a.authoritative /\ Excess(s) = Excess(a)
      /\ s.next_segment = a.next_segment
  BY SettleSound
<1>2. /\ c \in Accumulator
      /\ c.authoritative = s.authoritative
      /\ c.clock_steps = s.clock_steps
      /\ c.segment = s.next_segment + 1
      /\ c.next_segment = s.next_segment + 1
      /\ c.gap = s.gap
      /\ c.previous # None
      /\ c.previous.segment = s.segment
      /\ c.previous.gap = s.gap
      /\ c.total_ns >= c.previous.duration_ns
      /\ c.abandoned = s.abandoned
  BY <1>1, CloseFields
<1>3. kind \in GapKinds /\ (IF a.authoritative THEN kind # "Step" ELSE kind = "Step")
  BY DEF KindOf, GapKinds
<1>4. gap \in Gap /\ gap # None /\ gap.kind = kind
  <2>1. span.start_ns \in Time /\ a.last.end_ns \in Time
    BY DEF Span, Accumulator
  <2>2. gap \in Gap
    BY <1>3, <2>1, TimelineAssumption DEF Gap, Time
  <2> QED BY <2>2, TimelineAssumption
<1>5. o = [c EXCEPT !.clock_steps = steps, !.gap = gap]
  BY DEF Opened
<1> HIDE DEF s, c, kind, gap, jump, o
<1>6. steps \in Nat
  BY <1>2 DEF Accumulator
<1> HIDE DEF steps
<1>7. o = [authoritative |-> c.authoritative, total_ns |-> c.total_ns,
           clock_steps |-> steps, segment |-> c.segment,
           next_segment |-> c.next_segment, earlier |-> c.earlier, last |-> c.last,
           gap |-> gap, previous |-> c.previous, merged |-> c.merged, abandoned |-> c.abandoned]
  BY <1>2, <1>5 DEF Accumulator
<1>8. o \in Accumulator
  BY <1>2, <1>4, <1>6, <1>7 DEF Accumulator
<1>9. Distinct(o)
  BY <1>1, <1>2, <1>7 DEF Distinct, Accumulator
<1>10. Backed(o)
  BY <1>1, <1>2, <1>3, <1>4, <1>7 DEF Backed, OfMode, Accumulator, steps
<1>11. Excess(o) = Excess(s)
  <2>1. Cardinality(s.abandoned) \in Nat
    BY <1>1, FS_CardinalityType DEF Distinct
  <2> QED
    BY <1>1, <1>2, <1>3, <1>7, <2>1 DEF Excess, Accumulator, steps
<1>12. o.next_segment >= a.next_segment
  BY <1>1, <1>2, <1>7 DEF Accumulator
<1> QED
  BY <1>1, <1>2, <1>7, <1>8, <1>9, <1>10, <1>11, <1>12 DEF o

\* Reopened: the excursion's boundary goes, and without authority its step.
LEMMA ReopenedSound ==
    ASSUME NEW a, Sound(a), a.gap # None, a.previous # None
    PROVE  /\ Sound(Reopened(a))
           /\ Excess(Reopened(a)) = Excess(a)
           /\ Reopened(a).authoritative = a.authoritative
           /\ Reopened(a).next_segment = a.next_segment
<1> DEFINE p == a.previous
           total == SaturatingSub(a.total_ns, p.duration_ns)
           steps == IF a.gap.kind = "Step" THEN SaturatingSub(a.clock_steps, 1) ELSE a.clock_steps
           abandoned == a.abandoned \cup {a.segment}
           r == Reopened(a)
<1> USE DEF Sound
<1>1. p \in Closed
  BY DEF Accumulator
<1>2. total \in Nat /\ steps \in Nat
  BY <1>1 DEF SaturatingSub, Closed, Accumulator
<1>3. abandoned \in SUBSET Nat
  BY DEF Accumulator
<1>4. r = [a EXCEPT !.total_ns = total, !.clock_steps = steps, !.abandoned = abandoned,
                    !.segment = p.segment, !.earlier = p.earlier, !.last = p.last,
                    !.gap = p.gap, !.previous = None]
  BY DEF Reopened
<1> HIDE DEF total, steps, abandoned, r
<1>5. r = [authoritative |-> a.authoritative, total_ns |-> total,
           clock_steps |-> steps, segment |-> p.segment,
           next_segment |-> a.next_segment, earlier |-> p.earlier, last |-> p.last,
           gap |-> p.gap, previous |-> None, merged |-> a.merged, abandoned |-> abandoned]
  BY <1>4 DEF Accumulator
<1>6. r \in Accumulator
  BY <1>1, <1>2, <1>3, <1>5 DEF Accumulator, Closed
<1>7. /\ IsFiniteSet(abandoned)
      /\ Cardinality(abandoned) = Cardinality(a.abandoned) + 1
      /\ Cardinality(a.abandoned) \in Nat
  BY FS_AddElement, FS_CardinalityType DEF Distinct, abandoned
<1>8. Distinct(r)
  BY <1>5, <1>7 DEF Distinct, Accumulator, abandoned
<1>9. /\ a.authoritative => steps = a.clock_steps
      /\ ~a.authoritative => a.clock_steps >= 1 /\ steps = a.clock_steps - 1
  BY DEF Backed, OfMode, SaturatingSub, Accumulator, steps
<1>10. Backed(r)
  BY <1>5, <1>9 DEF Backed, OfMode, Accumulator
<1>11. Excess(r) = Excess(a)
  BY <1>5, <1>7, <1>9 DEF Excess, Accumulator
<1> QED
  BY <1>5, <1>6, <1>8, <1>10, <1>11 DEF r

LEMMA AfterJumpSound ==
    ASSUME NEW a, Sound(a), NEW span \in Span
    PROVE  /\ Sound(AfterJump(a, span))
           /\ Excess(AfterJump(a, span)) = Excess(a)
           /\ AfterJump(a, span).authoritative = a.authoritative
           /\ AfterJump(a, span).next_segment >= a.next_segment
BY OpenedSound, ReopenedSound DEF AfterJump, Returns, Sound, Accumulator

\* push: whatever the span makes of the jump, no step without a boundary.
LEMMA PushSound ==
    ASSUME NEW a, Sound(a), NEW span \in Span
    PROVE  /\ Sound(Push(a, span)) /\ GapHasData(Push(a, span))
           /\ Excess(Push(a, span)) = Excess(a)
           /\ Push(a, span).authoritative = a.authoritative
           /\ Push(a, span).last # None
           /\ Push(a, span).next_segment >= a.next_segment
<1> DEFINE b == AfterJump(a, span)
           earlier == IF b.last = None THEN b.earlier ELSE MergeInto(b.earlier, b.last)
           c == [b EXCEPT !.earlier = earlier, !.last = span]
<1>1. b \in Accumulator /\ Distinct(b) /\ Backed(b)
      /\ Excess(b) = Excess(a) /\ b.authoritative = a.authoritative
      /\ b.next_segment >= a.next_segment
  BY AfterJumpSound DEF Sound
<1>2. earlier \in Span \cup {None}
  BY <1>1, MergeIntoType DEF Accumulator
<1>3. Push(a, span) = IF Length(MergeInto(earlier, span)) > STEP_GAP_NS THEN SettlePause(c) ELSE c
  BY DEF Push
<1>0. b \in Accumulator /\ c = [b EXCEPT !.earlier = earlier, !.last = span]
  BY <1>1
<1> HIDE DEF b, earlier, c
<1>4. c = [authoritative |-> b.authoritative, total_ns |-> b.total_ns,
           clock_steps |-> b.clock_steps, segment |-> b.segment,
           next_segment |-> b.next_segment, earlier |-> earlier, last |-> span,
           gap |-> b.gap, previous |-> b.previous, merged |-> b.merged, abandoned |-> b.abandoned]
  BY <1>0 DEF Accumulator
<1>5. c \in Accumulator
  BY <1>1, <1>2, <1>4 DEF Accumulator
<1>6. Distinct(c) /\ Backed(c) /\ Excess(c) = Excess(b)
  BY <1>1, <1>4 DEF Distinct, Backed, OfMode, Excess
<1>7. span # None
  BY TimelineAssumption
<1>8. c.last = span /\ c.authoritative = b.authoritative /\ c.next_segment = b.next_segment
  BY <1>4
<1> QED
  BY <1>1, <1>3, <1>5, <1>6, <1>7, <1>8, SettleSound DEF Sound, GapHasData

\* join_across_step, after the record has confirmed the jump.
LEMMA JoinSound ==
    ASSUME NEW a, Sound(a), a.gap = None, NEW step \in Int, NEW paused \in Nat
    PROVE  /\ Sound(JoinAcrossStep(a, step, paused))
           /\ Excess(JoinAcrossStep(a, step, paused)) = Excess(a)
           /\ JoinAcrossStep(a, step, paused).authoritative = a.authoritative
           /\ JoinAcrossStep(a, step, paused).gap = None
           /\ JoinAcrossStep(a, step, paused).next_segment = a.next_segment
<1> DEFINE p == a.previous
           j == JoinAcrossStep(a, step, paused)
<1> USE DEF Sound
<1>1. CASE p = None
  <2>1. j = [a EXCEPT !.total_ns = a.total_ns + paused]
    BY <1>1 DEF JoinAcrossStep
  <2> HIDE DEF j
  <2>2. j = [authoritative |-> a.authoritative, total_ns |-> a.total_ns + paused,
             clock_steps |-> a.clock_steps, segment |-> a.segment,
             next_segment |-> a.next_segment, earlier |-> a.earlier, last |-> a.last,
             gap |-> a.gap, previous |-> a.previous, merged |-> a.merged, abandoned |-> a.abandoned]
    BY <2>1 DEF Accumulator
  <2>3. j \in Accumulator
    BY <2>2 DEF Accumulator
  <2>4. Distinct(j) /\ Backed(j) /\ Excess(j) = Excess(a)
    BY <1>1, <2>2 DEF Distinct, Backed, OfMode, Excess
  <2> QED BY <2>2, <2>3, <2>4 DEF j
<1>2. CASE p # None
  <2>1. p \in Closed
    BY <1>2 DEF Accumulator
  <2> DEFINE before == Shifted(MergeInto(p.earlier, p.last), step)
             total == SaturatingSub(a.total_ns, p.duration_ns)
             merged == a.merged \cup {[from |-> p.segment, into |-> a.segment, offset |-> step]}
             earlier == MergeInto(a.earlier, before)
  <2>2. before \in Span
    BY <2>1, MergeIntoType, ShiftedType DEF Closed
  <2>3. total \in Nat
    BY <2>1 DEF SaturatingSub, Closed, Accumulator
  <2>4. merged \in SUBSET [from : Nat, into : Nat, offset : Int]
    BY <2>1 DEF Closed, Accumulator
  <2>5. earlier \in Span
    BY <2>2, MergeIntoType DEF Accumulator
  <2>6. j = [a EXCEPT !.total_ns = total, !.merged = merged, !.earlier = earlier,
                      !.gap = None, !.previous = None]
    BY <1>2 DEF JoinAcrossStep
  <2> HIDE DEF total, merged, earlier, before, j
  <2>7. j = [authoritative |-> a.authoritative, total_ns |-> total,
             clock_steps |-> a.clock_steps, segment |-> a.segment,
             next_segment |-> a.next_segment, earlier |-> earlier, last |-> a.last,
             gap |-> None, previous |-> None, merged |-> merged, abandoned |-> a.abandoned]
    BY <2>6 DEF Accumulator
  <2>8. j \in Accumulator
    BY <2>3, <2>4, <2>5, <2>7 DEF Accumulator
  <2>9. Distinct(j) /\ Backed(j) /\ Excess(j) = Excess(a)
    BY <2>7 DEF Distinct, Backed, OfMode, Excess
  <2> QED BY <2>7, <2>8, <2>9 DEF j
<1> QED
  BY <1>1, <1>2

\* A record where no jump is open to be described ends the segment.
LEMMA ClosedByRecordSound ==
    ASSUME NEW a, Sound(a), NEW trim \in Nat
    PROVE  LET s == [SettlePause(a) EXCEPT !.gap = None]
               r == [Close(s, trim) EXCEPT !.clock_steps = @ + 1]
           IN  /\ Sound(r) /\ GapHasData(r)
               /\ Excess(r) = Excess(a) + (IF a.authoritative \/ a.last = None THEN 1 ELSE 0)
               /\ r.authoritative = a.authoritative
               /\ r.next_segment >= a.next_segment
<1> DEFINE t == SettlePause(a)
           s == [t EXCEPT !.gap = None]
           c == Close(s, trim)
           r == [c EXCEPT !.clock_steps = @ + 1]
<1> USE DEF Sound
<1>1. /\ t \in Accumulator /\ Distinct(t) /\ Backed(t)
      /\ Excess(t) = Excess(a) /\ t.authoritative = a.authoritative /\ t.last = a.last
      /\ t.next_segment = a.next_segment
  BY SettleSound
<1> HIDE DEF t
<1>2. /\ s \in Accumulator /\ s.gap = None /\ s.last = t.last
      /\ s.authoritative = t.authoritative /\ s.clock_steps = t.clock_steps
      /\ s.segment = t.segment /\ s.next_segment = t.next_segment
      /\ s.previous = t.previous /\ s.abandoned = t.abandoned /\ s.total_ns = t.total_ns
  <2>1. s = [authoritative |-> t.authoritative, total_ns |-> t.total_ns,
             clock_steps |-> t.clock_steps, segment |-> t.segment,
             next_segment |-> t.next_segment, earlier |-> t.earlier, last |-> t.last,
             gap |-> None, previous |-> t.previous, merged |-> t.merged, abandoned |-> t.abandoned]
    BY <1>1 DEF Accumulator
  <2> QED BY <1>1, <2>1 DEF Accumulator
<1>3. Distinct(s) /\ Backed(s) /\ Excess(s) = Excess(t)
  BY <1>1, <1>2 DEF Distinct, Backed, OfMode, Excess
<1> HIDE DEF s
<1>4. /\ c \in Accumulator
      /\ Distinct(c)
      /\ c.gap = None
      /\ c.authoritative = s.authoritative
      /\ c.clock_steps = s.clock_steps
      /\ c.abandoned = s.abandoned
      /\ c.next_segment = s.next_segment + (IF s.last = None THEN 0 ELSE 1)
      /\ (c.previous # None =>
            c.total_ns >= c.previous.duration_ns /\ OfMode(c, c.previous.gap))
  <2>1. CASE s.last = None
    <3>1. c = [authoritative |-> s.authoritative, total_ns |-> s.total_ns,
               clock_steps |-> s.clock_steps, segment |-> s.segment,
               next_segment |-> s.next_segment, earlier |-> None, last |-> s.last,
               gap |-> s.gap, previous |-> s.previous, merged |-> s.merged, abandoned |-> s.abandoned]
      BY <1>2, <2>1 DEF Close, Accumulator
    <3> QED
      BY <1>2, <1>3, <2>1, <3>1 DEF Accumulator, Distinct, Backed, OfMode
  <2>2. CASE s.last # None
    <3>1. /\ c \in Accumulator
          /\ c.authoritative = s.authoritative
          /\ c.clock_steps = s.clock_steps
          /\ c.segment = s.next_segment + 1
          /\ c.next_segment = s.next_segment + 1
          /\ c.gap = s.gap
          /\ c.previous # None
          /\ c.previous.segment = s.segment
          /\ c.previous.gap = s.gap
          /\ c.total_ns >= c.previous.duration_ns
          /\ c.abandoned = s.abandoned
      BY <1>2, <2>2, CloseFields
    <3>2. Distinct(c)
      BY <1>2, <1>3, <3>1 DEF Distinct, Accumulator
    <3> QED
      BY <1>2, <2>2, <3>1, <3>2 DEF OfMode
  <2> QED BY <2>1, <2>2
<1> HIDE DEF c
<1>5. c \in Accumulator /\ c.clock_steps + 1 \in Nat
  <2>1. c \in Accumulator BY <1>4
  <2> QED BY <2>1 DEF Accumulator
<1> DEFINE steps == c.clock_steps + 1
<1>6. r = [c EXCEPT !.clock_steps = steps]
  OBVIOUS
<1>7. steps \in Nat
  BY <1>5
<1> HIDE DEF r, steps
<1>8. r = [authoritative |-> c.authoritative, total_ns |-> c.total_ns,
           clock_steps |-> steps, segment |-> c.segment,
           next_segment |-> c.next_segment, earlier |-> c.earlier, last |-> c.last,
           gap |-> c.gap, previous |-> c.previous, merged |-> c.merged, abandoned |-> c.abandoned]
  BY <1>5, <1>6 DEF Accumulator
<1>9. r \in Accumulator
  BY <1>5, <1>7, <1>8 DEF Accumulator
<1>10. Distinct(r)
  <2>1. Distinct(c) BY <1>4
  <2> QED BY <2>1, <1>8 DEF Distinct
<1>11. Backed(r) /\ GapHasData(r)
  <2>1. r.gap = None /\ r.previous = c.previous /\ r.total_ns = c.total_ns
        /\ r.authoritative = c.authoritative /\ r.clock_steps >= 1
    BY <1>4, <1>5, <1>8 DEF steps, Accumulator
  <2>2. c.previous # None => c.total_ns >= c.previous.duration_ns /\ OfMode(c, c.previous.gap)
    BY <1>4
  <2> QED
    BY <2>1, <2>2 DEF Backed, OfMode, GapHasData
<1>12. Excess(r) = Excess(s) + (IF s.authoritative \/ s.last = None THEN 1 ELSE 0)
  <2>1. Cardinality(s.abandoned) \in Nat
    BY <1>3, FS_CardinalityType DEF Distinct
  <2>2. /\ r.authoritative = s.authoritative /\ r.abandoned = s.abandoned
        /\ r.clock_steps = s.clock_steps + 1
        /\ r.next_segment = s.next_segment + (IF s.last = None THEN 0 ELSE 1)
    BY <1>4, <1>8 DEF steps
  <2>3. s.clock_steps \in Nat /\ s.next_segment \in Nat
    BY <1>2 DEF Accumulator
  <2> QED
    BY <2>1, <2>2, <2>3 DEF Excess
<1>13. r.authoritative = a.authoritative /\ r.next_segment >= a.next_segment
  BY <1>1, <1>2, <1>4, <1>8 DEF Accumulator
<1> QED
  BY <1>1, <1>2, <1>3, <1>9, <1>10, <1>11, <1>12, <1>13 DEF r, c, s, t

\* A record that describes the jump confirms it as a step.
LEMMA ConfirmedSound ==
    ASSUME NEW a, Sound(a), a.gap # None
    PROVE  LET b == [a EXCEPT !.gap = None,
                              !.clock_steps = IF a.gap.kind # "Step" THEN @ + 1 ELSE @]
           IN  /\ Sound(b) /\ b.gap = None
               /\ Excess(b) = Excess(a) + (IF a.authoritative THEN 1 ELSE 0)
               /\ b.authoritative = a.authoritative
               /\ b.next_segment = a.next_segment
<1> DEFINE steps == IF a.gap.kind # "Step" THEN a.clock_steps + 1 ELSE a.clock_steps
           b == [a EXCEPT !.gap = None,
                          !.clock_steps = IF a.gap.kind # "Step" THEN @ + 1 ELSE @]
<1> USE DEF Sound
<1>1. steps = a.clock_steps + (IF a.authoritative THEN 1 ELSE 0)
  BY DEF Backed, OfMode, Accumulator
<1>2. b = [a EXCEPT !.gap = None, !.clock_steps = steps]
  OBVIOUS
<1> HIDE DEF steps, b
<1>3. b = [authoritative |-> a.authoritative, total_ns |-> a.total_ns,
           clock_steps |-> steps, segment |-> a.segment,
           next_segment |-> a.next_segment, earlier |-> a.earlier, last |-> a.last,
           gap |-> None, previous |-> a.previous, merged |-> a.merged, abandoned |-> a.abandoned]
  BY <1>2 DEF Accumulator
<1>4. b \in Accumulator
  BY <1>1, <1>3 DEF Accumulator
<1>5. Distinct(b) /\ Backed(b)
  BY <1>1, <1>3 DEF Distinct, Backed, OfMode, Accumulator
<1>6. Excess(b) = Excess(a) + (IF a.authoritative THEN 1 ELSE 0)
  <2>1. Cardinality(a.abandoned) \in Nat
    BY FS_CardinalityType DEF Distinct
  <2> QED
    BY <1>1, <1>3, <2>1 DEF Excess, Accumulator
<1> QED
  BY <1>3, <1>4, <1>5, <1>6 DEF b

\* record_step: one more step when records are authoritative; otherwise one
\* more than boundaries only where no segment is open.
LEMMA RecordStepSound ==
    ASSUME NEW a, Sound(a), GapHasData(a), NEW step \in Int, NEW trim \in BOOLEAN
    PROVE  /\ Sound(RecordStep(a, step, trim)) /\ GapHasData(RecordStep(a, step, trim))
           /\ Excess(RecordStep(a, step, trim)) =
                 Excess(a) + (IF a.authoritative \/ a.last = None THEN 1 ELSE 0)
           /\ RecordStep(a, step, trim).authoritative = a.authoritative
           /\ RecordStep(a, step, trim).next_segment >= a.next_segment
<1>1. CASE a.gap # None /\ DescribedBy(a.gap, step, a.last)
  <2> DEFINE paused == Paused(a.gap, step)
             b == [a EXCEPT !.gap = None,
                            !.clock_steps = IF a.gap.kind # "Step" THEN @ + 1 ELSE @]
  <2>1. RecordStep(a, step, trim) =
          IF a.authoritative /\ paused > 0 THEN JoinAcrossStep(b, step, paused) ELSE b
    BY <1>1 DEF RecordStep
  <2>2. /\ Sound(b) /\ b.gap = None
        /\ Excess(b) = Excess(a) + (IF a.authoritative THEN 1 ELSE 0)
        /\ b.authoritative = a.authoritative /\ b.next_segment = a.next_segment
    BY <1>1, ConfirmedSound
  <2>3. a.last # None
    BY <1>1 DEF GapHasData
  <2>4. paused \in Int
    <3>1. a.gap \in Gap
      BY <1>1 DEF Sound, Accumulator
    <3> QED BY <3>1 DEF Paused, Abs, Gap
  <2>5. a.next_segment \in Nat
    BY DEF Sound, Accumulator
  <2> HIDE DEF b, paused
  <2>6. CASE a.authoritative /\ paused > 0
    <3>1. paused \in Nat
      BY <2>4, <2>6
    <3> DEFINE j == JoinAcrossStep(b, step, paused)
    <3>2. /\ Sound(j) /\ Excess(j) = Excess(b) /\ j.authoritative = b.authoritative
          /\ j.gap = None /\ j.next_segment = b.next_segment
      BY <2>2, <3>1, JoinSound
    <3>3. RecordStep(a, step, trim) = j
      BY <2>1, <2>6
    <3> HIDE DEF j
    <3>4. j.next_segment >= a.next_segment
      <4>1. j.next_segment = a.next_segment
        BY <2>2, <3>2
      <4> QED BY <2>5, <4>1
    <3> QED
      BY <2>2, <2>3, <2>6, <3>2, <3>3, <3>4 DEF GapHasData
  <2>7. CASE ~(a.authoritative /\ paused > 0)
    BY <2>1, <2>2, <2>3, <2>5, <2>7 DEF GapHasData
  <2> QED BY <2>6, <2>7
<1>2. CASE ~(a.gap # None /\ DescribedBy(a.gap, step, a.last))
  <2> DEFINE n == IF trim THEN Abs(step) ELSE 0
  <2>1. n \in Nat
    BY DEF Abs
  <2> HIDE DEF n
  <2> DEFINE s == [SettlePause(a) EXCEPT !.gap = None]
             r == [Close(s, n) EXCEPT !.clock_steps = @ + 1]
  <2>2. /\ Sound(r) /\ GapHasData(r)
        /\ Excess(r) = Excess(a) + (IF a.authoritative \/ a.last = None THEN 1 ELSE 0)
        /\ r.authoritative = a.authoritative /\ r.next_segment >= a.next_segment
    BY <2>1, ClosedByRecordSound
  <2>3. RecordStep(a, step, trim) = r
    BY <1>2 DEF RecordStep, n
  <2> HIDE DEF r
  <2> QED
    BY <2>2, <2>3
<1> QED
  BY <1>1, <1>2

-----------------------------------------------------------------------------
(* The inductive invariant.                                                *)

\* The accumulator is sound, and the steps that are not boundaries are the
\* records that came: all of them with authority, else those that came where
\* no segment was open.
TInv ==
    /\ Sound(acc)
    /\ GapHasData(acc)
    /\ seen.records \in Nat
    /\ seen.empty \in Nat
    /\ Excess(acc) = IF acc.authoritative THEN seen.records ELSE seen.empty
    /\ inputs \in 0..MaxInputs
    /\ DOMAIN extent \subseteq 0..acc.next_segment
    /\ \A s \in DOMAIN extent : extent[s] \in Span

\* The channel's spans stay spans, of segments the accumulator has.
LEMMA PushSpanType ==
    ASSUME NEW e, NEW n \in Nat, NEW m \in Nat, m >= n,
           DOMAIN e \subseteq 0..n, \A s \in DOMAIN e : e[s] \in Span,
           NEW segment \in 0..m, NEW span \in Span
    PROVE  LET f == PushSpan(e, segment, span)
           IN  /\ DOMAIN f \subseteq 0..m
               /\ \A s \in DOMAIN f : f[s] \in Span
<1> DEFINE f == PushSpan(e, segment, span)
<1>1. DOMAIN f = DOMAIN e \cup {segment}
  BY DEF PushSpan
<1>2. DOMAIN f \subseteq 0..m
  BY <1>1
<1>3. ASSUME NEW s \in DOMAIN f PROVE f[s] \in Span
  BY <1>1, <1>3, MergeType DEF PushSpan
<1> QED
  BY <1>2, <1>3

\* The empty accumulator of either kind satisfies the invariant.
LEMMA InitTInv == Init => TInv
<1> SUFFICES ASSUME Init PROVE TInv
  OBVIOUS
<1>1. PICK b \in BOOLEAN : acc = NewAccumulator(b)
  BY DEF Init
<1>2. acc = [authoritative |-> b, total_ns |-> 0, clock_steps |-> 0,
     segment |-> 0, next_segment |-> 0, earlier |-> None, last |-> None,
     gap |-> None, previous |-> None, merged |-> {}, abandoned |-> {}]
  BY <1>1 DEF NewAccumulator
<1>3. acc \in Accumulator
  BY <1>2 DEF Accumulator
<1>4. IsFiniteSet({}) /\ Cardinality({}) = 0
  BY FS_EmptySet
<1>5. Distinct(acc) /\ Backed(acc) /\ GapHasData(acc) /\ Excess(acc) = 0
  BY <1>2, <1>4 DEF Distinct, Backed, OfMode, GapHasData, Excess
<1>6. seen.records = 0 /\ seen.empty = 0
  BY DEF Init
<1>7. inputs \in 0..MaxInputs
  BY TimelineAssumption DEF Init
<1>8. DOMAIN extent = {}
  BY DEF Init
<1> QED
  BY <1>3, <1>5, <1>6, <1>7, <1>8 DEF TInv, Sound

\* Feeding a span: no record came, and push counts none.
LEMMA FeedSpanTInv ==
    ASSUME TInv, NEW span \in Spans, FeedSpan(span)
    PROVE  TInv'
<1>1. span \in Span
  BY TimelineAssumption
<1>2. /\ Sound(acc') /\ GapHasData(acc')
      /\ Excess(acc') = Excess(acc) /\ acc'.authoritative = acc.authoritative
      /\ acc'.next_segment >= acc.next_segment
  BY <1>1, PushSound DEF FeedSpan, TInv
<1>3. seen'.records = seen.records /\ seen'.empty = seen.empty
  BY DEF FeedSpan, ObservedSpan
<1>4. inputs' \in 0..MaxInputs
  BY TimelineAssumption DEF FeedSpan, TInv
<1>5. DOMAIN extent' \subseteq 0..acc'.next_segment /\ \A s \in DOMAIN extent' : extent'[s] \in Span
  <2>1. acc.next_segment \in Nat /\ acc'.next_segment \in Nat
        /\ acc'.segment \in 0..acc'.next_segment
    BY <1>2 DEF TInv, Sound, Distinct, Accumulator
  <2>2. extent' = PushSpan(extent, acc'.segment, span)
    BY DEF FeedSpan
  <2> QED
    BY <1>1, <1>2, <2>1, <2>2, PushSpanType DEF TInv
<1> QED
  BY <1>2, <1>3, <1>4, <1>5 DEF TInv, Sound, Accumulator, Distinct, Backed, OfMode, GapHasData, Excess

\* Feeding a record.
LEMMA FeedStepTInv ==
    ASSUME TInv, NEW step \in Steps, FeedStep(step)
    PROVE  TInv'
<1>1. step \in Int
  BY TimelineAssumption
<1>2. /\ Sound(acc') /\ GapHasData(acc')
      /\ Excess(acc') = Excess(acc) + (IF acc.authoritative \/ acc.last = None THEN 1 ELSE 0)
      /\ acc'.authoritative = acc.authoritative
      /\ acc'.next_segment >= acc.next_segment
  BY <1>1, RecordStepSound DEF FeedStep, TInv
<1>3. /\ seen'.records = seen.records + 1
      /\ seen'.empty = IF acc.last = None THEN seen.empty + 1 ELSE seen.empty
  BY DEF FeedStep, ObservedStep
<1>4. inputs' \in 0..MaxInputs
  BY TimelineAssumption DEF FeedStep, TInv
<1>5. DOMAIN extent' \subseteq 0..acc'.next_segment /\ \A s \in DOMAIN extent' : extent'[s] \in Span
  <2>1. acc.next_segment \in Nat /\ acc'.next_segment \in Nat
    BY <1>2 DEF TInv, Sound, Accumulator
  <2>2. extent' = extent
    BY DEF FeedStep
  <2> QED
    BY <1>2, <2>1, <2>2 DEF TInv
<1> QED
  BY <1>2, <1>3, <1>4, <1>5 DEF TInv

\* Feeding an unresolved chunk and its record: a span, then a record in the
\* segment the span opened or continued.
LEMMA FeedUnresolvedTInv ==
    ASSUME TInv, NEW span \in Spans, NEW step \in Steps, FeedUnresolved(span, step)
    PROVE  TInv'
<1> DEFINE a == Push(acc, span)
<1>1. span \in Span /\ step \in Int
  BY TimelineAssumption
<1>2. /\ Sound(a) /\ GapHasData(a) /\ a.last # None
      /\ Excess(a) = Excess(acc) /\ a.authoritative = acc.authoritative
      /\ a.next_segment >= acc.next_segment
  BY <1>1, PushSound DEF TInv
<1>3. /\ acc' = RecordStep(a, step, TRUE)
      /\ extent' = PushSpan(extent, a.segment, span)
      /\ seen' = ObservedStep(a, step, TRUE, ObservedSpan(span))
  BY DEF FeedUnresolved
<1> HIDE DEF a
<1>4. /\ Sound(acc') /\ GapHasData(acc')
      /\ Excess(acc') = Excess(a) + (IF a.authoritative \/ a.last = None THEN 1 ELSE 0)
      /\ acc'.authoritative = a.authoritative
      /\ acc'.next_segment >= a.next_segment
  BY <1>1, <1>2, <1>3, RecordStepSound
<1>5. seen'.records = seen.records + 1 /\ seen'.empty = seen.empty
  BY <1>2, <1>3 DEF ObservedStep, ObservedSpan
<1>6. inputs' \in 0..MaxInputs
  BY TimelineAssumption DEF FeedUnresolved, TInv
<1>7. DOMAIN extent' \subseteq 0..acc'.next_segment /\ \A s \in DOMAIN extent' : extent'[s] \in Span
  <2>1. acc.next_segment \in Nat /\ a.next_segment \in Nat /\ acc'.next_segment \in Nat
        /\ a.segment \in 0..a.next_segment
    BY <1>2, <1>4 DEF TInv, Sound, Distinct, Accumulator
  <2> DEFINE f == PushSpan(extent, a.segment, span)
  <2>2. DOMAIN f \subseteq 0..a.next_segment /\ \A s \in DOMAIN f : f[s] \in Span
    BY <1>1, <1>2, <2>1, PushSpanType DEF TInv
  <2>3. extent' = f
    BY <1>3
  <2>4. acc'.next_segment >= a.next_segment
    BY <1>4
  <2>5. 0..a.next_segment \subseteq 0..acc'.next_segment
    BY <2>1, <2>4
  <2> HIDE DEF f
  <2> QED
    BY <2>2, <2>3, <2>5
<1> QED
  BY <1>2, <1>4, <1>5, <1>6, <1>7 DEF TInv

\* Every step preserves the invariant.
LEMMA NextTInv == TInv /\ [Next]_vars => TInv'
<1> SUFFICES ASSUME TInv, [Next]_vars PROVE TInv'
  OBVIOUS
<1>1. ASSUME NEW span \in Spans, FeedSpan(span) PROVE TInv'
  BY <1>1, FeedSpanTInv
<1>2. ASSUME NEW step \in Steps, FeedStep(step) PROVE TInv'
  BY <1>2, FeedStepTInv
<1>3. ASSUME NEW span \in Spans, NEW step \in Steps, FeedUnresolved(span, step) PROVE TInv'
  BY <1>3, FeedUnresolvedTInv
<1>4. CASE UNCHANGED vars
  <2>1. acc' = acc /\ extent' = extent /\ inputs' = inputs /\ seen' = seen
    BY <1>4 DEF vars
  <2> QED BY <2>1 DEF TInv
<1> QED
  BY <1>1, <1>2, <1>3, <1>4 DEF Next

\* The invariant holds of every prefix of every file.
LEMMA TInvHolds == Spec => []TInv
BY InitTInv, NextTInv, PTL DEF Spec

-----------------------------------------------------------------------------
(* What a stray excursion leaves.                                          *)

\* Whether the open segment is known to be the previous one after a pause.
Settles(a) == a.gap # None /\ a.previous # None /\ a.gap.kind = "Pause"

LEMMA SettleParts ==
    ASSUME NEW a \in Accumulator
    PROVE  /\ SettlePause(a).clock_steps = a.clock_steps
           /\ SettlePause(a).abandoned = a.abandoned
           /\ ~Settles(a) => SettlePause(a) = a
           /\ Settles(a) =>
                 /\ SettlePause(a).total_ns = SaturatingSub(a.total_ns, a.previous.duration_ns)
                 /\ SettlePause(a).earlier
                       = MergeInto(a.earlier, MergeInto(a.previous.earlier, a.previous.last))
                 /\ SettlePause(a).previous = None
<1> DEFINE p == a.previous
           total == SaturatingSub(a.total_ns, p.duration_ns)
           merged == a.merged \cup {[from |-> a.segment, into |-> p.segment, offset |-> 0]}
           earlier == MergeInto(a.earlier, MergeInto(p.earlier, p.last))
           s == SettlePause(a)
<1>1. CASE ~Settles(a)
  BY <1>1 DEF Settles, SettlePause
<1>2. CASE Settles(a)
  <2>1. s = [a EXCEPT !.total_ns = total, !.merged = merged, !.segment = p.segment,
                      !.earlier = earlier, !.gap = p.gap, !.previous = None]
    BY <1>2 DEF Settles, SettlePause
  <2> HIDE DEF s, total, merged, earlier
  <2>2. s.clock_steps = a.clock_steps /\ s.total_ns = total /\ s.earlier = earlier
        /\ s.previous = None /\ s.abandoned = a.abandoned
    BY <2>1 DEF Accumulator
  <2> QED
    BY <1>2, <2>2 DEF s, total, earlier
<1> QED
  BY <1>1, <1>2

\* A segment that is closed whole counts with its length, and is remembered.
LEMMA CloseParts ==
    ASSUME NEW a \in Accumulator, a.last # None
    PROVE  /\ Close(a, 0).total_ns = a.total_ns + Length(MergeInto(a.earlier, a.last))
           /\ Close(a, 0).last = None
           /\ Close(a, 0).earlier = None
           /\ Close(a, 0).previous.earlier = a.earlier
           /\ Close(a, 0).previous.last = a.last
           /\ Close(a, 0).previous.duration_ns = Length(MergeInto(a.earlier, a.last))
<1> DEFINE d == Length(MergeInto(a.earlier, a.last))
           p == [segment |-> a.segment, earlier |-> a.earlier,
                 last |-> a.last, duration_ns |-> d, gap |-> a.gap]
           c == Close(a, 0)
<1>1. Trimmed(a.last, 0) = a.last
  <2> DEFINE l == a.last
  <2>1. l \in Span
    BY DEF Accumulator
  <2> HIDE DEF l
  <2>2. [l EXCEPT !.end_ns = @ - 0] = l
    BY <2>1 DEF Span, Time
  <2>3. Trimmed(l, 0) = l
    BY <2>2 DEF Trimmed
  <2> QED BY <2>3 DEF l
<1>2. c = [a EXCEPT !.total_ns = @ + d, !.segment = a.next_segment + 1,
                    !.next_segment = @ + 1, !.earlier = None, !.last = None,
                    !.previous = p]
  BY <1>1 DEF Close
<1> HIDE DEF c, p, d
<1>3. /\ c.total_ns = a.total_ns + d /\ c.last = None /\ c.earlier = None
      /\ c.previous = p
  BY <1>2 DEF Accumulator
<1> QED
  BY <1>3 DEF c, p, d

\* What the jump to the open segment left: the segment before it is remembered,
\* its time and the step are counted.  b is the accumulator before that jump.
Remembers(a, b) ==
    /\ Sound(b) /\ b.last # None
    /\ a.gap # None
    /\ a.previous.earlier = SettlePause(b).earlier
    /\ a.previous.last = b.last
    /\ a.previous.duration_ns = Length(MergeInto(SettlePause(b).earlier, b.last))
    /\ a.total_ns = SettlePause(b).total_ns + a.previous.duration_ns
    /\ a.clock_steps = IF a.gap.kind = "Step" THEN b.clock_steps + 1 ELSE b.clock_steps

LEMMA OpenedRemembers ==
    ASSUME NEW a, Sound(a), NEW span \in Span, a.last # None
    PROVE  /\ Remembers(Opened(a, span), a)
           /\ Opened(a, span).last = None /\ Opened(a, span).earlier = None
           /\ Opened(a, span).abandoned = a.abandoned
           /\ Opened(a, span).next_segment > a.next_segment
<1> DEFINE jump == span.start_ns - a.last.end_ns
           kind == KindOf(a, jump)
           s == SettlePause(a)
           c == Close(s, 0)
           steps == IF kind = "Step" THEN c.clock_steps + 1 ELSE c.clock_steps
           gap == [at |-> span.start_ns, jump |-> jump, kind |-> kind]
           o == Opened(a, span)
<1>1. s \in Accumulator /\ s.last = a.last /\ s.next_segment = a.next_segment
  BY SettleSound DEF Sound
<1>2. s.clock_steps = a.clock_steps /\ s.abandoned = a.abandoned
  BY SettleParts DEF Sound
<1>3. /\ c \in Accumulator
      /\ c.clock_steps = s.clock_steps
      /\ c.next_segment = s.next_segment + 1
      /\ c.abandoned = s.abandoned
  BY <1>1, CloseFields
<1>4. /\ c.total_ns = s.total_ns + Length(MergeInto(s.earlier, s.last))
      /\ c.last = None /\ c.earlier = None
      /\ c.previous.earlier = s.earlier /\ c.previous.last = s.last
      /\ c.previous.duration_ns = Length(MergeInto(s.earlier, s.last))
  BY <1>1, CloseParts
<1>5. gap # None /\ gap.kind = kind
  <2>1. kind \in GapKinds
    BY DEF KindOf, GapKinds
  <2>2. span.start_ns \in Time /\ a.last.end_ns \in Time
    BY DEF Span, Accumulator, Sound
  <2>3. gap \in Gap
    BY <2>1, <2>2, TimelineAssumption DEF Gap, Time
  <2> QED BY <2>3, TimelineAssumption
<1>6. o = [c EXCEPT !.clock_steps = steps, !.gap = gap]
  BY DEF Opened
<1> HIDE DEF s, c, gap, steps, o, kind, jump
<1>7. /\ o.clock_steps = steps /\ o.gap = gap /\ o.last = c.last /\ o.earlier = c.earlier
      /\ o.total_ns = c.total_ns /\ o.previous = c.previous
      /\ o.abandoned = c.abandoned /\ o.next_segment = c.next_segment
  BY <1>3, <1>6 DEF Accumulator
<1>8. o.next_segment > a.next_segment
  BY <1>1, <1>3, <1>7 DEF Accumulator
<1>9. o.clock_steps = IF o.gap.kind = "Step" THEN a.clock_steps + 1 ELSE a.clock_steps
  BY <1>2, <1>3, <1>5, <1>7 DEF steps
<1>10. Remembers(o, a)
  BY <1>1, <1>4, <1>5, <1>7, <1>9 DEF Remembers, s
<1> QED
  BY <1>2, <1>3, <1>4, <1>7, <1>8, <1>10 DEF o

\* Taking a remembered segment back leaves the accumulator as before the jump,
\* but for an index that is not used again.
LEMMA ReopenedParts ==
    ASSUME NEW a, Sound(a), a.previous # None, NEW b, Remembers(a, b)
    PROVE  /\ Reopened(a).total_ns = SettlePause(b).total_ns
           /\ Reopened(a).clock_steps = b.clock_steps
           /\ Reopened(a).earlier = SettlePause(b).earlier
           /\ Reopened(a).last = b.last
           /\ Reopened(a).previous = None
<1> DEFINE p == a.previous
           total == SaturatingSub(a.total_ns, p.duration_ns)
           steps == IF a.gap.kind = "Step" THEN SaturatingSub(a.clock_steps, 1) ELSE a.clock_steps
           abandoned == a.abandoned \cup {a.segment}
           r == Reopened(a)
           d == Length(MergeInto(SettlePause(b).earlier, b.last))
           t == SettlePause(b).total_ns
<1>1. r = [a EXCEPT !.total_ns = total, !.clock_steps = steps, !.abandoned = abandoned,
                    !.segment = p.segment, !.earlier = p.earlier, !.last = p.last,
                    !.gap = p.gap, !.previous = None]
  BY DEF Reopened
<1>2. a \in Accumulator /\ b \in Accumulator /\ SettlePause(b) \in Accumulator
  BY SettleSound DEF Remembers, Sound
<1>3. /\ a.total_ns = t + d /\ p.duration_ns = d /\ p.earlier = SettlePause(b).earlier
      /\ p.last = b.last
      /\ a.clock_steps = IF a.gap.kind = "Step" THEN b.clock_steps + 1 ELSE b.clock_steps
  BY DEF Remembers
<1>4. t \in Nat /\ b.clock_steps \in Nat /\ d \in Nat
  <2>1. SettlePause(b).earlier \in Span \cup {None} /\ b.last \in Span
    BY <1>2 DEF Accumulator, Remembers
  <2> QED
    BY <1>2, <2>1, MergeIntoType, LengthType DEF Accumulator
<1> HIDE DEF total, steps, abandoned, r, d, t
<1>5. r.total_ns = total /\ r.clock_steps = steps /\ r.earlier = p.earlier /\ r.last = p.last
      /\ r.previous = None
  BY <1>1, <1>2 DEF Accumulator
<1>6. total = t /\ steps = b.clock_steps
  BY <1>3, <1>4 DEF total, steps, SaturatingSub
<1> QED
  BY <1>3, <1>5, <1>6 DEF r, t

\* A span in the open segment: what comes before it, and itself.
Lasting(b, span) ==
    [b EXCEPT !.earlier = IF b.last = None THEN b.earlier ELSE MergeInto(b.earlier, b.last),
              !.last = span]

LEMMA LastingParts ==
    ASSUME NEW b \in Accumulator, NEW span \in Span
    PROVE  /\ Lasting(b, span) \in Accumulator
           /\ Lasting(b, span).last = span /\ span # None
           /\ Lasting(b, span).earlier
                 = IF b.last = None THEN b.earlier ELSE MergeInto(b.earlier, b.last)
           /\ Lasting(b, span).total_ns = b.total_ns
           /\ Lasting(b, span).clock_steps = b.clock_steps
           /\ Lasting(b, span).next_segment = b.next_segment
           /\ Lasting(b, span).gap = b.gap
           /\ Lasting(b, span).previous = b.previous
           /\ Lasting(b, span).abandoned = b.abandoned
<1> DEFINE earlier == IF b.last = None THEN b.earlier ELSE MergeInto(b.earlier, b.last)
           c == Lasting(b, span)
<1>1. earlier \in Span \cup {None}
  BY MergeIntoType DEF Accumulator
<1>2. c = [b EXCEPT !.earlier = earlier, !.last = span]
  BY DEF Lasting
<1> HIDE DEF earlier, c
<1>3. c = [authoritative |-> b.authoritative, total_ns |-> b.total_ns,
           clock_steps |-> b.clock_steps, segment |-> b.segment,
           next_segment |-> b.next_segment, earlier |-> earlier, last |-> span,
           gap |-> b.gap, previous |-> b.previous, merged |-> b.merged, abandoned |-> b.abandoned]
  BY <1>2 DEF Accumulator
<1>4. c \in Accumulator
  BY <1>1, <1>3 DEF Accumulator
<1>5. span # None
  BY TimelineAssumption
<1> QED
  BY <1>3, <1>4, <1>5 DEF earlier, c

LEMMA PushIs ==
    ASSUME NEW a, NEW span
    PROVE  \/ Push(a, span) = Lasting(AfterJump(a, span), span)
           \/ Push(a, span) = SettlePause(Lasting(AfterJump(a, span), span))
BY DEF Push, Lasting

\* Settling twice is settling once.
LEMMA SettledOnce ==
    ASSUME NEW a \in Accumulator
    PROVE  SettlePause(SettlePause(a)) = SettlePause(a)
<1>1. CASE Settles(a)
  <2>1. SettlePause(a).previous = None
    BY <1>1, SettleParts
  <2> DEFINE s == SettlePause(a)
  <2>2. s.previous = None
    BY <2>1
  <2> HIDE DEF s
  <2>3. SettlePause(s) = s
    BY <2>2 DEF SettlePause
  <2> QED BY <2>3 DEF s
<1>2. CASE ~Settles(a)
  BY <1>2, SettleParts
<1> QED
  BY <1>1, <1>2

\* The extents of three spans, the first of which may be missing.
LEMMA MergedInAnyOrder ==
    ASSUME NEW o \in Span \cup {None}, NEW s \in Span, NEW t \in Span
    PROVE  MergeInto(MergeInto(o, s), t) = MergeInto(MergeInto(o, t), s)
<1>1. None \notin Span
  BY TimelineAssumption
<1>2. Merge(s, t) = Merge(t, s)
  BY DEF Merge, Span, Time
<1>3. CASE o = None
  BY <1>1, <1>2, <1>3 DEF MergeInto
<1>4. CASE o # None
  <2>1. o \in Span /\ Merge(o, s) \in Span /\ Merge(o, t) \in Span
    BY <1>4, MergeType
  <2>2. Merge(Merge(o, s), t) = Merge(Merge(o, t), s)
    BY <2>1 DEF Merge, Span, Time
  <2> QED
    BY <1>1, <1>4, <2>1, <2>2 DEF MergeInto
<1> QED
  BY <1>3, <1>4

\* How long the file lasts if it ends after a span without a jump.
LEMMA FinishedAfter ==
    ASSUME NEW b, Sound(b), b.last # None, NEW span \in Span,
           NEW q \in {Lasting(b, span), SettlePause(Lasting(b, span))}
    PROVE  /\ Finished(q).total_ns
                 = SettlePause(b).total_ns
                       + Length(MergeInto(MergeInto(SettlePause(b).earlier, b.last), span))
           /\ q.clock_steps = b.clock_steps
<1> DEFINE c == Lasting(b, span)
           s == SettlePause(c)
           z == SettlePause(b)
<1>0. b \in Accumulator /\ b.last \in Span
  BY DEF Sound, Accumulator
<1>1. /\ c \in Accumulator /\ c.last = span /\ span # None
      /\ c.earlier = MergeInto(b.earlier, b.last)
      /\ c.total_ns = b.total_ns /\ c.clock_steps = b.clock_steps
      /\ c.gap = b.gap /\ c.previous = b.previous
  BY <1>0, LastingParts
<1> HIDE DEF c
<1>2. /\ s.clock_steps = c.clock_steps
      /\ ~Settles(c) => s = c
      /\ Settles(c) => /\ s.total_ns = SaturatingSub(c.total_ns, c.previous.duration_ns)
                       /\ s.earlier = MergeInto(c.earlier, MergeInto(c.previous.earlier, c.previous.last))
  BY <1>1, SettleParts
<1>3. /\ ~Settles(b) => z = b
      /\ Settles(b) => /\ z.total_ns = SaturatingSub(b.total_ns, b.previous.duration_ns)
                       /\ z.earlier = MergeInto(b.earlier, MergeInto(b.previous.earlier, b.previous.last))
  BY <1>0, SettleParts
<1>4. Settles(c) <=> Settles(b)
  BY <1>1 DEF Settles
<1>5. s \in Accumulator /\ s.last = span
  <2>1. Sound(c)
    BY <1>1 DEF Lasting, c, Sound, Distinct, Backed, OfMode, Accumulator
  <2> QED BY <1>1, <2>1, SettleSound DEF Sound
<1>6. s.total_ns = z.total_ns /\ s.earlier = MergeInto(z.earlier, b.last)
  <2>1. CASE ~Settles(b)
    BY <1>1, <1>2, <1>3, <1>4, <2>1
  <2>2. CASE Settles(b)
    <3> DEFINE m == MergeInto(b.previous.earlier, b.previous.last)
    <3>1. b.previous \in Closed
      BY <1>0, <2>2 DEF Settles, Accumulator
    <3>2. m \in Span /\ b.earlier \in Span \cup {None}
      BY <1>0, <3>1, MergeIntoType DEF Closed, Accumulator
    <3> HIDE DEF m
    <3>3. MergeInto(MergeInto(b.earlier, b.last), m) = MergeInto(MergeInto(b.earlier, m), b.last)
      BY <1>0, <3>2, MergedInAnyOrder
    <3> QED
      BY <1>1, <1>2, <1>3, <1>4, <2>2, <3>3 DEF m
  <2> QED
    BY <2>1, <2>2
<1> HIDE DEF s, z
<1>7. Close(s, 0).total_ns = s.total_ns + Length(MergeInto(s.earlier, s.last))
  BY <1>1, <1>5, CloseParts
<1>8. SettlePause(q) = s
  BY <1>1, SettledOnce DEF c, s
<1>9. Finished(q).total_ns = z.total_ns + Length(MergeInto(MergeInto(z.earlier, b.last), span))
  BY <1>5, <1>6, <1>7, <1>8 DEF Finished
<1>10. q.clock_steps = b.clock_steps
  BY <1>1, <1>2 DEF c, s
<1> QED
  BY <1>9, <1>10 DEF z

\* A span that returns finds the file as the span would have found it without the
\* excursion: as long, and with as many steps.
LEMMA ExcursionLeavesNothing ==
    ASSUME NEW a, Sound(a), NEW b, Remembers(a, b), NEW span \in Span, Returns(a, span),
           Abs(span.start_ns - a.last.end_ns) > STEP_GAP_NS
    PROVE  /\ Finished(Push(a, span)).total_ns = Finished(Push(b, span)).total_ns
           /\ Push(a, span).clock_steps = Push(b, span).clock_steps
<1> DEFINE r == Reopened(a)
<1>1. /\ a.previous # None /\ a.gap # None /\ a.last # None
      /\ Abs(span.start_ns - a.previous.last.end_ns) <= STEP_GAP_NS
  BY DEF Returns
<1>2. a.previous.last = b.last /\ Sound(b) /\ b.last # None
  BY DEF Remembers
<1>3. AfterJump(b, span) = b
  BY <1>1, <1>2 DEF AfterJump
<1>4. AfterJump(a, span) = r
  <2>1. ~(Abs(span.start_ns - a.last.end_ns) <= STEP_GAP_NS)
    <3>1. Abs(span.start_ns - a.last.end_ns) \in Int
      BY <1>1 DEF Abs, Span, Time, Sound, Accumulator
    <3> QED BY <3>1, TimelineAssumption
  <2> QED
    BY <1>1, <2>1 DEF AfterJump
<1>5. /\ r.total_ns = SettlePause(b).total_ns /\ r.clock_steps = b.clock_steps
      /\ r.earlier = SettlePause(b).earlier /\ r.last = b.last /\ r.previous = None
  BY <1>1, ReopenedParts
<1>6. Sound(r)
  BY <1>1, ReopenedSound
<1> HIDE DEF r
<1>7. SettlePause(r) = r
  BY <1>5 DEF SettlePause
<1>8. /\ Push(a, span) \in {Lasting(r, span), SettlePause(Lasting(r, span))}
      /\ Push(b, span) \in {Lasting(b, span), SettlePause(Lasting(b, span))}
  BY <1>3, <1>4, PushIs
<1>9. /\ Finished(Push(a, span)).total_ns
            = r.total_ns + Length(MergeInto(MergeInto(r.earlier, r.last), span))
      /\ Push(a, span).clock_steps = r.clock_steps
  <2> DEFINE q == Push(a, span)
  <2>1. q \in {Lasting(r, span), SettlePause(Lasting(r, span))}
    BY <1>8
  <2> HIDE DEF q
  <2>2. /\ Finished(q).total_ns = SettlePause(r).total_ns
              + Length(MergeInto(MergeInto(SettlePause(r).earlier, r.last), span))
        /\ q.clock_steps = r.clock_steps
    BY <1>2, <1>5, <1>6, <2>1, FinishedAfter
  <2> QED BY <1>7, <2>2 DEF q
<1>10. /\ Finished(Push(b, span)).total_ns = SettlePause(b).total_ns
             + Length(MergeInto(MergeInto(SettlePause(b).earlier, b.last), span))
       /\ Push(b, span).clock_steps = b.clock_steps
  <2> DEFINE q == Push(b, span)
  <2>1. q \in {Lasting(b, span), SettlePause(Lasting(b, span))}
    BY <1>8
  <2> HIDE DEF q
  <2>2. /\ Finished(q).total_ns = SettlePause(b).total_ns
              + Length(MergeInto(MergeInto(SettlePause(b).earlier, b.last), span))
        /\ q.clock_steps = b.clock_steps
    BY <1>2, <2>1, FinishedAfter
  <2> QED BY <2>2 DEF q
<1> QED
  BY <1>5, <1>9, <1>10

\* The accumulator before the jump is observed as long as it may be returned to.
Tracks(a, before) ==
    /\ before # None => a.previous # None /\ Remembers(a, before)
    /\ a.gap # None /\ a.previous # None => before # None

BeforeAfter(a, before, span) ==
    IF Push(a, span).previous = None \/ Push(a, span).gap = None THEN None
    ELSE IF Push(a, span).next_segment > a.next_segment THEN a ELSE before

\* A span in the open segment changes nothing of what is remembered.
LEMMA LastingRemembers ==
    ASSUME NEW c \in Accumulator, NEW span \in Span, NEW b, Remembers(c, b)
    PROVE  Remembers(Lasting(c, span), b)
BY LastingParts DEF Remembers

LEMMA PushTracks ==
    ASSUME NEW a, Sound(a), NEW before, Tracks(a, before), NEW span \in Span
    PROVE  Tracks(Push(a, span), BeforeAfter(a, before, span))
<1> DEFINE j == AfterJump(a, span)
           c == Lasting(j, span)
           q == Push(a, span)
<1>1. Sound(j) /\ j \in Accumulator
  BY AfterJumpSound DEF Sound
<1>2. a \in Accumulator /\ a # None
  BY TimelineAssumption DEF Sound
<1>3. /\ c \in Accumulator /\ c.gap = j.gap /\ c.previous = j.previous
      /\ c.next_segment = j.next_segment
  BY <1>1, LastingParts
<1>4. q = c \/ q = SettlePause(c)
  BY PushIs
<1>5. CASE q # c
  <2>1. q.previous = None
    <3> HIDE DEF c, q
    <3>1. Settles(c)
      BY <1>3, <1>4, <1>5, SettleParts
    <3> QED BY <1>3, <1>4, <1>5, <3>1, SettleParts
  <2> QED BY <2>1 DEF Tracks, BeforeAfter
<1>6. CASE q = c /\ j = a
  <2>1. q.gap = a.gap /\ q.previous = a.previous /\ ~(q.next_segment > a.next_segment)
    BY <1>2, <1>3, <1>6 DEF Accumulator
  <2>2. BeforeAfter(a, before, span)
            = IF a.previous = None \/ a.gap = None THEN None ELSE before
    BY <2>1 DEF BeforeAfter
  <2>3. before # None => Remembers(q, before)
    BY <1>2, <1>6, LastingRemembers DEF Tracks
  <2> HIDE DEF q
  <2> QED BY <2>1, <2>2, <2>3 DEF Tracks, q
<1>7. CASE q = c /\ j = Reopened(a) /\ Returns(a, span)
  <2>1. j.previous = None
    <3>1. before # None /\ a.previous # None
      BY <1>7 DEF Returns, Tracks
    <3>2. Remembers(a, before)
      BY <3>1 DEF Tracks
    <3> QED BY <1>7, <3>1, <3>2, ReopenedParts
  <2>2. q.previous = None
    BY <1>3, <1>7, <2>1
  <2> QED BY <2>2 DEF Tracks, BeforeAfter
<1>8. CASE q = c /\ j = Opened(a, span) /\ a.last # None
  <2>1. Remembers(j, a) /\ j.next_segment > a.next_segment
    BY <1>8, OpenedRemembers
  <2>2. Remembers(q, a)
    <3> HIDE DEF j
    <3> QED BY <1>1, <1>8, <2>1, LastingRemembers
  <2>3. q.next_segment > a.next_segment
    BY <1>3, <1>8, <2>1
  <2> HIDE DEF q, j, c
  <2> QED BY <1>2, <2>2, <2>3 DEF Tracks, BeforeAfter, q
<1> QED
  BY <1>5, <1>6, <1>7, <1>8 DEF AfterJump

\* Records forget the jump.
LEMMA RecordTakesGap ==
    ASSUME NEW a, Sound(a), NEW step \in Int, NEW trim \in BOOLEAN
    PROVE  RecordStep(a, step, trim).gap = None
<1>1. CASE a.gap # None /\ DescribedBy(a.gap, step, a.last)
  <2> DEFINE paused == Paused(a.gap, step)
             b == [a EXCEPT !.gap = None,
                            !.clock_steps = IF a.gap.kind # "Step" THEN @ + 1 ELSE @]
  <2>1. RecordStep(a, step, trim)
            = IF a.authoritative /\ paused > 0 THEN JoinAcrossStep(b, step, paused) ELSE b
    BY <1>1 DEF RecordStep
  <2>2. b.gap = None /\ DOMAIN b = DOMAIN a /\ "gap" \in DOMAIN a
    BY DEF Sound, Accumulator
  <2> HIDE DEF b, paused
  <2>3. JoinAcrossStep(b, step, paused).gap = None
    <3>1. CASE b.previous = None
      <4>1. JoinAcrossStep(b, step, paused) = [b EXCEPT !.total_ns = @ + paused]
        BY <3>1 DEF JoinAcrossStep
      <4> QED BY <2>2, <4>1
    <3>2. CASE b.previous # None
      <4> DEFINE p == b.previous
                 total == SaturatingSub(b.total_ns, p.duration_ns)
                 merged == b.merged \cup {[from |-> p.segment, into |-> b.segment, offset |-> step]}
                 earlier == MergeInto(b.earlier, Shifted(MergeInto(p.earlier, p.last), step))
      <4>1. JoinAcrossStep(b, step, paused)
                = [b EXCEPT !.total_ns = total, !.merged = merged, !.earlier = earlier,
                            !.gap = None, !.previous = None]
        BY <3>2 DEF JoinAcrossStep
      <4> HIDE DEF total, merged, earlier
      <4> QED BY <2>2, <4>1
    <3> QED BY <3>1, <3>2
  <2> QED BY <2>1, <2>2, <2>3
<1>2. CASE ~(a.gap # None /\ DescribedBy(a.gap, step, a.last))
  <2> DEFINE s == [SettlePause(a) EXCEPT !.gap = None]
             n == IF trim THEN Abs(step) ELSE 0
             z == SettlePause(a)
  <2>1. RecordStep(a, step, trim) = [Close(s, n) EXCEPT !.clock_steps = @ + 1]
    BY <1>2 DEF RecordStep
  <2>2. s \in Accumulator /\ s.gap = None
    <3>1. z \in Accumulator /\ s = [z EXCEPT !.gap = None]
      BY SettleSound DEF Sound
    <3> HIDE DEF z, s
    <3>2. s = [authoritative |-> z.authoritative, total_ns |-> z.total_ns,
               clock_steps |-> z.clock_steps, segment |-> z.segment,
               next_segment |-> z.next_segment, earlier |-> z.earlier, last |-> z.last,
               gap |-> None, previous |-> z.previous, merged |-> z.merged,
               abandoned |-> z.abandoned]
      BY <3>1 DEF Accumulator
    <3> QED BY <3>1, <3>2 DEF Accumulator
  <2>3. n \in Nat
    BY DEF Abs
  <2> HIDE DEF s, n
  <2> DEFINE c == Close(s, n)
  <2>4. c.gap = None /\ "gap" \in DOMAIN c
    <3>1. CASE s.last = None
      <4>1. c = [s EXCEPT !.earlier = None]
        BY <3>1 DEF Close
      <4> HIDE DEF c
      <4> QED BY <2>2, <4>1 DEF Accumulator
    <3>2. CASE s.last # None
      <4>1. c \in Accumulator /\ c.gap = s.gap
        BY <2>2, <2>3, <3>2, CloseFields
      <4> HIDE DEF c
      <4> QED BY <2>2, <4>1 DEF Accumulator
    <3> QED BY <3>1, <3>2
  <2> HIDE DEF c
  <2> QED BY <2>1, <2>4 DEF c
<1> QED
  BY <1>1, <1>2

\* Only a return abandons a segment.
LEMMA OnlyReturnsAbandon ==
    ASSUME NEW a, Sound(a), NEW span \in Span,
           ~(/\ Returns(a, span)
             /\ Abs(span.start_ns - a.last.end_ns) > STEP_GAP_NS)
    PROVE  Push(a, span).abandoned = a.abandoned
<1> DEFINE j == AfterJump(a, span)
           c == Lasting(j, span)
<1>1. j.abandoned = a.abandoned
  <2>1. a.last # None => Opened(a, span).abandoned = a.abandoned
    BY OpenedRemembers
  <2>2. a.last # None => Abs(span.start_ns - a.last.end_ns) \in Int
    BY DEF Abs, Span, Time, Sound, Accumulator
  <2> QED
    BY <2>1, <2>2, TimelineAssumption DEF AfterJump
<1>2. j \in Accumulator
  BY AfterJumpSound DEF Sound
<1> HIDE DEF j
<1>3. c \in Accumulator /\ c.abandoned = j.abandoned
  BY <1>2, LastingParts
<1>4. SettlePause(c).abandoned = c.abandoned
  BY <1>3, SettleParts
<1>5. Push(a, span) = c \/ Push(a, span) = SettlePause(c)
  BY PushIs DEF j
<1> QED
  BY <1>1, <1>3, <1>4, <1>5

-----------------------------------------------------------------------------
(* The theorems of steps and excursions.                                   *)

\* Whatever is fed, every field keeps its type, no span is inverted, and the
\* channel holds spans only of segments that were opened.
THEOREM TypeCorrect == Spec => []TypeOK
<1>1. TInv => TypeOK
  BY DEF TInv, TypeOK, Sound
<1> QED
  BY <1>1, TInvHolds, PTL

\* The saturating subtractions of SettlePause, Reopened and JoinAcrossStep
\* never saturate: what they take back was added (settle_pause, reopen and
\* join_across_step of mcap_timeline.rs).
THEOREM NothingSaturates == Spec => []TakenBackWasAdded
<1>1. TInv => TakenBackWasAdded
  BY DEF TInv, TakenBackWasAdded, Sound, Backed, OfMode
<1> QED
  BY <1>1, TInvHolds, PTL

\* With authoritative records, clock_steps is the number of clock_step records,
\* for any file (the doc comment of TimelineAccumulator::authoritative).
THEOREM RecordsCountOnce == Spec => []StepsAreRecords
<1>1. TInv => StepsAreRecords
  BY DEF TInv, StepsAreRecords, Excess
<1> QED
  BY <1>1, TInvHolds, PTL

\* Without them, every step is a boundary between two kept segments or a
\* record where none was open: excursions leave no step behind.
THEOREM BoundariesCountOnce == Spec => []StepsAreBoundaries
<1>1. TInv => StepsAreBoundaries
  <2> SUFFICES ASSUME TInv, ~acc.authoritative
               PROVE  acc.clock_steps = acc.next_segment - Cardinality(acc.abandoned) + seen.empty
    BY DEF StepsAreBoundaries
  <2>1. Cardinality(acc.abandoned) \in Nat
    BY FS_CardinalityType DEF TInv, Sound, Distinct
  <2>2. acc.clock_steps - acc.next_segment + Cardinality(acc.abandoned) = seen.empty
    BY DEF TInv, Excess
  <2>3. acc.clock_steps \in Nat /\ acc.next_segment \in Nat /\ seen.empty \in Nat
    BY DEF TInv, Sound, Accumulator
  <2> QED
    BY <2>1, <2>2, <2>3
<1> QED
  BY <1>1, TInvHolds, PTL

\* With or without authority, every step of the clock is counted once, for any file.
THEOREM StepsCountOnce == Spec => []StepsCounted
<1> QED
  BY RecordsCountOnce, BoundariesCountOnce, PTL DEF StepsCounted

\* A stray excursion leaves no trace: when a span returns from one, the file lasts
\* as long and has as many steps as if it had come without the excursion, for any
\* file (reopen of mcap_timeline.rs).
THEOREM ExcursionsLeaveNoTrace == Spec => StrayLeavesNoTrace
<1> DEFINE Inv == TInv /\ Tracks(acc, seen.before)
           Leaves(span) == FeedSpan(span) /\ Cardinality(acc'.abandoned) > Cardinality(acc.abandoned)
               => /\ Finished(acc').total_ns = Finished(Push(seen.before, span)).total_ns
                  /\ acc'.clock_steps = Push(seen.before, span).clock_steps
           NoTrace == \A span \in Spans : Leaves(span)
<1>1. Init => Inv
  <2>1. Init => Tracks(acc, seen.before)
    BY DEF Init, Tracks, NewAccumulator
  <2> QED BY <2>1, InitTInv
<1>2. Inv /\ [Next]_vars => Inv'
  <2> SUFFICES ASSUME Inv, [Next]_vars PROVE Tracks(acc', seen'.before)
    BY NextTInv
  <2>0. Sound(acc)
    BY DEF TInv
  <2>1. ASSUME NEW span \in Spans, FeedSpan(span) PROVE Tracks(acc', seen'.before)
    <3>1. span \in Span
      BY TimelineAssumption
    <3>2. acc' = Push(acc, span) /\ seen'.before = BeforeAfter(acc, seen.before, span)
      BY <2>1 DEF FeedSpan, ObservedSpan, BeforeAfter
    <3> QED BY <2>0, <3>1, <3>2, PushTracks
  <2>2. ASSUME NEW a, Sound(a), NEW step \in Steps, NEW trim \in BOOLEAN, NEW o,
               acc' = RecordStep(a, step, trim), seen' = ObservedStep(a, step, trim, o)
        PROVE  Tracks(acc', seen'.before)
    <3>1. acc'.gap = None /\ seen'.before = None
      <4>1. step \in Int
        BY TimelineAssumption
      <4> QED BY <2>2, <4>1, RecordTakesGap DEF ObservedStep
    <3> QED BY <3>1 DEF Tracks
  <2>3. ASSUME NEW step \in Steps, FeedStep(step) PROVE Tracks(acc', seen'.before)
    BY <2>0, <2>2, <2>3 DEF FeedStep
  <2>4. ASSUME NEW span \in Spans, NEW step \in Steps, FeedUnresolved(span, step)
        PROVE  Tracks(acc', seen'.before)
    <3> DEFINE a == Push(acc, span)
    <3>1. Sound(a)
      BY <2>0, PushSound, TimelineAssumption
    <3>2. acc' = RecordStep(a, step, TRUE) /\ seen' = ObservedStep(a, step, TRUE, ObservedSpan(span))
      BY <2>4 DEF FeedUnresolved
    <3> HIDE DEF a
    <3> QED BY <2>2, <3>1, <3>2
  <2>5. CASE UNCHANGED vars
    BY <2>5 DEF vars
  <2> QED BY <2>1, <2>3, <2>4, <2>5 DEF Next
<1>3. Inv /\ [Next]_vars => [NoTrace]_vars
  <2> SUFFICES ASSUME Inv, NEW span \in Spans, FeedSpan(span),
                      Cardinality(acc'.abandoned) > Cardinality(acc.abandoned)
               PROVE  /\ Finished(acc').total_ns = Finished(Push(seen.before, span)).total_ns
                      /\ acc'.clock_steps = Push(seen.before, span).clock_steps
    OBVIOUS
  <2>1. Sound(acc) /\ span \in Span /\ acc' = Push(acc, span)
    BY TimelineAssumption DEF TInv, FeedSpan
  <2>2. acc'.abandoned # acc.abandoned
    <3>1. Cardinality(acc.abandoned) \in Nat
      BY <2>1, FS_CardinalityType DEF Sound, Distinct
    <3> QED BY <3>1
  <2>3. Returns(acc, span) /\ Abs(span.start_ns - acc.last.end_ns) > STEP_GAP_NS
    BY <2>1, <2>2, OnlyReturnsAbandon
  <2>4. Remembers(acc, seen.before)
    BY <2>3 DEF Tracks, Returns
  <2> QED BY <2>1, <2>3, <2>4, ExcursionLeavesNothing
<1>4. Spec => [][NoTrace]_vars
  <2> HIDE DEF Inv, NoTrace
  <2> QED BY <1>1, <1>2, <1>3, PTL DEF Spec
<1> QED
  BY <1>4 DEF StrayLeavesNoTrace

-----------------------------------------------------------------------------
(* The sum of spans.                                                       *)

Some(T) == CHOOSE x \in T : TRUE

\* h[T] is the time that the spans of T last together.
SpanSums(h, X, U) ==
    \A T \in SUBSET U :
        h[T] = IF T = {} THEN 0 ELSE Length(X[Some(T)]) + h[T \ {Some(T)}]

\* Such sums there are, of natural numbers.
LEMMA SpanSumsExist ==
    ASSUME NEW U, IsFiniteSet(U), NEW X, \A r \in U : X[r] \in Span
    PROVE  \E h \in [SUBSET U -> Nat] :
              /\ h = [T \in SUBSET U |->
                        IF T = {} THEN 0 ELSE Length(X[Some(T)]) + h[T \ {Some(T)}]]
              /\ SpanSums(h, X, U)
  <1> DEFINE F == [p \in U \X Nat |-> Length(X[p[1]]) + p[2]]
             c == [T \in SUBSET U |-> Some(T)]
  <1>1. F \in [U \X Nat -> Nat]
    <2>1. ASSUME NEW p \in U \X Nat PROVE Length(X[p[1]]) + p[2] \in Nat
      <3>1. X[p[1]] \in Span /\ p[2] \in Nat
        OBVIOUS
      <3>2. Length(X[p[1]]) \in Nat
        BY <3>1, LengthType
      <3> QED BY <3>1, <3>2
    <2> QED BY <2>1
  <1>2. \A T \in SUBSET U : T # {} => c[T] \in T /\ c[T] = Some(T)
    BY DEF Some
  <1>3. \A x \in U, n \in Nat : F[<<x, n>>] = Length(X[x]) + n
    OBVIOUS
  <1> HIDE DEF F, c
  <1>4. PICK h \in [SUBSET U -> Nat] : Folds(h, U, 0, F, c)
    <2>0. IsFiniteSet(U)
      OBVIOUS
    <2>1. 0 \in Nat /\ \A T \in SUBSET U : T # {} => c[T] \in T
      BY <1>2
    <2> HIDE DEF SpanSums
    <2> QED BY <1>1, <2>0, <2>1, FoldExists
  <1>5. ASSUME NEW T \in SUBSET U
        PROVE  h[T] = IF T = {} THEN 0 ELSE Length(X[Some(T)]) + h[T \ {Some(T)}]
    <2>1. CASE T = {}
      BY <1>4, <2>1 DEF Folds
    <2>2. CASE T # {}
      <3>1. Some(T) \in U /\ h[T \ {Some(T)}] \in Nat /\ c[T] = Some(T)
        BY <1>2, <2>2
      <3>2. h[T] = F[<<Some(T), h[T \ {Some(T)}]>>]
        BY <1>4, <2>2, <3>1 DEF Folds
      <3> QED BY <1>3, <2>2, <3>1, <3>2
    <2> QED BY <2>1, <2>2
  <1> QED BY <1>5 DEF SpanSums

\* The sum does not depend on what else the spans are chosen from.
LEMMA SpanSumsAgree ==
    ASSUME NEW U, IsFiniteSet(U), NEW X, NEW h, SpanSums(h, X, U),
           NEW W, NEW Y, NEW g, SpanSums(g, Y, W), U \subseteq W, \A r \in U : X[r] = Y[r]
    PROVE  h[U] = g[U]
  <1> DEFINE G == {T \in SUBSET U : h[T] = g[T]}
  <1>1. {} \in G
    BY DEF SpanSums
  <1>2. ASSUME NEW T \in SUBSET U, T # {}, \A x \in T : T \ {x} \in G PROVE T \in G
    <2>1. Some(T) \in T
      BY <1>2 DEF Some
    <2>2. h[T] = Length(X[Some(T)]) + h[T \ {Some(T)}]
      BY <1>2 DEF SpanSums
    <2>3. g[T] = Length(Y[Some(T)]) + g[T \ {Some(T)}]
      BY <1>2 DEF SpanSums
    <2>4. h[T \ {Some(T)}] = g[T \ {Some(T)}] /\ X[Some(T)] = Y[Some(T)]
      BY <1>2, <2>1
    <2> QED BY <2>2, <2>3, <2>4
  <1> HIDE DEF G
  <1>3. U \in G
    BY <1>1, <1>2, SubsetBySubset
  <1> QED BY <1>3 DEF G

\* Nor on the order in which they are added.
LEMMA SpanSumsWithout ==
    ASSUME NEW U, IsFiniteSet(U), NEW X, \A r \in U : X[r] \in Span,
           NEW h \in [SUBSET U -> Nat], SpanSums(h, X, U), NEW z \in U
    PROVE  h[U] = Length(X[z]) + h[U \ {z}]
  <1> DEFINE G == {T \in SUBSET U : \A x \in T : h[T] = Length(X[x]) + h[T \ {x}]}
  <1>1. {} \in G
    OBVIOUS
  <1>2. ASSUME NEW T \in SUBSET U, T # {}, \A x \in T : T \ {x} \in G PROVE T \in G
    <2> DEFINE c == Some(T)
    <2>1. c \in T
      BY <1>2 DEF Some
    <2>2. h[T] = Length(X[c]) + h[T \ {c}]
      BY <1>2 DEF SpanSums
    <2> HIDE DEF c
    <2>3. ASSUME NEW x \in T, x # c PROVE h[T] = Length(X[x]) + h[T \ {x}]
      <3>1. x \in T \ {c} /\ c \in T \ {x} /\ T \ {c} \in G /\ T \ {x} \in G
        BY <1>2, <2>1, <2>3
      <3>2. h[T \ {c}] = Length(X[x]) + h[(T \ {c}) \ {x}]
        BY <3>1
      <3>3. h[T \ {x}] = Length(X[c]) + h[(T \ {x}) \ {c}]
        BY <3>1
      <3>4. (T \ {x}) \ {c} = (T \ {c}) \ {x} /\ (T \ {x}) \ {c} \in SUBSET U
        OBVIOUS
      <3>5. X[x] \in Span /\ X[c] \in Span
        BY <2>1
      <3>6. Length(X[x]) \in Nat /\ Length(X[c]) \in Nat /\ h[(T \ {c}) \ {x}] \in Nat
        BY <3>4, <3>5, LengthType
      <3> DEFINE k == h[(T \ {c}) \ {x}]
                 lx == Length(X[x])
                 lc == Length(X[c])
      <3>7. h[T] = lc + (lx + k) /\ h[T \ {x}] = lc + k /\ lx \in Nat /\ lc \in Nat /\ k \in Nat
        BY <2>2, <3>2, <3>3, <3>4, <3>6
      <3> HIDE DEF k, lc, lx
      <3>8. h[T] = lx + h[T \ {x}]
        BY <3>7
      <3> QED BY <3>8 DEF lx
    <2> QED BY <2>2, <2>3
  <1> HIDE DEF G
  <1>3. U \in G
    BY <1>1, <1>2, SubsetBySubset
  <1> QED BY <1>3 DEF G

\* SpanNs is such a sum: what the fold of the community modules chooses.
LEMMA SpanNsIs ==
    ASSUME NEW X, IsFiniteSet(DOMAIN X), \A r \in DOMAIN X : X[r] \in Span
    PROVE  \E h : SpanSums(h, X, DOMAIN X) /\ SpanNs(X) = h[DOMAIN X]
  <1> DEFINE U == DOMAIN X
             Is(f) == f = [s \in SUBSET U |->
                              IF s = {} THEN 0
                              ELSE Length(X[CHOOSE x \in s : TRUE]) + f[s \ {CHOOSE x \in s : TRUE}]]
             iter == CHOOSE f : Is(f)
  <1>1. SpanNs(X) = iter[DOMAIN X]
    BY DEF SpanNs, MapThenSumSet, MapThenFoldSet
  <1>2. PICK h \in [SUBSET U -> Nat] :
           h = [T \in SUBSET U |-> IF T = {} THEN 0 ELSE Length(X[Some(T)]) + h[T \ {Some(T)}]]
    <2>1. IsFiniteSet(U) /\ \A r \in U : X[r] \in Span
      OBVIOUS
    <2> HIDE DEF U
    <2>2. PICK h \in [SUBSET U -> Nat] :
            /\ h = [T \in SUBSET U |->
                        IF T = {} THEN 0 ELSE Length(X[Some(T)]) + h[T \ {Some(T)}]]
            /\ SpanSums(h, X, U)
      BY <2>1, SpanSumsExist
    <2> QED BY <2>2
  <1>3. Is(h)
    BY <1>2 DEF Some
  <1>4. Is(iter)
    <2> HIDE DEF Is
    <2> QED BY <1>3
  <1> HIDE DEF iter
  <1>5. SpanSums(iter, X, U)
    BY <1>4 DEF SpanSums, Some
  <1> QED BY <1>1, <1>5

\* Some spans last as long as one of them and the others.
LEMMA SpanNsWithout ==
    ASSUME NEW X, IsFiniteSet(DOMAIN X), \A r \in DOMAIN X : X[r] \in Span, NEW z \in DOMAIN X
    PROVE  LET Y == [r \in DOMAIN X \ {z} |-> X[r]]
           IN  /\ SpanNs(Y) \in Nat
               /\ SpanNs(X) = Length(X[z]) + SpanNs(Y)
  <1> DEFINE U == DOMAIN X
             Y == [r \in U \ {z} |-> X[r]]
  <1>1. DOMAIN Y = U \ {z} /\ IsFiniteSet(DOMAIN Y) /\ \A r \in DOMAIN Y : Y[r] = X[r]
    BY FS_RemoveElement
  <1> HIDE DEF Y
  <1>2. PICK f : SpanSums(f, X, U) /\ SpanNs(X) = f[U]
    BY SpanNsIs
  <1>3. PICK g : SpanSums(g, Y, DOMAIN Y) /\ SpanNs(Y) = g[DOMAIN Y]
    BY <1>1, SpanNsIs
  <1>4. PICK h \in [SUBSET U -> Nat] : SpanSums(h, X, U)
    BY SpanSumsExist
  <1>5. h[U] = f[U]
    BY <1>2, <1>4, SpanSumsAgree
  <1>6. g[DOMAIN Y] = h[DOMAIN Y]
    BY <1>1, <1>3, <1>4, SpanSumsAgree
  <1>7. h[U] = Length(X[z]) + h[U \ {z}] /\ h[U \ {z}] \in Nat
    <2>1. IsFiniteSet(U) /\ (\A r \in U : X[r] \in Span) /\ z \in U
      OBVIOUS
    <2>2. U \ {z} \in SUBSET U
      OBVIOUS
    <2> HIDE DEF U
    <2>3. h[U] = Length(X[z]) + h[U \ {z}]
      BY <1>4, <2>1, SpanSumsWithout
    <2> QED BY <1>4, <2>2, <2>3
  <1> QED BY <1>1, <1>2, <1>3, <1>5, <1>6, <1>7 DEF Y

\* Nothing lasts no time.
LEMMA SpanNsOfNone ==
    ASSUME NEW X, DOMAIN X = {} PROVE SpanNs(X) = 0
  <1>1. IsFiniteSet(DOMAIN X)
    BY FS_EmptySet
  <1>2. PICK h : SpanSums(h, X, DOMAIN X) /\ SpanNs(X) = h[DOMAIN X]
    BY <1>1, SpanNsIs
  <1> QED BY <1>2 DEF SpanSums

-----------------------------------------------------------------------------
(* Joins.                                                                  *)

Joins == [from : Nat, into : Nat, offset : Int]
Place == [segment : Nat, offset : Int]
Froms(M) == {m.from : m \in M}

\* R is where each segment is joined to in the end, D after how many joins: no
\* segment is joined twice, and following joins comes to an end.
Forest(M, R, D) ==
    /\ M \subseteq Joins /\ IsFiniteSet(M)
    /\ R \in [Nat -> Place]
    /\ D \in [Nat -> 0..Cardinality(M)]
    /\ \A m, n \in M : m.from = n.from => m = n
    /\ \A s \in Nat \ Froms(M) : R[s] = [segment |-> s, offset |-> 0] /\ D[s] = 0
    /\ \A m \in M :
          /\ R[m.from] = [segment |-> R[m.into].segment, offset |-> m.offset + R[m.into].offset]
          /\ D[m.from] = D[m.into] + 1
    /\ \A s \in Nat : R[s].segment \notin Froms(M)

\* One join further.
Onward(M, h) ==
    IF \E x \in M : x.from = h.segment
    THEN [segment |-> (CHOOSE x \in M : x.from = h.segment).into,
          offset |-> h.offset + (CHOOSE x \in M : x.from = h.segment).offset]
    ELSE h

\* From a segment on, every join goes on to where it leads.
LEMMA OnwardInForest ==
    ASSUME NEW M, NEW R, NEW D, Forest(M, R, D), NEW h \in Place
    PROVE  /\ Onward(M, h) \in Place
           /\ R[Onward(M, h).segment].segment = R[h.segment].segment
           /\ Onward(M, h).offset + R[Onward(M, h).segment].offset
                 = h.offset + R[h.segment].offset
           /\ D[h.segment] # 0 => D[Onward(M, h).segment] = D[h.segment] - 1
           /\ D[h.segment] = 0 => Onward(M, h) = h
<1> DEFINE s == h.segment
           x == CHOOSE x \in M : x.from = s
<1>0. s \in Nat /\ h.offset \in Int
  BY DEF Place
<1>1. CASE s \in Froms(M)
  <2>1. \E m \in M : m.from = s
    BY <1>1 DEF Froms
  <2>2. x \in M /\ x.from = s
    BY <2>1
  <2>3. Onward(M, h) = [segment |-> x.into, offset |-> h.offset + x.offset]
    BY <2>1 DEF Onward
  <2> HIDE DEF x
  <2>4. x.into \in Nat /\ x.offset \in Int
    BY <2>2 DEF Forest, Joins
  <2>5. R[s] = [segment |-> R[x.into].segment, offset |-> x.offset + R[x.into].offset]
        /\ D[s] = D[x.into] + 1
    BY <2>2 DEF Forest
  <2>6. D[x.into] \in Nat /\ R[x.into].offset \in Int
    <3>1. IsFiniteSet(M) /\ D \in [Nat -> 0..Cardinality(M)] /\ R \in [Nat -> Place]
      BY DEF Forest
    <3>2. Cardinality(M) \in Nat
      BY <3>1, FS_CardinalityType
    <3>3. D[x.into] \in 0..Cardinality(M) /\ R[x.into] \in Place
      BY <2>4, <3>1
    <3> QED BY <3>2, <3>3 DEF Place
  <2> HIDE DEF s
  <2>7. Onward(M, h) \in Place
    BY <1>0, <2>3, <2>4 DEF Place
  <2>8. Onward(M, h).segment = x.into /\ Onward(M, h).offset = h.offset + x.offset
    BY <2>3
  <2>9. D[s] # 0 /\ D[x.into] = D[s] - 1
    BY <2>5, <2>6
  <2>10. (h.offset + x.offset) + R[x.into].offset = h.offset + (x.offset + R[x.into].offset)
    BY <1>0, <2>4, <2>6
  <2> QED BY <2>5, <2>7, <2>8, <2>9, <2>10 DEF s
<1>2. CASE s \notin Froms(M)
  <2>1. D[s] = 0
    BY <1>0, <1>2 DEF Forest
  <2>2. Onward(M, h) = h
    BY <1>2 DEF Onward, Froms
  <2> QED BY <2>1, <2>2
<1> QED BY <1>1, <1>2

\* Following joins gets there.
LEMMA CanonicalInForest ==
    ASSUME NEW M, NEW R, NEW D, Forest(M, R, D), NEW s \in Nat
    PROVE  Canonical(M, s, Cardinality(M)) = R[s]
<1> DEFINE n == Cardinality(M)
           start == [segment |-> s, offset |-> 0]
           Is(f) == f = [k \in 0..n |->
                           IF k = 0 THEN start
                           ELSE IF \E x \in M : x.from = f[k - 1].segment
                                THEN [segment |-> (CHOOSE x \in M : x.from = f[k - 1].segment).into,
                                      offset |-> f[k - 1].offset
                                         + (CHOOSE x \in M : x.from = f[k - 1].segment).offset]
                                ELSE f[k - 1]]
           hop == CHOOSE f : Is(f)
           F == [h \in Place |-> Onward(M, h)]
<1>1. n \in Nat /\ start \in Place
  BY FS_CardinalityType DEF Forest, Place
<1>2. Canonical(M, s, n) = hop[n]
  BY DEF Canonical
<1>3. F \in [Place -> Place] /\ \A h \in Place : F[h] = Onward(M, h)
  BY OnwardInForest
<1> HIDE DEF n, F, start
<1>4. PICK g \in [0..n -> Place] : Iterates(g, start, F, n)
  BY <1>1, <1>3, IterExists
<1>5. Is(g)
  <2>1. ASSUME NEW k \in 0..n, k # 0 PROVE g[k] = Onward(M, g[k - 1])
    <3>1. k \in 1..n /\ k - 1 \in 0..n
      BY <1>1, <2>1
    <3> QED BY <1>3, <1>4, <3>1 DEF Iterates
  <2>2. \A k \in 0..n : g[k] = IF k = 0 THEN start ELSE Onward(M, g[k - 1])
    BY <1>4, <2>1 DEF Iterates
  <2>3. g = [k \in 0..n |-> IF k = 0 THEN start ELSE Onward(M, g[k - 1])]
    BY <1>4, <2>2
  <2> QED BY <2>3 DEF Onward
<1>6. Is(hop)
  <2> HIDE DEF Is
  <2> QED BY <1>5
<1> HIDE DEF hop
<1>7. hop = [k \in 0..n |-> IF k = 0 THEN start ELSE Onward(M, hop[k - 1])]
  BY <1>6 DEF Onward
<1> HIDE DEF Is
<1> DEFINE T == {k \in 0..n : /\ hop[k] \in Place
                              /\ R[hop[k].segment].segment = R[s].segment
                              /\ hop[k].offset + R[hop[k].segment].offset = R[s].offset
                              /\ D[hop[k].segment] = 0 \/ D[hop[k].segment] + k = D[s]}
<1>8. R \in [Nat -> Place] /\ D \in [Nat -> 0..n]
  BY DEF Forest, n
<1>9. R[s].offset \in Int /\ D[s] \in 0..n
  BY <1>8 DEF Place
<1>10. 0 \in T
  <2>1. hop[0] = start /\ 0 \in 0..n
    BY <1>1, <1>7
  <2>2. hop[0].segment = s /\ hop[0].offset = 0 /\ hop[0] \in Place
    BY <1>1, <2>1 DEF start
  <2> QED BY <1>1, <1>9, <2>1, <2>2
<1>11. ASSUME NEW k \in 1..n, k - 1 \in T PROVE k \in T
  <2> DEFINE h == hop[k - 1]
  <2>1. h \in Place /\ R[h.segment].segment = R[s].segment
        /\ h.offset + R[h.segment].offset = R[s].offset
        /\ (D[h.segment] = 0 \/ D[h.segment] + (k - 1) = D[s])
    BY <1>11
  <2>2. k \in 0..n /\ k # 0 /\ hop[k] = Onward(M, h)
    BY <1>1, <1>7
  <2> DEFINE j == hop[k]
  <2> HIDE DEF h, T
  <2>3. /\ j \in Place
        /\ R[j.segment].segment = R[h.segment].segment
        /\ j.offset + R[j.segment].offset = h.offset + R[h.segment].offset
        /\ D[h.segment] # 0 => D[j.segment] = D[h.segment] - 1
        /\ D[h.segment] = 0 => j = h
    BY <2>1, <2>2, OnwardInForest
  <2> HIDE DEF j
  <2>4. D[h.segment] \in Int /\ D[s] \in Int
    <3>1. h.segment \in Nat
      BY <2>1 DEF Place
    <3> QED BY <1>1, <1>8, <3>1
  <2>5. D[j.segment] = 0 \/ D[j.segment] + k = D[s]
    <3>1. k \in Int
      BY <1>1
    <3>2. CASE D[h.segment] = 0
      BY <2>3, <3>2
    <3>3. CASE D[h.segment] # 0
      <4>1. D[j.segment] = D[h.segment] - 1 /\ D[h.segment] + (k - 1) = D[s]
        BY <2>1, <2>3, <3>3
      <4> QED BY <2>4, <3>1, <4>1
    <3> QED BY <3>2, <3>3
  <2>6. R[j.segment].segment = R[s].segment /\ j.offset + R[j.segment].offset = R[s].offset
    BY <2>1, <2>3
  <2> QED BY <2>2, <2>3, <2>5, <2>6 DEF T, j
<1> HIDE DEF T
<1>12. \A k \in 0..n : k \in T
  BY <1>1, <1>10, <1>11, StepByStep
<1>13. n \in T
  BY <1>1, <1>12
<1> DEFINE h == hop[n]
<1>14. h \in Place /\ R[h.segment].segment = R[s].segment
        /\ h.offset + R[h.segment].offset = R[s].offset
        /\ (D[h.segment] = 0 \/ D[h.segment] + n = D[s])
  BY <1>13 DEF T
<1> HIDE DEF h
<1>15. h.segment \in Nat /\ h.offset \in Int
  BY <1>14 DEF Place
<1>16. D[h.segment] = 0
  <2>1. D[h.segment] \in 0..n /\ D[s] \in 0..n
    BY <1>8, <1>9, <1>15
  <2> QED BY <1>1, <1>14, <2>1
<1>17. h.segment \notin Froms(M)
  <2>1. SUFFICES ASSUME NEW m \in M, m.from = h.segment PROVE FALSE
    BY DEF Froms
  <2>2. D[m.from] = D[m.into] + 1 /\ m.into \in Nat
    BY DEF Forest, Joins
  <2>3. D[m.into] \in 0..n
    BY <1>8, <2>2
  <2> QED BY <1>1, <1>16, <2>1, <2>2, <2>3
<1>18. R[h.segment] = [segment |-> h.segment, offset |-> 0]
  BY <1>15, <1>17 DEF Forest
<1>19. h.segment = R[s].segment /\ h.offset = R[s].offset
  BY <1>14, <1>15, <1>18
<1>20. h = R[s]
  <2>1. R[s] \in Place
    BY <1>8
  <2> QED BY <1>14, <1>19, <2>1 DEF Place
<1> QED BY <1>2, <1>20 DEF h, n

\* Joins that come to an end, and where they lead from a segment.
Rooted(M) == \E R, D : Forest(M, R, D)
Root(M, s) == Canonical(M, s, Cardinality(M))

\* The root of a segment is not joined itself, and a segment that is not is its own.
LEMMA RootParts ==
    ASSUME NEW M, Rooted(M), NEW s \in Nat
    PROVE  /\ Root(M, s) \in Place
           /\ Root(M, s).segment \notin Froms(M)
           /\ s \notin Froms(M) => Root(M, s) = [segment |-> s, offset |-> 0]
<1>1. PICK R, D : Forest(M, R, D)
  BY DEF Rooted
<1>2. Root(M, s) = R[s]
  BY <1>1, CanonicalInForest DEF Root
<1> QED BY <1>1, <1>2 DEF Forest

\* Without joins.
LEMMA RootOfNone == Rooted({}) /\ Froms({}) = {}
<1> DEFINE R == [s \in Nat |-> [segment |-> s, offset |-> 0]]
           D == [s \in Nat |-> 0]
<1>1. IsFiniteSet({}) /\ Cardinality({}) = 0
  BY FS_EmptySet
<1>2. Froms({}) = {}
  BY DEF Froms
<1>3. Forest({}, R, D)
  <2>1. R \in [Nat -> Place]
    BY DEF Place
  <2>2. D \in [Nat -> 0..Cardinality({})]
    BY <1>1
  <2> QED BY <1>1, <1>2, <2>1, <2>2 DEF Forest
<1> QED BY <1>2, <1>3 DEF Rooted

\* The joins N are M and that of f into t: all that led to f leads to t.
JoinedTo(N, M, f, t, o) ==
    /\ Rooted(N)
    /\ Froms(N) = Froms(M) \cup {f}
    /\ \A s \in Nat :
          /\ Root(N, s).segment = IF Root(M, s).segment = f THEN t ELSE Root(M, s).segment
          /\ Root(N, s).offset = IF Root(M, s).segment = f THEN Root(M, s).offset + o
                                 ELSE Root(M, s).offset

\* A segment that is not joined yet joins another one, with all it holds.
LEMMA RootJoined ==
    ASSUME NEW M, Rooted(M), NEW f \in Nat \ Froms(M), NEW t \in Nat \ Froms(M), f # t,
           NEW o \in Int
    PROVE  JoinedTo(M \cup {[from |-> f, into |-> t, offset |-> o]}, M, f, t, o)
<1> DEFINE j == [from |-> f, into |-> t, offset |-> o]
           N == M \cup {j}
<1>1. PICK R, D : Forest(M, R, D)
  BY DEF Rooted
<1> DEFINE Q == [s \in Nat |-> IF R[s].segment = f
                               THEN [segment |-> t, offset |-> R[s].offset + o] ELSE R[s]]
           E == [s \in Nat |-> IF R[s].segment = f THEN D[s] + 1 ELSE D[s]]
<1>2. j \in Joins /\ j.from = f /\ j.into = t /\ j.offset = o
  BY DEF Joins
<1>3. M \subseteq Joins /\ IsFiniteSet(M)
  BY <1>1 DEF Forest
<1>4. R \in [Nat -> Place] /\ D \in [Nat -> 0..Cardinality(M)]
  BY <1>1 DEF Forest
<1>5. j \notin M
  BY <1>2 DEF Froms
<1>6. N \subseteq Joins /\ IsFiniteSet(N) /\ Cardinality(N) = Cardinality(M) + 1
  BY <1>2, <1>3, <1>5, FS_AddElement
<1>7. Cardinality(M) \in Nat
  BY <1>3, FS_CardinalityType
<1>8. Froms(N) = Froms(M) \cup {f}
  BY <1>2 DEF Froms
<1> HIDE DEF j
<1>9. Q \in [Nat -> Place]
  <2>1. ASSUME NEW s \in Nat
        PROVE  (IF R[s].segment = f THEN [segment |-> t, offset |-> R[s].offset + o] ELSE R[s]) \in Place
    <3>1. R[s] \in Place
      BY <1>4
    <3> QED BY <3>1 DEF Place
  <2> QED BY <2>1
<1>10. \A s \in Nat : D[s] \in Nat /\ D[s] <= Cardinality(M)
  BY <1>4, <1>7
<1>11. E \in [Nat -> 0..Cardinality(N)]
  <2>1. ASSUME NEW s \in Nat
        PROVE  (IF R[s].segment = f THEN D[s] + 1 ELSE D[s]) \in 0..Cardinality(N)
    BY <1>6, <1>7, <1>10
  <2> QED BY <2>1
<1>12. ASSUME NEW m \in N, NEW n \in N, m.from = n.from PROVE m = n
  <2>1. \A k \in M : k.from # f
    BY DEF Froms
  <2> QED BY <1>1, <1>2, <1>12, <2>1 DEF Forest
<1>13. ASSUME NEW s \in Nat \ Froms(N) PROVE Q[s] = [segment |-> s, offset |-> 0] /\ E[s] = 0
  <2>1. s \in Nat \ Froms(M) /\ s # f
    BY <1>8
  <2>2. R[s] = [segment |-> s, offset |-> 0] /\ D[s] = 0
    BY <1>1, <2>1 DEF Forest
  <2> QED BY <2>1, <2>2
<1>14. R[t] = [segment |-> t, offset |-> 0] /\ D[t] = 0 /\ R[f] = [segment |-> f, offset |-> 0] /\ D[f] = 0
  BY <1>1 DEF Forest
<1>15. ASSUME NEW m \in N
       PROVE  /\ Q[m.from] = [segment |-> Q[m.into].segment, offset |-> m.offset + Q[m.into].offset]
              /\ E[m.from] = E[m.into] + 1
  <2>1. CASE m = j
    <3>1. Q[t] = [segment |-> t, offset |-> 0] /\ E[t] = 0
      BY <1>14
    <3>2. Q[f] = [segment |-> t, offset |-> o] /\ E[f] = 1
      BY <1>14
    <3> HIDE DEF Q, E
    <3> QED BY <1>2, <2>1, <3>1, <3>2
  <2>2. CASE m \in M
    <3>1. m.from \in Nat /\ m.into \in Nat /\ m.offset \in Int
      BY <1>3, <2>2 DEF Joins
    <3>2. /\ R[m.from] = [segment |-> R[m.into].segment, offset |-> m.offset + R[m.into].offset]
          /\ D[m.from] = D[m.into] + 1
      BY <1>1, <2>2 DEF Forest
    <3>3. R[m.from].segment = R[m.into].segment /\ R[m.from].offset = m.offset + R[m.into].offset
      BY <3>2
    <3>4. R[m.into] \in Place /\ D[m.into] \in Nat /\ R[m.into].offset \in Int
      BY <1>4, <1>10, <3>1 DEF Place
    <3>5. CASE R[m.into].segment = f
      <4>1. Q[m.from] = [segment |-> t, offset |-> (m.offset + R[m.into].offset) + o]
        BY <3>1, <3>3, <3>5
      <4>2. Q[m.into] = [segment |-> t, offset |-> R[m.into].offset + o]
        BY <3>1, <3>5
      <4>3. (m.offset + R[m.into].offset) + o = m.offset + (R[m.into].offset + o)
        BY <3>1, <3>4
      <4>4. E[m.from] = D[m.from] + 1 /\ E[m.into] = D[m.into] + 1
        BY <3>1, <3>3, <3>5
      <4> HIDE DEF Q, E
      <4> QED BY <3>2, <4>1, <4>2, <4>3, <4>4
    <3>6. CASE R[m.into].segment # f
      <4>1. Q[m.from] = R[m.from] /\ Q[m.into] = R[m.into] /\ E[m.from] = D[m.from] /\ E[m.into] = D[m.into]
        BY <3>1, <3>3, <3>6
      <4> HIDE DEF Q, E
      <4> QED BY <3>2, <4>1
    <3> QED BY <3>5, <3>6
  <2> QED BY <2>1, <2>2
<1>16. ASSUME NEW s \in Nat PROVE Q[s].segment \notin Froms(N)
  <2>1. R[s].segment \notin Froms(M)
    BY <1>1 DEF Forest
  <2>2. CASE R[s].segment = f
    <3>1. Q[s].segment = t
      BY <2>2
    <3> QED BY <1>8, <3>1
  <2>3. CASE R[s].segment # f
    <3>1. Q[s] = R[s]
      BY <2>3
    <3> HIDE DEF Q
    <3> QED BY <1>8, <2>1, <2>3, <3>1
  <2> QED BY <2>2, <2>3
<1>17. Forest(N, Q, E)
  <2> HIDE DEF N, Q, E
  <2> QED BY <1>6, <1>9, <1>11, <1>12, <1>13, <1>15, <1>16 DEF Forest
<1>18. ASSUME NEW s \in Nat
       PROVE  /\ Root(N, s).segment = IF Root(M, s).segment = f THEN t ELSE Root(M, s).segment
              /\ Root(N, s).offset = IF Root(M, s).segment = f THEN Root(M, s).offset + o
                                     ELSE Root(M, s).offset
  <2>1. Q[s] = IF R[s].segment = f
               THEN [segment |-> t, offset |-> R[s].offset + o] ELSE R[s]
    OBVIOUS
  <2>2. Root(M, s) = R[s]
    BY <1>1, CanonicalInForest DEF Root
  <2> HIDE DEF N, Q, E
  <2>3. Root(N, s) = Q[s]
    BY <1>17, CanonicalInForest DEF Root
  <2> QED BY <2>1, <2>2, <2>3
<1>19. Rooted(N)
  <2> HIDE DEF N, Q, E
  <2> QED BY <1>17 DEF Rooted
<1> HIDE DEF N
<1>20. JoinedTo(N, M, f, t, o)
  BY <1>8, <1>18, <1>19 DEF JoinedTo
<1> QED BY <1>20 DEF N, j

-----------------------------------------------------------------------------
(* The joins of the accumulator.                                           *)

\* Segments are joined once, and not while they are open, remembered or
\* abandoned; nothing is joined to an abandoned one, nor to the open one while
\* a previous one is remembered, for that may yet abandon it.
JoinsSound(a) ==
    /\ Rooted(a.merged)
    /\ Froms(a.merged) \subseteq 0..a.next_segment
    /\ \A s \in Nat : \/ Root(a.merged, s).segment = s
                      \/ Root(a.merged, s).segment <= a.next_segment
    /\ a.segment \notin Froms(a.merged)
    /\ a.previous # None => a.previous.segment \notin Froms(a.merged)
    /\ a.abandoned \cap Froms(a.merged) = {}
    /\ \A s \in Nat : Root(a.merged, s).segment \in a.abandoned => Root(a.merged, s).segment = s
    /\ a.previous # None =>
          \A s \in Nat : Root(a.merged, s).segment = a.segment => a.segment = s

\* What becomes of the fields that say how segments are joined.
LEMMA SettleFields ==
    ASSUME NEW a \in Accumulator, Settles(a)
    PROVE  LET s == SettlePause(a)
               p == a.previous
           IN  /\ s.merged = a.merged \cup {[from |-> a.segment, into |-> p.segment, offset |-> 0]}
               /\ s.segment = p.segment
               /\ s.next_segment = a.next_segment
               /\ s.abandoned = a.abandoned
               /\ s.last = a.last
               /\ s.gap = p.gap
<1> DEFINE p == a.previous
           total == SaturatingSub(a.total_ns, p.duration_ns)
           merged == a.merged \cup {[from |-> a.segment, into |-> p.segment, offset |-> 0]}
           earlier == MergeInto(a.earlier, MergeInto(p.earlier, p.last))
           s == SettlePause(a)
<1>1. s = [a EXCEPT !.total_ns = total, !.merged = merged, !.segment = p.segment,
                    !.earlier = earlier, !.gap = p.gap, !.previous = None]
  BY DEF Settles, SettlePause
<1> HIDE DEF s, total, merged, earlier
<1>2. s.merged = merged /\ s.segment = p.segment /\ s.next_segment = a.next_segment
      /\ s.abandoned = a.abandoned /\ s.last = a.last /\ s.gap = p.gap
  BY <1>1 DEF Accumulator
<1> QED BY <1>2 DEF s, merged

\* Closing joins nothing.
LEMMA CloseMerges ==
    ASSUME NEW a \in Accumulator, NEW trim \in Nat
    PROVE  /\ Close(a, trim).merged = a.merged
           /\ a.last = None => Close(a, trim) = [a EXCEPT !.earlier = None]
<1>1. CASE a.last = None
  BY <1>1 DEF Close, Accumulator
<1>2. CASE a.last # None
  <2> DEFINE last == Trimmed(a.last, trim)
             d == Length(MergeInto(a.earlier, last))
             p == [segment |-> a.segment, earlier |-> a.earlier,
                   last |-> last, duration_ns |-> d, gap |-> a.gap]
             c == Close(a, trim)
  <2>1. c = [a EXCEPT !.total_ns = @ + d, !.segment = a.next_segment + 1,
                      !.next_segment = @ + 1, !.earlier = None, !.last = None,
                      !.previous = p]
    BY <1>2 DEF Close
  <2> HIDE DEF c, p, d
  <2>2. c.merged = a.merged
    BY <2>1 DEF Accumulator
  <2> QED BY <1>2, <2>2 DEF c
<1> QED BY <1>1, <1>2

LEMMA ReopenedFields ==
    ASSUME NEW a \in Accumulator
    PROVE  LET r == Reopened(a)
               p == a.previous
           IN  /\ r.merged = a.merged
               /\ r.segment = p.segment
               /\ r.next_segment = a.next_segment
               /\ r.abandoned = a.abandoned \cup {a.segment}
               /\ r.total_ns = SaturatingSub(a.total_ns, p.duration_ns)
               /\ r.earlier = p.earlier
               /\ r.last = p.last
               /\ r.gap = p.gap
               /\ r.previous = None
<1> DEFINE p == a.previous
           total == SaturatingSub(a.total_ns, p.duration_ns)
           steps == IF a.gap.kind = "Step" THEN SaturatingSub(a.clock_steps, 1) ELSE a.clock_steps
           abandoned == a.abandoned \cup {a.segment}
           r == Reopened(a)
<1>1. r = [a EXCEPT !.total_ns = total, !.clock_steps = steps, !.abandoned = abandoned,
                    !.segment = p.segment, !.earlier = p.earlier, !.last = p.last,
                    !.gap = p.gap, !.previous = None]
  BY DEF Reopened
<1> HIDE DEF r, total, steps, abandoned
<1>2. /\ r.merged = a.merged /\ r.segment = p.segment /\ r.next_segment = a.next_segment
      /\ r.abandoned = abandoned /\ r.total_ns = total /\ r.earlier = p.earlier
      /\ r.last = p.last /\ r.gap = p.gap /\ r.previous = None
  BY <1>1 DEF Accumulator
<1> QED BY <1>2 DEF r, total, abandoned

\* A jump and a record change, besides, only the gap and the steps.
SameButSteps(b, a) ==
    /\ b.merged = a.merged /\ b.segment = a.segment /\ b.next_segment = a.next_segment
    /\ b.abandoned = a.abandoned /\ b.total_ns = a.total_ns
    /\ b.earlier = a.earlier /\ b.last = a.last /\ b.previous = a.previous

\* A jump closes the segment: the step it may count joins nothing.
LEMMA OpenedFields ==
    ASSUME NEW a, Sound(a), NEW span \in Span, a.last # None
    PROVE  SameButSteps(Opened(a, span), Close(SettlePause(a), 0))
<1> DEFINE jump == span.start_ns - a.last.end_ns
           kind == KindOf(a, jump)
           c == Close(SettlePause(a), 0)
           steps == IF kind = "Step" THEN c.clock_steps + 1 ELSE c.clock_steps
           gap == [at |-> span.start_ns, jump |-> jump, kind |-> kind]
           o == Opened(a, span)
<1>1. SettlePause(a) \in Accumulator /\ SettlePause(a).last = a.last
  BY SettleSound DEF Sound
<1>2. c \in Accumulator
  BY <1>1, CloseFields
<1>3. o = [c EXCEPT !.clock_steps = steps, !.gap = gap]
  BY DEF Opened
<1> HIDE DEF c, steps, gap, o
<1>4. SameButSteps(o, c)
  BY <1>2, <1>3 DEF Accumulator, SameButSteps
<1> QED BY <1>4 DEF o, c

\* A join across a step, where there is a segment before it.
LEMMA JoinFields ==
    ASSUME NEW a \in Accumulator, NEW step, NEW paused, a.previous # None
    PROVE  LET j == JoinAcrossStep(a, step, paused)
               p == a.previous
           IN  /\ j.merged = a.merged \cup {[from |-> p.segment, into |-> a.segment, offset |-> step]}
               /\ j.segment = a.segment
               /\ j.next_segment = a.next_segment
               /\ j.abandoned = a.abandoned
               /\ j.total_ns = SaturatingSub(a.total_ns, p.duration_ns)
               /\ j.earlier = MergeInto(a.earlier, Shifted(MergeInto(p.earlier, p.last), step))
               /\ j.last = a.last
               /\ j.previous = None
<1> DEFINE p == a.previous
           total == SaturatingSub(a.total_ns, p.duration_ns)
           merged == a.merged \cup {[from |-> p.segment, into |-> a.segment, offset |-> step]}
           earlier == MergeInto(a.earlier, Shifted(MergeInto(p.earlier, p.last), step))
           j == JoinAcrossStep(a, step, paused)
<1>1. j = [a EXCEPT !.total_ns = total, !.merged = merged, !.earlier = earlier,
                    !.gap = None, !.previous = None]
  BY DEF JoinAcrossStep
<1> HIDE DEF j, total, merged, earlier
<1>2. /\ j.merged = merged /\ j.segment = a.segment /\ j.next_segment = a.next_segment
      /\ j.abandoned = a.abandoned /\ j.total_ns = total /\ j.earlier = earlier
      /\ j.last = a.last /\ j.previous = None
  BY <1>1 DEF Accumulator
<1> QED BY <1>2 DEF j, total, merged, earlier

\* Without one the pause changes no segment.
LEMMA PauseAlone ==
    ASSUME NEW a \in Accumulator, NEW step, NEW paused, a.previous = None
    PROVE  LET j == JoinAcrossStep(a, step, paused)
           IN  /\ j.merged = a.merged /\ j.segment = a.segment
               /\ j.next_segment = a.next_segment /\ j.abandoned = a.abandoned
               /\ j.previous = a.previous /\ j.last = a.last /\ j.earlier = a.earlier
BY DEF JoinAcrossStep, Accumulator

\* What settling a pause leaves is sound.
LEMMA SettleJoins ==
    ASSUME NEW a, Sound(a), JoinsSound(a) PROVE JoinsSound(SettlePause(a))
<1> DEFINE s == SettlePause(a)
           f == a.segment
           t == a.previous.segment
<1>1. CASE ~Settles(a)
  BY <1>1, SettleParts DEF Sound
<1>2. CASE Settles(a)
  <2>1. a \in Accumulator /\ a.previous # None /\ a.previous \in Closed
    BY <1>2 DEF Sound, Settles, Accumulator
  <2>2. /\ s.merged = a.merged \cup {[from |-> f, into |-> t, offset |-> 0]}
        /\ s.segment = t /\ s.next_segment = a.next_segment
        /\ s.abandoned = a.abandoned /\ s.previous = None
    BY <1>2, <2>1, SettleFields, SettleParts
  <2>3. /\ f \in Nat \ Froms(a.merged) /\ t \in Nat \ Froms(a.merged) /\ f # t
        /\ f <= a.next_segment /\ t <= a.next_segment /\ a.next_segment \in Nat
        /\ f \notin a.abandoned /\ t \notin a.abandoned
    BY <2>1 DEF Sound, Distinct, JoinsSound, Accumulator, Closed
  <2> HIDE DEF s, f, t
  <2>r. Rooted(a.merged) /\ 0 \in Int
    BY DEF JoinsSound
  <2>4. JoinedTo(s.merged, a.merged, f, t, 0)
    BY <2>2, <2>3, <2>r, RootJoined
  <2>5. \A r \in Nat : Root(s.merged, r).segment
                         = IF Root(a.merged, r).segment = f THEN t ELSE Root(a.merged, r).segment
    BY <2>4 DEF JoinedTo
  <2>6. Froms(s.merged) \subseteq 0..s.next_segment
    <3>1. Froms(s.merged) = Froms(a.merged) \cup {f}
      BY <2>4 DEF JoinedTo
    <3>2. Froms(a.merged) \subseteq 0..a.next_segment
      BY DEF JoinsSound
    <3>3. f \in 0..a.next_segment
      BY <2>3
    <3> QED BY <2>2, <3>1, <3>2, <3>3
  <2>7. \A r \in Nat : \/ Root(s.merged, r).segment = r
                       \/ Root(s.merged, r).segment <= s.next_segment
    BY <2>2, <2>3, <2>5 DEF JoinsSound
  <2>8. s.segment \notin Froms(s.merged) /\ s.abandoned \cap Froms(s.merged) = {}
    BY <2>2, <2>3, <2>4 DEF JoinsSound, JoinedTo
  <2>9. \A r \in Nat : Root(s.merged, r).segment \in s.abandoned => Root(s.merged, r).segment = r
    BY <2>2, <2>3, <2>5 DEF JoinsSound
  <2>10. JoinsSound(s)
    BY <2>2, <2>4, <2>6, <2>7, <2>8, <2>9 DEF JoinsSound, JoinedTo
  <2> QED BY <2>10 DEF s
<1> QED BY <1>1, <1>2

\* A new segment is joined to none.
LEMMA CloseJoins ==
    ASSUME NEW a, Sound(a), JoinsSound(a), NEW trim \in Nat PROVE JoinsSound(Close(a, trim))
<1> DEFINE c == Close(a, trim)
<1>0. a \in Accumulator /\ a.next_segment \in Nat
  BY DEF Sound, Accumulator
<1>1. CASE a.last = None
  <2>1. c = [a EXCEPT !.earlier = None]
    BY <1>0, <1>1, CloseMerges
  <2> HIDE DEF c
  <2>2. /\ c.merged = a.merged /\ c.segment = a.segment /\ c.next_segment = a.next_segment
        /\ c.abandoned = a.abandoned /\ c.previous = a.previous
    BY <1>0, <2>1 DEF Accumulator
  <2>3. JoinsSound(c)
    BY <2>2 DEF JoinsSound
  <2> QED BY <2>3 DEF c
<1>2. CASE a.last # None
  <2>1. /\ c.merged = a.merged /\ c.segment = a.next_segment + 1
        /\ c.next_segment = a.next_segment + 1
        /\ c.abandoned = a.abandoned /\ c.previous # None /\ c.previous.segment = a.segment
    BY <1>0, <1>2, CloseFields, CloseMerges
  <2> HIDE DEF c
  <2>2. Rooted(c.merged) /\ c.previous.segment \notin Froms(c.merged)
        /\ c.abandoned \cap Froms(c.merged) = {}
    BY <2>1 DEF JoinsSound
  <2>3. Froms(c.merged) \subseteq 0..c.next_segment /\ c.segment \notin Froms(c.merged)
    BY <1>0, <2>1 DEF JoinsSound
  <2>4. ASSUME NEW s \in Nat
        PROVE  /\ Root(c.merged, s).segment = s \/ Root(c.merged, s).segment <= c.next_segment
               /\ Root(c.merged, s).segment \in c.abandoned => Root(c.merged, s).segment = s
               /\ Root(c.merged, s).segment = c.segment => c.segment = s
    <3> DEFINE r == Root(a.merged, s).segment
    <3>1. r \in Nat
      BY RootParts DEF JoinsSound, Place
    <3>2. r = s \/ r <= a.next_segment
      BY DEF JoinsSound
    <3>3. r \in a.abandoned => r = s
      BY DEF JoinsSound
    <3> HIDE DEF r
    <3>4. (r = s \/ r <= c.next_segment) /\ (r = c.segment => c.segment = s)
      BY <1>0, <2>1, <3>1, <3>2
    <3> QED BY <2>1, <3>3, <3>4 DEF r
  <2>5. JoinsSound(c)
    BY <2>2, <2>3, <2>4 DEF JoinsSound
  <2> QED BY <2>5 DEF c
<1> QED BY <1>1, <1>2

\* An excursion was joined to none, and none to it.
LEMMA ReopenedJoins ==
    ASSUME NEW a, Sound(a), a.previous # None, JoinsSound(a) PROVE JoinsSound(Reopened(a))
<1> DEFINE r == Reopened(a)
<1>1. /\ r.merged = a.merged /\ r.segment = a.previous.segment
      /\ r.next_segment = a.next_segment /\ r.abandoned = a.abandoned \cup {a.segment}
      /\ r.previous = None
  BY ReopenedFields DEF Sound
<1> HIDE DEF r
<1>2. JoinsSound(r)
  BY <1>1 DEF JoinsSound
<1> QED BY <1>2 DEF r

\* A join across a step: the segment that is joined was open until the step.
LEMMA AcrossJoins ==
    ASSUME NEW a, Sound(a), JoinsSound(a), NEW step \in Int, NEW paused
    PROVE  JoinsSound(JoinAcrossStep(a, step, paused))
<1> DEFINE j == JoinAcrossStep(a, step, paused)
           f == a.previous.segment
           t == a.segment
<1>0. a \in Accumulator
  BY DEF Sound
<1>1. CASE a.previous = None
  <2>1. /\ j.merged = a.merged /\ j.segment = a.segment
        /\ j.next_segment = a.next_segment /\ j.abandoned = a.abandoned
        /\ j.previous = a.previous
    BY <1>0, <1>1, PauseAlone
  <2> HIDE DEF j
  <2>2. JoinsSound(j)
    BY <2>1 DEF JoinsSound
  <2> QED BY <2>2 DEF j
<1>2. CASE a.previous # None
  <2>1. a.previous \in Closed
    BY <1>0, <1>2 DEF Accumulator
  <2>2. /\ j.merged = a.merged \cup {[from |-> f, into |-> t, offset |-> step]}
        /\ j.segment = t /\ j.next_segment = a.next_segment
        /\ j.abandoned = a.abandoned /\ j.previous = None
    BY <1>0, <1>2, JoinFields
  <2>3. /\ f \in Nat \ Froms(a.merged) /\ t \in Nat \ Froms(a.merged) /\ f # t
        /\ f <= a.next_segment /\ t <= a.next_segment /\ a.next_segment \in Nat
        /\ f \notin a.abandoned /\ t \notin a.abandoned
    BY <1>2, <2>1 DEF Sound, Distinct, JoinsSound, Accumulator, Closed
  <2> HIDE DEF j, f, t
  <2>r. Rooted(a.merged) /\ step \in Int
    BY DEF JoinsSound
  <2>4. JoinedTo(j.merged, a.merged, f, t, step)
    BY <2>2, <2>3, <2>r, RootJoined
  <2>5. \A r \in Nat : Root(j.merged, r).segment
                         = IF Root(a.merged, r).segment = f THEN t ELSE Root(a.merged, r).segment
    BY <2>4 DEF JoinedTo
  <2>6. Froms(j.merged) \subseteq 0..j.next_segment
    <3>1. Froms(j.merged) = Froms(a.merged) \cup {f}
      BY <2>4 DEF JoinedTo
    <3>2. Froms(a.merged) \subseteq 0..a.next_segment
      BY DEF JoinsSound
    <3>3. f \in 0..a.next_segment
      BY <2>3
    <3> QED BY <2>2, <3>1, <3>2, <3>3
  <2>7. \A r \in Nat : \/ Root(j.merged, r).segment = r
                       \/ Root(j.merged, r).segment <= j.next_segment
    BY <2>2, <2>3, <2>5 DEF JoinsSound
  <2>8. j.segment \notin Froms(j.merged) /\ j.abandoned \cap Froms(j.merged) = {}
    BY <2>2, <2>3, <2>4 DEF JoinsSound, JoinedTo
  <2>9. \A r \in Nat : Root(j.merged, r).segment \in j.abandoned => Root(j.merged, r).segment = r
    BY <2>2, <2>3, <2>5 DEF JoinsSound
  <2>10. JoinsSound(j)
    BY <2>2, <2>4, <2>6, <2>7, <2>8, <2>9 DEF JoinsSound, JoinedTo
  <2> QED BY <2>10 DEF j
<1> QED BY <1>1, <1>2

\* What does not touch these fields keeps them sound.
LEMMA SameJoins ==
    ASSUME NEW a, NEW b, JoinsSound(a), b.merged = a.merged, b.segment = a.segment,
           b.next_segment = a.next_segment, b.abandoned = a.abandoned, b.previous = a.previous
    PROVE  JoinsSound(b)
BY DEF JoinsSound

LEMMA LastingFields ==
    ASSUME NEW b \in Accumulator, NEW span
    PROVE  LET l == Lasting(b, span)
           IN  /\ l.merged = b.merged /\ l.segment = b.segment
               /\ l.next_segment = b.next_segment /\ l.abandoned = b.abandoned
               /\ l.previous = b.previous /\ l.gap = b.gap /\ l.total_ns = b.total_ns
               /\ l.last = span
               /\ l.earlier = IF b.last = None THEN b.earlier ELSE MergeInto(b.earlier, b.last)
BY DEF Lasting, Accumulator

\* Whatever becomes of a jump, the joins stay sound.
LEMMA AfterJumpJoins ==
    ASSUME NEW a, Sound(a), JoinsSound(a), NEW span \in Span
    PROVE  JoinsSound(AfterJump(a, span))
<1>1. ASSUME a.last # None PROVE JoinsSound(Opened(a, span))
  <2> DEFINE s == SettlePause(a)
             c == Close(s, 0)
             o == Opened(a, span)
  <2>1. Sound(s) /\ JoinsSound(s)
    BY SettleSound, SettleJoins
  <2>2. SameButSteps(o, c)
    BY <1>1, OpenedFields
  <2> HIDE DEF s, o
  <2>3. JoinsSound(c)
    BY <2>1, CloseJoins
  <2> HIDE DEF c
  <2>4. JoinsSound(o)
    BY <2>2, <2>3, SameJoins DEF SameButSteps
  <2> QED BY <2>4 DEF o
<1>2. ASSUME a.previous # None PROVE JoinsSound(Reopened(a))
  BY <1>2, ReopenedJoins
<1> QED BY <1>1, <1>2 DEF AfterJump, Returns

\* A span before the pause is settled or after: the result is the same.
LEMMA SettleThenLast ==
    ASSUME NEW b \in Accumulator, NEW span \in Span
    PROVE  SettlePause(Lasting(b, span)) = Lasting(SettlePause(b), span)
<1> DEFINE l == Lasting(b, span)
           s == SettlePause(b)
           p == b.previous
           before == MergeInto(p.earlier, p.last)
           total == SaturatingSub(b.total_ns, p.duration_ns)
           merged == b.merged \cup {[from |-> b.segment, into |-> p.segment, offset |-> 0]}
           own == IF b.last = None THEN b.earlier ELSE MergeInto(b.earlier, b.last)
<1>1. /\ l \in Accumulator /\ l.gap = b.gap /\ l.previous = p /\ l.earlier = own
      /\ l.total_ns = b.total_ns /\ l.merged = b.merged /\ l.segment = b.segment
  BY LastingParts, LastingFields
<1>2. CASE ~Settles(b)
  <2>1. s = b
    BY <1>2, SettleParts
  <2>2. ~Settles(l)
    BY <1>1, <1>2 DEF Settles
  <2>3. SettlePause(l) = l
    BY <1>1, <2>2, SettleParts
  <2> QED BY <2>1, <2>3
<1>3. CASE Settles(b)
  <2>1. p \in Closed /\ b.gap # None /\ p # None /\ b.gap.kind = "Pause"
    BY <1>3 DEF Settles, Accumulator
  <2>2. before \in Span
    BY <2>1, MergeIntoType DEF Closed
  <2> HIDE DEF before
  <2>3. s = [b EXCEPT !.total_ns = total, !.merged = merged, !.segment = p.segment,
                      !.earlier = MergeInto(@, before), !.gap = p.gap, !.previous = None]
    BY <2>1 DEF SettlePause, before
  <2>4. SettlePause(l) = [l EXCEPT !.total_ns = SaturatingSub(@, p.duration_ns),
                       !.merged = @ \cup {[from |-> l.segment, into |-> p.segment, offset |-> 0]},
                       !.segment = p.segment,
                       !.earlier = MergeInto(@, before),
                       !.gap = p.gap,
                       !.previous = None]
    <3> HIDE DEF l
    <3> QED BY <1>1, <2>1 DEF SettlePause, before
  <2>5. SettlePause(l) = [l EXCEPT !.total_ns = total, !.merged = merged, !.segment = p.segment,
                       !.earlier = MergeInto(own, before), !.gap = p.gap, !.previous = None]
    <3> HIDE DEF l, own, p
    <3> QED BY <1>1, <2>4 DEF Accumulator
  <2>6. MergeInto(own, before)
          = IF b.last = None THEN MergeInto(b.earlier, before)
            ELSE MergeInto(MergeInto(b.earlier, before), b.last)
    <3>1. b.earlier \in Span \cup {None} /\ b.last \in Span \cup {None}
      BY DEF Accumulator
    <3>2. CASE b.last = None
      BY <3>2
    <3>3. CASE b.last # None
      BY <2>2, <3>1, <3>3, MergedInAnyOrder
    <3> QED BY <3>2, <3>3
  <2> DEFINE e == MergeInto(b.earlier, before)
  <2> HIDE DEF total, merged, own, s, e
  <2>7. s.last = b.last /\ s.earlier = e
    BY <2>3 DEF Accumulator, e
  <2>8. Lasting(s, span) = [s EXCEPT !.earlier = MergeInto(own, before), !.last = span]
    BY <2>6, <2>7 DEF Lasting, e
  <2>9. l = [b EXCEPT !.earlier = own, !.last = span]
    BY DEF Lasting, own
  <2> DEFINE q == MergeInto(own, before)
  <2> HIDE DEF q, l
  <2>10. Lasting(s, span) = [authoritative |-> b.authoritative, total_ns |-> total,
              clock_steps |-> b.clock_steps, segment |-> p.segment,
              next_segment |-> b.next_segment, earlier |-> q, last |-> span,
              gap |-> p.gap, previous |-> None, merged |-> merged, abandoned |-> b.abandoned]
    BY <2>3, <2>8 DEF Accumulator, q
  <2>11. SettlePause(l) = [authoritative |-> b.authoritative, total_ns |-> total,
              clock_steps |-> b.clock_steps, segment |-> p.segment,
              next_segment |-> b.next_segment, earlier |-> q, last |-> span,
              gap |-> p.gap, previous |-> None, merged |-> merged, abandoned |-> b.abandoned]
    BY <2>5, <2>9 DEF Accumulator, q
  <2> QED BY <2>10, <2>11 DEF l, s
<1> QED BY <1>2, <1>3

\* push.
LEMMA PushJoins ==
    ASSUME NEW a, Sound(a), JoinsSound(a), NEW span \in Span
    PROVE  JoinsSound(Push(a, span))
<1> DEFINE b == AfterJump(a, span)
<1>1. Sound(b) /\ JoinsSound(b)
  BY AfterJumpSound, AfterJumpJoins
<1>2. Push(a, span) = Lasting(b, span) \/ Push(a, span) = Lasting(SettlePause(b), span)
  BY <1>1, PushIs, SettleThenLast DEF Sound
<1> HIDE DEF b
<1>3. ASSUME NEW c, Sound(c), JoinsSound(c) PROVE JoinsSound(Lasting(c, span))
  <2> DEFINE l == Lasting(c, span)
  <2>1. /\ l.merged = c.merged /\ l.segment = c.segment
        /\ l.next_segment = c.next_segment /\ l.abandoned = c.abandoned
        /\ l.previous = c.previous
    BY <1>3, LastingFields DEF Sound
  <2> HIDE DEF l
  <2>2. JoinsSound(l)
    BY <1>3, <2>1, SameJoins
  <2> QED BY <2>2 DEF l
<1> QED BY <1>1, <1>2, <1>3, SettleSound, SettleJoins

\* What a record does, with the fields of the accumulator it leaves alone.
LEMMA RecordStepIs ==
    ASSUME NEW a, Sound(a), NEW step \in Int, NEW trim \in BOOLEAN
    PROVE  \/ /\ a.gap # None /\ DescribedBy(a.gap, step, a.last)
              /\ \E b : /\ Sound(b) /\ SameButSteps(b, a) /\ b.authoritative = a.authoritative
                        /\ RecordStep(a, step, trim)
                             = IF a.authoritative /\ Paused(a.gap, step) > 0
                               THEN JoinAcrossStep(b, step, Paused(a.gap, step)) ELSE b
           \/ /\ ~(a.gap # None /\ DescribedBy(a.gap, step, a.last))
              /\ \E s : /\ Sound(s) /\ SameButSteps(s, SettlePause(a))
                        /\ SameButSteps(RecordStep(a, step, trim),
                                        Close(s, IF trim THEN Abs(step) ELSE 0))
<1> USE DEF Sound
<1>1. CASE a.gap # None /\ DescribedBy(a.gap, step, a.last)
  <2> DEFINE steps == IF a.gap.kind # "Step" THEN a.clock_steps + 1 ELSE a.clock_steps
             b == [a EXCEPT !.gap = None,
                            !.clock_steps = IF a.gap.kind # "Step" THEN @ + 1 ELSE @]
  <2>1. RecordStep(a, step, trim)
           = IF a.authoritative /\ Paused(a.gap, step) > 0
             THEN JoinAcrossStep(b, step, Paused(a.gap, step)) ELSE b
    BY <1>1 DEF RecordStep
  <2>2. Sound(b)
    BY <1>1, ConfirmedSound
  <2>3. b = [a EXCEPT !.gap = None, !.clock_steps = steps]
    OBVIOUS
  <2> HIDE DEF steps, b
  <2>4. SameButSteps(b, a) /\ b.authoritative = a.authoritative
    BY <2>3 DEF SameButSteps, Accumulator
  <2> QED BY <1>1, <2>1, <2>2, <2>4
<1>2. CASE ~(a.gap # None /\ DescribedBy(a.gap, step, a.last))
  <2> DEFINE n == IF trim THEN Abs(step) ELSE 0
             t == SettlePause(a)
             s == [t EXCEPT !.gap = None]
             c == Close(s, n)
             r == [c EXCEPT !.clock_steps = @ + 1]
  <2>1. RecordStep(a, step, trim) = r
    BY <1>2 DEF RecordStep
  <2>2. Sound(t)
    BY SettleSound
  <2>3. n \in Nat
    BY DEF Abs
  <2> HIDE DEF t, n
  <2>4. s \in Accumulator /\ SameButSteps(s, t) /\ s.authoritative = t.authoritative
        /\ s.clock_steps = t.clock_steps /\ s.gap = None
    <3>1. s = [authoritative |-> t.authoritative, total_ns |-> t.total_ns,
              clock_steps |-> t.clock_steps, segment |-> t.segment,
              next_segment |-> t.next_segment, earlier |-> t.earlier, last |-> t.last,
              gap |-> None, previous |-> t.previous, merged |-> t.merged,
              abandoned |-> t.abandoned]
      BY <2>2 DEF Accumulator
    <3> HIDE DEF s
    <3>2. s \in Accumulator
      BY <2>2, <3>1 DEF Accumulator
    <3> QED BY <3>1, <3>2 DEF SameButSteps
  <2> HIDE DEF s
  <2>5. Sound(s)
    BY <2>2, <2>4 DEF SameButSteps, Distinct, Backed, OfMode
  <2>6. c \in Accumulator
    <3>1. CASE s.last = None
      <4>1. c = [s EXCEPT !.earlier = None]
        BY <2>3, <2>4, <3>1, CloseMerges
      <4> HIDE DEF c
      <4> QED BY <2>4, <4>1 DEF Accumulator
    <3>2. CASE s.last # None
      BY <2>3, <2>4, <3>2, CloseFields
    <3> QED BY <3>1, <3>2
  <2> HIDE DEF c
  <2>7. SameButSteps(r, c)
    BY <2>6 DEF SameButSteps, Accumulator
  <2> HIDE DEF r
  <2> QED BY <1>2, <2>1, <2>4, <2>5, <2>7 DEF c, n, t
<1> QED BY <1>1, <1>2

\* record_step.
LEMMA RecordJoins ==
    ASSUME NEW a, Sound(a), JoinsSound(a), NEW step \in Int, NEW trim \in BOOLEAN
    PROVE  JoinsSound(RecordStep(a, step, trim))
<1> DEFINE r == RecordStep(a, step, trim)
           n == IF trim THEN Abs(step) ELSE 0
<1>1. ASSUME NEW b, Sound(b), SameButSteps(b, a),
             r = IF a.authoritative /\ Paused(a.gap, step) > 0
                 THEN JoinAcrossStep(b, step, Paused(a.gap, step)) ELSE b
      PROVE  JoinsSound(r)
  <2>1. JoinsSound(b)
    BY <1>1, SameJoins DEF SameButSteps
  <2> HIDE DEF r
  <2> QED BY <1>1, <2>1, AcrossJoins
<1>2. ASSUME NEW s, Sound(s), SameButSteps(s, SettlePause(a)), SameButSteps(r, Close(s, n))
      PROVE  JoinsSound(r)
  <2>1. JoinsSound(SettlePause(a))
    BY SettleJoins
  <2>2. JoinsSound(s)
    BY <1>2, <2>1, SameJoins DEF SameButSteps
  <2>3. n \in Nat
    BY DEF Abs
  <2> HIDE DEF r, n
  <2>4. JoinsSound(Close(s, n))
    BY <1>2, <2>2, <2>3, CloseJoins
  <2> QED BY <1>2, <2>4, SameJoins DEF SameButSteps
<1> HIDE DEF r
<1> QED BY <1>1, <1>2, RecordStepIs DEF r, n

JInv == JoinsSound(acc)

\* The joins are sound after any file.
LEMMA JoinsHold == Spec => [](TInv /\ JInv)
<1>1. Init => JoinsSound(acc)
  <2> SUFFICES ASSUME Init PROVE JoinsSound(acc)
    OBVIOUS
  <2>1. PICK b \in BOOLEAN : acc = NewAccumulator(b)
    BY DEF Init
  <2>2. /\ acc.merged = {} /\ acc.segment = 0 /\ acc.next_segment = 0
        /\ acc.previous = None /\ acc.abandoned = {}
    BY <2>1 DEF NewAccumulator
  <2>3. \A s \in Nat : Root({}, s) = [segment |-> s, offset |-> 0]
    BY RootParts, RootOfNone
  <2>4. \A s \in Nat : Root({}, s).segment = s
    BY <2>3
  <2> QED BY <2>2, <2>4, RootOfNone DEF JoinsSound
<1>2. TInv /\ JoinsSound(acc) /\ [Next]_vars => JoinsSound(acc')
  <2> SUFFICES ASSUME TInv, JoinsSound(acc), [Next]_vars PROVE JoinsSound(acc')
    OBVIOUS
  <2>0. Sound(acc)
    BY DEF TInv
  <2>1. ASSUME NEW span \in Spans, FeedSpan(span) PROVE JoinsSound(acc')
    <3>1. acc' = Push(acc, span) /\ span \in Span
      BY <2>1, TimelineAssumption DEF FeedSpan
    <3> QED BY <2>0, <3>1, PushJoins
  <2>2. ASSUME NEW step \in Steps, FeedStep(step) PROVE JoinsSound(acc')
    <3>1. acc' = RecordStep(acc, step, FALSE) /\ step \in Int
      BY <2>2, TimelineAssumption DEF FeedStep
    <3> QED BY <2>0, <3>1, RecordJoins
  <2>3. ASSUME NEW span \in Spans, NEW step \in Steps, FeedUnresolved(span, step)
        PROVE  JoinsSound(acc')
    <3>1. acc' = RecordStep(Push(acc, span), step, TRUE) /\ span \in Span /\ step \in Int
      BY <2>3, TimelineAssumption DEF FeedUnresolved
    <3>2. Sound(Push(acc, span)) /\ JoinsSound(Push(acc, span))
      BY <2>0, <3>1, PushSound, PushJoins
    <3> QED BY <3>1, <3>2, RecordJoins
  <2>4. CASE UNCHANGED vars
    BY <2>4 DEF vars
  <2> QED BY <2>1, <2>2, <2>3, <2>4 DEF Next
<1>3. Init => JInv
  BY <1>1 DEF JInv
<1>4. TInv /\ JInv /\ [Next]_vars => JInv'
  BY <1>2 DEF JInv
<1> QED BY InitTInv, NextTInv, <1>3, <1>4, PTL DEF Spec

\* Following joins ends at a segment that is kept.
LEMMA JoinsSoundEnd == JInv => JoinsEnd
<1> SUFFICES ASSUME JoinsSound(acc) PROVE JoinsEnd
  BY DEF JInv
<1> DEFINE M == acc.merged
<1>1. Rooted(M)
  BY DEF JoinsSound
<1>2. PICK R, D : Forest(M, R, D)
  BY <1>1 DEF Rooted
<1>3. \A m, n \in M : m.from = n.from => m = n
  BY <1>2 DEF Forest
<1>4. ASSUME NEW m \in M
      PROVE  Canonical(M, m.from, Cardinality(M)).segment \notin Froms(M) \cup acc.abandoned
  <2>1. m.from \in Nat /\ m.from \in Froms(M)
    BY <1>2 DEF Forest, Joins, Froms
  <2>2. Root(M, m.from).segment \notin Froms(M)
    BY <1>1, <2>1, RootParts
  <2>3. Root(M, m.from).segment \notin acc.abandoned
    <3>1. Root(M, m.from).segment \in acc.abandoned => Root(M, m.from).segment = m.from
      BY <2>1 DEF JoinsSound
    <3> QED BY <2>1, <2>2, <3>1
  <2> QED BY <2>2, <2>3 DEF Root
<1> QED BY <1>3, <1>4 DEF JoinsEnd, Froms

\* finish_merged ends: whatever excursions, pauses and records came in
\* between, from no segment do two joins lead on, and following them ends at a
\* segment that is neither joined on nor abandoned.
THEOREM JoinsComeToAnEnd == Spec => []JoinsEnd
BY JoinsHold, JoinsSoundEnd, PTL

-----------------------------------------------------------------------------
(* The extents of joined segments.                                         *)

\* Where the data of a segment are on the clock of the one it is joined to.
From(M, e, s) == e[s].start_ns + Root(M, s).offset
Until(M, e, s) == e[s].end_ns + Root(M, s).offset

\* X is the extent of what the segments K of e are joined to; all of it is at
\* least lo away from either end of time.
Covers(M, K, e, X, lo) ==
    /\ X = [r \in DOMAIN X |-> X[r]]
    /\ \A r \in DOMAIN X : X[r] \in Span /\ lo <= X[r].start_ns /\ X[r].end_ns + lo <= MaxTime
    /\ \A s \in K :
          /\ Root(M, s).segment \in DOMAIN X
          /\ X[Root(M, s).segment].start_ns <= From(M, e, s)
          /\ Until(M, e, s) <= X[Root(M, s).segment].end_ns
    /\ \A r \in DOMAIN X : \E s \in K : Root(M, s).segment = r /\ From(M, e, s) = X[r].start_ns
    /\ \A r \in DOMAIN X : \E s \in K : Root(M, s).segment = r /\ Until(M, e, s) = X[r].end_ns

Extents(e) == DOMAIN e \subseteq Nat /\ \A s \in DOMAIN e : e[s] \in Span

Without(X, r) == [s \in DOMAIN X \ {r} |-> X[s]]

\* A span is its two ends, in order.
LEMMA SpanIs ==
    ASSUME NEW s, NEW t
    PROVE  /\ s \in Span =>
                /\ s.start_ns \in Nat /\ s.end_ns \in Nat
                /\ s.start_ns <= s.end_ns /\ s.end_ns <= MaxTime
           /\ s \in Span /\ t \in Span /\ s.start_ns = t.start_ns /\ s.end_ns = t.end_ns => s = t
<1>1. ASSUME s \in Span
      PROVE  /\ s.start_ns \in Nat /\ s.end_ns \in Nat
             /\ s.start_ns <= s.end_ns /\ s.end_ns <= MaxTime
  BY <1>1, TimelineAssumption DEF Span, Time
<1>2. ASSUME s \in Span, t \in Span, s.start_ns = t.start_ns, s.end_ns = t.end_ns PROVE s = t
  BY <1>2 DEF Span, Time
<1> QED BY <1>1, <1>2

\* The ends of two spans together.
LEMMA MergeIs ==
    ASSUME NEW s \in Span, NEW t \in Span
    PROVE  /\ Merge(s, t) \in Span
           /\ Merge(s, t).start_ns = IF s.start_ns <= t.start_ns THEN s.start_ns ELSE t.start_ns
           /\ Merge(s, t).end_ns = IF s.end_ns >= t.end_ns THEN s.end_ns ELSE t.end_ns
BY MergeType DEF Merge

\* A span in a segment that is not joined.
LEMMA CoversPush ==
    ASSUME NEW M, Rooted(M), NEW e, Extents(e), NEW K, K \subseteq DOMAIN e, NEW X,
           NEW lo \in Nat, Covers(M, K, e, X, lo),
           NEW g \in Nat \ Froms(M), g \in DOMAIN e => g \in K,
           NEW span \in Span, lo <= span.start_ns, span.end_ns + lo <= MaxTime
    PROVE  Covers(M, K \cup {g}, PushSpan(e, g, span), PushSpan(X, g, span), lo)
<1> DEFINE f == PushSpan(e, g, span)
           Y == PushSpan(X, g, span)
           L == K \cup {g}
<1>1. /\ DOMAIN f = DOMAIN e \cup {g}
      /\ \A s \in DOMAIN e : s # g => f[s] = e[s]
      /\ f[g] = IF g \in DOMAIN e THEN Merge(e[g], span) ELSE span
  BY DEF PushSpan
<1>2. /\ DOMAIN Y = DOMAIN X \cup {g}
      /\ Y = [r \in DOMAIN Y |-> Y[r]]
      /\ \A r \in DOMAIN X : r # g => Y[r] = X[r]
      /\ Y[g] = IF g \in DOMAIN X THEN Merge(X[g], span) ELSE span
  BY DEF PushSpan
<1> HIDE DEF f, Y
<1>3. Root(M, g).segment = g /\ Root(M, g).offset = 0
  BY RootParts
<1>4. \A s \in K : s \in Nat /\ Root(M, s).offset \in Int
  BY RootParts DEF Extents, Place
<1>5. g \in K => g \in DOMAIN X /\ X[g].start_ns <= e[g].start_ns /\ e[g].end_ns <= X[g].end_ns
  <2>1. g \in K => g \in DOMAIN X /\ X[g].start_ns <= e[g].start_ns + 0 /\ e[g].end_ns + 0 <= X[g].end_ns
    BY <1>3 DEF Covers, From, Until
  <2>2. g \in K => e[g].start_ns \in Nat /\ e[g].end_ns \in Nat
    BY SpanIs DEF Extents
  <2> QED BY <2>1, <2>2
<1>6. \A r \in DOMAIN X : X[r] \in Span /\ lo <= X[r].start_ns /\ X[r].end_ns + lo <= MaxTime
  BY DEF Covers
<1>7. g \in K => e[g] \in Span
  BY DEF Extents
<1>8. /\ f[g] \in Span
      /\ g \in K => /\ f[g].start_ns = IF e[g].start_ns <= span.start_ns THEN e[g].start_ns
                                       ELSE span.start_ns
                    /\ f[g].end_ns = IF e[g].end_ns >= span.end_ns THEN e[g].end_ns
                                     ELSE span.end_ns
      /\ g \notin K => f[g] = span
  BY <1>1, <1>7, MergeIs
<1>9. /\ Y[g] \in Span
      /\ g \in DOMAIN X =>
            /\ Y[g].start_ns = IF X[g].start_ns <= span.start_ns THEN X[g].start_ns
                               ELSE span.start_ns
            /\ Y[g].end_ns = IF X[g].end_ns >= span.end_ns THEN X[g].end_ns ELSE span.end_ns
      /\ g \notin DOMAIN X => Y[g] = span
  BY <1>2, <1>6, MergeIs
<1>10. From(M, f, g) = f[g].start_ns /\ Until(M, f, g) = f[g].end_ns
  <2>1. f[g].start_ns \in Nat /\ f[g].end_ns \in Nat
    BY <1>8, SpanIs
  <2> QED BY <1>3, <2>1 DEF From, Until
<1>11. \A s \in K : s # g => From(M, f, s) = From(M, e, s) /\ Until(M, f, s) = Until(M, e, s)
  BY <1>1 DEF From, Until
<1>n. /\ span.start_ns \in Nat /\ span.end_ns \in Nat /\ MaxTime \in Nat
      /\ g \in K => e[g].start_ns \in Nat /\ e[g].end_ns \in Nat
      /\ g \in DOMAIN X => X[g].start_ns \in Nat /\ X[g].end_ns \in Nat
  BY <1>6, <1>7, SpanIs, TimelineAssumption
<1>12. ASSUME NEW r \in DOMAIN Y
       PROVE  Y[r] \in Span /\ lo <= Y[r].start_ns /\ Y[r].end_ns + lo <= MaxTime
  <2>1. CASE r = g
    BY <1>6, <1>9, <1>n, <2>1
  <2>2. CASE r # g
    BY <1>2, <1>6, <2>2
  <2> QED BY <2>1, <2>2
<1>13. ASSUME NEW s \in L
       PROVE  /\ Root(M, s).segment \in DOMAIN Y
              /\ Y[Root(M, s).segment].start_ns <= From(M, f, s)
              /\ Until(M, f, s) <= Y[Root(M, s).segment].end_ns
  <2>1. CASE s = g
    <3>1. Y[g].start_ns <= f[g].start_ns
      BY <1>5, <1>8, <1>9, <1>n
    <3>2. f[g].end_ns <= Y[g].end_ns
      BY <1>5, <1>8, <1>9, <1>n
    <3> QED BY <1>2, <1>3, <1>10, <2>1, <3>1, <3>2
  <2>2. CASE s # g
    <3> DEFINE r == Root(M, s).segment
    <3>1. s \in K
      BY <2>2
    <3>2. r \in DOMAIN X /\ X[r].start_ns <= From(M, e, s) /\ Until(M, e, s) <= X[r].end_ns
      BY <3>1 DEF Covers
    <3>3. From(M, f, s) = From(M, e, s) /\ Until(M, f, s) = Until(M, e, s)
      BY <1>11, <2>2, <3>1
    <3>4. From(M, e, s) \in Int /\ Until(M, e, s) \in Int
      <4>1. e[s].start_ns \in Nat /\ e[s].end_ns \in Nat
        BY <3>1, SpanIs DEF Extents
      <4> QED BY <1>4, <3>1, <4>1 DEF From, Until
    <3> HIDE DEF r
    <3>5. CASE r = g
      <4>1. Y[g].start_ns <= X[g].start_ns
        BY <1>9, <1>n, <3>2, <3>5
      <4>2. X[g].end_ns <= Y[g].end_ns
        BY <1>9, <1>n, <3>2, <3>5
      <4>3. Y[g].start_ns \in Nat /\ Y[g].end_ns \in Nat
        BY <1>9, SpanIs
      <4>4. r \in DOMAIN Y /\ Y[r].start_ns <= From(M, f, s) /\ Until(M, f, s) <= Y[r].end_ns
        BY <1>2, <1>n, <3>2, <3>3, <3>4, <3>5, <4>1, <4>2, <4>3
      <4> QED BY <4>4 DEF r
    <3>6. CASE r # g
      <4>1. r \in DOMAIN Y /\ Y[r].start_ns <= From(M, f, s) /\ Until(M, f, s) <= Y[r].end_ns
        BY <1>2, <3>2, <3>3, <3>6
      <4> QED BY <4>1 DEF r
    <3> QED BY <3>5, <3>6
  <2> QED BY <2>1, <2>2
<1>14. ASSUME NEW r \in DOMAIN Y
       PROVE  \E s \in L : Root(M, s).segment = r /\ From(M, f, s) = Y[r].start_ns
  <2>1. CASE r \in DOMAIN X /\ (r = g => X[g].start_ns <= span.start_ns)
    <3>1. PICK s \in K : Root(M, s).segment = r /\ From(M, e, s) = X[r].start_ns
      BY <2>1 DEF Covers
    <3>2. Y[r].start_ns = X[r].start_ns
      BY <1>2, <1>9, <2>1
    <3>3. CASE s = g
      <4>1. r = g /\ g \in K
        BY <1>3, <3>1, <3>3
      <4>2. X[g].start_ns = e[g].start_ns
        BY <1>3, <1>n, <3>1, <3>3, <4>1 DEF From
      <4>3. f[g].start_ns = X[g].start_ns
        BY <1>8, <1>n, <2>1, <4>1, <4>2
      <4> QED BY <1>3, <1>10, <3>2, <4>1, <4>3
    <3>4. CASE s # g
      BY <1>11, <3>1, <3>2, <3>4
    <3> QED BY <3>3, <3>4
  <2>2. CASE ~(r \in DOMAIN X /\ (r = g => X[g].start_ns <= span.start_ns))
    <3>1. r = g
      BY <1>2, <2>2
    <3>2. Y[g].start_ns = span.start_ns
      BY <1>9, <2>2, <3>1
    <3>3. f[g].start_ns = span.start_ns
      BY <1>5, <1>8, <1>n, <2>2, <3>1
    <3> QED BY <1>3, <1>10, <3>1, <3>2, <3>3
  <2> QED BY <2>1, <2>2
<1>15. ASSUME NEW r \in DOMAIN Y
       PROVE  \E s \in L : Root(M, s).segment = r /\ Until(M, f, s) = Y[r].end_ns
  <2>1. CASE r \in DOMAIN X /\ (r = g => X[g].end_ns >= span.end_ns)
    <3>1. PICK s \in K : Root(M, s).segment = r /\ Until(M, e, s) = X[r].end_ns
      BY <2>1 DEF Covers
    <3>2. Y[r].end_ns = X[r].end_ns
      BY <1>2, <1>9, <2>1
    <3>3. CASE s = g
      <4>1. r = g /\ g \in K
        BY <1>3, <3>1, <3>3
      <4>2. X[g].end_ns = e[g].end_ns
        BY <1>3, <1>n, <3>1, <3>3, <4>1 DEF Until
      <4>3. f[g].end_ns = X[g].end_ns
        BY <1>8, <1>n, <2>1, <4>1, <4>2
      <4> QED BY <1>3, <1>10, <3>2, <4>1, <4>3
    <3>4. CASE s # g
      BY <1>11, <3>1, <3>2, <3>4
    <3> QED BY <3>3, <3>4
  <2>2. CASE ~(r \in DOMAIN X /\ (r = g => X[g].end_ns >= span.end_ns))
    <3>1. r = g
      BY <1>2, <2>2
    <3>2. Y[g].end_ns = span.end_ns
      BY <1>9, <2>2, <3>1
    <3>3. f[g].end_ns = span.end_ns
      BY <1>5, <1>8, <1>n, <2>2, <3>1
    <3> QED BY <1>3, <1>10, <3>1, <3>2, <3>3
  <2> QED BY <2>1, <2>2
<1>16. Covers(M, L, f, Y, lo)
  <2> HIDE DEF L
  <2> QED BY <1>2, <1>12, <1>13, <1>14, <1>15 DEF Covers
<1> QED BY <1>16 DEF f, Y

\* A shift that does not reach an end of time.
LEMMA ShiftedIs ==
    ASSUME NEW s \in Span, NEW o \in Int, NEW lo \in Nat,
           Abs(o) <= lo, lo <= s.start_ns, s.end_ns + lo <= MaxTime
    PROVE  /\ Shifted(s, o) \in Span
           /\ Shifted(s, o).start_ns = s.start_ns + o
           /\ Shifted(s, o).end_ns = s.end_ns + o
<1>1. /\ s.start_ns \in Nat /\ s.end_ns \in Nat /\ s.start_ns <= s.end_ns
      /\ MaxTime \in Nat
  BY SpanIs, TimelineAssumption
<1>2. s.start_ns + o \in 0..MaxTime /\ s.end_ns + o \in 0..MaxTime
  BY <1>1 DEF Abs
<1>3. Clamp(s.start_ns + o) = s.start_ns + o /\ Clamp(s.end_ns + o) = s.end_ns + o
  BY <1>1, <1>2 DEF Clamp
<1> QED BY <1>3, ShiftedType DEF Shifted

\* All that was joined to f joins t.
LEMMA CoversJoin ==
    ASSUME NEW M, Rooted(M), NEW e, Extents(e), NEW K, K \subseteq DOMAIN e, NEW X,
           NEW lo \in Nat, Covers(M, K, e, X, lo),
           NEW N, NEW f \in DOMAIN X, NEW t \in DOMAIN X, f # t, NEW o \in Int,
           JoinedTo(N, M, f, t, o), NEW hi \in Nat, Abs(o) + hi <= lo
    PROVE  Covers(N, K, e, PushSpan(Without(X, f), t, Shifted(X[f], o)), hi)
<1> DEFINE w == Shifted(X[f], o)
           Y == PushSpan(Without(X, f), t, w)
<1>0. \A r \in DOMAIN X : X[r] \in Span /\ lo <= X[r].start_ns /\ X[r].end_ns + lo <= MaxTime
  BY DEF Covers
<1>a. Abs(o) \in Nat /\ Abs(o) <= lo /\ -o <= Abs(o) /\ o <= Abs(o) /\ MaxTime \in Nat /\ hi <= lo
  BY TimelineAssumption DEF Abs
<1>1. w \in Span /\ w.start_ns = X[f].start_ns + o /\ w.end_ns = X[f].end_ns + o
  BY <1>0, <1>a, ShiftedIs
<1>2. /\ DOMAIN Y = DOMAIN X \ {f}
      /\ Y = [r \in DOMAIN Y |-> Y[r]]
      /\ \A r \in DOMAIN X : r # f /\ r # t => Y[r] = X[r]
      /\ Y[t] = Merge(X[t], w)
  BY DEF PushSpan, Without
<1> HIDE DEF Y, w
<1>3. \A r \in DOMAIN X : X[r].start_ns \in Nat /\ X[r].end_ns \in Nat
  BY <1>0, SpanIs
<1>4. /\ Y[t] \in Span
      /\ Y[t].start_ns = IF X[t].start_ns <= w.start_ns THEN X[t].start_ns ELSE w.start_ns
      /\ Y[t].end_ns = IF X[t].end_ns >= w.end_ns THEN X[t].end_ns ELSE w.end_ns
  BY <1>0, <1>1, <1>2, MergeIs
<1>5. ASSUME NEW s \in K
      PROVE  /\ s \in Nat /\ From(M, e, s) \in Int /\ Until(M, e, s) \in Int
             /\ Root(M, s).segment \in DOMAIN X
             /\ X[Root(M, s).segment].start_ns <= From(M, e, s)
             /\ Until(M, e, s) <= X[Root(M, s).segment].end_ns
             /\ Root(M, s).segment = f => /\ Root(N, s).segment = t
                                          /\ From(N, e, s) = From(M, e, s) + o
                                          /\ Until(N, e, s) = Until(M, e, s) + o
             /\ Root(M, s).segment # f => /\ Root(N, s).segment = Root(M, s).segment
                                          /\ From(N, e, s) = From(M, e, s)
                                          /\ Until(N, e, s) = Until(M, e, s)
  <2>1. s \in Nat /\ e[s] \in Span
    BY DEF Extents
  <2>2. e[s].start_ns \in Nat /\ e[s].end_ns \in Nat /\ Root(M, s).offset \in Int
    BY <2>1, SpanIs, RootParts DEF Place
  <2>3. /\ Root(N, s).segment = IF Root(M, s).segment = f THEN t ELSE Root(M, s).segment
        /\ Root(N, s).offset = IF Root(M, s).segment = f THEN Root(M, s).offset + o
                               ELSE Root(M, s).offset
    BY <2>1 DEF JoinedTo
  <2>4. From(M, e, s) \in Int /\ Until(M, e, s) \in Int
    BY <2>2 DEF From, Until
  <2>5. /\ Root(M, s).segment \in DOMAIN X
        /\ X[Root(M, s).segment].start_ns <= From(M, e, s)
        /\ Until(M, e, s) <= X[Root(M, s).segment].end_ns
    BY DEF Covers
  <2>6. CASE Root(M, s).segment = f
    <3>1. From(N, e, s) = From(M, e, s) + o /\ Until(N, e, s) = Until(M, e, s) + o
      BY <2>2, <2>3, <2>6 DEF From, Until
    <3> QED BY <2>1, <2>3, <2>4, <2>5, <2>6, <3>1
  <2>7. CASE Root(M, s).segment # f
    <3>1. From(N, e, s) = From(M, e, s) /\ Until(N, e, s) = Until(M, e, s)
      BY <2>3, <2>7 DEF From, Until
    <3> QED BY <2>1, <2>3, <2>4, <2>5, <2>7, <3>1
  <2> QED BY <2>6, <2>7
<1>6. ASSUME NEW r \in DOMAIN Y
      PROVE  Y[r] \in Span /\ hi <= Y[r].start_ns /\ Y[r].end_ns + hi <= MaxTime
  <2>1. CASE r = t
    <3>1. hi <= w.start_ns /\ w.end_ns + hi <= MaxTime
      BY <1>0, <1>1, <1>3, <1>a
    <3>2. hi <= X[t].start_ns /\ X[t].end_ns + hi <= MaxTime
      BY <1>0, <1>3, <1>a
    <3> QED BY <1>4, <2>1, <3>1, <3>2
  <2>2. CASE r # t
    <3>1. r \in DOMAIN X /\ Y[r] = X[r]
      BY <1>2, <2>2
    <3> QED BY <1>0, <1>3, <1>a, <3>1
  <2> QED BY <2>1, <2>2
<1>7. ASSUME NEW s \in K
      PROVE  /\ Root(N, s).segment \in DOMAIN Y
             /\ Y[Root(N, s).segment].start_ns <= From(N, e, s)
             /\ Until(N, e, s) <= Y[Root(N, s).segment].end_ns
  <2> DEFINE r == Root(M, s).segment
  <2>1. CASE r = f
    <3>1. Root(N, s).segment = t /\ From(N, e, s) = From(M, e, s) + o
          /\ Until(N, e, s) = Until(M, e, s) + o
      BY <1>5, <2>1
    <3>2. w.start_ns <= From(M, e, s) + o /\ Until(M, e, s) + o <= w.end_ns
      BY <1>1, <1>3, <1>5, <2>1
    <3>3. Y[t].start_ns <= w.start_ns /\ w.end_ns <= Y[t].end_ns
      BY <1>1, <1>3, <1>4
    <3>4. Y[t].start_ns \in Nat /\ Y[t].end_ns \in Nat /\ w.start_ns \in Nat /\ w.end_ns \in Nat
      BY <1>1, <1>4, SpanIs
    <3>5. From(M, e, s) + o \in Int /\ Until(M, e, s) + o \in Int
      BY <1>5
    <3>6. Y[t].start_ns <= From(M, e, s) + o /\ Until(M, e, s) + o <= Y[t].end_ns
      BY <3>2, <3>3, <3>4, <3>5
    <3> QED BY <1>2, <3>1, <3>6
  <2>2. CASE r # f
    <3>1. Root(N, s).segment = r /\ From(N, e, s) = From(M, e, s)
          /\ Until(N, e, s) = Until(M, e, s)
      BY <1>5, <2>2
    <3>2. r \in DOMAIN X /\ X[r].start_ns <= From(M, e, s) /\ Until(M, e, s) <= X[r].end_ns
      BY <1>5
    <3>3. From(M, e, s) \in Int /\ Until(M, e, s) \in Int
      BY <1>5
    <3> HIDE DEF r
    <3>4. CASE r = t
      <4>1. Y[t].start_ns <= X[t].start_ns /\ X[t].end_ns <= Y[t].end_ns
        BY <1>1, <1>3, <1>4
      <4>2. Y[t].start_ns \in Nat /\ Y[t].end_ns \in Nat
        BY <1>4, SpanIs
      <4>3. Y[t].start_ns <= From(M, e, s) /\ Until(M, e, s) <= Y[t].end_ns
        BY <1>3, <3>2, <3>3, <3>4, <4>1, <4>2
      <4> QED BY <1>2, <3>1, <3>4, <4>3
    <3>5. CASE r # t
      BY <1>2, <2>2, <3>1, <3>2, <3>5
    <3> QED BY <3>4, <3>5
  <2> QED BY <2>1, <2>2
<1>8. ASSUME NEW r \in DOMAIN Y
      PROVE  \E s \in K : Root(N, s).segment = r /\ From(N, e, s) = Y[r].start_ns
  <2>1. CASE r = t /\ ~(X[t].start_ns <= w.start_ns)
    <3>1. PICK s \in K : Root(M, s).segment = f /\ From(M, e, s) = X[f].start_ns
      BY DEF Covers
    <3>2. Root(N, s).segment = t /\ From(N, e, s) = From(M, e, s) + o
      BY <1>5, <3>1
    <3>3. Y[t].start_ns = X[f].start_ns + o
      BY <1>1, <1>4, <2>1
    <3> QED BY <2>1, <3>1, <3>2, <3>3
  <2>2. CASE ~(r = t /\ ~(X[t].start_ns <= w.start_ns))
    <3>1. r \in DOMAIN X /\ r # f /\ Y[r].start_ns = X[r].start_ns
      BY <1>2, <1>4, <2>2
    <3>2. PICK s \in K : Root(M, s).segment = r /\ From(M, e, s) = X[r].start_ns
      BY <3>1 DEF Covers
    <3> QED BY <1>5, <3>1, <3>2
  <2> QED BY <2>1, <2>2
<1>9. ASSUME NEW r \in DOMAIN Y
      PROVE  \E s \in K : Root(N, s).segment = r /\ Until(N, e, s) = Y[r].end_ns
  <2>1. CASE r = t /\ ~(X[t].end_ns >= w.end_ns)
    <3>1. PICK s \in K : Root(M, s).segment = f /\ Until(M, e, s) = X[f].end_ns
      BY DEF Covers
    <3>2. Root(N, s).segment = t /\ Until(N, e, s) = Until(M, e, s) + o
      BY <1>5, <3>1
    <3>3. Y[t].end_ns = X[f].end_ns + o
      BY <1>1, <1>4, <2>1
    <3> QED BY <2>1, <3>1, <3>2, <3>3
  <2>2. CASE ~(r = t /\ ~(X[t].end_ns >= w.end_ns))
    <3>1. r \in DOMAIN X /\ r # f /\ Y[r].end_ns = X[r].end_ns
      BY <1>2, <1>4, <2>2
    <3>2. PICK s \in K : Root(M, s).segment = r /\ Until(M, e, s) = X[r].end_ns
      BY <3>1 DEF Covers
    <3> QED BY <1>5, <3>1, <3>2
  <2> QED BY <2>1, <2>2
<1>10. Covers(N, K, e, Y, hi)
  BY <1>2, <1>6, <1>7, <1>8, <1>9 DEF Covers
<1> QED BY <1>10 DEF Y, w

\* Nothing was joined to f: nothing is moved.
LEMMA CoversJoinNone ==
    ASSUME NEW M, Rooted(M), NEW e, Extents(e), NEW K, K \subseteq DOMAIN e, NEW X,
           NEW lo \in Nat, Covers(M, K, e, X, lo),
           NEW N, NEW f, f \notin DOMAIN X, NEW t, NEW o, JoinedTo(N, M, f, t, o)
    PROVE  Covers(N, K, e, X, lo)
<1>1. ASSUME NEW s \in K
      PROVE  /\ Root(N, s).segment = Root(M, s).segment
             /\ From(N, e, s) = From(M, e, s) /\ Until(N, e, s) = Until(M, e, s)
  <2>1. Root(M, s).segment # f /\ s \in Nat
    BY DEF Covers, Extents
  <2>2. Root(N, s).segment = Root(M, s).segment /\ Root(N, s).offset = Root(M, s).offset
    BY <2>1 DEF JoinedTo
  <2> QED BY <2>2 DEF From, Until
<1>2. /\ X = [r \in DOMAIN X |-> X[r]]
      /\ \A r \in DOMAIN X : X[r] \in Span /\ lo <= X[r].start_ns /\ X[r].end_ns + lo <= MaxTime
  BY DEF Covers
<1>3. \A s \in K :
          /\ Root(N, s).segment \in DOMAIN X
          /\ X[Root(N, s).segment].start_ns <= From(N, e, s)
          /\ Until(N, e, s) <= X[Root(N, s).segment].end_ns
  BY <1>1 DEF Covers
<1>4. \A r \in DOMAIN X : \E s \in K : Root(N, s).segment = r /\ From(N, e, s) = X[r].start_ns
  BY <1>1 DEF Covers
<1>5. \A r \in DOMAIN X : \E s \in K : Root(N, s).segment = r /\ Until(N, e, s) = X[r].end_ns
  BY <1>1 DEF Covers
<1> QED BY <1>2, <1>3, <1>4, <1>5 DEF Covers

\* A segment to which nothing is joined is dropped.
LEMMA CoversAbandon ==
    ASSUME NEW M, Rooted(M), NEW e, Extents(e), NEW K, K \subseteq DOMAIN e, NEW X,
           NEW lo, Covers(M, K, e, X, lo), NEW f \in Nat \ Froms(M),
           \A s \in Nat : Root(M, s).segment = f => f = s
    PROVE  Covers(M, K \ {f}, e, Without(X, f), lo)
<1> DEFINE Y == Without(X, f)
           L == K \ {f}
<1>1. /\ DOMAIN Y = DOMAIN X \ {f}
      /\ Y = [r \in DOMAIN Y |-> Y[r]]
      /\ \A r \in DOMAIN Y : Y[r] = X[r]
  BY DEF Without
<1> HIDE DEF Y
<1>0. Root(M, f).segment = f
  BY RootParts
<1>2. \A s \in K : s # f => Root(M, s).segment # f
  BY DEF Extents
<1>3. \A r \in DOMAIN Y : Y[r] \in Span /\ lo <= Y[r].start_ns /\ Y[r].end_ns + lo <= MaxTime
  BY <1>1 DEF Covers
<1>4. \A s \in L :
          /\ Root(M, s).segment \in DOMAIN Y
          /\ Y[Root(M, s).segment].start_ns <= From(M, e, s)
          /\ Until(M, e, s) <= Y[Root(M, s).segment].end_ns
  <2> TAKE s \in L
  <2>1. Root(M, s).segment \in DOMAIN X /\ Root(M, s).segment # f
        /\ X[Root(M, s).segment].start_ns <= From(M, e, s)
        /\ Until(M, e, s) <= X[Root(M, s).segment].end_ns
    BY <1>2 DEF Covers
  <2> QED BY <1>1, <2>1
<1>5. ASSUME NEW r \in DOMAIN Y
      PROVE  \E s \in L : Root(M, s).segment = r /\ From(M, e, s) = Y[r].start_ns
  <2>1. r \in DOMAIN X /\ r # f
    BY <1>1
  <2>2. PICK s \in K : Root(M, s).segment = r /\ From(M, e, s) = X[r].start_ns
    BY <2>1 DEF Covers
  <2>3. s # f
    BY <1>0, <2>1, <2>2
  <2> QED BY <1>1, <2>2, <2>3
<1>6. ASSUME NEW r \in DOMAIN Y
      PROVE  \E s \in L : Root(M, s).segment = r /\ Until(M, e, s) = Y[r].end_ns
  <2>1. r \in DOMAIN X /\ r # f
    BY <1>1
  <2>2. PICK s \in K : Root(M, s).segment = r /\ Until(M, e, s) = X[r].end_ns
    BY <2>1 DEF Covers
  <2>3. s # f
    BY <1>0, <2>1, <2>2
  <2> QED BY <1>1, <2>2, <2>3
<1>7. Covers(M, L, e, Y, lo)
  <2> HIDE DEF L
  <2> QED BY <1>1, <1>3, <1>4, <1>5, <1>6 DEF Covers
<1> QED BY <1>7 DEF Y

\* The least of some numbers.
LEMMA MinIs ==
    ASSUME NEW S, S \subseteq Int, NEW x \in S, \A y \in S : x <= y PROVE Min(S) = x
<1> DEFINE m == Min(S)
<1>1. m \in S /\ \A y \in S : m <= y
  BY DEF Min
<1> HIDE DEF m
<1>2. m <= x /\ x <= m /\ m \in Int /\ x \in Int
  BY <1>1
<1> QED BY <1>2 DEF m

\* The greatest of some numbers.
LEMMA MaxIs ==
    ASSUME NEW S, S \subseteq Int, NEW x \in S, \A y \in S : x >= y PROVE Max(S) = x
<1> DEFINE m == Max(S)
<1>1. m \in S /\ \A y \in S : m >= y
  BY DEF Max
<1> HIDE DEF m
<1>2. m <= x /\ x <= m /\ m \in Int /\ x \in Int
  BY <1>1
<1> QED BY <1>2 DEF m

\* What finish_merged makes of the channel's spans.
LEMMA CoversIs ==
    ASSUME NEW a, Rooted(a.merged), NEW e, Extents(e), NEW X, NEW lo \in Nat,
           Covers(a.merged, DOMAIN e \ a.abandoned, e, X, lo)
    PROVE  JoinedExtents(a, e) = X
<1> DEFINE K == DOMAIN e \ a.abandoned
           M == a.merged
           moved(s) == Shifted(e[s], Root(M, s).offset)
           of(r) == {s \in K : Root(M, s).segment = r}
           J == [r \in {Root(M, s).segment : s \in K} |->
                   [start_ns |-> Min({moved(s).start_ns : s \in of(r)}),
                    end_ns |-> Max({moved(s).end_ns : s \in of(r)})]]
<1>1. JoinedExtents(a, e) = J
  BY DEF JoinedExtents, Root
<1>2. ASSUME NEW s \in K
      PROVE  /\ moved(s).start_ns = From(M, e, s) /\ From(M, e, s) \in Int
             /\ moved(s).end_ns = Until(M, e, s) /\ Until(M, e, s) \in Int
  <2> DEFINE r == Root(M, s)
             x == e[s]
             h == X[r.segment]
  <2>1. s \in Nat /\ x \in Span
    BY DEF Extents
  <2>2. x.start_ns \in Nat /\ x.end_ns \in Nat /\ x.start_ns <= x.end_ns /\ r.offset \in Int
    BY <2>1, SpanIs, RootParts DEF Place
  <2>3. r.segment \in DOMAIN X /\ h.start_ns <= x.start_ns + r.offset /\ x.end_ns + r.offset <= h.end_ns
    BY DEF Covers, From, Until
  <2>4. h \in Span
    BY <2>3 DEF Covers
  <2>5. h.start_ns \in Nat /\ h.end_ns \in Nat /\ h.end_ns <= MaxTime /\ MaxTime \in Nat
    BY <2>4, SpanIs, TimelineAssumption
  <2> HIDE DEF r, x, h
  <2>6. x.start_ns + r.offset \in 0..MaxTime /\ x.end_ns + r.offset \in 0..MaxTime
    BY <2>2, <2>3, <2>5
  <2>7. Clamp(x.start_ns + r.offset) = x.start_ns + r.offset
        /\ Clamp(x.end_ns + r.offset) = x.end_ns + r.offset
    BY <2>5, <2>6 DEF Clamp
  <2>8. Shifted(x, r.offset) = [start_ns |-> x.start_ns + r.offset, end_ns |-> x.end_ns + r.offset]
    BY <2>7 DEF Shifted
  <2> QED BY <2>2, <2>8 DEF From, Until, x, r
<1>3. DOMAIN X = {Root(M, s).segment : s \in K}
  <2>1. \A s \in K : Root(M, s).segment \in DOMAIN X
    BY DEF Covers
  <2>2. \A r \in DOMAIN X : \E s \in K : Root(M, s).segment = r
    BY DEF Covers
  <2> QED BY <2>1, <2>2
<1>4. ASSUME NEW r \in DOMAIN X
      PROVE  X[r] = [start_ns |-> Min({moved(s).start_ns : s \in of(r)}),
                     end_ns |-> Max({moved(s).end_ns : s \in of(r)})]
  <2> DEFINE A == {moved(s).start_ns : s \in of(r)}
             Z == {moved(s).end_ns : s \in of(r)}
  <2>0. X[r] \in Span
    BY DEF Covers
  <2>1. X[r] = [start_ns |-> X[r].start_ns, end_ns |-> X[r].end_ns]
    BY <2>0 DEF Span
  <2>2. A \subseteq Int /\ Z \subseteq Int
    BY <1>2
  <2>3. X[r].start_ns \in A
    <3>1. PICK s \in K : Root(M, s).segment = r /\ From(M, e, s) = X[r].start_ns
      BY DEF Covers
    <3>2. s \in of(r) /\ moved(s).start_ns = X[r].start_ns
      BY <1>2, <3>1
    <3> HIDE DEF moved, of
    <3> QED BY <3>2
  <2>4. X[r].end_ns \in Z
    <3>1. PICK s \in K : Root(M, s).segment = r /\ Until(M, e, s) = X[r].end_ns
      BY DEF Covers
    <3>2. s \in of(r) /\ moved(s).end_ns = X[r].end_ns
      BY <1>2, <3>1
    <3> HIDE DEF moved, of
    <3> QED BY <3>2
  <2>5. \A s \in of(r) : X[r].start_ns <= moved(s).start_ns /\ moved(s).end_ns <= X[r].end_ns
    <3> TAKE s \in of(r)
    <3>1. s \in K /\ Root(M, s).segment = r
      OBVIOUS
    <3>2. X[r].start_ns <= From(M, e, s) /\ Until(M, e, s) <= X[r].end_ns
      BY <3>1 DEF Covers
    <3> QED BY <1>2, <3>1, <3>2
  <2> HIDE DEF moved, of
  <2>6. (\A y \in A : X[r].start_ns <= y) /\ (\A y \in Z : y <= X[r].end_ns)
    BY <2>5
  <2>7. \A y \in Z : X[r].end_ns >= y
    BY <2>2, <2>4, <2>6
  <2> HIDE DEF A, Z
  <2>8. Min(A) = X[r].start_ns
    BY <2>2, <2>3, <2>6, MinIs
  <2>9. Max(Z) = X[r].end_ns
    BY <2>2, <2>4, <2>7, MaxIs
  <2> QED BY <2>1, <2>8, <2>9 DEF A, Z
<1>5. X = [r \in DOMAIN X |-> X[r]]
  BY DEF Covers
<1> HIDE DEF moved, of
<1>6. X = J
  BY <1>3, <1>4, <1>5
<1> QED BY <1>1, <1>6

-----------------------------------------------------------------------------
(* The time of the segments.                                               *)

\* The extent of the open segment, so far.
Whole(a) == IF a.last = None THEN a.earlier ELSE MergeInto(a.earlier, a.last)

\* The accumulator has the extents X of the segments: that of the open one and
\* that of the previous one, and the time of all but the open one.
Tallies(a, X) ==
    /\ Whole(a) = None => a.segment \notin DOMAIN X
    /\ Whole(a) # None => a.segment \in DOMAIN X /\ X[a.segment] = Whole(a)
    /\ a.previous # None =>
          /\ a.previous.segment \in DOMAIN X
          /\ X[a.previous.segment] = MergeInto(a.previous.earlier, a.previous.last)
          /\ a.previous.duration_ns = Length(X[a.previous.segment])
    /\ a.total_ns = SpanNs(Without(X, a.segment))

\* The accumulator and the channel e have the same extents.
Agrees(a, e, X, lo) ==
    /\ Covers(a.merged, DOMAIN e \ a.abandoned, e, X, lo)
    /\ Tallies(a, X)

Ready(a, e) ==
    /\ Sound(a) /\ JoinsSound(a)
    /\ Extents(e) /\ DOMAIN e \subseteq 0..a.next_segment

\* Nothing is known of a segment before its first span.
NoHalf(a) == a.last = None => a.earlier = None

\* It is a span as soon as there is one.
LEMMA WholeType ==
    ASSUME NEW a \in Accumulator
    PROVE  /\ Whole(a) \in Span \cup {None}
           /\ a.last # None => Whole(a) \in Span
           /\ Whole(a) = None => a.last = None /\ a.earlier = None
<1>1. a.earlier \in Span \cup {None} /\ a.last \in Span \cup {None} /\ None \notin Span
  BY TimelineAssumption DEF Accumulator
<1>2. a.last # None => MergeInto(a.earlier, a.last) \in Span
  BY <1>1, MergeIntoType
<1> QED BY <1>1, <1>2 DEF Whole

\* The joined segments are segments of the accumulator, so finitely many.
LEMMA DomainOfExtents ==
    ASSUME NEW a, NEW e, Ready(a, e), NEW X, NEW lo,
           Covers(a.merged, DOMAIN e \ a.abandoned, e, X, lo)
    PROVE  /\ DOMAIN X \subseteq 0..a.next_segment
           /\ IsFiniteSet(DOMAIN X)
           /\ \A r \in DOMAIN X : X[r] \in Span
           /\ X = [r \in DOMAIN X |-> X[r]]
<1>1. a.next_segment \in Nat
  BY DEF Ready, Sound, Accumulator
<1>2. ASSUME NEW r \in DOMAIN X PROVE r \in 0..a.next_segment
  <2>1. PICK s \in DOMAIN e \ a.abandoned : Root(a.merged, s).segment = r
    BY DEF Covers
  <2>2. s \in Nat /\ s \in 0..a.next_segment
    BY DEF Ready, Extents
  <2>3. r = s \/ r <= a.next_segment
    BY <2>1, <2>2 DEF Ready, JoinsSound
  <2>4. r \in Nat
    BY <2>1, <2>2, RootParts DEF Ready, JoinsSound, Place
  <2> QED BY <1>1, <2>2, <2>3, <2>4
<1>3. IsFiniteSet(0..a.next_segment)
  BY <1>1, FS_Interval
<1>4. DOMAIN X \in SUBSET (0..a.next_segment)
  BY <1>2
<1>5. IsFiniteSet(DOMAIN X)
  BY <1>3, <1>4, FS_Subset
<1> QED BY <1>2, <1>5 DEF Covers

\* Without one of its segments, and without another besides.
LEMMA WithoutParts ==
    ASSUME NEW X, NEW r, NEW s
    PROVE  /\ DOMAIN Without(X, r) = DOMAIN X \ {r}
           /\ \A t \in DOMAIN X : t # r => Without(X, r)[t] = X[t]
           /\ Without(Without(X, r), s) = Without(Without(X, s), r)
           /\ s \notin DOMAIN X => Without(Without(X, r), s) = Without(X, r)
BY DEF Without

\* The time of one segment and of the others.
LEMMA TimeWithout ==
    ASSUME NEW X, IsFiniteSet(DOMAIN X), \A r \in DOMAIN X : X[r] \in Span,
           NEW s \in DOMAIN X
    PROVE  /\ SpanNs(Without(X, s)) \in Nat
           /\ SpanNs(X) = Length(X[s]) + SpanNs(Without(X, s))
BY SpanNsWithout DEF Without

\* The segment s taken out of the time of all but r.
LEMMA TimeWithoutBoth ==
    ASSUME NEW X, IsFiniteSet(DOMAIN X), \A q \in DOMAIN X : X[q] \in Span,
           NEW r, NEW s \in DOMAIN X, r # s
    PROVE  SaturatingSub(SpanNs(Without(X, r)), Length(X[s])) = SpanNs(Without(Without(X, r), s))
<1> DEFINE Y == Without(X, r)
<1>1. DOMAIN Y = DOMAIN X \ {r} /\ \A t \in DOMAIN Y : Y[t] = X[t]
  BY DEF Without
<1> HIDE DEF Y
<1>2. IsFiniteSet(DOMAIN Y)
  BY <1>1, FS_RemoveElement
<1>3. s \in DOMAIN Y /\ Y[s] = X[s] /\ \A t \in DOMAIN Y : Y[t] \in Span
  BY <1>1
<1>4. SpanNs(Without(Y, s)) \in Nat /\ SpanNs(Y) = Length(X[s]) + SpanNs(Without(Y, s))
  BY <1>2, <1>3, TimeWithout
<1>5. Length(X[s]) \in Nat
  BY LengthType
<1>6. SaturatingSub(SpanNs(Y), Length(X[s])) = SpanNs(Without(Y, s))
  BY <1>4, <1>5 DEF SaturatingSub
<1> QED BY <1>6 DEF Y

\* What changes steps and gaps alone changes no extent.
LEMMA AgreesSame ==
    ASSUME NEW a, NEW b, SameButSteps(b, a), NEW e, NEW X, NEW lo, Agrees(a, e, X, lo)
    PROVE  Agrees(b, e, X, lo)
<1>1. Whole(b) = Whole(a)
  BY DEF SameButSteps, Whole
<1> QED BY <1>1 DEF Agrees, Tallies, SameButSteps

\* The distance to both ends of time may be less.
LEMMA AgreesLower ==
    ASSUME NEW a, NEW e, NEW X, NEW lo \in Nat, NEW hi \in Nat, hi <= lo, Agrees(a, e, X, lo)
    PROVE  Agrees(a, e, X, hi)
<1> DEFINE M == a.merged
           K == DOMAIN e \ a.abandoned
<1>1. Covers(M, K, e, X, lo)
  BY DEF Agrees
<1> HIDE DEF M, K
<1>2. ASSUME NEW r \in DOMAIN X
      PROVE  X[r] \in Span /\ hi <= X[r].start_ns /\ X[r].end_ns + hi <= MaxTime
  <2>1. X[r] \in Span /\ lo <= X[r].start_ns /\ X[r].end_ns + lo <= MaxTime
    BY <1>1 DEF Covers
  <2>2. X[r].start_ns \in Nat /\ X[r].end_ns \in Nat /\ MaxTime \in Nat
    BY <2>1, SpanIs, TimelineAssumption
  <2> QED BY <2>1, <2>2
<1>3. Covers(M, K, e, X, hi)
  BY <1>1, <1>2 DEF Covers
<1> QED BY <1>3 DEF Agrees, M, K

\* A pause that is settled.
LEMMA AgreesSettle ==
    ASSUME NEW a, NEW e, Ready(a, e), NEW X, NEW lo \in Nat, Agrees(a, e, X, lo)
    PROVE  \E Y : Agrees(SettlePause(a), e, Y, lo)
<1> DEFINE s == SettlePause(a)
           p == a.previous
           f == a.segment
           t == p.segment
           M == a.merged
           K == DOMAIN e \ a.abandoned
           before == MergeInto(p.earlier, p.last)
<1>0. a \in Accumulator
  BY DEF Ready, Sound
<1>1. CASE ~Settles(a)
  BY <1>0, <1>1, SettleParts
<1>2. CASE Settles(a)
  <2>1. p \in Closed /\ p # None
    BY <1>0, <1>2 DEF Settles, Accumulator
  <2>2. before \in Span
    BY <2>1, MergeIntoType DEF Closed
  <2>3. /\ s.merged = M \cup {[from |-> f, into |-> t, offset |-> 0]}
        /\ s.segment = t /\ s.abandoned = a.abandoned /\ s.last = a.last
        /\ s.total_ns = SaturatingSub(a.total_ns, p.duration_ns)
        /\ s.earlier = MergeInto(a.earlier, before) /\ s.previous = None
    BY <1>0, <1>2, SettleFields, SettleParts
  <2>4. f \in Nat \ Froms(M) /\ t \in Nat \ Froms(M) /\ f # t /\ Rooted(M)
    BY <1>0, <2>1 DEF Ready, Sound, Distinct, JoinsSound, Accumulator, Closed
  <2> HIDE DEF s
  <2>5. JoinedTo(s.merged, M, f, t, 0)
    <3> HIDE DEF M, f, t
    <3>1. 0 \in Int
      OBVIOUS
    <3> QED BY <2>3, <2>4, <3>1, RootJoined
  <2>6. Covers(M, K, e, X, lo) /\ Tallies(a, X)
    BY DEF Agrees
  <2>7. t \in DOMAIN X /\ X[t] = before /\ p.duration_ns = Length(X[t])
    BY <2>1, <2>6 DEF Tallies
  <2>8. IsFiniteSet(DOMAIN X) /\ \A r \in DOMAIN X : X[r] \in Span
    BY <2>6, DomainOfExtents
  <2>9. s.total_ns = SpanNs(Without(Without(X, f), t))
    <3>1. a.total_ns = SpanNs(Without(X, f))
      BY <2>6 DEF Tallies
    <3> HIDE DEF f, t, p
    <3> QED BY <2>3, <2>4, <2>7, <2>8, <3>1, TimeWithoutBoth
  <2>10. Whole(s) = MergeInto(Whole(a), before)
    <3>1. a.earlier \in Span \cup {None} /\ a.last \in Span \cup {None}
      BY <1>0 DEF Accumulator
    <3>2. CASE a.last = None
      BY <2>3, <3>2 DEF Whole
    <3>3. CASE a.last # None
      <4>1. MergeInto(MergeInto(a.earlier, before), a.last)
              = MergeInto(MergeInto(a.earlier, a.last), before)
        BY <2>2, <3>1, <3>3, MergedInAnyOrder
      <4> QED BY <2>3, <3>3, <4>1 DEF Whole
    <3> QED BY <3>2, <3>3
  <2>11. Whole(s) \in Span /\ Whole(s) # None
    BY <1>0, <2>2, <2>10, WholeType, MergeIntoType, TimelineAssumption
  <2>12. Extents(e) /\ K \subseteq DOMAIN e /\ DOMAIN e \ s.abandoned = K
    BY <2>3 DEF Ready
  <2> HIDE DEF before, K, M, f, t
  <2>13. CASE Whole(a) = None
    <3>1. f \notin DOMAIN X
      BY <2>6, <2>13 DEF Tallies, f
    <3>2. Covers(s.merged, K, e, X, lo)
      BY <2>4, <2>5, <2>6, <2>12, <3>1, CoversJoinNone
    <3>3. Whole(s) = before
      BY <2>10, <2>13 DEF MergeInto
    <3>4. Without(Without(X, f), t) = Without(X, t)
      <4>1. Without(Without(X, f), t) = Without(Without(X, t), f)
        BY DEF Without
      <4>2. Without(Without(X, t), f) = Without(X, t)
        BY <3>1, WithoutParts
      <4> QED BY <4>1, <4>2
    <3>5. Tallies(s, X)
      BY <2>3, <2>7, <2>9, <2>11, <3>3, <3>4 DEF Tallies, t
    <3> QED BY <2>12, <3>2, <3>5 DEF Agrees, s
  <2>14. CASE Whole(a) # None
    <3> DEFINE w == Shifted(X[f], 0)
               Y == PushSpan(Without(X, f), t, w)
    <3>1. f \in DOMAIN X /\ X[f] = Whole(a)
      BY <2>6, <2>14 DEF Tallies, f
    <3>2. Abs(0) + lo <= lo /\ Abs(0) <= lo /\ 0 \in Int
      BY DEF Abs
    <3>3. Covers(s.merged, K, e, Y, lo)
      BY <2>4, <2>5, <2>6, <2>7, <2>12, <3>1, <3>2, CoversJoin
    <3>4. w = X[f]
      <4>1. X[f] \in Span /\ lo <= X[f].start_ns /\ X[f].end_ns + lo <= MaxTime
        BY <2>6, <3>1 DEF Covers
      <4>2. w \in Span /\ w.start_ns = X[f].start_ns + 0 /\ w.end_ns = X[f].end_ns + 0
        BY <3>2, <4>1, ShiftedIs
      <4>3. X[f].start_ns \in Nat /\ X[f].end_ns \in Nat
        BY <4>1, SpanIs
      <4> HIDE DEF w
      <4> QED BY <4>1, <4>2, <4>3, SpanIs
    <3>5. t \in DOMAIN Y /\ Y[t] = Merge(X[t], w)
      <4> HIDE DEF w
      <4> QED BY <2>4, <2>7 DEF PushSpan, Without
    <3>6. Without(Y, t) = Without(Without(X, f), t)
      <4> HIDE DEF w
      <4> QED BY DEF PushSpan, Without
    <3> HIDE DEF w, Y
    <3>7. Y[t] = Whole(s)
      <4>1. X[f] \in Span /\ X[t] \in Span
        BY <2>7, <2>8, <3>1
      <4>2. Merge(X[t], X[f]) = Merge(X[f], X[t])
        BY <4>1 DEF Merge, Span, Time
      <4> QED BY <2>7, <2>10, <2>14, <3>1, <3>4, <3>5, <4>2 DEF MergeInto
    <3>8. Tallies(s, Y)
      BY <2>3, <2>9, <2>11, <3>5, <3>6, <3>7 DEF Tallies, t
    <3> QED BY <2>12, <3>3, <3>8 DEF Agrees, s
  <2> QED BY <2>13, <2>14
<1> QED BY <1>1, <1>2

\* A segment that is closed whole.
LEMMA AgreesClose ==
    ASSUME NEW a, NEW e, Ready(a, e), a.last # None, NEW X, NEW lo \in Nat, Agrees(a, e, X, lo)
    PROVE  Agrees(Close(a, 0), e, X, lo)
<1> DEFINE c == Close(a, 0)
<1>0. a \in Accumulator /\ 0 \in Nat
  BY DEF Ready, Sound
<1>1. /\ c.segment = a.next_segment + 1 /\ c.previous # None /\ c.previous.segment = a.segment
      /\ c.abandoned = a.abandoned /\ c.merged = a.merged
  BY <1>0, CloseFields, CloseMerges
<1>2. /\ c.total_ns = a.total_ns + Length(Whole(a))
      /\ c.last = None /\ c.earlier = None
      /\ MergeInto(c.previous.earlier, c.previous.last) = Whole(a)
      /\ c.previous.duration_ns = Length(Whole(a))
  BY <1>0, CloseParts DEF Whole
<1> HIDE DEF c
<1>3. Whole(c) = None
  BY <1>2 DEF Whole
<1>4. Covers(a.merged, DOMAIN e \ a.abandoned, e, X, lo) /\ Tallies(a, X)
  BY DEF Agrees
<1>5. Whole(a) # None /\ Whole(a) \in Span
  BY <1>0, WholeType, TimelineAssumption
<1>6. a.segment \in DOMAIN X /\ X[a.segment] = Whole(a)
  BY <1>4, <1>5 DEF Tallies
<1>7. /\ DOMAIN X \subseteq 0..a.next_segment /\ IsFiniteSet(DOMAIN X)
      /\ (\A r \in DOMAIN X : X[r] \in Span) /\ X = [r \in DOMAIN X |-> X[r]]
  BY <1>4, DomainOfExtents
<1>8. c.segment \notin DOMAIN X
  <2>1. a.next_segment \in Nat
    BY <1>0 DEF Accumulator
  <2>2. a.next_segment + 1 \notin 0..a.next_segment
    BY <2>1
  <2> QED BY <1>1, <1>7, <2>2
<1>9. Without(X, c.segment) = X
  BY <1>7, <1>8 DEF Without
<1>10. c.total_ns = SpanNs(X)
  <2>1. a.total_ns = SpanNs(Without(X, a.segment))
    BY <1>4 DEF Tallies
  <2>2. /\ SpanNs(Without(X, a.segment)) \in Nat
        /\ SpanNs(X) = Length(X[a.segment]) + SpanNs(Without(X, a.segment))
    BY <1>6, <1>7, TimeWithout
  <2>3. Length(Whole(a)) \in Nat
    BY <1>5, LengthType
  <2> QED BY <1>2, <1>6, <2>1, <2>2, <2>3
<1>11. Tallies(c, X)
  BY <1>1, <1>2, <1>3, <1>6, <1>8, <1>9, <1>10 DEF Tallies
<1>12. Agrees(c, e, X, lo)
  BY <1>1, <1>4, <1>11 DEF Agrees
<1> QED BY <1>12 DEF c

\* An excursion that is dropped.
LEMMA AgreesReopened ==
    ASSUME NEW a, NEW e, Ready(a, e), a.previous # None, NEW X, NEW lo \in Nat, Agrees(a, e, X, lo)
    PROVE  Agrees(Reopened(a), e, Without(X, a.segment), lo)
<1> DEFINE r == Reopened(a)
           p == a.previous
           f == a.segment
           t == p.segment
           Y == Without(X, f)
           K == DOMAIN e \ a.abandoned
<1>0. a \in Accumulator
  BY DEF Ready, Sound
<1>1. p \in Closed /\ p.last # None /\ p.last \in Span /\ p.earlier \in Span \cup {None}
  BY <1>0, TimelineAssumption DEF Accumulator, Closed
<1>2. /\ r.merged = a.merged /\ r.segment = t /\ r.abandoned = a.abandoned \cup {f}
      /\ r.total_ns = SaturatingSub(a.total_ns, p.duration_ns)
      /\ r.earlier = p.earlier /\ r.last = p.last /\ r.previous = None
  BY <1>0, ReopenedFields
<1> HIDE DEF r
<1>3. Covers(a.merged, K, e, X, lo) /\ Tallies(a, X)
  BY DEF Agrees
<1>4. f \in Nat \ Froms(a.merged) /\ f # t /\ Rooted(a.merged)
      /\ \A s \in Nat : Root(a.merged, s).segment = f => f = s
  BY <1>0, <1>1 DEF Ready, Sound, Distinct, JoinsSound, Accumulator
<1>5. Extents(e) /\ K \subseteq DOMAIN e /\ DOMAIN e \ r.abandoned = K \ {f}
  BY <1>2 DEF Ready
<1>6. t \in DOMAIN X /\ X[t] = MergeInto(p.earlier, p.last) /\ p.duration_ns = Length(X[t])
      /\ a.total_ns = SpanNs(Without(X, f))
  BY <1>3 DEF Tallies
<1>7. IsFiniteSet(DOMAIN X) /\ \A q \in DOMAIN X : X[q] \in Span
  BY <1>3, DomainOfExtents
<1>8. Whole(r) = MergeInto(p.earlier, p.last) /\ Whole(r) # None
  <2>1. MergeInto(p.earlier, p.last) \in Span
    BY <1>1, MergeIntoType
  <2> QED BY <1>1, <1>2, <2>1, TimelineAssumption DEF Whole
<1> HIDE DEF p, f, t, K
<1>9. Covers(r.merged, DOMAIN e \ r.abandoned, e, Y, lo)
  BY <1>2, <1>3, <1>4, <1>5, CoversAbandon
<1>10. r.total_ns = SpanNs(Without(Y, t))
  BY <1>2, <1>4, <1>6, <1>7, TimeWithoutBoth
<1>11. t \in DOMAIN Y /\ Y[t] = X[t]
  BY <1>4, <1>6 DEF Without
<1> HIDE DEF Y
<1>12. Tallies(r, Y)
  BY <1>2, <1>6, <1>8, <1>10, <1>11 DEF Tallies
<1> QED BY <1>9, <1>12 DEF Agrees, r, Y, f

\* A segment that is joined across a step.
LEMMA AgreesAcross ==
    ASSUME NEW a, NEW e, Ready(a, e), a.previous # None, a.last # None,
           NEW X, NEW lo \in Nat, Agrees(a, e, X, lo),
           NEW step \in Int, NEW paused, NEW hi \in Nat, Abs(step) + hi <= lo
    PROVE  \E Y : Agrees(JoinAcrossStep(a, step, paused), e, Y, hi)
<1> DEFINE j == JoinAcrossStep(a, step, paused)
           p == a.previous
           f == p.segment
           t == a.segment
           M == a.merged
           K == DOMAIN e \ a.abandoned
           w == Shifted(X[f], step)
           Y == PushSpan(Without(X, f), t, w)
<1>0. a \in Accumulator
  BY DEF Ready, Sound
<1>1. p \in Closed
  BY <1>0 DEF Accumulator
<1>2. /\ j.merged = M \cup {[from |-> f, into |-> t, offset |-> step]}
      /\ j.segment = t /\ j.abandoned = a.abandoned /\ j.last = a.last
      /\ j.total_ns = SaturatingSub(a.total_ns, p.duration_ns)
      /\ j.earlier = MergeInto(a.earlier, Shifted(MergeInto(p.earlier, p.last), step))
      /\ j.previous = None
  BY <1>0, JoinFields
<1> HIDE DEF j
<1>3. f \in Nat \ Froms(M) /\ t \in Nat \ Froms(M) /\ f # t /\ Rooted(M)
  BY <1>0, <1>1 DEF Ready, Sound, Distinct, JoinsSound, Accumulator, Closed
<1>4. Covers(M, K, e, X, lo) /\ Tallies(a, X)
  BY DEF Agrees
<1>5. f \in DOMAIN X /\ X[f] = MergeInto(p.earlier, p.last) /\ p.duration_ns = Length(X[f])
      /\ a.total_ns = SpanNs(Without(X, t))
  BY <1>4 DEF Tallies
<1>6. Whole(a) # None /\ Whole(a) \in Span
  BY <1>0, WholeType, TimelineAssumption
<1>7. t \in DOMAIN X /\ X[t] = Whole(a)
  BY <1>4, <1>6 DEF Tallies
<1>8. IsFiniteSet(DOMAIN X) /\ \A r \in DOMAIN X : X[r] \in Span
  BY <1>4, DomainOfExtents
<1>9. Extents(e) /\ K \subseteq DOMAIN e /\ DOMAIN e \ j.abandoned = K
  BY <1>2 DEF Ready
<1>10. a.earlier \in Span \cup {None} /\ a.last \in Span
  BY <1>0 DEF Accumulator
<1>11. w \in Span /\ w = Shifted(MergeInto(p.earlier, p.last), step)
  BY <1>5, <1>8, ShiftedType
<1> HIDE DEF p, f, t, M, K, w
<1>12. JoinedTo(j.merged, M, f, t, step)
  BY <1>2, <1>3, RootJoined
<1>13. Covers(j.merged, K, e, Y, hi)
  BY <1>3, <1>4, <1>5, <1>7, <1>9, <1>12, CoversJoin DEF w
<1>14. Whole(j) = Merge(Whole(a), w)
  <2>1. MergeInto(MergeInto(a.earlier, w), a.last) = MergeInto(MergeInto(a.earlier, a.last), w)
    BY <1>10, <1>11, MergedInAnyOrder
  <2>2. MergeInto(a.earlier, a.last) = Whole(a)
    BY DEF Whole
  <2>3. Whole(j) = MergeInto(MergeInto(a.earlier, w), a.last)
    BY <1>2, <1>11 DEF Whole
  <2> QED BY <1>6, <2>1, <2>2, <2>3 DEF MergeInto
<1>15. Whole(j) # None
  BY <1>6, <1>11, <1>14, MergeType, TimelineAssumption
<1>16. t \in DOMAIN Y /\ Y[t] = Merge(X[t], w)
  BY <1>3, <1>7 DEF PushSpan, Without
<1>17. Without(Y, t) = Without(Without(X, t), f)
  BY DEF PushSpan, Without
<1> HIDE DEF Y
<1>18. j.total_ns = SpanNs(Without(Y, t))
  BY <1>2, <1>3, <1>5, <1>8, <1>17, TimeWithoutBoth
<1>19. Tallies(j, Y)
  BY <1>2, <1>7, <1>14, <1>15, <1>16, <1>18 DEF Tallies
<1>20. Agrees(j, e, Y, hi)
  BY <1>9, <1>13, <1>19 DEF Agrees
<1> QED BY <1>20 DEF j

\* A span, in the accumulator and in the channel.
LEMMA AgreesLasting ==
    ASSUME NEW b, NEW e, Ready(b, e), NEW X, NEW lo \in Nat, Agrees(b, e, X, lo),
           NEW span \in Span, lo <= span.start_ns, span.end_ns + lo <= MaxTime
    PROVE  Agrees(Lasting(b, span), PushSpan(e, b.segment, span), PushSpan(X, b.segment, span), lo)
<1> DEFINE l == Lasting(b, span)
           g == b.segment
           d == PushSpan(e, g, span)
           Y == PushSpan(X, g, span)
           K == DOMAIN e \ b.abandoned
<1>0. b \in Accumulator /\ span # None
  BY TimelineAssumption DEF Ready, Sound
<1>1. /\ l.merged = b.merged /\ l.segment = g /\ l.abandoned = b.abandoned
      /\ l.previous = b.previous /\ l.total_ns = b.total_ns /\ l.last = span
      /\ l.earlier = Whole(b)
  BY <1>0, LastingFields DEF Whole
<1> HIDE DEF l
<1>2. Covers(b.merged, K, e, X, lo) /\ Tallies(b, X)
  BY DEF Agrees
<1>3. g \in Nat \ Froms(b.merged) /\ Rooted(b.merged) /\ g \notin b.abandoned
      /\ (b.previous # None => b.previous.segment # g)
  BY <1>0 DEF Ready, Sound, Distinct, JoinsSound, Accumulator
<1>4. Extents(e) /\ K \subseteq DOMAIN e /\ (g \in DOMAIN e => g \in K)
  BY <1>3 DEF Ready
<1>5. DOMAIN d \ l.abandoned = K \cup {g}
  BY <1>1, <1>3 DEF PushSpan
<1>6. Whole(l) = MergeInto(Whole(b), span)
  BY <1>0, <1>1 DEF Whole
<1>7. MergeInto(Whole(b), span) # None
  BY <1>0, WholeType, MergeIntoType, TimelineAssumption
<1>8. /\ DOMAIN Y = DOMAIN X \cup {g}
      /\ Y[g] = IF g \in DOMAIN X THEN Merge(X[g], span) ELSE span
      /\ \A r \in DOMAIN X : r # g => Y[r] = X[r]
      /\ Without(Y, g) = Without(X, g)
  BY DEF PushSpan, Without
<1>9. Covers(b.merged, K \cup {g}, d, Y, lo)
  <2> HIDE DEF K, g
  <2> QED BY <1>2, <1>3, <1>4, CoversPush
<1> HIDE DEF d, Y, K
<1>10. Y[g] = Whole(l)
  <2>1. CASE Whole(b) = None
    <3>1. g \notin DOMAIN X
      BY <1>2, <2>1 DEF Tallies
    <3> QED BY <1>6, <1>8, <2>1, <3>1 DEF MergeInto
  <2>2. CASE Whole(b) # None
    <3>1. g \in DOMAIN X /\ X[g] = Whole(b)
      BY <1>2, <2>2 DEF Tallies
    <3> QED BY <1>6, <1>8, <2>2, <3>1 DEF MergeInto
  <2> QED BY <2>1, <2>2
<1>11. b.previous # None =>
          /\ b.previous.segment \in DOMAIN Y
          /\ Y[b.previous.segment] = MergeInto(b.previous.earlier, b.previous.last)
          /\ b.previous.duration_ns = Length(Y[b.previous.segment])
  <2>1. b.previous # None =>
          /\ b.previous.segment \in DOMAIN X
          /\ X[b.previous.segment] = MergeInto(b.previous.earlier, b.previous.last)
          /\ b.previous.duration_ns = Length(X[b.previous.segment])
    BY <1>2 DEF Tallies
  <2> QED BY <1>3, <1>8, <2>1
<1>12. b.total_ns = SpanNs(Without(X, g))
  BY <1>2 DEF Tallies
<1>13. Tallies(l, Y)
  BY <1>1, <1>6, <1>7, <1>8, <1>10, <1>11, <1>12 DEF Tallies
<1>14. Agrees(l, d, Y, lo)
  BY <1>1, <1>5, <1>9, <1>13 DEF Agrees
<1> QED BY <1>14 DEF l, d, Y

-----------------------------------------------------------------------------
(* The methods, for the accumulator and the channel together.              *)

\* A last span shorter than the step is not trimmed.
LEMMA TrimNothing ==
    ASSUME NEW a \in Accumulator, a.last # None, NEW n \in Nat, n = 0 \/ Length(a.last) < n
    PROVE  Close(a, n) = Close(a, 0)
<1> DEFINE l == a.last
<1>1. l \in Span
  BY DEF Accumulator
<1> HIDE DEF l
<1>2. [l EXCEPT !.end_ns = @ - 0] = l
  BY <1>1 DEF Span, Time
<1>3. Trimmed(l, 0) = l
  BY <1>2 DEF Trimmed
<1>4. n # 0 => Trimmed(l, n) = l
  <2>1. Length(l) \in Nat
    BY <1>1, LengthType
  <2>2. n # 0 => ~(Length(l) >= n)
    BY <2>1 DEF l
  <2> QED BY <2>2 DEF Trimmed
<1>5. Trimmed(a.last, n) = Trimmed(a.last, 0)
  BY <1>3, <1>4 DEF l
<1> QED BY <1>5 DEF Close

\* Settling keeps the accumulator sound, and its segments.
LEMMA ReadySettle ==
    ASSUME NEW a, NEW e, Ready(a, e) PROVE Ready(SettlePause(a), e)
BY SettleSound, SettleJoins DEF Ready

\* The channel's segments are still the accumulator's when it goes on to b.
LEMMA ReadyLater ==
    ASSUME NEW a, NEW e, Ready(a, e), NEW b, Sound(b), JoinsSound(b),
           b.next_segment >= a.next_segment
    PROVE  Ready(b, e)
<1>1. a.next_segment \in Nat /\ b.next_segment \in Nat
  BY DEF Ready, Sound, Accumulator
<1>2. 0..a.next_segment \subseteq 0..b.next_segment
  BY <1>1
<1> QED BY <1>2 DEF Ready

\* Whatever the accumulator makes of a jump.
LEMMA AgreesJump ==
    ASSUME NEW a, NEW e, Ready(a, e), NEW X, NEW lo \in Nat, Agrees(a, e, X, lo),
           NEW span \in Span
    PROVE  /\ Ready(AfterJump(a, span), e)
           /\ \E Y : Agrees(AfterJump(a, span), e, Y, lo)
<1> DEFINE b == AfterJump(a, span)
<1>0. Sound(a) /\ JoinsSound(a)
  BY DEF Ready
<1>1. Sound(b) /\ JoinsSound(b) /\ b.next_segment >= a.next_segment
  BY <1>0, AfterJumpSound, AfterJumpJoins
<1>2. Ready(b, e)
  <2> HIDE DEF b
  <2> QED BY <1>1, ReadyLater
<1>3. ASSUME a.last # None PROVE \E Y : Agrees(Opened(a, span), e, Y, lo)
  <2> DEFINE s == SettlePause(a)
             c == Close(s, 0)
             o == Opened(a, span)
  <2>1. Ready(s, e) /\ s.last # None
    BY <1>0, <1>3, ReadySettle, SettleSound
  <2>2. PICK Y : Agrees(s, e, Y, lo)
    BY AgreesSettle
  <2>3. SameButSteps(o, c)
    BY <1>0, <1>3, OpenedFields
  <2> HIDE DEF s, o
  <2>4. Agrees(c, e, Y, lo)
    BY <2>1, <2>2, AgreesClose
  <2> HIDE DEF c
  <2>5. Agrees(o, e, Y, lo)
    BY <2>3, <2>4, AgreesSame
  <2> QED BY <2>5 DEF o
<1>4. ASSUME a.previous # None PROVE \E Y : Agrees(Reopened(a), e, Y, lo)
  BY <1>4, AgreesReopened
<1>5. b \in {a} \/ (a.last # None /\ b = Opened(a, span)) \/ (a.previous # None /\ b = Reopened(a))
  BY DEF AfterJump, Returns
<1> HIDE DEF b
<1>6. \E Y : Agrees(b, e, Y, lo)
  BY <1>3, <1>4, <1>5
<1> QED BY <1>2, <1>6 DEF b

\* push, and push_span under the segment it leaves open.
LEMMA AgreesPush ==
    ASSUME NEW a, NEW e, Ready(a, e), NEW X, NEW lo \in Nat, Agrees(a, e, X, lo),
           NEW span \in Span, lo <= span.start_ns, span.end_ns + lo <= MaxTime
    PROVE  /\ Ready(Push(a, span), PushSpan(e, Push(a, span).segment, span))
           /\ \E Y : Agrees(Push(a, span), PushSpan(e, Push(a, span).segment, span), Y, lo)
<1> DEFINE b == AfterJump(a, span)
           p == Push(a, span)
           d == PushSpan(e, p.segment, span)
<1>1. Ready(b, e) /\ \E Y : Agrees(b, e, Y, lo)
  BY AgreesJump
<1>2. p = Lasting(b, span) \/ p = Lasting(SettlePause(b), span)
  BY <1>1, PushIs, SettleThenLast DEF Sound, Ready
<1>3. /\ Sound(p) /\ JoinsSound(p) /\ p.next_segment >= a.next_segment
  BY PushSound, PushJoins DEF Ready
<1>4. p.segment \in 0..p.next_segment
  BY <1>3 DEF Sound, Distinct, Accumulator
<1> HIDE DEF b, p
<1>5. PICK c : p = Lasting(c, span) /\ Ready(c, e) /\ \E Y : Agrees(c, e, Y, lo)
  <2>1. PICK Y : Agrees(b, e, Y, lo)
    BY <1>1
  <2>2. \E Z : Agrees(SettlePause(b), e, Z, lo)
    BY <1>1, <2>1, AgreesSettle
  <2> QED BY <1>1, <1>2, <2>1, <2>2, ReadySettle
<1>6. PICK Y : Agrees(c, e, Y, lo)
  BY <1>5
<1>7. p.segment = c.segment
  BY <1>5, LastingFields DEF Ready, Sound
<1>8. Agrees(p, d, PushSpan(Y, c.segment, span), lo)
  BY <1>5, <1>6, <1>7, AgreesLasting
<1>9. Ready(p, e)
  BY <1>3, ReadyLater
<1>10. DOMAIN d \subseteq 0..p.next_segment /\ \A s \in DOMAIN d : d[s] \in Span
  <2>1. p.next_segment \in Nat
    BY <1>3 DEF Sound, Accumulator
  <2>2. DOMAIN e \subseteq 0..p.next_segment /\ \A s \in DOMAIN e : e[s] \in Span
    BY <1>9 DEF Ready, Extents
  <2>3. DOMAIN d = DOMAIN e \cup {p.segment}
    BY DEF PushSpan
  <2>4. ASSUME NEW s \in DOMAIN d PROVE d[s] \in Span
    BY <2>2, <2>3, <2>4, MergeType DEF PushSpan
  <2> QED BY <1>4, <2>2, <2>3, <2>4
<1>11. Ready(p, d)
  <2>1. DOMAIN d \subseteq Nat
    <3>1. p.next_segment \in Nat
      BY <1>3 DEF Sound, Accumulator
    <3> QED BY <1>10, <3>1
  <2> QED BY <1>3, <1>10, <2>1 DEF Ready, Extents
<1> HIDE DEF d
<1> QED BY <1>8, <1>11 DEF d, p

\* Whether the record takes or adds time that the channel does not see.
Unseen(a, step, trim) ==
    IF a.gap # None /\ DescribedBy(a.gap, step, a.last)
    THEN a.authoritative /\ Paused(a.gap, step) > 0 /\ a.previous = None
    ELSE trim /\ a.last # None /\ Length(a.last) >= Abs(step)

\* record_step, which the channel does not see, if it takes or adds no time alone.
LEMMA AgreesRecord ==
    ASSUME NEW a, NEW e, Ready(a, e), GapHasData(a), NoHalf(a),
           NEW X, NEW lo \in Nat, Agrees(a, e, X, lo),
           NEW step \in Int, NEW trim \in BOOLEAN, ~Unseen(a, step, trim),
           NEW hi \in Nat, Abs(step) + hi <= lo
    PROVE  \E Y : Agrees(RecordStep(a, step, trim), e, Y, hi)
<1> DEFINE r == RecordStep(a, step, trim)
           n == IF trim THEN Abs(step) ELSE 0
           described == a.gap # None /\ DescribedBy(a.gap, step, a.last)
<1>0. Sound(a) /\ a \in Accumulator
  BY DEF Ready, Sound
<1>1. Abs(step) \in Nat /\ n \in Nat /\ hi <= lo
  <2>1. Abs(step) \in Nat
    BY DEF Abs
  <2> QED BY <2>1
<1>2. ASSUME described, NEW b, Sound(b), SameButSteps(b, a),
             r = IF a.authoritative /\ Paused(a.gap, step) > 0
                 THEN JoinAcrossStep(b, step, Paused(a.gap, step)) ELSE b
      PROVE  \E Y : Agrees(r, e, Y, hi)
  <2> HIDE DEF r
  <2>1. Agrees(b, e, X, lo) /\ Ready(b, e)
    <3>1. JoinsSound(b)
      BY <1>2, SameJoins DEF SameButSteps, Ready
    <3>2. b.next_segment >= a.next_segment
      BY <1>0, <1>2 DEF SameButSteps, Accumulator
    <3> QED BY <1>2, <3>1, <3>2, AgreesSame, ReadyLater
  <2>2. CASE a.authoritative /\ Paused(a.gap, step) > 0
    <3>1. b.previous # None /\ b.last # None
      BY <1>2, <2>2 DEF Unseen, GapHasData, SameButSteps
    <3>2. r = JoinAcrossStep(b, step, Paused(a.gap, step))
      BY <1>2, <2>2
    <3> QED BY <2>1, <3>1, <3>2, AgreesAcross
  <2>3. CASE ~(a.authoritative /\ Paused(a.gap, step) > 0)
    <3>1. r = b
      BY <1>2, <2>3
    <3> QED BY <1>1, <2>1, <3>1, AgreesLower
  <2> QED BY <2>2, <2>3
<1>3. ASSUME ~described, NEW s, Sound(s), SameButSteps(s, SettlePause(a)),
             SameButSteps(r, Close(s, n))
      PROVE  \E Y : Agrees(r, e, Y, hi)
  <2> DEFINE z == SettlePause(a)
  <2>1. /\ Ready(z, e) /\ z.last = a.last /\ z.next_segment = a.next_segment
        /\ \E Y : Agrees(z, e, Y, lo)
    BY <1>0, ReadySettle, SettleSound, AgreesSettle
  <2>2. a.last = None => z = a
    BY <1>0, SettleParts DEF GapHasData, Settles
  <2>3. ~described /\ Sound(s) /\ SameButSteps(s, z)
    BY <1>3
  <2>4. trim /\ a.last # None => Length(a.last) < Abs(step)
    <3>1. a.last # None => Length(a.last) \in Nat
      BY <1>0, LengthType DEF Accumulator
    <3> QED BY <1>1, <2>3, <3>1 DEF Unseen
  <2> HIDE DEF z, r
  <2>5. PICK Y : Agrees(z, e, Y, lo)
    BY <2>1
  <2>6. Agrees(s, e, Y, lo) /\ Ready(s, e) /\ s.last = a.last
    <3>1. JoinsSound(s)
      BY <2>1, <2>3, SameJoins DEF SameButSteps, Ready
    <3>2. s.next_segment >= z.next_segment
      BY <1>0, <2>1, <2>3 DEF SameButSteps, Accumulator
    <3> QED BY <2>1, <2>3, <2>5, <3>1, <3>2, AgreesSame, ReadyLater DEF SameButSteps
  <2> HIDE DEF described
  <2>7. Agrees(Close(s, n), e, Y, lo)
    <3>1. s \in Accumulator
      BY <2>3 DEF Sound
    <3>2. CASE s.last = None
      <4>1. s.earlier = None
        BY <2>2, <2>3, <2>6, <3>2 DEF NoHalf, SameButSteps
      <4>2. Close(s, n) = [s EXCEPT !.earlier = None]
        BY <1>1, <3>1, <3>2, CloseMerges
      <4>3. [s EXCEPT !.earlier = None] = s
        BY <3>1, <4>1 DEF Accumulator
      <4> QED BY <2>6, <4>2, <4>3
    <3>3. CASE s.last # None
      <4>1. n = 0 \/ Length(s.last) < n
        BY <2>4, <2>6, <3>3
      <4>2. Close(s, n) = Close(s, 0)
        BY <1>1, <3>1, <3>3, <4>1, TrimNothing
      <4> QED BY <2>6, <3>3, <4>2, AgreesClose
    <3> QED BY <3>2, <3>3
  <2>8. Agrees(r, e, Y, lo)
    BY <1>3, <2>7, AgreesSame
  <2> QED BY <1>1, <2>8, AgreesLower
<1> HIDE DEF r
<1> QED BY <1>0, <1>2, <1>3, RecordStepIs DEF r, n, described

\* Closing leaves nothing of the open segment.
LEMMA CloseEmpties ==
    ASSUME NEW a \in Accumulator, NEW n \in Nat
    PROVE  Close(a, n).last = None /\ Close(a, n).earlier = None
<1>1. CASE a.last = None
  <2>1. Close(a, n) = [a EXCEPT !.earlier = None]
    BY <1>1, CloseMerges
  <2> DEFINE c == Close(a, n)
  <2>2. c = [a EXCEPT !.earlier = None]
    BY <2>1
  <2> HIDE DEF c
  <2>3. c.last = None /\ c.earlier = None
    BY <1>1, <2>2 DEF Accumulator
  <2> QED BY <2>3 DEF c
<1>2. CASE a.last # None
  <2> DEFINE last == Trimmed(a.last, n)
             d == Length(MergeInto(a.earlier, last))
             p == [segment |-> a.segment, earlier |-> a.earlier,
                   last |-> last, duration_ns |-> d, gap |-> a.gap]
             c == Close(a, n)
  <2>1. c = [a EXCEPT !.total_ns = @ + d, !.segment = a.next_segment + 1,
                      !.next_segment = @ + 1, !.earlier = None, !.last = None,
                      !.previous = p]
    BY <1>2 DEF Close
  <2> HIDE DEF c, p, d
  <2>2. c.last = None /\ c.earlier = None
    BY <2>1 DEF Accumulator
  <2> QED BY <2>2 DEF c
<1> QED BY <1>1, <1>2

\* A record leaves a segment with data, or one with nothing.
LEMMA RecordHalf ==
    ASSUME NEW a, Sound(a), GapHasData(a), NEW step \in Int, NEW trim \in BOOLEAN
    PROVE  NoHalf(RecordStep(a, step, trim))
<1> DEFINE r == RecordStep(a, step, trim)
           n == IF trim THEN Abs(step) ELSE 0
<1>1. ASSUME a.gap # None, NEW b, Sound(b), SameButSteps(b, a),
             r = IF a.authoritative /\ Paused(a.gap, step) > 0
                 THEN JoinAcrossStep(b, step, Paused(a.gap, step)) ELSE b
      PROVE  NoHalf(r)
  <2> HIDE DEF r
  <2>1. b \in Accumulator /\ b.last # None
    BY <1>1 DEF GapHasData, SameButSteps, Sound
  <2>2. JoinAcrossStep(b, step, Paused(a.gap, step)).last = b.last
    BY <2>1, JoinFields, PauseAlone
  <2> QED BY <1>1, <2>1, <2>2 DEF NoHalf
<1>2. ASSUME NEW s, Sound(s), SameButSteps(r, Close(s, n)) PROVE NoHalf(r)
  <2>1. n \in Nat
    BY DEF Abs
  <2> HIDE DEF r, n
  <2>2. Close(s, n).last = None /\ Close(s, n).earlier = None
    BY <1>2, <2>1, CloseEmpties DEF Sound
  <2> QED BY <1>2, <2>2 DEF NoHalf, SameButSteps
<1> HIDE DEF r
<1> QED BY <1>1, <1>2, RecordStepIs DEF r, n

\* A file that ends here: the channel's joined segments last as long as the
\* accumulator says.
LEMMA AgreesFinished ==
    ASSUME NEW a, NEW e, Ready(a, e), GapHasData(a), NoHalf(a),
           NEW X, NEW lo \in Nat, Agrees(a, e, X, lo)
    PROVE  SpanNs(JoinedExtents(Finished(a), e)) = Finished(a).total_ns
<1> DEFINE s == SettlePause(a)
           c == Close(s, 0)
<1>0. Sound(a) /\ a \in Accumulator /\ 0 \in Nat
  BY DEF Ready, Sound
<1>1. Ready(s, e) /\ s.last = a.last
  BY <1>0, ReadySettle, SettleSound
<1>2. PICK Y : Agrees(s, e, Y, lo)
  BY AgreesSettle
<1>3. a.last = None => s = a
  BY <1>0, SettleParts DEF GapHasData, Settles
<1> HIDE DEF s
<1>4. s \in Accumulator /\ Rooted(s.merged) /\ Extents(e)
  BY <1>1 DEF Ready, Sound, JoinsSound
<1>5. c.merged = s.merged /\ c.abandoned = s.abandoned
      /\ c.total_ns = SpanNs(Y)
  <2>1. CASE s.last = None
    <3>1. s.earlier = None
      BY <1>1, <1>3, <2>1 DEF NoHalf
    <3>2. c = [s EXCEPT !.earlier = None]
      BY <1>0, <1>4, <2>1, CloseMerges
    <3>3. c = s
      BY <1>4, <3>1, <3>2 DEF Accumulator
    <3>4. s.segment \notin DOMAIN Y /\ s.total_ns = SpanNs(Without(Y, s.segment))
      BY <1>2, <2>1, <3>1 DEF Agrees, Tallies, Whole
    <3>5. Without(Y, s.segment) = Y
      <4>1. Y = [q \in DOMAIN Y |-> Y[q]]
        BY <1>2 DEF Agrees, Covers
      <4> QED BY <3>4, <4>1 DEF Without
    <3> QED BY <3>3, <3>4, <3>5
  <2>2. CASE s.last # None
    <3>1. Agrees(c, e, Y, lo)
      BY <1>1, <1>2, <2>2, AgreesClose
    <3>2. c.last = None /\ c.earlier = None /\ c.merged = s.merged /\ c.abandoned = s.abandoned
      <4>1. c.last = None /\ c.earlier = None
        BY <1>0, <1>4, CloseEmpties
      <4>2. c.merged = s.merged
        BY <1>0, <1>4, CloseMerges
      <4>3. c.abandoned = s.abandoned
        BY <1>0, <1>4, <2>2, CloseFields
      <4> QED BY <4>1, <4>2, <4>3
    <3> HIDE DEF c
    <3>3. c.segment \notin DOMAIN Y /\ c.total_ns = SpanNs(Without(Y, c.segment))
      BY <3>1, <3>2 DEF Agrees, Tallies, Whole
    <3>4. Without(Y, c.segment) = Y
      <4>1. Y = [q \in DOMAIN Y |-> Y[q]]
        BY <1>2 DEF Agrees, Covers
      <4> QED BY <3>3, <4>1 DEF Without
    <3> QED BY <3>2, <3>3, <3>4
  <2> QED BY <2>1, <2>2
<1> HIDE DEF c
<1>6. Covers(c.merged, DOMAIN e \ c.abandoned, e, Y, lo)
  BY <1>2, <1>5 DEF Agrees
<1>7. JoinedExtents(c, e) = Y
  BY <1>4, <1>5, <1>6, CoversIs
<1>8. Finished(a) = c
  BY DEF Finished, c, s
<1> QED BY <1>5, <1>7, <1>8

-----------------------------------------------------------------------------
(* The time that is left to step in.                                       *)

\* How far the records that may still come can move a span: each by B at most.
Room(B, i) == B * (MaxInputs - i)

\* One record less.
LEMMA RoomIs ==
    ASSUME NEW B \in Nat, NEW i \in Nat, i < MaxInputs
    PROVE  /\ Room(B, i) \in Nat /\ Room(B, i + 1) \in Nat
           /\ B + Room(B, i + 1) = Room(B, i)
           /\ i + 1 <= MaxInputs
<1>0. MaxInputs \in Nat
  BY TimelineAssumption
<1> DEFINE k == MaxInputs - (i + 1)
<1>1. k \in Nat /\ MaxInputs - i = k + 1
  BY <1>0
<1> HIDE DEF k
<1>2. B * (k + 1) = B * k + B /\ B * k \in Nat
  BY <1>1
<1> QED BY <1>0, <1>1, <1>2 DEF Room, k

\* It shrinks as the file is read.
LEMMA RoomLeft ==
    ASSUME NEW B \in Nat, NEW i \in 0..MaxInputs
    PROVE  Room(B, i) \in Nat /\ Room(B, i) <= Room(B, 0)
<1>0. MaxInputs \in Nat
  BY TimelineAssumption
<1> DEFINE k == MaxInputs - i
<1>1. k \in Nat /\ i \in Nat /\ MaxInputs - 0 = k + i
  BY <1>0
<1> HIDE DEF k
<1>2. B * (k + i) = B * k + B * i /\ B * k \in Nat /\ B * i \in Nat
  BY <1>1
<1> QED BY <1>1, <1>2 DEF Room, k

-----------------------------------------------------------------------------
(* The invariant of DurationsAgree.                                        *)

DInv(B) ==
    /\ NoHalf(acc)
    /\ seen.exact \in BOOLEAN
    /\ seen.exact => \E X : Agrees(acc, extent, X, Room(B, inputs))

\* The spans keep a distance to both ends of time that all records together,
\* each of at most B, do not use up.
ClearOfEnds(B) ==
    /\ \A step \in Steps : Abs(step) <= B
    /\ \A span \in Spans : Room(B, 0) <= span.start_ns /\ span.end_ns + Room(B, 0) <= MaxTime

\* A span is as far from both ends as the rest of the file may move it.
LEMMA ClearSpan ==
    ASSUME NEW B \in Nat, ClearOfEnds(B), NEW span \in Spans, NEW lo \in Nat, lo <= Room(B, 0)
    PROVE  span \in Span /\ lo <= span.start_ns /\ span.end_ns + lo <= MaxTime
<1>1. span \in Span
  BY TimelineAssumption
<1>2. span.start_ns \in Nat /\ span.end_ns \in Nat /\ MaxTime \in Nat
  BY <1>1, SpanIs, TimelineAssumption
<1>3. Room(B, 0) <= span.start_ns /\ span.end_ns + Room(B, 0) <= MaxTime
  BY DEF ClearOfEnds
<1>4. Room(B, 0) \in Nat
  BY RoomLeft, TimelineAssumption
<1> QED BY <1>1, <1>2, <1>3, <1>4

\* After any file.
LEMMA ReadyNow == TInv /\ JInv => Ready(acc, extent)
<1> SUFFICES ASSUME TInv, JInv PROVE Ready(acc, extent)
  OBVIOUS
<1>1. acc.next_segment \in Nat
  BY DEF TInv, Sound, Accumulator
<1> QED BY <1>1 DEF TInv, JInv, Ready, Extents

\* The empty accumulator agrees with the empty channel.
LEMMA InitDInv ==
    ASSUME NEW B \in Nat, Init PROVE DInv(B)
<1>1. PICK b \in BOOLEAN : acc = NewAccumulator(b)
  BY DEF Init
<1>2. /\ acc.total_ns = 0 /\ acc.segment = 0 /\ acc.earlier = None /\ acc.last = None
      /\ acc.previous = None /\ acc.merged = {} /\ acc.abandoned = {}
  BY <1>1 DEF NewAccumulator
<1>3. DOMAIN extent = {} /\ seen.exact = TRUE
  BY DEF Init
<1> DEFINE X == [r \in {} |-> r]
<1>4. DOMAIN X = {} /\ X = [r \in DOMAIN X |-> X[r]]
  OBVIOUS
<1>5. DOMAIN Without(X, 0) = {}
  BY <1>4 DEF Without
<1> HIDE DEF X
<1>6. SpanNs(Without(X, 0)) = 0
  BY <1>5, SpanNsOfNone
<1>7. Tallies(acc, X)
  BY <1>2, <1>4, <1>6 DEF Tallies, Whole
<1>8. Covers(acc.merged, DOMAIN extent \ acc.abandoned, extent, X, Room(B, inputs))
  BY <1>3, <1>4 DEF Covers
<1> QED BY <1>2, <1>3, <1>7, <1>8 DEF DInv, Agrees, NoHalf

\* A span keeps the room that is left.
LEMMA FeedSpanDInv ==
    ASSUME NEW B \in Nat, ClearOfEnds(B), TInv, JInv, DInv(B),
           NEW span \in Spans, FeedSpan(span)
    PROVE  DInv(B)'
<1> DEFINE lo == Room(B, inputs)
           hi == Room(B, inputs + 1)
<1>1. inputs \in Nat /\ inputs \in 0..MaxInputs /\ inputs < MaxInputs /\ inputs' = inputs + 1
  BY TimelineAssumption DEF FeedSpan, TInv
<1>2. lo \in Nat /\ hi \in Nat /\ hi <= lo /\ lo <= Room(B, 0)
  <2>1. lo \in Nat /\ hi \in Nat /\ B + hi = lo
    BY <1>1, RoomIs
  <2>2. lo <= Room(B, 0)
    BY <1>1, RoomLeft
  <2> HIDE DEF lo, hi
  <2> QED BY <2>1, <2>2
<1>3. acc' = Push(acc, span) /\ extent' = PushSpan(extent, acc'.segment, span)
      /\ seen'.exact = seen.exact
  BY DEF FeedSpan, ObservedSpan
<1> HIDE DEF lo, hi
<1>4. span \in Span /\ lo <= span.start_ns /\ span.end_ns + lo <= MaxTime
  BY <1>2, ClearSpan
<1>5. Ready(acc, extent)
  BY ReadyNow
<1>6. ASSUME seen.exact PROVE \E X : Agrees(acc', extent', X, hi)
  <2>1. PICK X : Agrees(acc, extent, X, lo)
    BY <1>6 DEF DInv, lo
  <2>2. PICK Y : Agrees(acc', extent', Y, lo)
    BY <1>2, <1>3, <1>4, <1>5, <2>1, AgreesPush
  <2> QED BY <1>2, <2>2, AgreesLower
<1>7. acc'.last # None
  BY <1>3, <1>4, <1>5, PushSound DEF Ready
<1>8. seen.exact \in BOOLEAN
  BY DEF DInv
<1> QED BY <1>1, <1>3, <1>6, <1>7, <1>8 DEF DInv, NoHalf, hi

\* What ObservedStep says of a record is whether the channel sees it.
LEMMA ExactIs ==
    ASSUME NEW a, NEW step, NEW trim, NEW o
    PROVE  ObservedStep(a, step, trim, o).exact = (o.exact /\ ~Unseen(a, step, trim))
BY DEF ObservedStep, Unseen

\* A record uses its part of the room.
LEMMA FeedStepDInv ==
    ASSUME NEW B \in Nat, ClearOfEnds(B), TInv, JInv, DInv(B),
           NEW step \in Steps, FeedStep(step)
    PROVE  DInv(B)'
<1> DEFINE lo == Room(B, inputs)
           hi == Room(B, inputs + 1)
<1>1. inputs \in Nat /\ inputs < MaxInputs /\ inputs' = inputs + 1
  BY TimelineAssumption DEF FeedStep, TInv
<1>2. lo \in Nat /\ hi \in Nat /\ B + hi = lo
  BY <1>1, RoomIs
<1> HIDE DEF lo, hi
<1>3. step \in Int /\ Abs(step) \in Nat /\ Abs(step) <= B
  BY TimelineAssumption DEF Abs, ClearOfEnds
<1>4. Abs(step) + hi <= lo
  BY <1>2, <1>3
<1>5. acc' = RecordStep(acc, step, FALSE) /\ extent' = extent
      /\ seen'.exact = (seen.exact /\ ~Unseen(acc, step, FALSE))
  BY ExactIs DEF FeedStep
<1>6. Ready(acc, extent) /\ GapHasData(acc) /\ NoHalf(acc) /\ seen.exact \in BOOLEAN
  BY ReadyNow DEF TInv, DInv
<1>7. ASSUME seen.exact, ~Unseen(acc, step, FALSE) PROVE \E X : Agrees(acc', extent', X, hi)
  <2>1. PICK X : Agrees(acc, extent, X, lo)
    BY <1>7 DEF DInv, lo
  <2> QED BY <1>2, <1>3, <1>4, <1>5, <1>6, <1>7, <2>1, AgreesRecord
<1>8. NoHalf(acc')
  BY <1>3, <1>5, <1>6, RecordHalf DEF Ready
<1> QED BY <1>1, <1>5, <1>6, <1>7, <1>8 DEF DInv, NoHalf, hi

\* A chunk that is not resolved, and its record.
LEMMA FeedUnresolvedDInv ==
    ASSUME NEW B \in Nat, ClearOfEnds(B), TInv, JInv, DInv(B),
           NEW span \in Spans, NEW step \in Steps, FeedUnresolved(span, step)
    PROVE  DInv(B)'
<1> DEFINE a == Push(acc, span)
           d == PushSpan(extent, a.segment, span)
           lo == Room(B, inputs)
           mid == Room(B, inputs + 1)
           hi == Room(B, inputs + 2)
<1>1. inputs \in Nat /\ inputs \in 0..MaxInputs /\ inputs + 1 < MaxInputs
      /\ inputs < MaxInputs /\ inputs' = inputs + 2 /\ inputs + 1 \in Nat
      /\ inputs + 1 + 1 = inputs + 2
  BY TimelineAssumption DEF FeedUnresolved, TInv
<1>2. /\ lo \in Nat /\ mid \in Nat /\ B + mid = lo
      /\ hi \in Nat /\ B + hi = mid
      /\ lo <= Room(B, 0)
  <2>1. lo \in Nat /\ mid \in Nat /\ B + mid = lo
    BY <1>1, RoomIs
  <2>2. Room(B, inputs + 1 + 1) \in Nat /\ B + Room(B, inputs + 1 + 1) = mid
    BY <1>1, RoomIs
  <2>3. lo <= Room(B, 0)
    BY <1>1, RoomLeft
  <2>4. hi = Room(B, inputs + 1 + 1)
    BY <1>1
  <2> HIDE DEF lo, mid, hi
  <2> QED BY <2>1, <2>2, <2>3, <2>4
<1>3. /\ acc' = RecordStep(a, step, TRUE) /\ extent' = d
      /\ seen'.exact = (seen.exact /\ ~Unseen(a, step, TRUE))
  <2>1. ObservedSpan(span).exact = seen.exact
    BY DEF ObservedSpan
  <2> QED BY <2>1, ExactIs DEF FeedUnresolved
<1> HIDE DEF lo, mid, hi
<1>4. span \in Span /\ lo <= span.start_ns /\ span.end_ns + lo <= MaxTime
  BY <1>2, ClearSpan
<1>5. step \in Int /\ Abs(step) \in Nat /\ Abs(step) <= B
  BY TimelineAssumption DEF Abs, ClearOfEnds
<1>6. Abs(step) + hi <= lo
  BY <1>2, <1>5
<1>7. Ready(acc, extent)
  BY ReadyNow
<1>8. Sound(a) /\ GapHasData(a) /\ NoHalf(a) /\ seen.exact \in BOOLEAN
  BY <1>4, <1>7, PushSound DEF Ready, NoHalf, DInv
<1>9. ASSUME seen.exact, ~Unseen(a, step, TRUE) PROVE \E X : Agrees(acc', extent', X, hi)
  <2>1. PICK X : Agrees(acc, extent, X, lo)
    BY <1>9 DEF DInv, lo
  <2>2. Ready(a, d) /\ \E Y : Agrees(a, d, Y, lo)
    BY <1>2, <1>4, <1>7, <2>1, AgreesPush
  <2> HIDE DEF a, d
  <2>3. PICK Y : Agrees(a, d, Y, lo)
    BY <2>2
  <2> QED BY <1>2, <1>3, <1>5, <1>6, <1>8, <1>9, <2>2, <2>3, AgreesRecord
<1> HIDE DEF a, d
<1>10. NoHalf(acc')
  BY <1>3, <1>5, <1>8, RecordHalf
<1> QED BY <1>1, <1>3, <1>8, <1>9, <1>10 DEF DInv, NoHalf, hi

\* Every step preserves the invariant.
LEMMA NextDInv ==
    ASSUME NEW B \in Nat, ClearOfEnds(B), TInv, JInv, DInv(B), [Next]_vars PROVE DInv(B)'
<1>1. CASE UNCHANGED vars
  <2>1. acc' = acc /\ extent' = extent /\ inputs' = inputs /\ seen' = seen
    BY <1>1 DEF vars
  <2> QED BY <2>1 DEF DInv
<1> QED BY <1>1, FeedSpanDInv, FeedStepDInv, FeedUnresolvedDInv DEF Next

\* And it implies the property.
LEMMA DInvAgrees ==
    ASSUME NEW B \in Nat, TInv, JInv, DInv(B) PROVE DurationsAgree
<1>1. Ready(acc, extent) /\ GapHasData(acc) /\ NoHalf(acc)
  BY ReadyNow DEF TInv, DInv
<1>2. Room(B, inputs) \in Nat
  BY RoomLeft DEF TInv
<1>3. JoinsEnd
  BY JoinsSoundEnd
<1>4. ASSUME seen.exact
      PROVE  SpanNs(JoinedExtents(Finished(acc), extent)) = Finished(acc).total_ns
  <2>1. PICK X : Agrees(acc, extent, X, Room(B, inputs))
    BY <1>4 DEF DInv
  <2> QED BY <1>1, <1>2, <2>1, AgreesFinished
<1> QED BY <1>3, <1>4 DEF DurationsAgree

\* The channel that is in every chunk lasts as long as the recording: its spans,
\* moved into the clock of the segment they are joined to and merged there, sum
\* up to the duration of the accumulator, unless a span was trimmed or a pause had
\* no segment to join (seen.exact).  The accumulator moves a segment at every join
\* and stops at the ends of time each time, the channel moves it once by the sum:
\* so no sum of steps of the file may reach an end.
THEOREM ChannelLastsAsLong ==
    ASSUME NEW B \in Nat, ClearOfEnds(B)
    PROVE  Spec => []DurationsAgree
<1>1. Init => DInv(B)
  BY InitDInv
<1>2. TInv /\ JInv /\ DInv(B) /\ [Next]_vars => DInv(B)'
  BY NextDInv
<1>3. TInv /\ JInv /\ DInv(B) => DurationsAgree
  BY DInvAgrees
<1> QED BY JoinsHold, <1>1, <1>2, <1>3, PTL DEF Spec
=============================================================================
