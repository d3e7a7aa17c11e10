----------------------------- MODULE Timeline -----------------------------
(***************************************************************************)
(* The timeline of a recording, as feed_entries of src/src/mcap.rs drives  *)
(* it: TimelineAccumulator is fed spans of log_time and clock_step records *)
(* in file order, ChannelSpans the same spans under the segment that the   *)
(* accumulator reports, here for one channel that is in every chunk.       *)
(* Finishing consumes both, so what it returns is a state function, of     *)
(* every prefix of a file.                                                 *)
(*                                                                         *)
(* A chunk that is not resolved counts in the channel with its own span,   *)
(* as where channel_extent finds no index.  Every order of messages and    *)
(* records is a behaviour of this module, whatever leak_split decides:     *)
(* McapRead is about the orders that a recorder writes.                    *)
(***************************************************************************)
EXTENDS TimelineOps

CONSTANTS
    Spans,      \* the spans a file may hold
    Steps,      \* the sizes of its clock_step records
    MaxInputs   \* bound: spans and records of a file

ASSUME TimelineAssumption ==
    /\ STEP_GAP_NS \in Nat
    /\ MaxTime \in Nat
    /\ MaxInputs \in Nat
    /\ Spans \subseteq Span
    /\ Steps \subseteq Int
    /\ None \notin Span \cup Gap \cup Closed \cup Accumulator

VARIABLES
    acc,     \* TimelineAccumulator
    extent,  \* ChannelSpans of the channel: segment |-> Span
    inputs,  \* bound: spans and records fed so far
    seen     \* observation: what the file held (see Observed)

vars == <<acc, extent, inputs, seen>>

-----------------------------------------------------------------------------
(* The file.                                                               *)

Init ==
    /\ acc \in {NewAccumulator(authoritative) : authoritative \in BOOLEAN}
    /\ extent = << >>
    /\ inputs = 0
    /\ seen = [first |-> None, forward |-> TRUE, exact |-> TRUE, before |-> None,
               records |-> 0, empty |-> 0]

\* What a span adds to the observations: the first span, whether all spans so
\* far went forward, and the accumulator before the jump to the open segment.
ObservedSpan(span) ==
    [first |-> IF seen.first = None THEN span ELSE seen.first,
     forward |-> seen.forward /\ (acc.last = None \/ span.start_ns >= acc.last.end_ns),
     exact |-> seen.exact,
     before |-> IF Push(acc, span).previous = None \/ Push(acc, span).gap = None THEN None
                ELSE IF Push(acc, span).next_segment > acc.next_segment THEN acc
                ELSE seen.before,
     records |-> seen.records, empty |-> seen.empty]

\* What a record adds: how many there were, how many came where no segment was
\* open, and whether the accumulator took or added time the channel does not
\* see: a span that was trimmed, a pause without a segment to join.
ObservedStep(a, step, trim, o) ==
    LET described == a.gap # None /\ DescribedBy(a.gap, step, a.last)
        alone == a.authoritative /\ Paused(a.gap, step) > 0 /\ a.previous = None
        trimmed == trim /\ a.last # None /\ Length(a.last) >= Abs(step)
    IN  [first |-> o.first, forward |-> o.forward,
         exact |-> o.exact /\ ~(IF described THEN alone ELSE trimmed),
         before |-> None,
         records |-> o.records + 1,
         empty |-> IF a.last = None THEN o.empty + 1 ELSE o.empty]

\* A point of push_points, or a chunk that is not resolved to its messages.
FeedSpan(span) ==
    /\ inputs < MaxInputs
    /\ acc' = Push(acc, span)
    /\ extent' = PushSpan(extent, acc'.segment, span)
    /\ inputs' = inputs + 1
    /\ seen' = ObservedSpan(span)

FeedStep(step) ==
    /\ inputs < MaxInputs
    /\ acc' = RecordStep(acc, step, FALSE)
    /\ inputs' = inputs + 1
    /\ seen' = ObservedStep(acc, step, FALSE, seen)
    /\ UNCHANGED extent

\* A chunk whose messages cannot be resolved, and the record after it.
FeedUnresolved(span, step) ==
    /\ inputs + 1 < MaxInputs
    /\ LET a == Push(acc, span)
       IN  /\ acc' = RecordStep(a, step, TRUE)
           /\ extent' = PushSpan(extent, a.segment, span)
           /\ seen' = ObservedStep(a, step, TRUE, ObservedSpan(span))
    /\ inputs' = inputs + 2

Next ==
    \/ \E span \in Spans : FeedSpan(span)
    \/ \E step \in Steps : FeedStep(step)
    \/ \E span \in Spans, step \in Steps : FeedUnresolved(span, step)

Spec == Init /\ [][Next]_vars

-----------------------------------------------------------------------------
(* Properties.                                                             *)

\* Every field keeps its type; no span is inverted.
TypeOK ==
    /\ acc \in Accumulator
    /\ \A s \in DOMAIN extent : s \in 0..acc.next_segment /\ extent[s] \in Span
    /\ inputs \in 0..MaxInputs

\* What a re-opening or a join takes back was added before: the saturating
\* subtractions of the accumulator never saturate, whatever excursions,
\* pauses and records came in between.
TakenBackWasAdded ==
    /\ acc.previous # None => acc.total_ns >= acc.previous.duration_ns
    /\ acc.gap # None /\ acc.previous # None /\ acc.gap.kind = "Step" => acc.clock_steps >= 1

\* "When records are authoritative ... only clock_step records count as
\* steps": each exactly once, whether it closes a segment, confirms a jump or
\* joins two segments.
StepsAreRecords ==
    acc.authoritative => acc.clock_steps = seen.records

\* Without authority a step is a boundary between two segments that are
\* kept, or a record where no segment was open: a record and the jump it
\* describes are one step, a stray excursion is none.
StepsAreBoundaries ==
    ~acc.authoritative =>
        acc.clock_steps = acc.next_segment - Cardinality(acc.abandoned) + seen.empty

\* Every step of the clock is counted, and once (clock_steps): by records where
\* these are authoritative, else by boundaries.
StepsCounted == StepsAreRecords /\ StepsAreBoundaries

\* Following joins ends, at a segment that is kept: finish_merged loops until
\* it finds no join, and it drops what was abandoned before it joins.
JoinsEnd ==
    /\ \A m, n \in acc.merged : m.from = n.from => m = n
    /\ \A m \in acc.merged :
        LET r == Canonical(acc.merged, m.from, Cardinality(acc.merged)).segment
        IN  r \notin {n.from : n \in acc.merged} \cup acc.abandoned

\* The accumulator and the channel agree: joins end, and for the channel that
\* is in every chunk, the span summed over its joined segments is the duration.
\* The documented exceptions are trimmed spans and a pause that no segment joins.
DurationsAgree ==
    /\ JoinsEnd
    /\ seen.exact => SpanNs(JoinedExtents(Finished(acc), extent)) = Finished(acc).total_ns

\* A stray excursion leaves no trace: when a span returns from one, the file
\* lasts as long, and has as many steps, as if only the span had come.
StrayLeavesNoTrace ==
    [][\A span \in Spans :
        FeedSpan(span) /\ Cardinality(acc'.abandoned) > Cardinality(acc.abandoned)
            => /\ Finished(acc').total_ns = Finished(Push(seen.before, span)).total_ns
               /\ acc'.clock_steps = Push(seen.before, span).clock_steps]_vars

=============================================================================
