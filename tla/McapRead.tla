----------------------------- MODULE McapRead -----------------------------
(***************************************************************************)
(* What a listing says of a recording (src/src/mcap.rs: classify,          *)
(* info_from_summary, read_linear, feed_entries), for every recording that *)
(* a recorder may leave, finished or cut short at any record.              *)
(*                                                                         *)
(* The recorder is not part of the repository: it is modelled from the     *)
(* files the tests write.  Messages carry, for the properties alone, the   *)
(* time at which they were taken on a clock that does not step.            *)
(***************************************************************************)
EXTENDS TimelineOps, SequencesExt

CONSTANTS
    Channels,     \* 1, 2, ...
    Styles,       \* recorders: see Style
    Interval,     \* the usual time between two messages
    WriteLatency, \* of the record of a step, at most
    StartTime

ASSUME RecordingAssumption ==
    /\ StartTime \in Nat
    /\ \A s \in Styles : s.waits \subseteq Nat /\ s.sizes \subseteq Int

VARIABLES
    style,   \* how this recorder writes
    file,    \* the data section as it is on the disk
    queue,   \* records that the recorder is writing
    chunk,   \* the items of its open chunk
    clock,   \* the time, and by how much the wall clock is off
    due,     \* the step whose record is not written yet, or None
    taken    \* observation: the messages recorded, and the steps between them

recordingVars == <<style, file, queue, chunk, clock, due, taken>>

\* A recorder, and a bound on what it records.  sync: the file says that every step
\* has a record; records: it has; chunked, indexed: messages are in chunks, which
\* have message indexes; summary: what a finished file's summary has; the times
\* between two messages, the sizes of the clock's steps, and how many channels,
\* messages and steps.
Style(sync, records, chunked, indexed, summary, waits, sizes, channels, messages, steps) ==
    [sync |-> sync, records |-> records, chunked |-> chunked, indexed |-> indexed,
     summary |-> summary,
     waits |-> waits, sizes |-> sizes,
     channels |-> channels, messages |-> messages, steps |-> steps]

FullSummary == {"statistics", "chunk indexes", "metadata indexes"}

-----------------------------------------------------------------------------
(* Records of the data section.                                            *)

ChannelRecord(c) == [kind |-> "channel", channel |-> c]
MessageRecord(c, time) == [kind |-> "message", channel |-> c, time |-> time]
ChunkRecord(items) == [kind |-> "chunk", items |-> items]
IndexRecord(c, times) == [kind |-> "index", channel |-> c, times |-> times]
StepRecord(size) == [kind |-> "clock_step", size |-> size]
SyncRecord == [kind |-> "clock_sync"]
DataEnd == [kind |-> "end"]
SummarySection == [kind |-> "summary"]  \* with what style.summary says

OfKind(seq, kind) == SelectSeq(seq, LAMBDA r : r.kind = kind)
ChannelsIn(items) == {items[i].channel : i \in {j \in DOMAIN items : items[j].kind = "channel"}}

\* The messages of a channel within a chunk, as pairs of place and time.
IndexOf(items, c) ==
    LET of == {i \in DOMAIN items : items[i].kind = "message" /\ items[i].channel = c}
    IN  [i \in of |-> items[i].time]
ChannelsWithMessages(items) == {items[i].channel : i \in {j \in DOMAIN items : items[j].kind = "message"}}

TimesOf(items) ==
    LET messages == OfKind(items, "message")
    IN  [i \in DOMAIN messages |-> <<messages[i].time, messages[i].channel>>]

SpanOf(times) ==
    IF times = <<>> THEN [start_ns |-> 0, end_ns |-> 0]
    ELSE [start_ns |-> Min({times[i][1] : i \in DOMAIN times}),
          end_ns |-> Max({times[i][1] : i \in DOMAIN times})]

-----------------------------------------------------------------------------
(* feed_entries.  An entry is a step, a chunk with its message indexes, or *)
(* the messages of what was read in full.                                  *)

StepEntry(size) == [kind |-> "step", size |-> size]
MessagesEntry(times) == [kind |-> "messages", times |-> times]
ChunkEntry(items, indexes) ==
    [kind |-> "chunk", span |-> SpanOf(TimesOf(items)), indexes |-> indexes]

\* chunk_message_times: the messages of a chunk in the order of their places.
ChunkMessageTimes(entry) ==
    LET all == UNION {{<<p, entry.indexes[c][p], c>> : p \in DOMAIN entry.indexes[c]} :
                        c \in DOMAIN entry.indexes}
        sorted == SetToSortSeq(all, LAMBDA x, y : x[1] < y[1])
    IN  [i \in DOMAIN sorted |-> <<sorted[i][2], sorted[i][3]>>]

OnlyDeclares(entry) == DOMAIN entry.indexes = {} /\ entry.span = [start_ns |-> 0, end_ns |-> 0]

\* first_log_time of the entries from i on, up to the next record.
FirstLogTime(entries, i) ==
    LET HasTime(e) == \/ e.kind = "messages" /\ e.times # <<>>
                      \/ e.kind = "chunk" /\ ~OnlyDeclares(e)
        ends == {j \in i..Len(entries) : entries[j].kind = "step" \/ HasTime(entries[j])}
        e == entries[Min(ends)]
    IN  IF ends = {} THEN None
        ELSE CASE e.kind = "step" -> None
               [] e.kind = "messages" -> e.times[1][1]
               [] e.kind = "chunk" -> e.span.start_ns

\* What feeding has led to: the accumulator, the extent of each channel in each
\* segment, the chunks that hold a channel in a segment, unresolved, and whether
\* the entry to come, a record, was fed with the one before.
Feeding(authoritative) ==
    [acc |-> NewAccumulator(authoritative), spans |-> [c \in Channels |-> << >>],
     holding |-> << >>, fed |-> FALSE]

Point(t) == [start_ns |-> t, end_ns |-> t]

\* push_points.
PushedPoint(f, acc, time) ==
    [f EXCEPT !.acc = acc, !.spans[time[2]] = PushSpan(@, acc.segment, Point(time[1]))]
PushPoint(f, time) == PushedPoint(f, Push(f.acc, Point(time[1])), time)
PushPoints(f, times) == FoldLeft(PushPoint, f, times)

PushStep(f, size, unresolved) == [f EXCEPT !.acc = RecordStep(@, size, unresolved)]

\* push_across_step: the messages before the split, the record, those after it.
PushSplit(f, times, size, split) ==
    PushPoints(PushStep(PushPoints(f, SubSeq(times, 1, split)), size, FALSE),
               SubSeq(times, split + 1, Len(times)))
PushAcrossStep(f, times, size, resumes) ==
    PushSplit(f, times, size,
              LeakSplit(times, size, IF f.acc.last = None THEN None ELSE f.acc.last.end_ns, resumes))

\* A chunk that is not resolved.
PushedChunk(f, acc, indexes) ==
    LET keys == {<<acc.segment, c>> : c \in DOMAIN indexes}
        held(k) == IF k \in DOMAIN f.holding THEN f.holding[k] ELSE <<>>
    IN  [f EXCEPT !.acc = acc,
                  !.holding = [k \in DOMAIN @ \cup keys |->
                                IF k \in keys THEN Append(held(k), indexes[k[2]]) ELSE @[k]]]
PushChunk(f, entry) == PushedChunk(f, Push(f.acc, entry.span), entry.indexes)

\* Chunks before a record, or longer than the gap, are resolved if they have indexes.
TimesToFeed(entry, step) ==
    IF entry.kind = "messages" THEN entry.times
    ELSE IF step # None \/ Length(entry.span) > STEP_GAP_NS THEN ChunkMessageTimes(entry)
    ELSE <<>>

\* Data with the record after it, if there is one, which is then fed too.
FeedData(f, entry, times, step, resumes) ==
    IF entry.kind = "messages" \/ times # <<>>
    THEN IF step = None THEN PushPoints(f, times)
         ELSE [PushAcrossStep(f, times, step, resumes) EXCEPT !.fed = TRUE]
    ELSE IF step = None THEN PushChunk(f, entry)
         ELSE [PushStep(PushChunk(f, entry), step, TRUE) EXCEPT !.fed = TRUE]

StepAt(entries, i) ==
    IF i \in DOMAIN entries /\ entries[i].kind = "step" THEN entries[i].size ELSE None

FeedEntry(f, entries, i) ==
    LET entry == entries[i]
    IN  IF f.fed THEN [f EXCEPT !.fed = FALSE]
        ELSE IF entry.kind = "step" THEN PushStep(f, entry.size, FALSE)
        ELSE IF entry.kind = "chunk" /\ OnlyDeclares(entry) THEN f
        ELSE FeedData(f, entry, TimesToFeed(entry, StepAt(entries, i + 1)),
                      StepAt(entries, i + 1), FirstLogTime(entries, i + 2))

\* channel_extent: from the first chunk that holds the channel to the last.
ChannelExtent(held) ==
    LET times(i) == {held[i][p] : p \in DOMAIN held[i]}
    IN  [start_ns |-> Min(times(1)), end_ns |-> Max(times(Len(held)))]

ResolveHeld(f) ==
    LET Segments(c) == {k[1] : k \in {k \in DOMAIN f.holding : k[2] = c}}
        Resolve(c) == FoldSet(LAMBDA s, e : PushSpan(e, s, ChannelExtent(f.holding[<<s, c>>])),
                              f.spans[c], Segments(c))
    IN  [acc |-> Finished(f.acc), spans |-> [c \in Channels |-> Resolve(c)]]

FeedEntries(entries, authoritative) ==
    ResolveHeld(FoldLeft(LAMBDA f, i : FeedEntry(f, entries, i),
                         Feeding(authoritative), [i \in DOMAIN entries |-> i]))

\* build_info: of each topic its messages, the time they span and how many
\* intervals between two of them that is.
TopicInfo(count, span_ns, segments) ==
    [count |-> count, span_ns |-> span_ns, intervals |-> SaturatingSub(count, segments)]
JoinedTopic(count, joined) == TopicInfo(count, SpanNs(joined), Cardinality(DOMAIN joined))

BuildInfo(counts, fed) ==
    [topics |-> [c \in DOMAIN counts |->
                    IF fed.spans[c] = << >> THEN TopicInfo(counts[c], fed.acc.total_ns, 1)
                    ELSE JoinedTopic(counts[c], JoinedExtents(fed.acc, fed.spans[c]))],
     duration_ns |-> fed.acc.total_ns, clock_steps |-> fed.acc.clock_steps]

-----------------------------------------------------------------------------
(* info_from_summary: chunks and records in the order of their offsets,    *)
(* with what the summary says of them.                                     *)

Added(counts, more) ==
    [c \in DOMAIN counts \cup DOMAIN more |->
        (IF c \in DOMAIN counts THEN counts[c] ELSE 0)
          + (IF c \in DOMAIN more THEN more[c] ELSE 0)]
CountsOf(items) ==
    [c \in ChannelsWithMessages(items) |-> Cardinality(DOMAIN IndexOf(items, c))]

\* All items of a data section, those within chunks included.
ItemsOf(records) ==
    FlattenSeq([i \in DOMAIN records |->
                  IF records[i].kind = "chunk" THEN records[i].items ELSE <<records[i]>>])

\* The message indexes that follow a chunk.
IndexesAfter(records, i) ==
    LET follow == {j \in i + 1..Len(records) :
                     \A k \in i + 1..j : records[k].kind = "index"}
    IN  [c \in {records[j].channel : j \in follow} |->
            records[CHOOSE j \in follow : records[j].channel = c].times]

\* Of the channels the summary declares, its statistics count the messages.
SummaryCounts(records) ==
    LET items == ItemsOf(records)
    IN  Added([c \in ChannelsIn(items) |-> 0], CountsOf(items))

\* Steps are found through the metadata indexes alone.
MetadataIndexed == "metadata indexes" \in style.summary

\* Chunks and steps, in the order in which they lie in the file.
SummaryEntries(records) ==
    LET EntriesOf(i) ==
            CASE records[i].kind = "chunk" ->
                     <<ChunkEntry(records[i].items, IndexesAfter(records, i))>>
              [] records[i].kind = "clock_step" /\ MetadataIndexed -> <<StepEntry(records[i].size)>>
              [] OTHER -> <<>>
    IN  FlattenSeq([i \in DOMAIN records |-> EntriesOf(i)])

InfoFromSummary(records) ==
    BuildInfo(SummaryCounts(records),
              FeedEntries(SummaryEntries(records), MetadataIndexed /\ SyncRecord \in ToSet(records)))

-----------------------------------------------------------------------------
(* read_linear.                                                            *)

\* The chunk whose indexes are still being read, if there is one.
NoChunk == [kind |-> "none"]
PendingChunk(items) == [kind |-> "chunk", items |-> items, indexes |-> << >>]

NewScan == [entries |-> <<>>, topics |-> {}, counts |-> << >>, sync |-> FALSE,
            chunk |-> NoChunk, skipped |-> <<>>]

\* Chunks skipped so far are read for the channels a chunk names, the newest first
\* and until all are known.
KnownAfter(scan, items, n) ==
    scan.topics \cup ChannelsIn(items)
      \cup UNION {ChannelsIn(scan.skipped[i]) : i \in Len(scan.skipped) - n + 1..Len(scan.skipped)}
ReadBack(scan, items, n) ==
    [scan EXCEPT !.topics = KnownAfter(scan, items, n),
                 !.skipped = SubSeq(@, 1, Len(@) - n)]
SeekChannels(scan, items, named) ==
    IF named \subseteq scan.topics THEN [scan EXCEPT !.skipped = Append(@, items)]
    ELSE ReadBack(scan, items,
                  Min({n \in 0..Len(scan.skipped) :
                         named \subseteq KnownAfter(scan, items, n) \/ n = Len(scan.skipped)}))

\* A chunk read in full, and one of which the indexes are enough.
Expanded(scan, items) ==
    [scan EXCEPT !.entries = Append(@, MessagesEntry(TimesOf(items))),
                 !.topics = @ \cup ChannelsIn(items),
                 !.counts = Added(@, CountsOf(items)),
                 !.chunk = NoChunk]
Indexed(scan, items, indexes) ==
    [SeekChannels(scan, items, DOMAIN indexes) EXCEPT
        !.entries = Append(@, ChunkEntry(items, indexes)),
        !.counts = Added(@, [c \in DOMAIN indexes |-> Cardinality(DOMAIN indexes[c])]),
        !.chunk = NoChunk]

\* Variant: the indexes read so far are trusted.
FlushIndexed(scan, expand) ==
    IF scan.chunk = NoChunk THEN scan
    ELSE IF scan.chunk.indexes = << >> THEN Expanded(scan, scan.chunk.items)
    ELSE Indexed(scan, scan.chunk.items, scan.chunk.indexes)

\* flush: in full without indexes, or if they may be incomplete.
Flush(scan, expand) ==
    IF scan.chunk = NoChunk THEN scan
    ELSE IF expand \/ scan.chunk.indexes = << >> THEN Expanded(scan, scan.chunk.items)
    ELSE Indexed(scan, scan.chunk.items, scan.chunk.indexes)

\* A message outside chunks joins those before it.
ScanMessage(scan, r) ==
    LET n == Len(scan.entries)
        time == <<<<r.time, r.channel>>>>
    IN  [scan EXCEPT
            !.counts = Added(@, [c \in {r.channel} |-> 1]),
            !.entries = IF n > 0 /\ @[n].kind = "messages"
                        THEN [@ EXCEPT ![n].times = @ \o time]
                        ELSE Append(@, MessagesEntry(time))]

\* One record of the data section; all but indexes flush the chunk before them.
ScanIndex(scan, r) ==
    IF scan.chunk = NoChunk THEN scan
    ELSE [scan EXCEPT !.chunk.indexes =
            [c \in DOMAIN @ \cup {r.channel} |-> IF c = r.channel THEN r.times ELSE @[c]]]

ScanOther(scan, r) ==
    CASE r.kind = "chunk" -> [scan EXCEPT !.chunk = PendingChunk(r.items)]
      [] r.kind = "channel" -> [scan EXCEPT !.topics = @ \cup {r.channel}]
      [] r.kind = "message" -> ScanMessage(scan, r)
      [] r.kind = "clock_sync" -> [scan EXCEPT !.sync = TRUE]
      [] r.kind = "clock_step" -> [scan EXCEPT !.entries = Append(@, StepEntry(r.size))]
      [] OTHER -> scan

\* Variant: the record of a step overtakes the chunk before it.
ScanRecordEarly(scan, r) ==
    IF r.kind = "index" THEN ScanIndex(scan, r)
    ELSE ScanOther(IF r.kind = "clock_step" THEN scan ELSE Flush(scan, FALSE), r)

ScanRecord(scan, r) ==
    IF r.kind = "index" THEN ScanIndex(scan, r) ELSE ScanOther(Flush(scan, FALSE), r)

Complete(records) == DataEnd \in ToSet(records)
Scanned(records) == Flush(FoldLeft(ScanRecord, NewScan, records), ~Complete(records))

\* Where there is a summary, it adds topics without messages, and counts from its
\* statistics, if it has them.
Summarised(records) == SummarySection \in ToSet(records)
Declared(records) == IF Summarised(records) THEN SummaryCounts(records) ELSE << >>
CountsScanned(scan, declared) ==
    LET listed == DOMAIN scan.counts \cap scan.topics
    IN  [c \in DOMAIN declared \cup listed |->
            IF c \in DOMAIN declared /\ "statistics" \in style.summary THEN declared[c]
            ELSE IF c \in DOMAIN scan.counts THEN scan.counts[c] ELSE 0]
LinearCounts(records) == CountsScanned(Scanned(records), Declared(records))

LinearInfo(scan, declared) ==
    BuildInfo(CountsScanned(scan, declared), FeedEntries(scan.entries, scan.sync))
ReadLinear(records) == LinearInfo(Scanned(records), Declared(records))

\* Variant: metadata that are counted and not indexed do not matter.
SummaryCounted(records) ==
    /\ Summarised(records) /\ {"statistics", "chunk indexes"} \subseteq style.summary
    /\ \E i \in DOMAIN records : records[i].kind = "chunk"

\* classify: is the summary enough?
SummarySuffices(records) ==
    /\ Summarised(records) /\ {"statistics", "chunk indexes"} \subseteq style.summary
    /\ \E i \in DOMAIN records : records[i].kind = "chunk"
    /\ \/ MetadataIndexed
       \/ \A i \in DOMAIN records : records[i].kind \notin {"clock_step", "clock_sync"}

\* read_mcap_info_bytes.
ReadMcapInfo(records) ==
    IF SummarySuffices(records) THEN InfoFromSummary(records) ELSE ReadLinear(records)

-----------------------------------------------------------------------------
(* The recorder.                                                           *)

RecordingInit ==
    /\ style \in Styles
    /\ file = <<>>
    /\ queue = IF style.sync THEN <<SyncRecord>> ELSE <<>>
    /\ chunk = <<>>
    /\ clock = [now |-> StartTime, off |-> 0]
    /\ due = None
    /\ taken = <<>>

Recording == queue = <<>> /\ DataEnd \notin ToSet(file)

\* The open chunk, and the index of each channel in it.
Closing(items) ==
    LET channels == SetToSeq(ChannelsWithMessages(items))
        indexes == [i \in DOMAIN channels |-> IndexRecord(channels[i], IndexOf(items, channels[i]))]
    IN  IF items = <<>> THEN <<>>
        ELSE <<ChunkRecord(items)>> \o (IF style.indexed THEN indexes ELSE <<>>)

\* Observation: the places in taken of messages, and of the clock's steps.
Taken(kind) == {i \in DOMAIN taken : taken[i].kind = kind}
Messages == Taken("message")
MessagesOf(c) == {i \in Messages : taken[i].channel = c}

\* A message, some time after the one before, behind its channel's record if it
\* is the first.  Channels are numbered as they come.
TakeMessage(c, wait) ==
    LET now == clock.now + wait
        known == ChannelsIn(ItemsOf(file) \o chunk)
        items == (IF c \in known THEN <<>> ELSE <<ChannelRecord(c)>>)
                   \o <<MessageRecord(c, now + clock.off)>>
    IN  /\ Recording /\ Cardinality(Messages) < style.messages
        /\ c \in known \cup {Cardinality(known) + 1} /\ c <= style.channels
        /\ due # None => now - due.at <= WriteLatency
        /\ clock' = [clock EXCEPT !.now = now]
        /\ chunk' = IF style.chunked THEN chunk \o items ELSE chunk
        /\ queue' = IF style.chunked THEN queue ELSE items
        /\ taken' = Append(taken, [kind |-> "message", channel |-> c, at |-> now,
                                  place |-> Len(OfKind(file, "chunk"))])
        /\ UNCHANGED <<style, file, due>>

CloseChunk ==
    /\ Recording /\ chunk # <<>>
    /\ queue' = Closing(chunk) /\ chunk' = <<>>
    /\ UNCHANGED <<style, file, clock, due, taken>>

\* The wall clock steps, right after a message or some time later; its record is due.
StepClock(size, wait) ==
    /\ Recording /\ due = None /\ Messages # {}
    /\ Cardinality(Taken("step")) < style.steps
    /\ clock' = [now |-> clock.now + wait, off |-> clock.off + size]
    /\ due' = IF style.records THEN [size |-> size, at |-> clock'.now] ELSE None
    /\ taken' = Append(taken, [kind |-> "step", size |-> size])
    /\ UNCHANGED <<style, file, queue, chunk>>

\* Metadata are written after the open chunk.
RecordClockStep ==
    /\ Recording /\ due # None
    /\ queue' = Closing(chunk) \o <<StepRecord(due.size)>> /\ chunk' = <<>>
    /\ due' = None /\ taken' = Append(taken, [kind |-> "record"])
    /\ UNCHANGED <<style, file, clock>>

FinishRecording ==
    /\ Recording /\ due = None
    /\ queue' = Closing(chunk) \o <<DataEnd, SummarySection>> /\ chunk' = <<>>
    /\ UNCHANGED <<style, file, clock, due, taken>>

WriteOut ==
    /\ queue # <<>>
    /\ file' = Append(file, Head(queue)) /\ queue' = Tail(queue)
    /\ UNCHANGED <<style, chunk, clock, due, taken>>

RecordingNext ==
    \/ \E c \in Channels, wait \in style.waits : TakeMessage(c, wait)
    \/ \E size \in style.sizes, wait \in ({0} \cup style.waits) \ {Interval} : StepClock(size, wait)
    \/ CloseChunk \/ RecordClockStep \/ FinishRecording \/ WriteOut

RecordingSpec == RecordingInit /\ [][RecordingNext]_recordingVars

-----------------------------------------------------------------------------
(* Properties.                                                             *)

\* However a recording is cut short, between two indexes of a chunk included, its
\* topics are those of which a message is left, each with all that are left.
CountsExact ==
    LET items == ItemsOf(file)
        left == CountsOf(items)
        counts == LinearCounts(file)
        without == IF Summarised(file) THEN ChannelsIn(items) ELSE {}
    IN  counts = [c \in DOMAIN left \cup without |-> IF c \in DOMAIN left THEN left[c] ELSE 0]

\* The log_time of every message, in file order; does it go back by at most the
\* gap, or come back to where it was before a jump, as stray data do?
LogTimes == LET times == TimesOf(ItemsOf(file)) IN [i \in DOMAIN times |-> times[i][1]]
GoesBack ==
    \E i, j \in DOMAIN LogTimes :
        i < j /\ LogTimes[j] < LogTimes[i] /\ LogTimes[i] - LogTimes[j] <= STEP_GAP_NS
ComesBack ==
    \E i, k, j \in DOMAIN LogTimes :
        /\ i < k /\ k < j
        /\ Abs(LogTimes[k] - LogTimes[i]) > STEP_GAP_NS
        /\ Abs(LogTimes[j] - LogTimes[i]) <= STEP_GAP_NS

\* Once the indexes of a chunk are written, the linear scan says what the summary
\* would: a recording that is cut short there has lost nothing.  Only the spans of
\* topics, read from their first and last chunk, may differ where time goes back.
Agree(linear, summary) ==
    IF ~GoesBack THEN linear = summary
    ELSE /\ linear.duration_ns = summary.duration_ns
         /\ linear.clock_steps = summary.clock_steps
         /\ \A c \in DOMAIN summary.topics :
                /\ linear.topics[c].count = summary.topics[c].count
                /\ linear.topics[c].intervals = summary.topics[c].intervals
ReadersAgree ==
    style.chunked /\ style.indexed /\ style.summary = FullSummary /\ queue = <<>>
        => Agree(ReadLinear(file), InfoFromSummary(file))

\* Where the summary of a finished file is taken for enough, it says just what the
\* data say: a listing does not depend on which of the two was read.
SummarySaysAll ==
    style.chunked /\ style.indexed /\ SummarySuffices(file)
        => InfoFromSummary(file) = ReadLinear(file)

\* What passed between the first and the last of some messages, and how much of
\* it was between two of them with a step of the clock in between.
Elapsed(S) == IF S = {} THEN 0 ELSE taken[Max(S)].at - taken[Min(S)].at
Hidden(S) ==
    LET next(i) == Min({j \in S : j > i})
        across == {i \in S : \E s \in Taken("step"), j \in S : i < s /\ s < j /\ s < next(i)}
    IN  MapThenSumSet(LAMBDA i : taken[next(i)].at - taken[i].at, across)

\* Messages taken after a step and written before its record, and the first one
\* behind the record.
Leaked(s) == {i \in Messages : i > s /\ \A r \in Taken("record") : r > s => i < r}
Resumed(s) == {i \in Messages : \E r \in Taken("record") : s < r /\ r < i}

\* A pause may be told from a step: between it and the record there are more data
\* than the gap, or none but those after the step.
Apart(s) ==
    LET before == {i \in Messages : \A r \in Taken("record") : r > s => i < r}
    IN  \A i, j \in before :
            i < j /\ j < s /\ taken[j].at - taken[i].at > STEP_GAP_NS
                /\ (\A k \in before : i < k => j <= k)
            => taken[Max(before)].at - taken[j].at > STEP_GAP_NS

\* The data that leak_split is for: what leaks is in one chunk, there are data
\* between two steps, and behind the record they go on at their usual rate.
Separable(s) ==
    LET resumes == taken[Min(Resumed(s))].at - taken[Max(Leaked(s))].at
    IN  Leaked(s) # {} =>
            /\ \A i, j \in Leaked(s) : style.chunked => taken[i].place = taken[j].place
            /\ Resumed(s) # {} /\ resumes <= Interval
            /\ \A z \in Taken("step") :
                  /\ z > s => Min(Resumed(s)) < z
                  /\ z < s => \E i \in Messages : z < i /\ i < s

\* Steps that were recorded, or in an old file are wider than the gap, while its
\* data have no pause.
Detectable ==
    \/ style.sync
    \/ /\ style.waits = {Interval}
       /\ style.records \/ \A s \in Taken("step") : Abs(taken[s].size) > STEP_GAP_NS + Interval

\* The duration, and the span of every topic, are the time that passed, whatever
\* the clock did meanwhile: only what was between the two messages around a step
\* may be missing, and every step counts once.
Within(ns, S) == ns <= Elapsed(S) /\ ns >= Elapsed(S) - Hidden(S)
IsTrue(info) ==
    /\ Within(info.duration_ns, Messages)
    /\ \A c \in DOMAIN info.topics : Within(info.topics[c].span_ns, MessagesOf(c))
    /\ info.clock_steps = Cardinality(Taken("step"))
TrueDuration ==
    /\ queue = <<>> /\ chunk = <<>> /\ due = None
    /\ taken # <<>> /\ Last(taken).kind = "message"
    /\ Detectable /\ ~ComesBack
    /\ \A s \in Taken("step") : Apart(s) /\ Separable(s)
    => IsTrue(ReadMcapInfo(file))
=============================================================================
