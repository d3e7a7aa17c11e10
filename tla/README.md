# Verification of websrv

`websrv` is the web server of an EdgeFirst perception device: it serves the
user interface, forwards live Zenoh topics to WebSockets, starts and stops
recordings, lists and describes the recordings on disk, uploads them to
EdgeFirst Studio and edits the configuration of the device's services. This
directory holds TLA+ models of the parts of it that keep state, the TLC runs
that check them and the TLAPS proofs about them. `PROJECT.json` lists the
runs, the lines every definition models, the hazards and the findings; in it
and in the modules a path such as `src/src/upload.rs` is `src/upload.rs` of
the repository.

## 1. The system

| part | code | state it keeps | operations | what is hard |
|---|---|---|---|---|
| Upload manager | `upload.rs` | table of tasks (`RwLock<HashMap>`), one status file next to each recording, the handle of each worker, the stream of `/ws/uploads` | POST, DELETE, worker, progress task, recovery, shutdown | five kinds of tasks and detached blocking jobs interleave; crash and restart; a disconnect drops the handler at any await |
| Start-up, shutdown | `main.rs`, `shutdown.rs` | shutdown token, 5 s of graceful shutdown | recovery first, then serve; signal, drain, `cancel_all_uploads`, exit | tasks and jobs outlive the phase that started them |
| Recordings reader | `mcap.rs` | cache of linear scans keyed by length and modification time, set of files in flight, the queue of the thread `mcap-scan` | listing, enqueue, scan in the background or in place | files change at any moment; panicking scans; look and act in different critical sections |
| Recording timeline | `mcap_timeline.rs` | open and last closed segment, joins, abandoned segments | push a span, record a clock step, finish | incremental bookkeeping that is taken back when later data explains a jump |
| WebSocket bridge | `websocket.rs` | a lossy stream of 64 messages, a oneshot, two tasks per connection | listener, socket loop, close | each task ends the other; a client that stalls, leaves, or never completes the upgrade |
| Topic liveliness | `topics.rs` | set of sampled topics with last-seen and last-requested instants, observers, one stored wake-up | status request, sampling cycle, extra batch, bridge opens / forwards / closes | timing: windows, cycles, margins, expiry; stale observers |
| Recording control | `recording.rs` | `Mutex<Option<Child>>`, the process table | start, stop, status | requests hold the lock only to store or take the child; zombies and reused pids |
| Decoding of recordings | `mcap.rs` | none: summary and linear scan of one buffer | classify, read the summary, or scan records and message indexes | a file is cut short at any record; data leak across the record of a clock step |
| Event sockets | `main.rs`, `websocket.rs` | one global stream each, one task per viewer | emit, show, ping | viewers that stall or leave |
| Service configuration | `config.rs`, `envfile.rs` | files under `/etc/default`, the unit that reads them | read, plan, replace atomically, restart the service | two requests for one file; order of replacement and restart; crash and power loss; a second parser of the same file |
| Service control | `services.rs` | none | one `systemctl` command each | races a restart after a save |
| Studio session | `upload.rs`, `auth.rs`, `studio.rs` | `RwLock<Option<Client>>` | log in and out, status, projects, labels, clone for an upload | a fair lock held across calls to Studio; callers that hang up |
| Certificate | `ssl.rs`, `main.rs` | two files in `--cert-dir` | load, generate, save, hand to rustls | two files written in place; crash and power loss |
| Others | `storage.rs`, `args.rs`, router | none | queries, conversions | little: sequential |

The parts interact as follows. A worker of the upload manager, its progress
task and the HTTP handlers share the table; all of them hand file operations to
tokio's blocking pool, which finishes them whoever has stopped waiting. A
bridge of `/api/rt/<topic>` gets an observer from topic liveliness and reports
what it forwards; the sampling cycle skips the topics that bridges hold. The
listing of recordings asks the scanner's cache, the scanner feeds the
timeline with what it finds in a file. Uploads clone the client of the Studio
session and report on the stream of `/ws/uploads`. Recording control, replay
and configuration hand over to the operating system (`systemctl`, `sudo`): a
service started by one handler may be restarted by the save of another.

What makes each part correct:

* uploads: "completed" means stored at Studio; an upload under way can be
  recovered when the server is killed, and is never taken for a finished one,
  after a power loss either; recovery and shutdown leave nothing under way;
  every upload settles, and so does a shutdown; what users are told follows the
  state diagram of `ARCHITECTURE.md`.
* listing: what is cached is what the file holds now; a file is scanned once;
  "scanning" is followed by a result.
* timeline: the duration is that of the segments that are left, the steps are
  those recorded or detected, an excursion leaves no trace.
* decoding: a recording cut short anywhere has the counts of what is left of
  it, both readers say the same, and the duration is the time that passed.
* bridge: messages come in order, the newest is not lost, close comes last,
  neither task outlives the other.
* liveliness: a topic that publishes stays available, a requested one is
  sampled soon, cycles are punctual, the set keeps its bound.
* recorder: every child has one owner that has not waited for it, what a stop
  takes ends.
* configuration: a save is all or nothing, is lost only to a save that had read
  the file before, reports what it did, and a service said to be restarted runs
  with the last file.
* session: every request ends, and an answer of Studio belongs to the session in
  which it was asked.
* certificate: a pair once saved as a whole is the one served from then on.

## 2. Modules

| module | models | composed with |
|---|---|---|
| `Upload` | `upload.rs` and the phases of `main.rs` | |
| `UploadLifecycle` | abstract: one automaton per upload | instantiated by `Upload` (`LifecycleSpec`) |
| `MCUpload` | instances and symmetry for TLC | extends `Upload` |
| `UploadProofs` | theorems about `Upload` | extends `Upload` |
| `McapScan` | listing, cache and background scanner of `mcap.rs` | |
| `RecordingsProofs` | theorems about `McapRead` and `McapScan`, and the invariants of `MCRecordings` | extends `MCRecordings`, `TimelineProofs` |
| `TimelineOps` | the methods of `mcap_timeline.rs` as operators | |
| `Timeline` | an accumulator that is fed any spans and records (`feed_entries`) | extends `TimelineOps` |
| `TimelineProofs` | theorems about `Timeline` | extends `Timeline`, `InductionProofs` |
| `McapRead` | the two readers of `mcap.rs`, on every recording a recorder may leave | extends `TimelineOps` |
| `MCRecordings` | instances for TLC | `Timeline`, `McapRead` and `McapScan` |
| `WsBridge` | one connection of `/api/rt` | |
| `EventSocket` | one viewer of `/api/ws/uploads` or `/api/ws/dropped` | |
| `LossyStream` | abstract: what a client may get | instantiated by `WsBridge` (`StreamSpec`) and `EventSocket` (`EventStreamSpec`) |
| `Session` | the client of Studio behind its lock | |
| `Certificates` | starts of the server with one `--cert-dir` | |
| `MCClients` | instances for TLC | `WsBridge`, `EventSocket`, `Session` and `Certificates` |
| `ClientsProofs` | theorems about `Session`, `Certificates`, `WsBridge` and `EventSocket`, and the types of `MCClients` | extends `MCClients` |
| `TopicLiveness`, `MCTopicLiveness` | `topics.rs` | |
| `TopicLivenessProofs` | theorems about `TopicLiveness` | extends `TopicLiveness` |
| `Recorder` | user mode of `recording.rs` | |
| `EnvFile` | `envfile.rs` as operators on files of lines | |
| `EnvFileProofs` | theorems about those operators | extends `EnvFile`, `InductionProofs` |
| `ServiceConfig` | `set_config` up to the restart of the unit | extends `EnvFile` |
| `MCControl` | instances for TLC | `Recorder` and `ServiceConfig` |
| `ControlProofs` | theorems about `Recorder` and `ServiceConfig`, and the types of `MCControl` | extends `MCControl`, `EnvFileProofs` |

`InductionProofs` is what the proofs share: induction, and functions defined by
recursion.

`MCRecordings`, `MCClients` and `MCControl` are sums: a variable (`part`,
`system`) says which of the components a behaviour follows, and the others
stay as they began. These components share no state in the code either (a
server is in user mode or in system mode; a connection has a stream of its own;
the listing sees a file as a version), so that nothing is lost, and the numbers
of states are added instead of multiplied. Nothing fair is enabled in a part
that stays as it began.

Definitions introduced as *Variant* or *Mutant* are not part of a model: they
are the plausible mistakes against which the properties are tested (section 6).

### Upload

An action is a stretch of code between two suspension points of the runtime.
`start`, `worker` and `prog` are the control points of `start_upload`,
`upload_worker` and the progress task; `chan` is the progress channel;
`task` is the table; `job[u][r]` is the blocking file operation that role `r`
has asked for on behalf of upload `u`. `std::fs::write` is two steps, opening
(which truncates) and landing, and two writers may leave a mixed file
(`Garbled`). `StartDropped` is hyper dropping the handler of a client that
disconnected; `AbortLands` is the point at which an abort takes effect, which
for a worker being polled is its next suspension. `cancel_all_uploads` holds the
table's lock across its writes (`LockFree`), every other critical section is one
step.

The process ends in three ways. `Exit` is the orderly end, `Crash` a kill or an
abort: memory is lost, and the kernel keeps what was written. `PowerLoss` also
loses what the kernel had not written back, and as `std::fs::write` does not
sync, that may be every write: `held[p]` is what the status file `p` has
contained since power last came, no file and the truncated one included, and
any of it may be what is left.

For `UploadLifecycle` an upload is known while the server answers: not before it
has booted, and not once `serve()` has returned (`Serving`).
Percentages, messages, timestamps and JSON are abstracted; Studio is external.

### McapScan

A listing (`Lists`) asks for one file after the other: `Ask` (open and map),
`Stat`, `Look` (cache), `Enqueue` (set of files in flight), `Send`, and
`Reread` for the second look into the cache. The thread is `Take` and the
steps of `scan_into_cache`; without a thread the lister runs those steps in
place. A *version* stands for content, length and modification time at once:
the code's key is assumed to tell versions apart. A mapping is taken to stay
readable. `read_mcap_info`, which only tests call, is left out.

### Timeline and TimelineOps

The accumulator is a record and its methods are operators from records to
records, so that `push` and `record_step` are one action each with all calls
they make: settling a pause, closing, re-opening, joining. `extent` is
`ChannelSpans` for a channel that is in every chunk. What finishing returns is
a function of the state (`Finished`, `JoinedExtents`) and is checked in every
state, that is for every prefix of a file. `leak_split` chooses which messages
go before a record; the model has every order. `seen` is an observation and
influences nothing. Sums are not bounded by 2^64: log times are nanoseconds
of wall clock, and `saturating_add` does not saturate on sums of intervals of
them. `Shifted` does saturate, as in the code.

### McapRead

The recorder is not in the repository. It is modelled from the files that the
tests write: messages in chunks, an index per channel behind each chunk, a
`clock_step` record behind the open chunk and some time after the step, and at
the end a summary. `WriteOut` puts one record after the other on the disk, and
the properties are checked in every state: a file cut short at any record. A
`Style` is a kind of recorder: with or without clock records, chunks, message
indexes, statistics and metadata indexes. The readers are operators on the
records, one for each function: `classify` (`SummarySuffices`),
`info_from_summary` (`SummaryEntries`, `SummaryCounts`), `read_linear` with the state of `LinearScan`, and
`feed_entries` with all it calls. For `TrueDuration` each message also carries
the time on a clock that does not step, which no reader sees.

### WsBridge

`listener` and `socket` are the two tasks, `stream` and `lagged` the buffer of
the broadcast channel as its receiver sees it, `stopped` the oneshot. Zenoh,
the client and the network are external: they publish, stall, leave, or close
the session when they like. The ends of both tasks, by return, by abort or by
failed upgrade, drop what they own.

### EventSocket

The loops of `websocket_handler_uploads` and `websocket_handler_errors` are the
same; one viewer is followed. Unlike a bridge, it has no oneshot and nothing to
end with it, it closes without a close frame, and does not watch the shutdown
token. `Emit` is any of the tasks that broadcast.

### TopicLiveness

Time is discrete; every instant is kept as its age. The task is `Cycle`,
`Woken` (an extra batch), and the ends of its samplers; clients are
`StatusAll`, `StatusKnown` and `StatusNew`; bridges are `Open`, `Forwards`,
`Closes`. `Tick` does not pass a deadline the task is due to meet: how late a
loaded machine may be is what `AVAILABILITY_MARGIN` is for, and the model
spends it on the silence of a bridge, which `LivenessAssumption` (Window <=
Margin, as 2 s <= 3 s in the code) bounds.

### Recorder

Each request is a sequence of steps between accesses of the handle's mutex and
of the process table: `Take` takes the child under the lock, `TryWait` looks at it
without, `PutBack` needs the lock again. Processes run, sleep in the disk, end, become zombies,
are waited for, and their pids are used again by other programs. The two pid
files are written and never read, so only a failure to write one counts. An
error of `try_wait`, which cannot be for a child that was not waited for, is
left out.

### EnvFile and ServiceConfig

A file is a sequence of lines, each a definition of a key, a comment that
mentions one, or neither; a text is a sequence of words, each with the number
of times it was escaped, so that escaping and its inverse are modelled by what
they do. What an unquoted value becomes without its double quotes is a constant
(`Stripped`: of a word, the words that are left), and so is what the server's
environment makes of a word with a `$` (`Environment`); `WithoutQuotes` and
`Expanded` apply them word by word. `Planned` is `plan_edit` with `locate`, `place`, `emit_body` and
`append_missing`; `StorageDirectory` is the separate parser of `config.rs`.
`Submit` is `set_config` up to the plan: of its steps only the reading of the
file meets other requests; `WriteTemp`, `SyncTemp` and `Rename` are
`write_atomic`, `CheckUnit` and `Restart` the calls of `systemctl`, which may not even run
(`CheckNotSpawned`, `RestartNotSpawned`). `file` is
what the path shows, `durable` what it shows after a power failure. The unit is
systemd's; it reads the file when it is started. `saves` observes the
replacements in their order.

### Session

`guards` and `waiting` are tokio's fair `RwLock`: it is granted in the order in
which it was asked for. Each request is the sequence of its awaits; `Dropped` is
hyper dropping a handler whose client hung up, or an upload that was aborted, at
any of them. Servers, passwords and answers are abstracted: an account is who is
signed in.

### Certificates

A start runs through `load_or_generate_certificate` and
`save_certificate_to_dir` one system call at a time, and through rustls'
check of the pair. `Exits` is any end of the process at any step; `PowerLoss`
keeps, of a file that was not written back, the old content, the new one, or
neither. `kept` and `halfway` observe the last whole save and whether one was
begun after it.

## 3. Runs

| run | bounds | checks |
|---|---|---|
| `upload_safety` | 1 upload, channel of 1, one DELETE, shutdown and fault each; with one kill or power loss, two of these | `TypeOK`, `CompletedMeansStored`, `RecoverableOnDisk`, `LeftUnfinished`, `OnlyCancelLeavesCompleted`, `NothingLeftActive` |
| `upload_live` | 1 upload, one kill or power loss, one shutdown, Studio accepts, no DELETE | `Settles`, `LifecycleSpec` |
| `recordings` | fed: 6 inputs out of 5 spans and 2 records, gap 4; recorded: 6 recorders, up to 5 messages, 2 channels, 2 steps; listing: 1 file, 2 listers, 3 versions | `TypesOK`, `TakenBackWasAdded`, `StepsCounted`, `DurationsAgree`, `StrayLeavesNoTrace`; `CountsExact`, `SummarySaysAll`, `ReadersAgree`, `TrueDuration`; `InFlightIsExact`, `CacheIsCurrent`, `ScannedOnce`, `ScanningEnds` |
| `clients` | topic: 4 messages, stream of 2, subscriber of 1; events: 3, stream of 1; session: 3 callers, 2 accounts; certificate: 3 pairs | `TypesOK`, `GoodbyeIsLast`, `EndsTogether`, `StreamsSpec`; `RequestsEnd`, `AnsweredInSession`; `SavedPairServes` |
| `topic_liveness` | 1 built-in and 2 requested topics, limit 2, 1 bridge; cycle 4, window 2, margin 2, expiry 5 | `TypeOK`, `StaysAvailable`, `CoveredSoon` |
| `control` | user mode: 2 clients, 3 pids, 1 poll; system mode: files of two lines out of twelve and 19 posts for the editor, 2 requests and 2 saves, or 3 saves in a row | `TypesOK`, `ChildrenOwned`, `StopEnds`; `FileStaysWhole`, `EditsKept`, `ReportIsTrue`, `RoundTrip`, `StorageAgrees`, `RestartedRunsLatest` |
| `upload_late_progress` | Studio refuses | finding: `FailedIsFinal` |
| `upload_cancel` | one DELETE | finding: `CancelledNeverCompletes` |
| `upload_shared` | 2 uploads of one recording | finding: `EveryUploadRecoverable` |
| `topic_bridged` | 1 built-in, 1 requested topic | finding: `BridgedNotSampled` |
| `recorder_lost` | 1 client, 3 pids, 2 polls | finding: `Tracked` |
| `certificate_refused` | 3 pairs | finding: `OwnFilesServe` |

Why the bounds are enough:

* Uploads of different recordings share only the table's lock, so one upload
  shows the interleavings of its own tasks; `upload_shared` has the two that
  share a file. A channel of one message is full and empty as often as one of
  100. One fault, DELETE and shutdown combine in every order, and any two of them
  with a kill or a power loss (`UploadBound`); `held` tells states apart only
  where a power loss can still come (`UploadView`). The theorems of section 5
  hold for any number.
* The scanner treats files independently but for their order in the queue. A
  stale result needs one listing that read before a change, one after it, and
  a change during the scan: two listers and three versions.
* A segment of the timeline is forgotten when two later ones are closed; an
  excursion, a pause before it and a record after it take six inputs. The
  spans lie within the gap of each other, beyond it in both directions, and far
  enough apart for a record to be a part of a jump; one is longer than the gap.
  All its properties are proved for files of any length; TLC's random
  simulation also looked for a violation of `DurationsAgree` in files of 14
  inputs and more values, without a result.
* A recording of four messages has room for data before and after a step in one
  chunk, a leak of one or two messages, and a pause on either side; the styles
  with two steps or two channels carry the smaller sets of times. A step lies
  far beyond the gap either way, or within it.
* A stream of two messages is overrun by the third; four messages leave room
  for an overrun and a message after it. A stream of one event is overrun by the
  second.
* A deadlock of the session's lock takes a reader that holds it, a writer that
  waits, and a reader behind it; a caller more would repeat one of them. Two
  accounts tell sessions apart.
* A damaged pair takes a save over another one; the third pair shows that it is
  not repaired.
* The editor treats keys independently but for spellings, the marker and the
  prefix `STORAGE`; two lines show each line before and after each other, and
  some files of three lines several definitions of one key. A lost edit takes two
  requests, a stale restart two saves; three saves in a row edit a file that the
  editor has already changed twice.
* The durations of `topics.rs` (10 s cycle, 2 s window, 3 s margin, 60 s
  expiry) are scaled so that their order and the room for exactly one extra
  batch between two cycles stay; the expiry, longer than a cycle, comes often.
* Two requests race, and a third pid is the foreign recorder or the program
  that gets a pid again. More polls repeat a step that changes nothing.

Deadlock is checked everywhere but in `recordings`, where a file simply ends.
`upload_*` use `Idle`, a bridge `Over` and the configuration `Quiet` for the
state in which nobody wants anything any more.

### Fairness

Safety properties and findings are checked without fairness. The liveness
properties assume only what the code's environment gives:

* `Upload`: the runtime polls every task that can go on and the pool runs every
  job; Studio answers every call or its client reports an error;
  recovery and shutdown proceed. Users, faults and crashes are free.
* `McapScan`: calls, the thread and scans proceed. Strong fairness only of a
  client asking again for a file that was reported as scanning: the UI polls,
  and other requests in between must not starve it.
* `WsBridge`: the listener and the socket's task proceed. `select!` picks at
  random among the branches that are ready, so a branch that is ready again
  and again is taken: strong fairness of receiving and of seeing the client's
  close. That the client reads is not assumed; `SEND_TIMEOUT` ends the wait.
* `EventSocket`: the same of a viewer's task, and strong fairness of receiving.
* `Session`: the runtime polls what is ready, and Studio answers or its client
  gives up (the library gives each call a time limit: external). Nobody has to
  ask for anything, and callers hang up when they like.
* `Recorder`: requests proceed, and a recorder that was signalled exits (it
  handles SIGINT). A recorder that nobody signalled may run for ever.

## 4. What the runs found

1. `FailedIsFinal` (`upload_late_progress`): when Studio refuses a file, the
   worker writes Failed without waiting for the progress task; a message still
   in the channel takes the upload back to uploading, for good.
2. `CancelledNeverCompletes` (`upload_cancel`): the handle of the worker is
   stored after the task is visible; a DELETE in between aborts nothing.
3. `EveryUploadRecoverable` (`upload_shared`): the status file is named after
   the recording, so two uploads of one recording overwrite and remove each
   other's.
4. `BridgedNotSampled` (`topic_bridged`): a bridge looks up its observer once;
   opened before the topic's entry exists, or outliving it, it counts nowhere
   and its topic is sampled next to it.
5. `Tracked` (`recorder_lost`): an ended recorder is never waited for; its
   zombie can make the status say "not running", and the next start drops the
   handle of the recorder that runs.

6. `OwnFilesServe` (`certificate_refused`): a save that is cut off between the
   certificate's file and the end of the key's leaves a pair that exists, is
   loaded, and is refused by rustls at this and every later start: the promised
   fallback is never reached.

Related properties that do hold delimit these: `OnlyCancelLeavesCompleted`
(the success path does wait for the progress task), `RecoverableOnDisk`
(uploads alone on their recording), `StaysAvailable` (bridges without an
observer never make a topic unavailable), `ChildrenOwned` and `StopEnds` (what
the handle holds is right), `SavedPairServes` (a pair that was saved as a whole
and not written over since is served).

Limits of the code that the properties' conditions name, seen with TLC when a
condition was left out:

* `RecoverableOnDisk` is about a process that is killed. Status files are never
  synced (`upload.rs:361`, `upload.rs:492`), so a power loss may leave the file of
  an upload under way empty, as it was before the upload, or missing, and
  recovery then knows nothing of it, although `upload.rs:8` and
  `ARCHITECTURE.md:483` name power loss as what the files are for. What does hold
  is `LeftUnfinished`: of an upload that is alone on its recording, a file that can
  be read says that it was not done.
* `TrueDuration` (`Apart`, `Separable`, `Detectable`, `ComesBack`): data that
  leak across the record of a step are not found when they are split over two
  chunks, follow a second step at once, or when nothing comes after the record
  and a pause looks like the step; a pause right before a step within the gap is
  taken for the pause around it, and one that follows a record with no jump
  pending is lost; data that come back to an earlier time may be taken for a
  stray excursion.
* `ReadersAgree`, of a recording that is cut short: a topic's span is read from its
  first and last chunk if these have their indexes, and from all messages of the
  last chunk, which may not have them, so the two differ where time goes back by
  less than the gap.
* `EditsKept`: there is no lock between reading and replacing a file, so of two
  saves that overlap the first may be lost (`saves[t].read >= s`).
* `RoundTrip`: `ARCHITECTURE.md:849-850` says that posting back what GET answered
  is always valid. It is not for a file that itself defines a forbidden or an
  invalid key, or one key in two spellings, nor for one with a control character
  in a value, which `validate` refuses (`envfile.rs:197`). It is accepted, but is
  another setting, where an unquoted value has a quote in it: the comment at
  `envfile.rs:320-322` calls reading and joining arrays inverses, but
  `envfile.rs:349` takes the quotes out, so `KEY=a b"c` is answered as `a` and `bc`.
* `StorageAgrees`: the second parser knows no escapes and takes the first key that
  begins with `STORAGE`. What it finds has the server's environment filled in
  (`config.rs:221`), which a service that reads the same file does not see.
* `ReportIsTrue`: a save whose restart failed is in the file all the same, so the
  same post again changes nothing and restarts nothing.
* `Session`: a status answer is two reads of the lock and may say that nobody
  is signed in and give a name; a login that began before a logout may store its
  client after it; a logout does not stop uploads that hold a clone.

## 5. Proofs

Each proof is of an inductive invariant: it holds at first, every action keeps
it, and it implies what is to be shown. All that is assumed are the named
assumptions on the constants, which TLC evaluates in the runs. There is no
bound on the number of actors, messages, files, crashes or steps.

Each proof module has one lemma per action or group of actions, with one step
per conjunct that the action can disturb, and lemmas for the helpers, which
those cite.

### Uploads (`UploadProofs`, from `UploadAssumption`)

* `TypeCorrect == Spec => []TypeOK`. `TypeOK` is not inductive: handlers and
  worker update entries of the table, so that the entry is there has to be
  carried along (`Present`: control past the insertion, a spawned worker and a
  pending abort imply an entry). `TypeInv == TypeOK /\ Present`.
* `CompletedIsStored == Spec => []CompletedMeansStored`. A file becomes what a
  write put there, and a write was handed over long before by a task that may
  be gone, so two conjuncts are added. `Answered`: the worker's control point
  tells what Studio stores. `WritesVouched`: a write under way is justified
  just like an entry. `Stored` of the three is inductive relative to
  `TypeInv`: Studio's answer justifies the entry, the entry the write, the
  write the file, and recovery the entry again; what Studio stores is never
  taken away. `HeldVouched` says the same of all that a power loss may bring
  back, as `HeldOwned` does below of whose it is.
* `ShutdownLeavesNone == Spec => ShutdownLeavesNothingActive` and
  `OnlyCancelUndoes == Spec => OnlyCancelLeavesCompleted`, two properties of
  steps, from `StagesInv`. It says in which order handler, worker and progress
  task of an upload come (`Stage`: above all, that a completed upload has no
  progress task left, since the worker joined it), that a write is of the upload it
  was asked for (`Owned`), what recovery has not read yet (`Unread`), and that
  the shutdown has still to visit whatever is active (`Visited`), which holds
  up because it keeps the table's lock.
* `RecoveryCompletes == Spec => RecoveryIsComplete`. `RecoveryInv` adds that
  before the server answers the only writes are those of recovery, each of the entry
  it belongs to (`RecoveryWrites`), and that a file that was read tells what
  the table says, or is about to be written (`RecoveredSoFar`). With
  `ShutdownLeavesNone` it is `PhasesEndSettled == Spec => NothingLeftActive`.
* `WorkIsRecoverable == Spec => []RecoverableOnDisk`: whenever the process is
  killed, an upload under way can be recovered. `WorkInv`: an upload at work
  without an error has one writer at a time, and its file names it whenever that
  writer is not between truncating and writing (`Fit`); an upload that failed, or is to be
  aborted, says why (`Blamed`), so that it is not one of those; the first write
  of a request is alone (`Begins`).
* `EndsAsUnfinished == Spec => LeftUnfinished`: however the process ends, also by a
  loss of power. `LeftInv`: of an upload under way, or about to be, nothing that
  is to be written, is in the file or may come back says that it is finished. It
  is kept because no step makes a finished upload active again or takes an error
  back (`HealthyBefore`, from the order of tasks in `StagesInv`).
* The refinement of `UploadLifecycle`, without its liveness.
  `UndisturbedFollowsDiagram`: if Studio accepts the files (`~UploadErrors`),
  every step is one of the diagram or leaves it where it is, up to the first
  DELETE (`Calm`), whatever crashes, power losses, shutdowns and the disk do.
  `Undisturbed` ties the state in the table to the worker's control point, while
  the server answers. `ImplementsLifecycle`: with a bound that allows no DELETE, as
  in `upload_live`, `Spec => Lifecycle!LifeSafe`. With DELETE or refusals the
  diagram is not followed: findings 1 and 2.

### Recordings (`TimelineProofs`, `RecordingsProofs`)

For files of any length, any spans, any sizes of records and any gap
(`TimelineAssumption`: no span is inverted, and `None` is no value):

* `TypeCorrect == Spec => []TypeOK`;
* `NothingSaturates == Spec => []TakenBackWasAdded`: `saturating_sub` is never
  needed for what the accumulator takes back;
* `StepsCountOnce == Spec => []StepsCounted`: what `clock_steps` means with
  authoritative records (`RecordsCountOnce`) and without (`BoundariesCountOnce`);
* `ExcursionsLeaveNoTrace == Spec => StrayLeavesNoTrace`: a span that returns
  from an excursion leaves the duration and steps that it would have left
  without it;
* `JoinsComeToAnEnd == Spec => []JoinsEnd`: `finish_merged` follows joins to an
  end, and never into a segment that was dropped;
* `ChannelLastsAsLong`: `Spec => []DurationsAgree`, for every `B` with
  `ClearOfEnds(B)`.

The invariant `TInv` carries `Sound(acc)` along: indexes are distinct and
abandoned ones do not come back (`Distinct`, so that abandoning a segment
changes the count by exactly one), and what may be taken back is there
(`Backed`). The second is why the properties are not inductive: re-opening a
segment brings back the jump that opened *it*, so without authority two steps
must be there while two jumps can still be undone. `Excess`, the steps that
are not boundaries, is the quantity that each helper keeps (`SettleSound`,
`OpenedSound`, `ReopenedSound`, `PushSound`, `JoinSound`) or raises by one
(`RecordStepSound`). For the last theorem `Tracks` relates the accumulator to
the one before the jump to the open segment, as long as that jump may be taken
back: the segment before it is the one remembered, its time and one step are
counted (`Remembers`), so that re-opening it leads back to where it was.

`JoinsSound` is the invariant of the joins: they are a forest (`Forest`: a
function that says where each segment ends up, and one that says after how many
joins), and the open segment, the previous one and the abandoned ones are joined
to nothing. That nothing is joined to the open segment either while there is
a previous one is what lets an excursion be dropped. Settling a pause joins the
open segment backward and a record joins the previous one forward, so indexes do
not fall along joins; the number of joins left does (`RootJoined`).

`ChannelLastsAsLong` compares two accounts of one file that meet only at its
end: a total that each method changes, and the spans the channel was given,
under the segments of the time. Between them stand the extents `X` of the
joined segments (`Agrees`): each is the least span around what is joined to
it, moved by its offsets (`Covers`), and the total is the sum of all of them but
the open one's (`Tallies`). `AgreesPush`, `AgreesRecord` and the lemmas under them say
what each method makes of `X`. The hypothesis `ClearOfEnds(B)` says that all records
of the file together, each of at most `B`, cannot move a span to either end of
time. It is needed: times stop at 0 and at 2^64 - 1 (`Shifted`), and the
accumulator moves a segment at every join while the channel moves it once, by
the sum of the offsets, so at the ends of time they would differ. Times of
recordings are some fifty years from one end and five hundred from the
other. In the run it holds with `B = 8`: 48 ns at most, from spans at 80 to 104
of 1000.

For any files, listings and versions (`ScanAssumption`: the directory is
finite, and the thread is no lister), `InFlightExact`, `CacheCurrent` and
`NoSecondScan`: `ScanSpec` implies `[]InFlightIsExact`, `[]CacheIsCurrent` and
`[]ScannedOnce`. The three need each other. That a scan's key is newer than the
entry it replaces (`Keyed`) is known from the comparison in `scan_into_cache`, and
remains true up to the insertion only because no other executor scans that file
meanwhile, which is `HeldOnce`: a file in flight is with one call, at one place
of the channel or with one executor. From `Keyed` follows `Behind`: entries only
move on, so that a key equal to the present version is of the present content,
and what is newer than the entry was not scanned yet. `InPlace` ties a lister's
own scan to its call. `ScanTyped` adds what clients were told (`Reported`)
and that the channel, unbounded in the code, is no longer than the directory;

For any recorders, channels and times (`RecordingAssumption`: pauses are not
negative, and a clock steps by an integer), `NoMessageIsLost == RecordingSpec =>
[]CountsExact`: wherever a recording is cut short, `read_linear` lists every
channel of which a message is left, with the number of them. The scan is a fold
over the file, and `ScanAppend` says that a record more is a step more, so that
its state can be followed while the recorder writes. `ReadInv` has two parts.
`Accounts`: what is counted, with the messages of the chunk whose indexes are
still being read, is all that is in the file, the channels likewise, and each
index read so far is that of the chunk (`Pending`). And about the records to
come (`QueueOK`): until all indexes of a chunk are written the next record is one
of them (`Continues`, `Rest`), so that `flush`, which comes with any other
record, finds all of them or none; and a channel is declared before its messages
(`DeclaredBefore`, `ChannelsDeclared`), without which a count would have no topic.
A chunk cut off between two indexes is the last of a file without DataEnd
(`EndsWhole`), for which `flush` reads it in full. `Uses` says what
the search for channels in skipped chunks relies on: a chunk declares no channel
without a message.

`SummaryTellsAll == RecordingSpec => []SummarySaysAll`: of a recorder that writes
indexed chunks, a summary that `classify` takes for enough gives the same topics,
counts, spans, steps and duration as the records that `read_linear` walks through,
so that the answer does not depend on which of the two was read. The summary's
entries are a `FlattenSeq` over the whole file, those of the scan grow with every
record; `EntriesOfAll` stands between them. `ExactInv` adds to `ReadInv` that the
scan's entries, with that of the chunk it still reads (`Shown`), are
`EntriesOfAll(file)`; that each chunk is followed in the file by the indexes of
its channels, the last one by those the scan has seen (`Followed`), which are the
ones the summary points to (`IndexesAfterAre`); that none is missing when the
next chunk or record comes (`QueueFull`), for which an open chunk must have a
message; that a `clock_sync` record was seen if there is one; and that the
summary lies behind DataEnd (`SummaryLast`), so that no chunk is left open where
it is read. What is done with equal entries and counts, the whole of
`feed_entries` and `build_info`, needs no look into.

`RecordingsTyped == MCSpec => []TypesOK` and `RecordingsSafe` say the same of the
composition, in which a behaviour follows one of the three parts (`EachPart`).

### Sockets, session, certificates (`ClientsProofs`)

* `GoodbyeAfterNewest == BridgeSpec => []GoodbyeIsLast` and `BridgeIsLossy ==
  BridgeSpec => Lossy!LossySafe`, for any number of messages and any capacities
  (`BridgeAssumption`). `BridgeInv`: messages rise along the way from the
  subscriber through the stream to the client (`InOrder`); what is left in the
  stream ends with the newest that was forwarded, whatever was lost
  (`NewestKept`); a socket closes when the stream is drained and the listener
  gone (`Drained`). `Rising` and its lemmas replace an induction over sequences:
  it bounds each place by the one before.
* `EventSocketIsLossy == EventSpec => EventLossy!LossySafe`, along the same lines.
* `AnsweredInItsSession == SessionSpec => []AnsweredInSession` and `LockAdmits`,
  for any number of requests and accounts (`SessionAssumption`: `Nobody` is no
  account). `InStep`: who waits has asked and holds nothing, who asks Studio
  holds the lock to read in the session that it read. The lemmas at the front say what
  the queue does: nobody is in it twice when one joins, leaves or is admitted.
* `SavedPairsServe == CertSpec => []SavedPairServes` for any number of generated
  pairs (`CertificatesAssumption`: at least one). `CertInvariant` is its
  strengthening `CertInv`: `SaveTracked` says how far a save has come by what is
  in the directory, so that its last write makes the directory whole
  (`DirectoryWhole`), `SavesNewest` that both halves are of one pair, and
  `LoadedApart` that what was loaded is not being saved.
* `ClientsTyped == MCSpec => []TypesOK` for the four together.

### Topic liveliness (`TopicLivenessProofs`, from `LivenessAssumption`)

For any topics, connections and durations with Window <= Margin and Window <
Refresh, and any limit that has room for the built-in topics, of which there are
finitely many: `SetKeepsItsLimit == Spec => []TypeOK`,
`PublishingStaysAvailable == Spec => []StaysAvailable` and `RequestedIsCovered ==
Spec => []CoveredSoon`. The two timed properties are sums in `LivenessInv`:
`SeenInTime` adds to the age of a topic's last message the time until the cycle
(or what is left of its window), which stays constant as time passes; `WaitsInTime`
says for a topic that waits what the task is doing about it and by when.
They need that a bridge holds an observer of a topic in the set
(`BridgesHold`), that a sampler which writes to the set is of a topic in it
(`SamplersWrite`), and that an extra batch ends before the next cycle
(`BatchFits`).

### Recorder and configuration (`EnvFileProofs`, `ControlProofs`)

`ChildrenAreOwned == Spec => []ChildrenOwned` and `RecorderTyped`, for any
number of requests, pids and polls (`RecorderAssumption`): `OneOwner` says of each
request what `ChildrenOwned` counts.

`EnvFileProofs` is about the editor's operators, for every file and every
post that `validate` accepts (`Proper`); of the constants it assumes only that
taking quotes out of a word makes no control character (`StrippedAssumption`):

* `EditorEditsTheMap`: the settings after an edit are those before, overridden by
  the post, with all spellings, comments and repeated keys there may be;
* `EditorReportsTheEdit`: the report says "unchanged" of all exactly if the
  lines are, and the same post finds nothing to do in the file that it made;
* `StorageIsFound`: the second parser, which knows neither escapes nor that
  the last definition counts, finds the directory posted with its environment
  variables filled in, whatever these are, if no other key begins with `STORAGE`
  and its text is in words that need no escapes;
* `EditorTakesItBack`: what GET answers is accepted, unless the file has keys or
  values that no post may have, and changes no setting, unless GET left quotes
  out of a value.

What an edit makes of a file is computed line by line, by recursive functions and
folds, which `StepByStep` unfolds: `Settings`, the places and the keys read.

`ControlProofs` puts these into `ServiceConfig`, for any editors, files
and posts, and power losses and deaths of the server anywhere
(`WorldsAssumption`: files are files, posts are lists of updates):

* `FileIsWhole`, `EditsAreKept`, `ReportsAreTrue`, `StorageStaysFound`,
  `AnswersAreTakenBack`: `ConfigSpec` implies `[]FileStaysWhole`, `[]EditsKept`,
  `[]ReportIsTrue`, `[]StorageAgrees` and `[]RoundTrip`. `FileInv` says of the file,
  and of what each request is about to write (`MadeFrom`), that it is whole, has
  the remarks of the first, and that each name is as the last save that
  touched it left it, when the saves between had read that (`HoldsFor`). What a
  request has read is a prefix of the saves, which later ones do not change.
  That it is never torn rests on `soft = FALSE`: a rename follows `sync_all`.
* `RestartedServiceRunsLatest == ConfigSpec => []RestartedRunsLatest`:
  `RestartsAwaited` says what the unit is doing while an editor waits for it.
* `ControlTyped == MCSpec => []TypesOK`, with `AnswersDue`: a save that a request
  has yet to answer for has no answer so far, and no other request.

### Induction (`InductionProofs`)

The provers cannot apply an induction theorem, whose predicate is an operator, but
they can take the least counterexample: the set of numbers at which a statement
fails, if not empty, has a least element (`LeastOf`, from `WFMin` and
`NatLessThanWellFounded`), and `StepByStep` makes of it an induction up to N over a
*set*. `SubsetBySubset` is the same over the subsets of a finite set. A recursive
function is a CHOOSE, of which nothing is known before there is such a function:
`IterExists`, `FoldExists` and `FlattenSteps` say that there is. This is how files of
lines, chains of joins (`CanonicalInForest`) and sums over segments (`SpanNsIs`)
are unfolded.

### Only model-checked

* Liveness (`Settles`, `ScanningEnds`, `EndsTogether`, `RequestsEnd`, `StopEnds`) and
  the liveness in `LifecycleSpec` and `StreamsSpec`: neither fairness nor
  ENABLED is within the prover's reach.
* `ReadersAgree` where a recording is cut short (of a finished file `SummarySaysAll`
  says more) and `TrueDuration`. They compare timelines fed with the same data in
  different portions, the last chunk as one span or message by message, or with
  the time that really passed: that takes an invariant that relates two
  accumulators through all of `feed_entries`, with its look-ahead to the next
  record, which none of the invariants above does.
* The findings: counterexamples are TLC's.

## 6. Mutants

Every property of a passing run has a mutant: a plausible bug in a definition
of the model (a message of a finished progress task forgotten, a notification
without a stored permit, an eviction off by one, a segment re-opened without
its earlier spans, ...) under which TLC finds the property violated with the
same bounds. They show that the interesting cases do occur in the runs.

## 7. Not modelled, and why

* Storage information, arguments, router: stateless queries and pure
  conversions at start-up. The layout of MCAP records, compression, names of
  topics: parsing of one immutable buffer.
* Replay: `start_replay` looks at the unit and starts it with `systemctl`, the
  file being passed in an environment variable of the server; what the unit
  does with it is not in the repository. The start and stop of any unit are in
  `ServiceConfig`.
* System mode of recording: `start` stores the child `sudo` in the handle and
  answers without waiting for it; the handle is not read in this mode except to
  kill that child if `systemctl is-active` cannot be run.
* Deleting, downloading: one command or one stream of a file each.
* `read_mcap_info` and `wait_for_completion`: no handler calls them.
* The snapshot that a new viewer of `/ws/uploads` does not get: there is none in
  the code; it is told what happens from then on.
* The log of declaration failures, `active_samplers` and the age of the last
  cycle in `topics.rs`, and the parsing of topic names: written for logs, tests
  and display, or conversions.
* Changes that others make to `--cert-dir` or to the configuration files while
  the server runs.
* A memory-mapped file that is truncated while it is read (SIGBUS).

## 8. Plan

Done in this order: uploads (most state, most interleavings, crash recovery),
then the listing, the bridge, liveliness, the recorder, the timeline; the core
of the uploads and the counts of the timeline proved; then the configuration
with its editor, the decoding of recordings, event sockets, the session and
the certificates; then the proofs of nearly all safety properties that the runs
check. What is left:

1. Proofs: what two portionings of the same data make of a timeline, and with it
   `ReadersAgree` for recordings that are cut short.
2. Compose `WsBridge` and `TopicLiveness` where the observer is handed over.
