------------------------------ MODULE Upload ------------------------------
(***************************************************************************)
(* The upload manager (src/src/upload.rs) with the part of main.rs that    *)
(* starts and stops it.  One action per stretch of code between two        *)
(* suspension points of the async runtime:                                 *)
(*                                                                         *)
(*   - the POST handler start_upload, which a client that disconnects      *)
(*     drops at any of its awaits;                                         *)
(*   - the worker task spawned by it, and the progress task spawned by the *)
(*     worker, which nothing ever aborts;                                  *)
(*   - the DELETE handler cancel_upload, which aborts the worker's task;   *)
(*   - the blocking jobs that write and remove status files: a job runs on *)
(*     its own thread, survives whoever awaits it, and is not atomic;      *)
(*   - recovery at start-up, shutdown, and the end of the process at any   *)
(*     point: killed, or by a loss of power, which takes with it what the  *)
(*     kernel had not yet written back (no status file is synced).         *)
(*                                                                         *)
(* The table of tasks is a RwLock<HashMap>: a critical section without an  *)
(* await is one atomic step.  Only cancel_all_uploads keeps the lock       *)
(* across awaits (LockFree).  Studio is external.  Percentages, messages,  *)
(* timestamps and the JSON text are abstracted away.                       *)
(***************************************************************************)
EXTENDS Naturals, FiniteSets

CONSTANTS
    Uploads,      \* upload ids; each stands for one POST /api/uploads
    Paths,        \* recordings under storage_path
    Modes,        \* upload modes on offer, among "basic" and "extended"
    ChanCap,      \* capacity of a progress channel (100 in the code)
    MaxCancels,   \* bound: DELETE requests
    MaxCrashes,   \* bound: kills and power losses
    MaxShutdowns, \* bound: orderly shutdowns
    MaxFaults,    \* bound: failing file system calls
    UploadErrors, \* whether Studio may refuse a file
    NoTask, NoJob,          \* no entry in the table; no operation under way
    NoFile, Empty, Garbled  \* no status file; truncated; mixed by two writers

ActiveStates == {"queued", "uploading", "processing"}
States == ActiveStates \cup {"completed", "failed"}
Errors == {"none", "upload", "restore", "cancelled", "restart", "shutdown"}

\* The persistent fields of a task.  The snapshot and dataset ids are Studio's;
\* an upload gets at most one of each, so only their presence is kept.
Status == [id : Uploads, state : States, snapshot : BOOLEAN,
           dataset : BOOLEAN, error : Errors]
Task == [state : States, snapshot : BOOLEAN, dataset : BOOLEAN,
         error : Errors, handle : BOOLEAN]

\* Who asked for a blocking file operation.
Roles == {"start", "worker", "progress", "cancel", "remove", "shutdown", "init"}
Phases == {"queued", "open", "unlinked", "ok", "err"}
Job == [phase : Phases, status : Status]

\* What may be found where a status file belongs.
Contents == Status \cup {NoFile, Empty, Garbled}

ASSUME UploadAssumption ==
    /\ Modes \subseteq {"basic", "extended"}
    /\ ChanCap \in Nat \ {0}
    /\ MaxCancels \in Nat /\ MaxCrashes \in Nat
    /\ MaxShutdowns \in Nat /\ MaxFaults \in Nat
    /\ UploadErrors \in BOOLEAN
    /\ NoTask \notin Task /\ NoJob \notin Job
    /\ NoFile \notin Status /\ Empty \notin Status /\ Garbled \notin Status
    /\ NoFile # Empty /\ NoFile # Garbled /\ Empty # Garbled

VARIABLES
    server,    \* phase of the process
    toScan,    \* status files the recovery has yet to read
    toVisit,   \* uploads the shutdown has yet to look at
    req,       \* path and mode of each upload's request, fixed
    task,      \* the table of tasks
    start,     \* control of the start_upload handler
    worker,    \* control of upload_worker
    aborted,   \* abort requested while the worker was being polled
    prog,      \* control of the progress task
    chan,      \* messages in the progress channel
    job,       \* blocking file operations under way, by upload and role
    file,      \* the status file next to each recording, as programs see it
    held,      \* what it has held since power last came: any of it may be on the medium
    studio,    \* what Studio stores for each upload
    told,      \* last state broadcast on /ws/uploads
    cancels, crashes, shutdowns, faults   \* counters of the bounds

disk == <<file, held, studio, req>>
counters == <<cancels, crashes, shutdowns, faults>>
vars == <<server, toScan, toVisit, req, task, start, worker, aborted, prog,
          chan, job, file, held, studio, told, cancels, crashes,
          shutdowns, faults>>

Servers == {"down", "booting", "up", "draining", "cancelling", "closing"}
StartPcs == {"none", "writing", "storing", "gone"}
\* Points where the worker is about to take the table's lock.
Runnable == {"starting", "refused", "joining", "restored", "unrestored"}
Writing == {"wUploading", "wProcessing", "wCompleted", "wFailed"}
WorkerPcs == {"none", "creating", "restoring", "deleting", "ended"} \cup Runnable \cup Writing
ProgPcs == {"none", "recv", "writing", "done"}

TypeOK ==
    /\ server \in Servers
    /\ toScan \subseteq Paths
    /\ toVisit \subseteq Uploads
    /\ req \in [Uploads -> [path : Paths, mode : Modes]]
    /\ task \in [Uploads -> Task \cup {NoTask}]
    /\ start \in [Uploads -> StartPcs]
    /\ worker \in [Uploads -> WorkerPcs]
    /\ aborted \in [Uploads -> BOOLEAN]
    /\ prog \in [Uploads -> ProgPcs]
    /\ chan \in [Uploads -> 0..ChanCap]
    /\ job \in [Uploads -> [Roles -> Job \cup {NoJob}]]
    /\ file \in [Paths -> Contents]
    /\ held \in [Paths -> SUBSET Contents]
    /\ studio \in [Uploads -> SUBSET {"snapshot", "dataset"}]
    /\ told \in [Uploads -> States \cup {"none"}]
    /\ cancels \in 0..MaxCancels
    /\ crashes \in 0..MaxCrashes
    /\ shutdowns \in 0..MaxShutdowns
    /\ faults \in 0..MaxFaults

-----------------------------------------------------------------------------
(* Helpers.                                                                *)

PathOf(u) == req[u].path
Known(u) == task[u] # NoTask
Active(u) == Known(u) /\ task[u].state \in ActiveStates

\* impl From<&UploadTask> for UploadStatus
StatusOf(u, t) == [id |-> u, state |-> t.state, snapshot |-> t.snapshot,
                   dataset |-> t.dataset, error |-> t.error]

\* What a cancellation, a shutdown or a restart makes of an entry: the ids it
\* has got stay, the handle goes.
Failed(t, why) == [state |-> "failed", snapshot |-> t.snapshot,
                   dataset |-> t.dataset, error |-> why, handle |-> FALSE]

Queued(s) == [phase |-> "queued", status |-> s]
LandedOk(u, r) == job[u][r] # NoJob /\ job[u][r].phase = "ok"
LandedErr(u, r) == job[u][r] # NoJob /\ job[u][r].phase = "err"

Landed(u, r) == LandedOk(u, r) \/ LandedErr(u, r)

\* Variant: cancel_all_uploads lets go of the lock to await a write.
LockReleased == TRUE

\* cancel_all_uploads keeps the write lock of the table across its awaits.
LockFree == server # "cancelling"

\* update_task_state up to its await: the change of the table and the start of
\* the blocking write are one poll.  An id or an error that is not given keeps
\* the old one.  (A task is never removed, so the "not found" branch is dead.)
UpdateTaskState(u, r, state, snap, ds, err) ==
    LET t == [state |-> state,
              snapshot |-> snap \/ task[u].snapshot,
              dataset |-> ds \/ task[u].dataset,
              error |-> IF err = "none" THEN task[u].error ELSE err,
              handle |-> task[u].handle]
    IN  /\ LockFree
        /\ Known(u)
        /\ task' = [task EXCEPT ![u] = t]
        /\ job' = [job EXCEPT ![u][r] = Queued(StatusOf(u, t))]

-----------------------------------------------------------------------------
(* start_upload: POST /api/uploads.                                        *)

\* Past the checks of path and login (a request that fails one changes
\* nothing): the first status file is handed to its job.
StartUpload(u) ==
    /\ server = "up"
    /\ start[u] = "none"
    /\ start' = [start EXCEPT ![u] = "writing"]
    /\ job' = [job EXCEPT ![u]["start"] =
                 Queued([id |-> u, state |-> "queued", snapshot |-> FALSE,
                         dataset |-> FALSE, error |-> "none"])]
    /\ UNCHANGED <<server, toScan, toVisit, task, worker, aborted, prog, chan,
                   told, disk, counters>>

\* Variant: the task is entered without awaiting its first status file.
StartUnwritten(u) ==
    /\ start[u] = "writing" /\ LockFree
    /\ task' = [task EXCEPT ![u] = [state |-> "queued", snapshot |-> FALSE,
                                    dataset |-> FALSE, error |-> "none",
                                    handle |-> FALSE]]
    /\ worker' = [worker EXCEPT ![u] = "starting"]
    /\ start' = [start EXCEPT ![u] = "storing"]
    /\ UNCHANGED <<server, toScan, toVisit, aborted, prog, chan, job, told, disk, counters>>

\* The file is written: enter the task in the table and spawn its worker.
StartWritten(u) ==
    /\ start[u] = "writing" /\ LandedOk(u, "start")
    /\ LockFree
    /\ task' = [task EXCEPT ![u] = [state |-> "queued", snapshot |-> FALSE,
                                    dataset |-> FALSE, error |-> "none",
                                    handle |-> FALSE]]
    /\ worker' = [worker EXCEPT ![u] = "starting"]
    /\ start' = [start EXCEPT ![u] = "storing"]
    /\ job' = [job EXCEPT ![u]["start"] = NoJob]
    /\ UNCHANGED <<server, toScan, toVisit, aborted, prog, chan, told, disk, counters>>

\* Second critical section: the handle that a cancellation needs.
StartStoreHandle(u) ==
    /\ start[u] = "storing"
    /\ LockFree
    /\ task' = [task EXCEPT ![u].handle = TRUE]
    /\ start' = [start EXCEPT ![u] = "gone"]
    /\ UNCHANGED <<server, toScan, toVisit, worker, aborted, prog, chan, job,
                   told, disk, counters>>

StartFailed(u) ==
    /\ start[u] = "writing" /\ LandedErr(u, "start")
    /\ start' = [start EXCEPT ![u] = "gone"]
    /\ job' = [job EXCEPT ![u]["start"] = NoJob]
    /\ UNCHANGED <<server, toScan, toVisit, task, worker, aborted, prog, chan,
                   told, disk, counters>>

\* The client disconnects: the handler's future is dropped at its await.
StartDropped(u) ==
    /\ start[u] \in {"writing", "storing"}
    /\ start' = [start EXCEPT ![u] = "gone"]
    /\ UNCHANGED <<server, toScan, toVisit, task, worker, aborted, prog, chan,
                   job, told, disk, counters>>

-----------------------------------------------------------------------------
(* cancel_upload: DELETE /api/uploads/{id}.                                *)

\* JoinHandle::abort: a suspended worker is dropped where it waits; one that is
\* being polled goes on to its next suspension, so it may still take the lock.
CanRun(u) ==
    /\ worker[u] \in Runnable
    /\ worker[u] = "joining" => prog[u] = "done"
Abort(u) ==
    \/ /\ CanRun(u)
       /\ aborted' = [aborted EXCEPT ![u] = TRUE]
       /\ UNCHANGED worker
    \/ /\ ~CanRun(u)
       /\ worker' = [worker EXCEPT ![u] = "ended"]
       /\ UNCHANGED aborted
AbortIfHandle(u) ==
    IF task[u].handle THEN Abort(u) ELSE UNCHANGED <<worker, aborted>>

Fail(u, why, r) ==
    LET t == Failed(task[u], why)
    IN  /\ task' = [task EXCEPT ![u] = t]
        /\ AbortIfHandle(u)
        /\ job' = [job EXCEPT ![u][r] = Queued(StatusOf(u, t))]

\* Any task, whatever its state.  Of one upload, one DELETE at a time.
CancelUpload(u) ==
    /\ server \in {"up", "draining"}
    /\ cancels < MaxCancels
    /\ Known(u)
    /\ job[u]["cancel"] = NoJob
    /\ Fail(u, "cancelled", "cancel")
    /\ cancels' = cancels + 1
    /\ UNCHANGED <<server, toScan, toVisit, start, prog, chan, told, disk,
                   crashes, shutdowns, faults>>

CancelReply(u) ==
    /\ Landed(u, "cancel")
    /\ job' = [job EXCEPT ![u]["cancel"] = NoJob]
    /\ UNCHANGED <<server, toScan, toVisit, task, start, worker, aborted, prog,
                   chan, told, disk, counters>>

\* The runtime drops an aborted worker at its next suspension.
AbortLands(u) ==
    /\ aborted[u]
    /\ worker' = [worker EXCEPT ![u] = "ended"]
    /\ aborted' = [aborted EXCEPT ![u] = FALSE]
    /\ UNCHANGED <<server, toScan, toVisit, task, start, prog, chan, job, told,
                   disk, counters>>

-----------------------------------------------------------------------------
(* upload_worker.                                                          *)

\* update_task_state called by the worker, which then awaits the write.
WorkerUpdates(u, next, state, snap, ds, err) ==
    /\ UpdateTaskState(u, "worker", state, snap, ds, err)
    /\ worker' = [worker EXCEPT ![u] = IF aborted[u] THEN "ended" ELSE next]
    /\ aborted' = [aborted EXCEPT ![u] = FALSE]
    /\ UNCHANGED <<server, toScan, toVisit, start, prog, chan, told, disk, counters>>

\* The awaited write succeeded: broadcast the new state and go on.
WorkerGoesOn(u, from, next, state) ==
    /\ worker[u] = from /\ LandedOk(u, "worker")
    /\ worker' = [worker EXCEPT ![u] = next]
    /\ told' = [told EXCEPT ![u] = state]
    /\ UNCHANGED <<server, toScan, toVisit, task, start, aborted, chan, disk, counters>>

WorkerBegin(u) ==
    /\ worker[u] = "starting"
    /\ WorkerUpdates(u, "wUploading", "uploading", FALSE, FALSE, "none")

\* Opens the progress channel, spawns its task, and calls create_snapshot.
WorkerCreates(u) ==
    /\ WorkerGoesOn(u, "wUploading", "creating", "uploading")
    /\ prog' = [prog EXCEPT ![u] = "recv"]
    /\ job' = [job EXCEPT ![u]["worker"] = NoJob]

WorkerRefused(u) ==
    /\ worker[u] = "refused"
    /\ WorkerUpdates(u, "wFailed", "failed", FALSE, FALSE, "upload")

\* Variant: the worker does not await its progress task.
ProgressForgotten(u) == prog[u] # "none"

\* progress_handle.await: only on the path where the snapshot was created.
ProgressJoined(u) == prog[u] = "done"

WorkerSnapshot(u) ==
    /\ worker[u] = "joining" /\ ProgressJoined(u)
    /\ \/ /\ req[u].mode = "basic"
          /\ WorkerUpdates(u, "wCompleted", "completed", TRUE, FALSE, "none")
       \/ /\ req[u].mode = "extended"
          /\ WorkerUpdates(u, "wProcessing", "processing", TRUE, FALSE, "none")

WorkerRestores(u) ==
    /\ WorkerGoesOn(u, "wProcessing", "restoring", "processing")
    /\ job' = [job EXCEPT ![u]["worker"] = NoJob]
    /\ UNCHANGED prog

WorkerRestored(u) ==
    /\ worker[u] = "restored"
    /\ WorkerUpdates(u, "wCompleted", "completed", TRUE, TRUE, "none")

\* Variant: a failed restore is reported as success.
RestoreErrorIgnored(u) ==
    /\ worker[u] = "unrestored"
    /\ WorkerUpdates(u, "wCompleted", "completed", TRUE, FALSE, "none")

WorkerUnrestored(u) ==
    /\ worker[u] = "unrestored"
    /\ WorkerUpdates(u, "wFailed", "failed", TRUE, FALSE, "restore")

\* delete_status_file: only when the file is there.
WorkerCompleted(u) ==
    LET there == file[PathOf(u)] # NoFile
    IN  /\ WorkerGoesOn(u, "wCompleted", IF there THEN "deleting" ELSE "ended", "completed")
        /\ job' = [job EXCEPT ![u]["worker"] = NoJob,
                              ![u]["remove"] = IF there THEN Queued(StatusOf(u, task[u])) ELSE @]
        /\ UNCHANGED prog

WorkerRemoved(u) ==
    /\ worker[u] = "deleting" /\ Landed(u, "remove")
    /\ worker' = [worker EXCEPT ![u] = "ended"]
    /\ job' = [job EXCEPT ![u]["remove"] = NoJob]
    /\ UNCHANGED <<server, toScan, toVisit, task, start, aborted, prog, chan,
                   told, disk, counters>>

WorkerFailed(u) ==
    /\ WorkerGoesOn(u, "wFailed", "ended", "failed")
    /\ job' = [job EXCEPT ![u]["worker"] = NoJob]
    /\ UNCHANGED prog

\* `?` on a failed write: the worker ends, and the table keeps what it said.
WorkerGivesUp(u) ==
    /\ worker[u] \in Writing /\ LandedErr(u, "worker")
    /\ worker' = [worker EXCEPT ![u] = "ended"]
    /\ job' = [job EXCEPT ![u]["worker"] = NoJob]
    /\ UNCHANGED <<server, toScan, toVisit, task, start, aborted, prog, chan,
                   told, disk, counters>>

-----------------------------------------------------------------------------
(* EdgeFirst Studio, as the worker calls it.                               *)

StudioStep(u) == UNCHANGED <<server, toScan, toVisit, req, task, start, aborted,
                             prog, job, file, held, told, counters>>

\* Variant: an unbounded channel.
StudioFloods(u) ==
    /\ worker[u] = "creating"
    /\ chan' = [chan EXCEPT ![u] = @ + 1]
    /\ StudioStep(u) /\ UNCHANGED <<worker, studio>>

StudioProgress(u) ==
    /\ worker[u] = "creating" /\ chan[u] < ChanCap
    /\ chan' = [chan EXCEPT ![u] = @ + 1]
    /\ StudioStep(u) /\ UNCHANGED <<worker, studio>>

\* Studio stores what it is asked for before the answer comes, if it comes.
StudioStores(u, what) ==
    /\ worker[u] = (IF what = "snapshot" THEN "creating" ELSE "restoring")
    /\ what \notin studio[u]
    /\ studio' = [studio EXCEPT ![u] = @ \cup {what}]
    /\ StudioStep(u) /\ UNCHANGED <<worker, chan>>

StudioAnswers(u, from, to) ==
    /\ worker[u] = from
    /\ worker' = [worker EXCEPT ![u] = to]
    /\ StudioStep(u) /\ UNCHANGED <<chan, studio>>

SnapshotCreated(u) == "snapshot" \in studio[u] /\ StudioAnswers(u, "creating", "joining")
SnapshotRefused(u) == UploadErrors /\ StudioAnswers(u, "creating", "refused")
DatasetRestored(u) == "dataset" \in studio[u] /\ StudioAnswers(u, "restoring", "restored")
RestoreFailed(u) == StudioAnswers(u, "restoring", "unrestored")

-----------------------------------------------------------------------------
(* The progress task: detached, and holding on to the table after its      *)
(* upload has failed or was cancelled.                                     *)

\* Variant: the worker keeps a sender of its own until it ends.
TxKept(u) == worker[u] \in {"creating", "joining"}

\* progress_tx lives in the create_snapshot call.
TxOpen(u) == worker[u] = "creating"

ProgReceive(u) ==
    /\ prog[u] = "recv" /\ chan[u] > 0
    /\ chan' = [chan EXCEPT ![u] = @ - 1]
    /\ prog' = [prog EXCEPT ![u] = "writing"]
    /\ UpdateTaskState(u, "progress", "uploading", FALSE, FALSE, "none")
    /\ UNCHANGED <<server, toScan, toVisit, start, worker, aborted, told, disk, counters>>

\* The write ended: broadcast unless it failed, and wait for the next message.
ProgWritten(u) ==
    /\ prog[u] = "writing" /\ Landed(u, "progress")
    /\ prog' = [prog EXCEPT ![u] = "recv"]
    /\ told' = [told EXCEPT ![u] = IF LandedOk(u, "progress") THEN "uploading" ELSE @]
    /\ job' = [job EXCEPT ![u]["progress"] = NoJob]
    /\ UNCHANGED <<server, toScan, toVisit, task, start, worker, aborted, chan,
                   disk, counters>>

ProgEnds(u) ==
    /\ prog[u] = "recv" /\ chan[u] = 0 /\ ~TxOpen(u)
    /\ prog' = [prog EXCEPT ![u] = "done"]
    /\ UNCHANGED <<server, toScan, toVisit, task, start, worker, aborted, chan,
                   job, told, disk, counters>>

-----------------------------------------------------------------------------
(* The blocking jobs: std::fs::write truncates, then writes; remove_file   *)
(* leaves a writer that holds the file open with an unlinked inode.        *)

IoStep == UNCHANGED <<server, toScan, toVisit, req, task, start, worker, aborted,
                      prog, chan, studio, told, cancels, crashes, shutdowns>>
\* A status file changes; the kernel writes it back later.
Put(p, content) ==
    /\ file' = [file EXCEPT ![p] = content]
    /\ held' = [held EXCEPT ![p] = @ \cup {content}]
InPhase(u, r, p) == job[u][r] # NoJob /\ job[u][r].phase = p
ToPhase(u, r, p) == job' = [job EXCEPT ![u][r].phase = p]

WriteOpens(u, r) ==
    /\ r # "remove" /\ InPhase(u, r, "queued")
    /\ ToPhase(u, r, "open")
    /\ Put(PathOf(u), Empty)
    /\ IoStep /\ UNCHANGED faults

\* Where another writer wrote since our truncation, the longer text wins, and
\* its tail stays behind a shorter one.
WriteLands(u, r) ==
    /\ InPhase(u, r, "open")
    /\ ToPhase(u, r, "ok")
    /\ \E content \in {job[u][r].status} \cup
                      (IF file[PathOf(u)] = Empty THEN {} ELSE {Garbled}) :
          Put(PathOf(u), content)
    /\ IoStep /\ UNCHANGED faults

UnlinkedLands(u, r) ==
    /\ InPhase(u, r, "unlinked")
    /\ ToPhase(u, r, "ok")
    /\ IoStep /\ UNCHANGED <<file, held, faults>>

RemoveLands(u) ==
    /\ InPhase(u, "remove", "queued")
    /\ Put(PathOf(u), NoFile)
    /\ job' = [v \in Uploads |-> [r \in Roles |->
                 IF <<v, r>> = <<u, "remove">> THEN [job[u][r] EXCEPT !.phase = "ok"]
                 ELSE IF PathOf(v) = PathOf(u) /\ InPhase(v, r, "open")
                 THEN [job[v][r] EXCEPT !.phase = "unlinked"]
                 ELSE job[v][r]]]
    /\ IoStep /\ UNCHANGED faults

\* Cannot open (the file is as it was), cannot write (it stays truncated), or
\* cannot remove.
IoFails(u, r) ==
    /\ faults < MaxFaults
    /\ InPhase(u, r, "queued") \/ InPhase(u, r, "open")
    /\ ToPhase(u, r, "err")
    /\ faults' = faults + 1
    /\ IoStep /\ UNCHANGED <<file, held>>

-----------------------------------------------------------------------------
(* main: start-up, shutdown, crash.                                        *)

ServerStep == UNCHANGED <<start, worker, aborted, prog, chan, told, disk, cancels, crashes, faults>>

\* initialize: scan_status_files, then one file after the other, with the lock
\* held and before the server answers.
Boot ==
    /\ server = "down"
    /\ server' = "booting"
    /\ toScan' = {p \in Paths : file[p] # NoFile}
    /\ ServerStep /\ UNCHANGED <<toVisit, task, job, shutdowns>>

\* The scan fails: the error is logged and the server starts without it.
ScanFails ==
    /\ server = "booting" /\ faults < MaxFaults
    /\ toScan = {p \in Paths : file[p] # NoFile}
    /\ server' = "up" /\ toScan' = {}
    /\ faults' = faults + 1
    /\ UNCHANGED <<toVisit, task, start, worker, aborted, prog, chan, job, told,
                   disk, cancels, crashes, shutdowns>>

\* Variant: recovery forgets the uploads that had not begun.
NeedsRecoveryIfBegun(s) == s.state \in {"uploading", "processing"}

NeedsRecovery(s) == s.state \in ActiveStates

\* An unreadable file is logged and skipped; an upload that was under way is
\* entered as failed, and its file rewritten (the code enters it after the
\* write; nothing can read the table before).
InitFile(p) ==
    /\ server = "booting" /\ p \in toScan
    /\ \A u \in Uploads : job[u]["init"] = NoJob
    /\ toScan' = toScan \ {p}
    /\ \/ /\ file[p] \in {Empty, Garbled}
          /\ UNCHANGED <<task, job>>
       \/ /\ file[p] \in Status
          /\ LET s == file[p]
                 t == [state |-> s.state, snapshot |-> s.snapshot,
                       dataset |-> s.dataset, error |-> s.error, handle |-> FALSE]
                 f == Failed(s, "restart")
             IN  IF NeedsRecovery(s)
                 THEN /\ task' = [task EXCEPT ![s.id] = f]
                      /\ job' = [job EXCEPT ![s.id]["init"] = Queued(StatusOf(s.id, f))]
                 ELSE /\ task' = [task EXCEPT ![s.id] = t]
                      /\ UNCHANGED job
    /\ ServerStep /\ UNCHANGED <<server, toVisit, shutdowns>>

\* The rewrite ended, well or not.
InitWritten(u) ==
    /\ server = "booting" /\ Landed(u, "init")
    /\ job' = [job EXCEPT ![u]["init"] = NoJob]
    /\ ServerStep /\ UNCHANGED <<server, toScan, toVisit, task, shutdowns>>

InitDone ==
    /\ server = "booting" /\ toScan = {}
    /\ \A u \in Uploads : job[u]["init"] = NoJob
    /\ server' = "up"
    /\ ServerStep /\ UNCHANGED <<toScan, toVisit, task, job, shutdowns>>

\* SIGTERM or SIGINT: graceful_shutdown, no new requests.
Signal ==
    /\ server = "up" /\ shutdowns < MaxShutdowns
    /\ server' = "draining"
    /\ shutdowns' = shutdowns + 1
    /\ ServerStep /\ UNCHANGED <<toScan, toVisit, task, job>>

\* serve() returns, after at most 5 s: handlers still waiting are dropped, and
\* cancel_all_uploads takes the lock.
HttpStopped ==
    /\ server = "draining"
    /\ server' = "cancelling"
    /\ start' = [u \in Uploads |-> IF start[u] = "none" THEN "none" ELSE "gone"]
    /\ toVisit' = {u \in Uploads : Known(u)}
    /\ UNCHANGED <<toScan, task, worker, aborted, prog, chan, job, told,
                   disk, counters>>

NoShutdownWrite == \A u \in Uploads : job[u]["shutdown"] = NoJob

\* One entry of the table: cancel it and await the write, or pass it over.
ShutdownCancel(u) ==
    /\ server = "cancelling" /\ NoShutdownWrite
    /\ u \in toVisit /\ Active(u)
    /\ toVisit' = toVisit \ {u}
    /\ Fail(u, "shutdown", "shutdown")
    /\ UNCHANGED <<server, toScan, start, prog, chan, told, disk, counters>>

ShutdownPasses(u) ==
    /\ server = "cancelling" /\ NoShutdownWrite
    /\ u \in toVisit /\ ~Active(u)
    /\ toVisit' = toVisit \ {u}
    /\ ServerStep /\ UNCHANGED <<server, toScan, task, job, shutdowns>>

ShutdownWritten(u) ==
    /\ server = "cancelling" /\ Landed(u, "shutdown")
    /\ job' = [job EXCEPT ![u]["shutdown"] = NoJob]
    /\ ServerStep /\ UNCHANGED <<server, toScan, toVisit, task, shutdowns>>

\* The lock is released; the sampler is aborted and the Zenoh session closed
\* while the runtime still runs every task that is left.
ShutdownDone ==
    /\ server = "cancelling" /\ NoShutdownWrite
    /\ toVisit = {}
    /\ server' = "closing"
    /\ ServerStep /\ UNCHANGED <<toScan, toVisit, task, job, shutdowns>>

\* The process is gone, and with it everything that was only in memory.
Gone ==
    /\ server' = "down"
    /\ toScan' = {} /\ toVisit' = {}
    /\ task' = [u \in Uploads |-> NoTask]
    /\ start' = [u \in Uploads |-> IF start[u] = "none" THEN "none" ELSE "gone"]
    /\ worker' = [u \in Uploads |-> "none"]
    /\ aborted' = [u \in Uploads |-> FALSE]
    /\ prog' = [u \in Uploads |-> "none"]
    /\ chan' = [u \in Uploads |-> 0]
    /\ job' = [u \in Uploads |-> [r \in Roles |-> NoJob]]
    /\ told' = [u \in Uploads |-> "none"]

\* The runtime waits for the jobs that have begun and drops the others.
Exit ==
    /\ server = "closing"
    /\ \A u \in Uploads, r \in Roles : ~InPhase(u, r, "open")
    /\ Gone /\ UNCHANGED <<disk, counters>>

\* The process is killed or aborts.  The kernel goes on: what was written stays.
Crash ==
    /\ server # "down" /\ crashes < MaxCrashes
    /\ Gone
    /\ crashes' = crashes + 1
    /\ UNCHANGED <<disk, cancels, shutdowns, faults>>

\* The power goes.  Nothing is synced: the kernel has written each file back
\* when it chose, so it is left as it was at some moment since power last came.
PowerLoss ==
    /\ server # "down" /\ crashes < MaxCrashes
    /\ Gone
    /\ file' \in [Paths -> UNION {held[p] : p \in Paths}]
    /\ \A p \in Paths : file'[p] \in held[p]
    /\ held' = [p \in Paths |-> {file'[p]}]
    /\ crashes' = crashes + 1
    /\ UNCHANGED <<req, studio, cancels, shutdowns, faults>>

\* Nothing under way: the server waits for requests.  The only state in which
\* it may stay; any other one without a successor is a deadlock.
Idle ==
    /\ server = "up"
    /\ \A u \in Uploads :
          /\ start[u] \in {"none", "gone"}
          /\ worker[u] \in {"none", "ended"}
          /\ prog[u] \in {"none", "done"}
    /\ UNCHANGED vars

-----------------------------------------------------------------------------
Init ==
    /\ server = "down" /\ toScan = {} /\ toVisit = {}
    /\ req \in [Uploads -> [path : Paths, mode : Modes]]
    /\ task = [u \in Uploads |-> NoTask]
    /\ start = [u \in Uploads |-> "none"]
    /\ worker = [u \in Uploads |-> "none"]
    /\ aborted = [u \in Uploads |-> FALSE]
    /\ prog = [u \in Uploads |-> "none"]
    /\ chan = [u \in Uploads |-> 0]
    /\ job = [u \in Uploads |-> [r \in Roles |-> NoJob]]
    /\ file = [p \in Paths |-> NoFile]
    /\ held = [p \in Paths |-> {NoFile}]
    /\ studio = [u \in Uploads |-> {}]
    /\ told = [u \in Uploads |-> "none"]
    /\ cancels = 0 /\ crashes = 0 /\ shutdowns = 0 /\ faults = 0

StartStep(u) == \/ StartWritten(u) \/ StartStoreHandle(u) \/ StartFailed(u)
WorkerStep(u) ==
    \/ WorkerBegin(u) \/ WorkerCreates(u) \/ WorkerRefused(u) \/ WorkerSnapshot(u)
    \/ WorkerRestores(u) \/ WorkerRestored(u) \/ WorkerUnrestored(u)
    \/ WorkerCompleted(u) \/ WorkerRemoved(u) \/ WorkerFailed(u) \/ WorkerGivesUp(u)
    \/ AbortLands(u)
StudioReply(u) ==
    \/ \E what \in {"snapshot", "dataset"} : StudioStores(u, what)
    \/ SnapshotCreated(u) \/ SnapshotRefused(u)
    \/ DatasetRestored(u) \/ RestoreFailed(u)
ProgStep(u) == \/ ProgReceive(u) \/ ProgWritten(u) \/ ProgEnds(u)
IoProgress(u) ==
    \/ \E r \in Roles : \/ WriteOpens(u, r) \/ WriteLands(u, r) \/ UnlinkedLands(u, r)
    \/ RemoveLands(u)
InitStep == \/ \E p \in Paths : InitFile(p)
            \/ \E u \in Uploads : InitWritten(u)
            \/ InitDone
ShutdownStep == \/ HttpStopped \/ ShutdownDone \/ Exit
                \/ \E u \in Uploads : \/ ShutdownCancel(u) \/ ShutdownPasses(u)
                                            \/ ShutdownWritten(u)

Next ==
    \/ Boot \/ ScanFails \/ InitStep
    \/ Signal \/ ShutdownStep \/ Idle
    \/ Crash \/ PowerLoss
    \/ \E u \in Uploads :
          \/ StartUpload(u) \/ StartStep(u) \/ StartDropped(u)
          \/ CancelUpload(u) \/ CancelReply(u)
          \/ WorkerStep(u) \/ StudioProgress(u) \/ StudioReply(u) \/ ProgStep(u)
          \/ IoProgress(u) \/ \E r \in Roles : IoFails(u, r)

Spec == Init /\ [][Next]_vars

\* The runtime polls every task that can go on and runs every blocking job;
\* Studio answers every call; recovery and shutdown go through.  Users, the
\* disk's faults and crashes are free to act or not.
Fairness ==
    /\ WF_vars(Boot) /\ WF_vars(InitStep) /\ WF_vars(ShutdownStep)
    /\ \A u \in Uploads :
          /\ WF_vars(StartStep(u)) /\ WF_vars(WorkerStep(u)) /\ WF_vars(ProgStep(u))
          /\ WF_vars(StudioReply(u)) /\ WF_vars(IoProgress(u))

FairSpec == Spec /\ Fairness

-----------------------------------------------------------------------------
(* Properties.                                                             *)

\* A record of an upload, in memory or on disk, that says "completed" names
\* the snapshot (and, in extended mode, the dataset) that Studio stores.
Vouched(u, s) ==
    s.state = "completed" =>
        /\ s.snapshot /\ "snapshot" \in studio[u]
        /\ req[u].mode = "extended" => s.dataset /\ "dataset" \in studio[u]

\* Whatever tasks, blocking writes, aborts and crashes interleave, an upload
\* shown or saved as completed is stored at Studio (upload_worker).
CompletedMeansStored ==
    /\ \A u \in Uploads : Known(u) => Vouched(u, task[u])
    /\ \A p \in Paths : file[p] \in Status => Vouched(file[p].id, file[p])

\* Alone on its recording: uploads of one recording share one status file.
Alone(u) == \A v \in Uploads \ {u} : start[v] # "none" => PathOf(v) # PathOf(u)

\* Between two writes of its own, the status file is readable and names it.
Recoverable(u) ==
    (\A r \in Roles : ~InPhase(u, r, "open")) =>
        file[PathOf(u)] \in Status /\ file[PathOf(u)].id = u

\* An upload under way, alone on its recording and on a healthy disk, can be
\* recovered when the process is killed at any moment when no write of its own
\* is in progress: its status file is readable and names it.  (What a loss of
\* power leaves is weaker: LeftUnfinished.)
RecoverableOnDisk ==
    \A u \in Uploads :
        /\ Active(u) /\ task[u].error = "none"
        /\ Alone(u) /\ faults = 0
        => Recoverable(u)

\* However the process ends, and whatever former content a loss of power brings
\* back, recovery never takes an upload that was under way, alone on its
\* recording, for a finished one: a status file that is left to read names it, as
\* unfinished (update_task_state, recovered by initialize).
LeftUnfinished ==
    [][ server # "down" /\ server' = "down" =>
          \A u \in Uploads :
             Active(u) /\ task[u].error = "none" /\ Alone(u)
                /\ file'[PathOf(u)] \in Status
             => file'[PathOf(u)].id = u /\ NeedsRecovery(file'[PathOf(u)]) ]_vars

\* When recovery ends, every readable status file tells a finished upload, and
\* the table of tasks says the same (initialize).
RecoveryIsComplete ==
    [][ server = "booting" /\ server' = "up" /\ faults' = 0
        => \A p \in Paths : file[p] \in Status =>
             LET u == file[p].id
             IN  /\ ~Active(u)
                 /\ Known(u) /\ StatusOf(u, task[u]) = file[p] ]_vars

\* Only a DELETE, never a late progress message, takes an upload out of
\* "completed" while the server runs, and a viewer of /ws/uploads hears nothing
\* else of it (upload_worker awaits progress_handle).
OnlyCancelLeavesCompleted ==
    [][ \A u \in Uploads : server' # "down" =>
          /\ Known(u) /\ task[u].state = "completed" =>
                \/ task'[u].state = "completed"
                \/ task'[u].state = "failed" /\ task'[u].error = "cancelled"
          /\ told[u] = "completed" => told'[u] = "completed" ]_vars

\* cancel_all_uploads leaves no upload active at the moment it releases the
\* lock, however many tasks still wait to update the table.
ShutdownLeavesNothingActive ==
    [][ server = "cancelling" /\ server' = "closing" =>
          \A u \in Uploads : ~Active(u) ]_vars

\* Neither recovery nor shutdown hands the table on with an upload under way in it,
\* and what recovery hands on is what the files say (initialize, cancel_all_uploads).
NothingLeftActive == RecoveryIsComplete /\ ShutdownLeavesNothingActive

\* The state diagram of the design notes ends in Failed: a failed upload is
\* not brought back to work.
FailedIsFinal ==
    [][ \A u \in Uploads :
          Known(u) /\ task[u].state = "failed" /\ server' # "down" =>
             task'[u].state = "failed" ]_vars

\* DELETE cancels an upload in progress: it does not complete afterwards.
CancelledNeverCompletes ==
    \A u \in Uploads :
        Known(u) /\ task[u].error = "cancelled" => task[u].state # "completed"

\* The status files serve the recovery of every upload, and uploads may run
\* side by side: each one under way is recoverable, not only those alone.
EveryUploadRecoverable ==
    \A u \in Uploads : Active(u) /\ task[u].error = "none" /\ faults = 0 => Recoverable(u)

\* An upload under way does not stay under way for ever, and a shutdown comes to
\* its end although it keeps the table locked, across its writes, from tasks
\* that wait for it (cancel_all_uploads, upload_worker).
Settles ==
    /\ \A u \in Uploads : Active(u) ~> ~Active(u)
    /\ server = "draining" ~> server = "down"

\* Once serve() has returned nobody is answered any more.
Serving == server \notin {"cancelling", "closing"}

\* The promise of UploadLifecycle, on what GET /api/uploads answers.
Lifecycle == INSTANCE UploadLifecycle WITH
                 mode <- [u \in Uploads |-> req[u].mode],
                 state <- [u \in Uploads |-> IF Serving /\ Known(u) THEN task[u].state ELSE "absent"]
LifecycleSpec == Lifecycle!LifeSpec
=============================================================================
