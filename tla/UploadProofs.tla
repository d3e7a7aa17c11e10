--------------------------- MODULE UploadProofs ---------------------------
(***************************************************************************)
(* Proofs about Upload for any set of uploads and recordings and any       *)
(* bounds: the type invariant; that "completed" is never said of something *)
(* Studio does not store, and undone by nothing but a cancel; that work is *)
(* on the disk for the next start, which finds all of it; that a shutdown  *)
(* leaves nothing active; and, if Studio accepts the files, that an upload *)
(* which is neither cancelled nor stopped follows the diagram of           *)
(* UploadLifecycle.                                                        *)
(***************************************************************************)
EXTENDS Upload, TLAPS

\* Control implies an entry in the table: what the handlers and the worker
\* look up with get_mut is there.
Present ==
    \A u \in Uploads :
        /\ start[u] = "storing" => Known(u)
        /\ worker[u] # "none" => Known(u)
        /\ aborted[u] => Known(u)

\* How far the worker is tells what Studio stores.
Answered ==
    \A u \in Uploads :
        /\ worker[u] \in {"joining", "wProcessing", "restoring", "restored"}
              => "snapshot" \in studio[u]
        /\ worker[u] = "restored" => "dataset" \in studio[u]

\* A write under way is vouched for too: it lands whatever happens to its owner.
WritesVouched ==
    \A u \in Uploads, r \in Roles :
        job[u][r] # NoJob => Vouched(job[u][r].status.id, job[u][r].status)

TypeInv == TypeOK /\ Present

-----------------------------------------------------------------------------
(* Lemmas on the helpers.                                                  *)

\* A status made from an entry of the table is a status, and is vouched for
\* exactly when the entry is.
LEMMA StatusOfType ==
    ASSUME NEW u \in Uploads, NEW t \in Task
    PROVE  StatusOf(u, t) \in Status /\ StatusOf(u, t).id = u
BY DEF StatusOf, Task, Status

\* update_task_state keeps the types of the table and of the jobs.
LEMMA UpdateTaskStateType ==
    ASSUME TypeOK, NEW u \in Uploads, NEW r \in Roles, NEW s \in States,
           NEW snap \in BOOLEAN, NEW ds \in BOOLEAN, NEW err \in Errors,
           UpdateTaskState(u, r, s, snap, ds, err)
    PROVE  /\ task' \in [Uploads -> Task \cup {NoTask}]
           /\ job' \in [Uploads -> [Roles -> Job \cup {NoJob}]]
           /\ \A v \in Uploads : task[v] # NoTask => task'[v] # NoTask
<1> DEFINE t == [state |-> s,
                 snapshot |-> snap \/ task[u].snapshot,
                 dataset |-> ds \/ task[u].dataset,
                 error |-> IF err = "none" THEN task[u].error ELSE err,
                 handle |-> task[u].handle]
<1>1. task[u] \in Task
  BY DEF UpdateTaskState, Known, TypeOK
<1>2. t \in Task
  BY <1>1 DEF Task
<1>3. t # NoTask
  BY <1>2, UploadAssumption
<1>4. Queued(StatusOf(u, t)) \in Job
  BY <1>2, StatusOfType DEF Queued, Job, Phases
<1>5. task' = [task EXCEPT ![u] = t] /\ job' = [job EXCEPT ![u][r] = Queued(StatusOf(u, t))]
  BY DEF UpdateTaskState
<1> QED
  BY <1>2, <1>3, <1>4, <1>5 DEF TypeOK

\* Failing an entry keeps the types, and the worker of a known upload.
LEMMA FailType ==
    ASSUME TypeOK, NEW u \in Uploads, NEW r \in Roles, NEW why \in Errors,
           task[u] # NoTask, Fail(u, why, r)
    PROVE  /\ task' \in [Uploads -> Task \cup {NoTask}]
           /\ job' \in [Uploads -> [Roles -> Job \cup {NoJob}]]
           /\ worker' \in [Uploads -> WorkerPcs]
           /\ aborted' \in [Uploads -> BOOLEAN]
           /\ \A v \in Uploads : task[v] # NoTask => task'[v] # NoTask
           /\ \A v \in Uploads \ {u} : worker'[v] = worker[v] /\ aborted'[v] = aborted[v]
<1> DEFINE t == Failed(task[u], why)
<1>1. task[u] \in Task
  BY DEF TypeOK
<1>2. t \in Task
  BY <1>1 DEF Task, Failed, States
<1>3. t # NoTask
  BY <1>2, UploadAssumption
<1>4. Queued(StatusOf(u, t)) \in Job
  BY <1>2, StatusOfType DEF Queued, Job, Phases
<1>5. task' = [task EXCEPT ![u] = t] /\ job' = [job EXCEPT ![u][r] = Queued(StatusOf(u, t))]
  BY DEF Fail
<1>6. /\ worker' \in [Uploads -> WorkerPcs]
      /\ aborted' \in [Uploads -> BOOLEAN]
      /\ \A v \in Uploads \ {u} : worker'[v] = worker[v] /\ aborted'[v] = aborted[v]
  <2>1. CASE task[u].handle
    BY <2>1 DEF Fail, AbortIfHandle, Abort, TypeOK, WorkerPcs
  <2>2. CASE ~task[u].handle
    BY <2>2 DEF Fail, AbortIfHandle, TypeOK
  <2> QED BY <2>1, <2>2
<1> QED
  BY <1>2, <1>3, <1>4, <1>5, <1>6 DEF TypeOK

\* A change of phase keeps the types of the jobs, and what they write.
LEMMA ToPhaseType ==
    ASSUME TypeOK, NEW u \in Uploads, NEW r \in Roles, NEW p \in Phases,
           job[u][r] # NoJob, ToPhase(u, r, p)
    PROVE  /\ job' \in [Uploads -> [Roles -> Job \cup {NoJob}]]
           /\ job[u][r].status \in Status
           /\ \A v \in Uploads, q \in Roles : job'[v][q] # NoJob =>
                 job[v][q] # NoJob /\ job'[v][q].status = job[v][q].status
<1>1. job[u][r] \in Job
  BY DEF TypeOK
<1> DEFINE j == [job[u][r] EXCEPT !.phase = p]
<1>2. j \in Job /\ j.status = job[u][r].status
  BY <1>1 DEF Job
<1>3. job' = [job EXCEPT ![u][r] = j]
  BY DEF ToPhase
<1>4. job[u][r].status \in Status
  BY <1>1 DEF Job
<1>5. job \in [Uploads -> [Roles -> Job \cup {NoJob}]]
  BY DEF TypeOK
<1> HIDE DEF j
<1> QED
  BY <1>2, <1>3, <1>4, <1>5

-----------------------------------------------------------------------------
(* The type invariant, with the presence of what the handlers look up.     *)

LEMMA TypeInvInit == Init => TypeInv
BY UploadAssumption
   DEF Init, TypeInv, TypeOK, Present, Contents, Servers, StartPcs, WorkerPcs, ProgPcs, Known

\* The steps of the start_upload and cancel_upload handlers.
LEMMA TypeInvHandlers ==
    ASSUME TypeInv, NEW u \in Uploads,
           \/ StartUpload(u) \/ StartStep(u) \/ StartDropped(u)
           \/ CancelUpload(u) \/ CancelReply(u)
    PROVE  TypeInv'
<1> USE DEF TypeInv, TypeOK, Present, StartPcs, Known, disk, counters
<1> DEFINE q == [id |-> u, state |-> "queued", snapshot |-> FALSE,
                 dataset |-> FALSE, error |-> "none"]
           n == [state |-> "queued", snapshot |-> FALSE, dataset |-> FALSE,
                 error |-> "none", handle |-> FALSE]
<1>1. CASE StartUpload(u)
  <2>1. Queued(q) \in Job
    BY DEF Queued, Job, Phases, Status, States, ActiveStates, Errors
  <2>2. job' = [job EXCEPT ![u]["start"] = Queued(q)]
    BY <1>1 DEF StartUpload
  <2>3. job' \in [Uploads -> [Roles -> Job \cup {NoJob}]]
    BY <2>1, <2>2 DEF Roles
  <2> QED BY <1>1, <2>3 DEF StartUpload
<1>2. CASE StartWritten(u)
  <2>0. n \in Task
    BY DEF Task, States, ActiveStates, Errors
  <2>1. n \in Task /\ n # NoTask
    BY <2>0, UploadAssumption
  <2>2. task' = [task EXCEPT ![u] = n]
    BY <1>2 DEF StartWritten
  <2>3. /\ task' \in [Uploads -> Task \cup {NoTask}]
        /\ task'[u] # NoTask
        /\ \A v \in Uploads : task[v] # NoTask => task'[v] # NoTask
    BY <2>1, <2>2
  <2>4. worker' \in [Uploads -> WorkerPcs] /\ \A v \in Uploads \ {u} : worker'[v] = worker[v]
    BY <1>2 DEF StartWritten, WorkerPcs, Runnable
  <2>5. start' \in [Uploads -> StartPcs] /\ \A v \in Uploads \ {u} : start'[v] = start[v]
    BY <1>2 DEF StartWritten
  <2>6. job' \in [Uploads -> [Roles -> Job \cup {NoJob}]]
    BY <1>2 DEF StartWritten
  <2> QED BY <1>2, <2>3, <2>4, <2>5, <2>6 DEF StartWritten
<1>3. CASE StartStoreHandle(u)
  <2>1. task[u] \in Task
    BY <1>3 DEF StartStoreHandle
  <2> DEFINE t == [task[u] EXCEPT !.handle = TRUE]
  <2>t. t \in Task
    BY <2>1 DEF Task
  <2>2. t \in Task /\ t # NoTask
    BY <2>t, UploadAssumption
  <2>3. task' = [task EXCEPT ![u] = t]
    BY <1>3 DEF StartStoreHandle
  <2>4. /\ task' \in [Uploads -> Task \cup {NoTask}]
        /\ \A v \in Uploads : task[v] # NoTask => task'[v] # NoTask
    BY <2>2, <2>3
  <2> QED BY <1>3, <2>4 DEF StartStoreHandle
<1>4. CASE StartFailed(u)
  BY <1>4 DEF StartFailed
<1>5. CASE StartDropped(u)
  BY <1>5 DEF StartDropped
<1>6. CASE CancelUpload(u)
  <2>1. task[u] # NoTask /\ Fail(u, "cancelled", "cancel")
    BY <1>6 DEF CancelUpload
  <2>2. "cancelled" \in Errors /\ "cancel" \in Roles
    BY DEF Errors, Roles
  <2>3. /\ task' \in [Uploads -> Task \cup {NoTask}]
        /\ job' \in [Uploads -> [Roles -> Job \cup {NoJob}]]
        /\ worker' \in [Uploads -> WorkerPcs]
        /\ aborted' \in [Uploads -> BOOLEAN]
        /\ \A v \in Uploads : task[v] # NoTask => task'[v] # NoTask
        /\ \A v \in Uploads \ {u} : worker'[v] = worker[v] /\ aborted'[v] = aborted[v]
    BY <2>1, <2>2, FailType
  <2>4. cancels' \in 0..MaxCancels
    BY <1>6, UploadAssumption DEF CancelUpload
  <2> QED BY <1>6, <2>1, <2>3, <2>4 DEF CancelUpload
<1>7. CASE CancelReply(u)
  BY <1>7 DEF CancelReply
<1> QED
  BY <1>1, <1>2, <1>3, <1>4, <1>5, <1>6, <1>7 DEF StartStep

\* A step of the worker that updates the table, whatever it writes there.
LEMMA TypeInvWorkerUpdates ==
    ASSUME TypeInv, NEW u \in Uploads, NEW next \in WorkerPcs, NEW s \in States,
           NEW snap \in BOOLEAN, NEW ds \in BOOLEAN, NEW err \in Errors,
           WorkerUpdates(u, next, s, snap, ds, err)
    PROVE  TypeInv'
<1> USE DEF TypeInv, TypeOK, Present, Known, disk, counters
<1>1. UpdateTaskState(u, "worker", s, snap, ds, err) /\ "worker" \in Roles
  BY DEF WorkerUpdates, Roles
<1>2. /\ task' \in [Uploads -> Task \cup {NoTask}]
      /\ job' \in [Uploads -> [Roles -> Job \cup {NoJob}]]
      /\ \A v \in Uploads : task[v] # NoTask => task'[v] # NoTask
  BY <1>1, UpdateTaskStateType
<1>3. task[u] # NoTask
  BY <1>1 DEF UpdateTaskState
<1>4. /\ worker' \in [Uploads -> WorkerPcs]
      /\ \A v \in Uploads \ {u} : worker'[v] = worker[v]
  BY DEF WorkerUpdates, WorkerPcs
<1>5. /\ aborted' \in [Uploads -> BOOLEAN]
      /\ \A v \in Uploads \ {u} : aborted'[v] = aborted[v]
  BY DEF WorkerUpdates
<1> QED
  BY <1>2, <1>3, <1>4, <1>5 DEF WorkerUpdates

\* A step of the worker that follows a write which succeeded.
LEMMA TypeInvWorkerGoesOn ==
    ASSUME TypeInv, NEW u \in Uploads, NEW from \in WorkerPcs \ {"none"},
           NEW next \in WorkerPcs, NEW s \in States,
           WorkerGoesOn(u, from, next, s),
           job' \in [Uploads -> [Roles -> Job \cup {NoJob}]],
           prog' \in [Uploads -> ProgPcs]
    PROVE  TypeInv'
BY DEF WorkerGoesOn, TypeInv, TypeOK, Present, Known, disk, counters

\* The steps of upload_worker.
LEMMA TypeInvWorker ==
    ASSUME TypeInv, NEW u \in Uploads, WorkerStep(u)
    PROVE  TypeInv'
<1> USE DEF WorkerPcs, Runnable, Writing, States, ActiveStates, Errors
<1>1. CASE WorkerBegin(u)
  BY <1>1, TypeInvWorkerUpdates DEF WorkerBegin
<1>2. CASE WorkerCreates(u)
  <2>1. job' \in [Uploads -> [Roles -> Job \cup {NoJob}]] /\ prog' \in [Uploads -> ProgPcs]
    BY <1>2 DEF WorkerCreates, TypeInv, TypeOK, ProgPcs
  <2> QED BY <1>2, <2>1, TypeInvWorkerGoesOn DEF WorkerCreates
<1>3. CASE WorkerRefused(u)
  BY <1>3, TypeInvWorkerUpdates DEF WorkerRefused
<1>4. CASE WorkerSnapshot(u)
  BY <1>4, TypeInvWorkerUpdates DEF WorkerSnapshot
<1>5. CASE WorkerRestores(u)
  <2>1. job' \in [Uploads -> [Roles -> Job \cup {NoJob}]] /\ prog' \in [Uploads -> ProgPcs]
    BY <1>5 DEF WorkerRestores, TypeInv, TypeOK
  <2> QED BY <1>5, <2>1, TypeInvWorkerGoesOn DEF WorkerRestores
<1>6. CASE WorkerRestored(u)
  BY <1>6, TypeInvWorkerUpdates DEF WorkerRestored
<1>7. CASE WorkerUnrestored(u)
  BY <1>7, TypeInvWorkerUpdates DEF WorkerUnrestored
<1>8. CASE WorkerCompleted(u)
  <2>1. task[u] \in Task
    BY <1>8 DEF WorkerCompleted, WorkerGoesOn, TypeInv, TypeOK, Present, Known
  <2>2. Queued(StatusOf(u, task[u])) \in Job
    BY <2>1, StatusOfType DEF Queued, Job, Phases
  <2> DEFINE removal == IF file[PathOf(u)] # NoFile THEN Queued(StatusOf(u, task[u]))
                        ELSE job[u]["remove"]
             before == [job EXCEPT ![u]["worker"] = NoJob]
  <2>a. job \in [Uploads -> [Roles -> Job \cup {NoJob}]] /\ "remove" \in Roles
    BY DEF TypeInv, TypeOK, Roles
  <2>b. removal \in Job \cup {NoJob} /\ before \in [Uploads -> [Roles -> Job \cup {NoJob}]]
    BY <2>2, <2>a
  <2>c. job' = [before EXCEPT ![u]["remove"] = removal] /\ prog' = prog
    <3>1. before[u]["remove"] = job[u]["remove"]
      BY <2>a
    <3> QED BY <1>8, <3>1 DEF WorkerCompleted
  <2> HIDE DEF removal, before
  <2>3. job' \in [Uploads -> [Roles -> Job \cup {NoJob}]] /\ prog' \in [Uploads -> ProgPcs]
    BY <2>b, <2>c DEF TypeInv, TypeOK
  <2>4. CASE file[PathOf(u)] # NoFile
    BY <1>8, <2>3, <2>4, TypeInvWorkerGoesOn DEF WorkerCompleted
  <2>5. CASE file[PathOf(u)] = NoFile
    BY <1>8, <2>3, <2>5, TypeInvWorkerGoesOn DEF WorkerCompleted
  <2> QED BY <2>4, <2>5
<1>9. CASE WorkerRemoved(u)
  BY <1>9 DEF WorkerRemoved, TypeInv, TypeOK, Present, Known, disk, counters
<1>10. CASE WorkerFailed(u)
  <2>1. job' \in [Uploads -> [Roles -> Job \cup {NoJob}]] /\ prog' \in [Uploads -> ProgPcs]
    BY <1>10 DEF WorkerFailed, TypeInv, TypeOK
  <2> QED BY <1>10, <2>1, TypeInvWorkerGoesOn DEF WorkerFailed
<1>11. CASE WorkerGivesUp(u)
  BY <1>11 DEF WorkerGivesUp, TypeInv, TypeOK, Present, Known, disk, counters
<1>12. CASE AbortLands(u)
  BY <1>12 DEF AbortLands, TypeInv, TypeOK, Present, Known, disk, counters
<1> QED
  BY <1>1, <1>2, <1>3, <1>4, <1>5, <1>6, <1>7, <1>8, <1>9, <1>10, <1>11, <1>12
     DEF WorkerStep

\* Studio and the progress task.
LEMMA TypeInvStudio ==
    ASSUME TypeInv, NEW u \in Uploads, StudioProgress(u) \/ StudioReply(u)
    PROVE  TypeInv'
<1> USE DEF TypeInv, TypeOK, Present, Known, WorkerPcs, Runnable, StudioStep, counters
<1>1. CASE StudioProgress(u)
  BY <1>1, UploadAssumption DEF StudioProgress
<1>2. CASE \E what \in {"snapshot", "dataset"} : StudioStores(u, what)
  BY <1>2 DEF StudioStores
<1>3. CASE SnapshotCreated(u)
  BY <1>3 DEF SnapshotCreated, StudioAnswers
<1>4. CASE SnapshotRefused(u)
  BY <1>4 DEF SnapshotRefused, StudioAnswers
<1>5. CASE DatasetRestored(u)
  BY <1>5 DEF DatasetRestored, StudioAnswers
<1>6. CASE RestoreFailed(u)
  BY <1>6 DEF RestoreFailed, StudioAnswers
<1> QED
  BY <1>1, <1>2, <1>3, <1>4, <1>5, <1>6 DEF StudioReply

LEMMA TypeInvProg ==
    ASSUME TypeInv, NEW u \in Uploads, ProgStep(u)
    PROVE  TypeInv'
<1> USE DEF TypeInv, TypeOK, Present, Known, ProgPcs, disk, counters
<1>1. CASE ProgReceive(u)
  <2>1. /\ UpdateTaskState(u, "progress", "uploading", FALSE, FALSE, "none")
        /\ "progress" \in Roles /\ "uploading" \in States /\ "none" \in Errors
    BY <1>1 DEF ProgReceive, Roles, States, ActiveStates, Errors
  <2>2. /\ task' \in [Uploads -> Task \cup {NoTask}]
        /\ job' \in [Uploads -> [Roles -> Job \cup {NoJob}]]
        /\ \A v \in Uploads : task[v] # NoTask => task'[v] # NoTask
    BY <2>1, UpdateTaskStateType
  <2>3. chan' \in [Uploads -> 0..ChanCap]
    BY <1>1, UploadAssumption DEF ProgReceive
  <2> QED BY <1>1, <2>2, <2>3 DEF ProgReceive
<1>2. CASE ProgWritten(u)
  BY <1>2 DEF ProgWritten, States, ActiveStates
<1>3. CASE ProgEnds(u)
  BY <1>3 DEF ProgEnds
<1> QED
  BY <1>1, <1>2, <1>3 DEF ProgStep

\* The blocking jobs.
LEMMA TypeInvIo ==
    ASSUME TypeInv, NEW u \in Uploads,
           IoProgress(u) \/ \E r \in Roles : IoFails(u, r)
    PROVE  TypeInv'
<1> USE DEF TypeInv, TypeOK, Present, Known, IoStep, Put
<1>0. PathOf(u) \in Paths
  BY DEF PathOf
<1>1. ASSUME NEW r \in Roles, WriteOpens(u, r) PROVE TypeInv'
  <2>1. job[u][r] # NoJob /\ ToPhase(u, r, "open") /\ "open" \in Phases
    BY <1>1 DEF WriteOpens, InPhase, Phases
  <2>2. job' \in [Uploads -> [Roles -> Job \cup {NoJob}]]
    BY <2>1, ToPhaseType
  <2>3. file' \in [Paths -> Contents] /\ held' \in [Paths -> SUBSET Contents]
    BY <1>0, <1>1 DEF WriteOpens, Contents
  <2> QED BY <1>1, <2>2, <2>3 DEF WriteOpens
<1>2. ASSUME NEW r \in Roles, WriteLands(u, r) PROVE TypeInv'
  <2>1. job[u][r] # NoJob /\ ToPhase(u, r, "ok") /\ "ok" \in Phases
    BY <1>2 DEF WriteLands, InPhase, Phases
  <2>2. job' \in [Uploads -> [Roles -> Job \cup {NoJob}]] /\ job[u][r].status \in Status
    BY <2>1, ToPhaseType
  <2>3. PICK c \in {job[u][r].status, Garbled} : Put(PathOf(u), c)
    BY <1>2 DEF WriteLands
  <2>4. c \in Contents
    BY <2>2, <2>3 DEF Contents
  <2>5. file' \in [Paths -> Contents] /\ held' \in [Paths -> SUBSET Contents]
    BY <1>0, <2>3, <2>4
  <2> QED BY <1>2, <2>2, <2>5 DEF WriteLands
<1>3. ASSUME NEW r \in Roles, UnlinkedLands(u, r) PROVE TypeInv'
  <2>1. job[u][r] # NoJob /\ ToPhase(u, r, "ok") /\ "ok" \in Phases
    BY <1>3 DEF UnlinkedLands, InPhase, Phases
  <2>2. job' \in [Uploads -> [Roles -> Job \cup {NoJob}]]
    BY <2>1, ToPhaseType
  <2> QED BY <1>3, <2>2 DEF UnlinkedLands
<1>4. CASE RemoveLands(u)
  <2>1. ASSUME NEW v \in Uploads, NEW r \in Roles, NEW p \in Phases, job[v][r] # NoJob
        PROVE  [job[v][r] EXCEPT !.phase = p] \in Job
    <3>1. job[v][r] \in Job
      BY <2>1
    <3> QED BY <3>1 DEF Job
  <2>2. "ok" \in Phases /\ "unlinked" \in Phases /\ "remove" \in Roles
    BY DEF Phases, Roles
  <2>3. job' \in [Uploads -> [Roles -> Job \cup {NoJob}]]
    BY <1>4, <2>1, <2>2 DEF RemoveLands, InPhase
  <2>4. file' \in [Paths -> Contents] /\ held' \in [Paths -> SUBSET Contents]
    BY <1>0, <1>4 DEF RemoveLands, Contents
  <2> QED BY <1>4, <2>3, <2>4 DEF RemoveLands
<1>5. ASSUME NEW r \in Roles, IoFails(u, r) PROVE TypeInv'
  <2>1. job[u][r] # NoJob /\ ToPhase(u, r, "err") /\ "err" \in Phases
    BY <1>5 DEF IoFails, InPhase, Phases
  <2>2. job' \in [Uploads -> [Roles -> Job \cup {NoJob}]]
    BY <2>1, ToPhaseType
  <2>3. faults' \in 0..MaxFaults
    BY <1>5, UploadAssumption DEF IoFails
  <2> QED BY <1>5, <2>2, <2>3 DEF IoFails
<1> QED
  BY <1>1, <1>2, <1>3, <1>4, <1>5 DEF IoProgress

\* Recovery of one status file: what it enters in the table and writes back.
LEMMA InitFileType ==
    ASSUME TypeOK, NEW p \in Paths, InitFile(p)
    PROVE  /\ task' \in [Uploads -> Task \cup {NoTask}]
           /\ job' \in [Uploads -> [Roles -> Job \cup {NoJob}]]
           /\ \A v \in Uploads : task[v] # NoTask => task'[v] # NoTask
<1>1. CASE file[p] \in {Empty, Garbled} /\ UNCHANGED <<task, job>>
  BY <1>1 DEF TypeOK
<1>2. CASE file[p] \in Status
  <2> DEFINE s == file[p]
             t == [state |-> s.state, snapshot |-> s.snapshot,
                   dataset |-> s.dataset, error |-> s.error, handle |-> FALSE]
             f == Failed(s, "restart")
             i == s.id
             w == Queued(StatusOf(i, f))
  <2>1. i \in Uploads
    BY <1>2 DEF Status
  <2>2. t \in Task /\ f \in Task
    BY <1>2 DEF Status, Task, Failed, States, Errors
  <2>3. t # NoTask /\ f # NoTask
    BY <2>2, UploadAssumption
  <2>4. w \in Job /\ "init" \in Roles
    BY <2>1, <2>2, StatusOfType DEF Queued, Job, Phases, Roles
  <2>5. file[p] \notin {Empty, Garbled}
    BY <1>2, UploadAssumption
  <2>6. \/ task' = [task EXCEPT ![i] = f] /\ job' = [job EXCEPT ![i]["init"] = w]
        \/ task' = [task EXCEPT ![i] = t] /\ job' = job
    BY <2>5 DEF InitFile
  <2> HIDE DEF s, t, f, i, w
  <2>7. CASE task' = [task EXCEPT ![i] = f] /\ job' = [job EXCEPT ![i]["init"] = w]
    BY <2>1, <2>2, <2>3, <2>4, <2>7 DEF TypeOK
  <2>8. CASE task' = [task EXCEPT ![i] = t] /\ job' = job
    BY <2>1, <2>2, <2>3, <2>8 DEF TypeOK
  <2> QED BY <2>6, <2>7, <2>8
<1> QED
  BY <1>1, <1>2 DEF InitFile

\* Start-up, shutdown and crash.
LEMMA TypeInvServer ==
    ASSUME TypeInv,
           \/ Boot \/ ScanFails \/ InitStep \/ Signal \/ ShutdownStep \/ Crash \/ PowerLoss \/ Idle
    PROVE  TypeInv'
<1> USE DEF TypeInv, TypeOK, Present, Known, Servers, ServerStep, disk, counters
<1>1. CASE Boot
  BY <1>1 DEF Boot
<1>2. CASE ScanFails
  BY <1>2, UploadAssumption DEF ScanFails
<1>3. ASSUME NEW p \in Paths, InitFile(p) PROVE TypeInv'
  <2>1. /\ task' \in [Uploads -> Task \cup {NoTask}]
        /\ job' \in [Uploads -> [Roles -> Job \cup {NoJob}]]
        /\ \A v \in Uploads : task[v] # NoTask => task'[v] # NoTask
    BY <1>3, InitFileType
  <2> QED BY <1>3, <2>1 DEF InitFile
<1>4. ASSUME NEW u \in Uploads, InitWritten(u) PROVE TypeInv'
  BY <1>4 DEF InitWritten
<1>5. CASE InitDone
  BY <1>5 DEF InitDone
<1>6. CASE Signal
  BY <1>6, UploadAssumption DEF Signal
<1>7. CASE HttpStopped
  BY <1>7 DEF HttpStopped, StartPcs
<1>8. ASSUME NEW u \in Uploads, ShutdownCancel(u) PROVE TypeInv'
  <2>1. task[u] # NoTask /\ Fail(u, "shutdown", "shutdown")
    BY <1>8 DEF ShutdownCancel, Active
  <2>2. "shutdown" \in Errors /\ "shutdown" \in Roles
    BY DEF Errors, Roles
  <2>3. /\ task' \in [Uploads -> Task \cup {NoTask}]
        /\ job' \in [Uploads -> [Roles -> Job \cup {NoJob}]]
        /\ worker' \in [Uploads -> WorkerPcs]
        /\ aborted' \in [Uploads -> BOOLEAN]
        /\ \A v \in Uploads : task[v] # NoTask => task'[v] # NoTask
        /\ \A v \in Uploads \ {u} : worker'[v] = worker[v] /\ aborted'[v] = aborted[v]
    BY <2>1, <2>2, FailType
  <2> QED BY <1>8, <2>1, <2>3 DEF ShutdownCancel
<1>9. ASSUME NEW u \in Uploads, ShutdownPasses(u) PROVE TypeInv'
  BY <1>9 DEF ShutdownPasses
<1>10. ASSUME NEW u \in Uploads, ShutdownWritten(u) PROVE TypeInv'
  BY <1>10 DEF ShutdownWritten
<1>11. CASE ShutdownDone
  BY <1>11 DEF ShutdownDone
<1>12. ASSUME Gone, crashes' \in 0..MaxCrashes,
              UNCHANGED <<req, studio, cancels, shutdowns, faults>>,
              file' \in [Paths -> Contents], held' \in [Paths -> SUBSET Contents]
       PROVE  TypeInv'
  BY <1>12, UploadAssumption DEF Gone, StartPcs, WorkerPcs, ProgPcs
<1>13. CASE Exit
  BY <1>12, <1>13 DEF Exit
<1>14. CASE Crash
  BY <1>12, <1>14, UploadAssumption DEF Crash
<1>15. CASE Idle
  BY <1>15 DEF Idle, vars
<1>16. CASE PowerLoss
  <2>1. file' \in [Paths -> Contents] /\ \A p \in Paths : file'[p] \in Contents
    BY <1>16 DEF PowerLoss
  <2>2. held' \in [Paths -> SUBSET Contents]
    BY <1>16, <2>1 DEF PowerLoss
  <2> QED BY <1>12, <1>16, <2>1, <2>2, UploadAssumption DEF PowerLoss
<1> QED
  BY <1>1, <1>2, <1>3, <1>4, <1>5, <1>6, <1>7, <1>8, <1>9, <1>10, <1>11, <1>13,
     <1>14, <1>15, <1>16 DEF InitStep, ShutdownStep

LEMMA TypeInvNext == TypeInv /\ [Next]_vars => TypeInv'
<1> SUFFICES ASSUME TypeInv, [Next]_vars PROVE TypeInv'
  OBVIOUS
<1>1. CASE UNCHANGED vars
  BY <1>1 DEF vars, TypeInv, TypeOK, Present, Known
<1>2. CASE Next
  BY <1>2, TypeInvServer, TypeInvHandlers, TypeInvWorker, TypeInvStudio, TypeInvProg,
     TypeInvIo DEF Next
<1> QED BY <1>1, <1>2

\* Every variable keeps its type, for any uploads, recordings and bounds.
THEOREM TypeCorrect == Spec => []TypeOK
<1>1. TypeInv => TypeOK
  BY DEF TypeInv
<1> QED
  BY <1>1, TypeInvInit, TypeInvNext, PTL DEF Spec

-----------------------------------------------------------------------------
(* What a power loss may bring back.                                       *)

\* Of a status file nothing else may come back than what it has been; and no step
\* takes anything from Studio, changes a request, or makes it not sent.
LEMMA HeldGrows ==
    ASSUME TypeInv, [Next]_vars
    PROVE  /\ \A p \in Paths : held'[p] \subseteq held[p] \cup {file'[p]}
           /\ req' = req
           /\ \A u \in Uploads : /\ studio[u] \subseteq studio'[u]
                                 /\ start[u] # "none" => start'[u] # "none"
<1> USE DEF disk, counters, ServerStep, IoStep
<1>t. TypeOK /\ \A u \in Uploads : PathOf(u) \in Paths
  BY DEF TypeInv, TypeOK, PathOf
<1>k. ASSUME UNCHANGED <<held, req, studio>>,
             \A u \in Uploads : start[u] # "none" => start'[u] # "none"
      PROVE  /\ \A p \in Paths : held'[p] \subseteq held[p] \cup {file'[p]}
             /\ req' = req
             /\ \A u \in Uploads : /\ studio[u] \subseteq studio'[u]
                                   /\ start[u] # "none" => start'[u] # "none"
  BY <1>k
<1>1. CASE UNCHANGED vars
  BY <1>1, <1>k DEF vars
<1>2. CASE Boot \/ ScanFails \/ InitStep \/ Signal \/ ShutdownStep \/ Crash \/ Idle
  <2>1. CASE Boot \/ ScanFails \/ InitStep \/ Signal \/ Idle
    BY <1>k, <2>1 DEF Boot, ScanFails, InitStep, InitFile, InitWritten, InitDone, Signal, Idle, vars
  <2>2. CASE ShutdownStep \/ Crash
    <3>1. UNCHANGED <<held, req, studio>>
      BY <2>2 DEF ShutdownStep, HttpStopped, ShutdownDone, Exit, ShutdownCancel, ShutdownPasses,
                  ShutdownWritten, Crash
    <3>2. \A u \in Uploads : start[u] # "none" => start'[u] # "none"
      BY <2>2 DEF ShutdownStep, HttpStopped, ShutdownDone, Exit, ShutdownCancel, ShutdownPasses,
                  ShutdownWritten, Crash, Gone
    <3> QED BY <1>k, <3>1, <3>2
  <2> QED BY <1>2, <2>1, <2>2
<1>3. CASE PowerLoss
  BY <1>3 DEF PowerLoss, Gone
<1>4. ASSUME NEW u \in Uploads,
             \/ StartUpload(u) \/ StartStep(u) \/ StartDropped(u)
             \/ CancelUpload(u) \/ CancelReply(u)
      PROVE  /\ UNCHANGED <<held, req, studio>>
             /\ \A v \in Uploads : start[v] # "none" => start'[v] # "none"
  BY <1>4, <1>t DEF StartUpload, StartStep, StartWritten, StartStoreHandle, StartFailed,
     StartDropped, CancelUpload, CancelReply, TypeOK
<1>5. ASSUME NEW u \in Uploads, WorkerStep(u) \/ ProgStep(u)
      PROVE  UNCHANGED <<held, req, studio, start>>
  BY <1>5 DEF WorkerStep, WorkerBegin, WorkerCreates, WorkerRefused, WorkerSnapshot,
     WorkerRestores, WorkerRestored, WorkerUnrestored, WorkerCompleted, WorkerFailed,
     WorkerRemoved, WorkerGivesUp, AbortLands, WorkerGoesOn, WorkerUpdates, ProgStep,
     ProgReceive, ProgWritten, ProgEnds
<1>6. ASSUME NEW u \in Uploads, StudioProgress(u) \/ StudioReply(u)
      PROVE  /\ UNCHANGED <<held, req, start>>
             /\ \A v \in Uploads : studio[v] \subseteq studio'[v]
  <2>1. UNCHANGED <<held, req, start>>
    BY <1>6 DEF StudioProgress, StudioReply, StudioStores, SnapshotCreated, SnapshotRefused,
       DatasetRestored, RestoreFailed, StudioAnswers, StudioStep
  <2>2. studio' = studio \/ \E what \in {"snapshot", "dataset"} :
                               studio' = [studio EXCEPT ![u] = @ \cup {what}]
    BY <1>6 DEF StudioProgress, StudioReply, StudioStores, SnapshotCreated, SnapshotRefused,
       DatasetRestored, RestoreFailed, StudioAnswers, StudioStep
  <2>3. studio \in [Uploads -> SUBSET {"snapshot", "dataset"}]
    BY <1>t DEF TypeOK
  <2>4. \A v \in Uploads : studio[v] \subseteq studio'[v]
    BY <2>2, <2>3
  <2> QED BY <2>1, <2>4
<1>7. ASSUME NEW u \in Uploads, IoProgress(u) \/ \E r \in Roles : IoFails(u, r)
      PROVE  /\ UNCHANGED <<req, studio, start>>
             /\ \A p \in Paths : held'[p] \subseteq held[p] \cup {file'[p]}
  <2>1. UNCHANGED <<req, studio, start>>
    BY <1>7 DEF IoProgress, IoFails, WriteOpens, WriteLands, UnlinkedLands, RemoveLands
  <2>2. held' = held \/ \E c : Put(PathOf(u), c)
    BY <1>7 DEF IoProgress, IoFails, WriteOpens, WriteLands, UnlinkedLands, RemoveLands
  <2>3. \A p \in Paths : held'[p] \subseteq held[p] \cup {file'[p]}
    BY <1>t, <2>2 DEF Put, TypeOK
  <2> QED BY <2>1, <2>3
<1> QED
  BY <1>k, <1>1, <1>2, <1>3, <1>4, <1>5, <1>6, <1>7 DEF Next

-----------------------------------------------------------------------------
(* Completed means stored.  Stored is inductive relative to TypeInv: what  *)
(* the worker has heard from Studio (Answered) justifies what it enters in *)
(* the table, the table justifies what is handed to a write, and a write   *)
(* under way (WritesVouched) justifies the file it makes; recovery copies  *)
(* the file back.  What Studio stores is never taken away.                 *)

Stored == Answered /\ WritesVouched /\ CompletedMeansStored

\* The table, the writes and the files after a step that enters t for u and
\* hands it to a write.
LEMMA EntryVouched ==
    ASSUME TypeInv, Stored, NEW u \in Uploads, NEW r \in Roles, NEW t, NEW st, NEW j,
           Vouched(u, t), st.id = u, Vouched(u, st), j.status = st,
           task' = [task EXCEPT ![u] = t],
           job' = [job EXCEPT ![u][r] = j],
           UNCHANGED <<file, studio, req>>
    PROVE  WritesVouched' /\ CompletedMeansStored'
BY DEF TypeInv, TypeOK, Stored, WritesVouched, CompletedMeansStored, Vouched, Known

\* What a power loss may leave is vouched for too.
HeldVouched == \A p \in Paths : \A c \in held[p] : c \in Status => Vouched(c.id, c)

LEMMA StoredInit == Init => Stored /\ HeldVouched
BY UploadAssumption
   DEF Init, Stored, Answered, WritesVouched, CompletedMeansStored, HeldVouched, Known, InPhase

\* A step that only makes writes disappear, and touches no entry and no file.
LEMMA FewerWrites ==
    ASSUME TypeInv, Stored, UNCHANGED <<task, file, studio, req>>,
           \A v \in Uploads, q \in Roles : job'[v][q] # NoJob =>
              job[v][q] # NoJob /\ job'[v][q].status = job[v][q].status
    PROVE  WritesVouched' /\ CompletedMeansStored'
<1>1. CompletedMeansStored'
  BY DEF Stored, CompletedMeansStored, Vouched, Known
<1>2. ASSUME NEW v \in Uploads, NEW q \in Roles, job'[v][q] # NoJob
      PROVE  Vouched(job[v][q].status.id, job[v][q].status)'
  <2>1. job'[v][q].status = job[v][q].status
    BY <1>2
  <2>2. Vouched(job[v][q].status.id, job[v][q].status)
    BY <1>2 DEF Stored, WritesVouched
  <2> QED BY <2>1, <2>2 DEF Vouched
<1> QED BY <1>1, <1>2 DEF WritesVouched

\* update_task_state, where a "completed" is justified by what Studio stores.
LEMMA UpdateVouched ==
    ASSUME TypeInv, Stored, NEW u \in Uploads, NEW r \in Roles, NEW s \in States,
           NEW snap \in BOOLEAN, NEW ds \in BOOLEAN, NEW err \in Errors,
           UpdateTaskState(u, r, s, snap, ds, err),
           UNCHANGED <<file, studio, req>>,
           s = "completed" =>
              /\ snap /\ "snapshot" \in studio[u]
              /\ req[u].mode = "extended" => ds /\ "dataset" \in studio[u]
    PROVE  WritesVouched' /\ CompletedMeansStored'
<1> DEFINE t == [state |-> s,
                 snapshot |-> snap \/ task[u].snapshot,
                 dataset |-> ds \/ task[u].dataset,
                 error |-> IF err = "none" THEN task[u].error ELSE err,
                 handle |-> task[u].handle]
           st == StatusOf(u, t)
           j == Queued(st)
<1>1. task' = [task EXCEPT ![u] = t] /\ job' = [job EXCEPT ![u][r] = j]
  BY DEF UpdateTaskState
<1>2. t.state = s /\ (snap => t.snapshot) /\ (ds => t.dataset)
  OBVIOUS
<1>3. st.id = u /\ st.state = t.state /\ st.snapshot = t.snapshot /\ st.dataset = t.dataset
  BY DEF StatusOf
<1>4. j.status = st
  BY DEF Queued
<1> HIDE DEF t, st, j
<1>5. Vouched(u, t) /\ Vouched(u, st)
  BY <1>2, <1>3 DEF Vouched
<1> QED
  BY <1>1, <1>3, <1>4, <1>5, EntryVouched

\* Failing an entry needs no justification.
LEMMA FailVouched ==
    ASSUME TypeInv, Stored, NEW u \in Uploads, NEW r \in Roles, NEW why \in Errors,
           Fail(u, why, r), UNCHANGED <<file, studio, req>>
    PROVE  Stored'
<1> DEFINE t == Failed(task[u], why)
           st == StatusOf(u, t)
           j == Queued(st)
<1>1. task' = [task EXCEPT ![u] = t] /\ job' = [job EXCEPT ![u][r] = j]
  BY DEF Fail
<1>2. t.state = "failed" /\ st.id = u /\ st.state = "failed" /\ j.status = st
  BY DEF Failed, StatusOf, Queued
<1> HIDE DEF t, st, j
<1>3. Vouched(u, t) /\ Vouched(u, st)
  BY <1>2 DEF Vouched
<1>4. WritesVouched' /\ CompletedMeansStored'
  BY <1>1, <1>2, <1>3, EntryVouched
<1>5. Answered'
  <2>1. CASE task[u].handle
    BY <2>1 DEF Fail, AbortIfHandle, Abort, Stored, Answered, TypeInv, TypeOK
  <2>2. CASE ~task[u].handle
    BY <2>2 DEF Fail, AbortIfHandle, Stored, Answered
  <2> QED BY <2>1, <2>2
<1> QED BY <1>4, <1>5 DEF Stored

LEMMA StoredHandlers ==
    ASSUME TypeInv, Stored, NEW u \in Uploads,
           \/ StartUpload(u) \/ StartStep(u) \/ StartDropped(u)
           \/ CancelUpload(u) \/ CancelReply(u)
    PROVE  Stored'
<1> USE DEF disk, counters
<1>1. CASE StartUpload(u)
  <2> DEFINE q == [id |-> u, state |-> "queued", snapshot |-> FALSE,
                   dataset |-> FALSE, error |-> "none"]
             j == Queued(q)
  <2>1. q.id = u /\ Vouched(q.id, q) /\ j.status = q
    BY DEF Vouched, Queued
  <2>2. job' = [job EXCEPT ![u]["start"] = j] /\ "start" \in Roles
    BY <1>1 DEF StartUpload, Roles
  <2> HIDE DEF q, j
  <2>3. WritesVouched'
    BY <1>1, <2>1, <2>2 DEF StartUpload, Stored, WritesVouched, Vouched, TypeInv, TypeOK
  <2> QED
    BY <1>1, <2>3
       DEF StartUpload, Stored, Answered, CompletedMeansStored, Vouched, Known
<1>2. CASE StartWritten(u)
  <2> DEFINE n == [state |-> "queued", snapshot |-> FALSE, dataset |-> FALSE,
                   error |-> "none", handle |-> FALSE]
  <2>1. Vouched(u, n)
    BY DEF Vouched
  <2>2. task' = [task EXCEPT ![u] = n] /\ UNCHANGED <<file, studio, req>>
    BY <1>2 DEF StartWritten
  <2> HIDE DEF n
  <2>3. CompletedMeansStored'
    BY <2>1, <2>2 DEF Stored, CompletedMeansStored, Vouched, Known, TypeInv, TypeOK
  <2>4. WritesVouched' /\ Answered'
    BY <1>2 DEF StartWritten, Stored, WritesVouched, Answered, Vouched, TypeInv, TypeOK
  <2> QED BY <2>3, <2>4 DEF Stored
<1>3. CASE StartStoreHandle(u)
  <2>1. task[u] \in Task
    BY <1>3 DEF StartStoreHandle, TypeInv, TypeOK, Present, Known
  <2> DEFINE t == [task[u] EXCEPT !.handle = TRUE]
  <2>2. t.state = task[u].state /\ t.snapshot = task[u].snapshot /\ t.dataset = task[u].dataset
    BY <2>1 DEF Task
  <2>3. task' = [task EXCEPT ![u] = t] /\ UNCHANGED <<worker, job, file, studio, req>>
    BY <1>3 DEF StartStoreHandle
  <2> HIDE DEF t
  <2>4. Known(u)
    BY <2>1, UploadAssumption DEF Known
  <2>5. Vouched(u, t)
    BY <2>2, <2>4 DEF Stored, CompletedMeansStored, Vouched
  <2>6. CompletedMeansStored'
    BY <2>3, <2>5 DEF Stored, CompletedMeansStored, Vouched, Known, TypeInv, TypeOK
  <2>7. WritesVouched' /\ Answered'
    BY <2>3 DEF Stored, WritesVouched, Answered, Vouched
  <2> QED BY <2>6, <2>7 DEF Stored
<1>4. CASE StartFailed(u) \/ CancelReply(u)
  <2>1. /\ UNCHANGED <<task, file, studio, req, worker>>
        /\ \A v \in Uploads, q \in Roles : job'[v][q] # NoJob => job'[v][q] = job[v][q]
    <3>1. CASE StartFailed(u)
      BY <3>1 DEF StartFailed, TypeInv, TypeOK
    <3>2. CASE CancelReply(u)
      BY <3>2 DEF CancelReply, TypeInv, TypeOK
    <3> QED BY <1>4, <3>1, <3>2
  <2>2. WritesVouched' /\ CompletedMeansStored'
    BY <2>1, FewerWrites
  <2> QED BY <2>1, <2>2 DEF Stored, Answered
<1>5. CASE StartDropped(u)
  BY <1>5 DEF StartDropped, Stored, Answered, WritesVouched, CompletedMeansStored, Vouched, Known
<1>6. CASE CancelUpload(u)
  <2>1. Fail(u, "cancelled", "cancel") /\ UNCHANGED <<file, studio, req>>
    BY <1>6 DEF CancelUpload
  <2>2. "cancelled" \in Errors /\ "cancel" \in Roles
    BY DEF Errors, Roles
  <2> QED BY <2>1, <2>2, FailVouched
<1> QED
  BY <1>1, <1>2, <1>3, <1>4, <1>5, <1>6 DEF StartStep

\* A worker's update keeps what is known of Studio's answers: it enters no
\* point that asserts one, but "wProcessing", reached after the snapshot.
LEMMA WorkerUpdatesAnswered ==
    ASSUME TypeInv, Stored, NEW u \in Uploads,
           NEW next \in {"wUploading", "wProcessing", "wCompleted", "wFailed"},
           NEW s \in States, NEW snap \in BOOLEAN, NEW ds \in BOOLEAN, NEW err \in Errors,
           WorkerUpdates(u, next, s, snap, ds, err),
           next = "wProcessing" => "snapshot" \in studio[u],
           s = "completed" =>
              /\ snap /\ "snapshot" \in studio[u]
              /\ req[u].mode = "extended" => ds /\ "dataset" \in studio[u]
    PROVE  Stored'
<1>1. /\ UpdateTaskState(u, "worker", s, snap, ds, err) /\ "worker" \in Roles
      /\ UNCHANGED <<file, studio, req>>
  BY DEF WorkerUpdates, Roles, disk
<1>2. WritesVouched' /\ CompletedMeansStored'
  BY <1>1, UpdateVouched
<1>3. Answered'
  BY DEF WorkerUpdates, disk, Stored, Answered, TypeInv, TypeOK
<1> QED BY <1>2, <1>3 DEF Stored

\* A step of the worker after a write: what it does next asserts nothing new.
LEMMA WorkerGoesOnStored ==
    ASSUME TypeInv, Stored, NEW u \in Uploads, NEW from, NEW next, NEW s,
           WorkerGoesOn(u, from, next, s),
           next \in {"creating", "restoring", "deleting", "ended"},
           next = "restoring" => "snapshot" \in studio[u],
           \A v \in Uploads, q \in Roles : job'[v][q] # NoJob =>
              Vouched(job'[v][q].status.id, job'[v][q].status)
    PROVE  Stored'
<1> USE DEF WorkerGoesOn, disk, counters
<1>1. Answered'
  BY DEF Stored, Answered, TypeInv, TypeOK
<1>2. WritesVouched'
  BY DEF WritesVouched, Vouched
<1>3. CompletedMeansStored'
  BY DEF Stored, CompletedMeansStored, Vouched, Known
<1> QED BY <1>1, <1>2, <1>3 DEF Stored

LEMMA StoredWorker ==
    ASSUME TypeInv, Stored, NEW u \in Uploads, WorkerStep(u)
    PROVE  Stored'
<1> USE DEF States, ActiveStates, Errors
<1>a. req[u].mode \in {"basic", "extended"}
  BY UploadAssumption DEF TypeInv, TypeOK
<1>b. ASSUME job' = [job EXCEPT ![u]["worker"] = NoJob]
      PROVE  \A v \in Uploads, q \in Roles : job'[v][q] # NoJob =>
                /\ job[v][q] # NoJob /\ job'[v][q] = job[v][q]
                /\ Vouched(job'[v][q].status.id, job'[v][q].status)
  BY <1>b DEF Stored, WritesVouched, TypeInv, TypeOK
<1>1. CASE WorkerBegin(u)
  BY <1>1, WorkerUpdatesAnswered DEF WorkerBegin
<1>2. CASE WorkerCreates(u)
  BY <1>2, <1>b, WorkerGoesOnStored DEF WorkerCreates
<1>3. CASE WorkerRefused(u)
  BY <1>3, WorkerUpdatesAnswered DEF WorkerRefused
<1>4. CASE WorkerSnapshot(u)
  <2>1. "snapshot" \in studio[u]
    BY <1>4 DEF WorkerSnapshot, Stored, Answered
  <2>2. CASE req[u].mode = "basic"
    BY <1>4, <2>1, <2>2, WorkerUpdatesAnswered DEF WorkerSnapshot
  <2>3. CASE req[u].mode = "extended"
    BY <1>4, <2>1, <2>3, WorkerUpdatesAnswered DEF WorkerSnapshot
  <2> QED BY <1>a, <2>2, <2>3
<1>5. CASE WorkerRestores(u)
  <2>1. "snapshot" \in studio[u]
    BY <1>5 DEF WorkerRestores, WorkerGoesOn, Stored, Answered
  <2> QED BY <1>5, <1>b, <2>1, WorkerGoesOnStored DEF WorkerRestores
<1>6. CASE WorkerRestored(u)
  <2>1. "snapshot" \in studio[u] /\ "dataset" \in studio[u]
    BY <1>6 DEF WorkerRestored, Stored, Answered
  <2> QED BY <1>6, <2>1, WorkerUpdatesAnswered DEF WorkerRestored
<1>7. CASE WorkerUnrestored(u)
  BY <1>7, WorkerUpdatesAnswered DEF WorkerUnrestored
<1>8. CASE WorkerCompleted(u)
  <2> DEFINE st == StatusOf(u, task[u])
             before == [job EXCEPT ![u]["worker"] = NoJob]
             next == IF file[PathOf(u)] # NoFile THEN "deleting" ELSE "ended"
  <2>1. Vouched(u, task[u])
    BY <1>8 DEF WorkerCompleted, WorkerGoesOn, TypeInv, Present, Stored, CompletedMeansStored
  <2>2. st.id = u /\ Vouched(u, st)
    BY <2>1 DEF StatusOf, Vouched
  <2>3. Queued(st).status = st
    BY DEF Queued
  <2>4. /\ before \in [Uploads -> [Roles -> Job \cup {NoJob}]]
        /\ "remove" \in Roles /\ before[u]["remove"] = job[u]["remove"]
        /\ \A v \in Uploads, q \in Roles : before[v][q] # NoJob => before[v][q] = job[v][q]
    BY DEF TypeInv, TypeOK, Roles
  <2>5. /\ WorkerGoesOn(u, "wCompleted", next, "completed")
        /\ job' = [before EXCEPT ![u]["remove"] =
                     IF file[PathOf(u)] # NoFile THEN Queued(st) ELSE @]
    BY <1>8, <2>4 DEF WorkerCompleted
  <2>6. next \in {"deleting", "ended"}
    OBVIOUS
  <2> HIDE DEF st, before, next
  <2>7. \A v \in Uploads, q \in Roles : job'[v][q] # NoJob =>
           (job'[v][q] = job[v][q] /\ job[v][q] # NoJob) \/ job'[v][q] = Queued(st)
    <3>1. CASE file[PathOf(u)] # NoFile
      BY <2>4, <2>5, <3>1
    <3>2. CASE file[PathOf(u)] = NoFile
      BY <2>4, <2>5, <3>2
    <3> QED BY <3>1, <3>2
  <2>8. \A v \in Uploads, q \in Roles : job'[v][q] # NoJob =>
           Vouched(job'[v][q].status.id, job'[v][q].status)
    BY <2>2, <2>3, <2>7 DEF Stored, WritesVouched
  <2> QED BY <2>5, <2>6, <2>8, WorkerGoesOnStored
<1>9. CASE WorkerRemoved(u) \/ WorkerGivesUp(u)
  <2>1. /\ UNCHANGED <<task, file, studio, req>>
        /\ worker' = [worker EXCEPT ![u] = "ended"]
    BY <1>9 DEF WorkerRemoved, WorkerGivesUp, disk
  <2>2. \A v \in Uploads, q \in Roles : job'[v][q] # NoJob => job'[v][q] = job[v][q]
    <3>1. CASE WorkerRemoved(u)
      BY <3>1 DEF WorkerRemoved, TypeInv, TypeOK
    <3>2. CASE WorkerGivesUp(u)
      BY <3>2, <1>b DEF WorkerGivesUp
    <3> QED BY <1>9, <3>1, <3>2
  <2>3. Answered'
    BY <2>1 DEF Stored, Answered, TypeInv, TypeOK
  <2> QED BY <2>1, <2>2, <2>3, FewerWrites DEF Stored
<1>10. CASE WorkerFailed(u)
  BY <1>10, <1>b, WorkerGoesOnStored DEF WorkerFailed
<1>11. CASE AbortLands(u)
  BY <1>11 DEF AbortLands, disk, Stored, Answered, WritesVouched, CompletedMeansStored,
               Vouched, Known, TypeInv, TypeOK
<1> QED
  BY <1>1, <1>2, <1>3, <1>4, <1>5, <1>6, <1>7, <1>8, <1>9, <1>10, <1>11 DEF WorkerStep

\* Studio's answers come after Studio has stored what they are about.
LEMMA StoredStudio ==
    ASSUME TypeInv, Stored, NEW u \in Uploads, StudioProgress(u) \/ StudioReply(u)
    PROVE  Stored'
<1>1. /\ UNCHANGED <<task, job, file, req>>
      /\ \A v \in Uploads : studio[v] \subseteq studio'[v]
  <2> USE DEF StudioStep, TypeInv, TypeOK
  <2>1. CASE StudioProgress(u)
    BY <2>1 DEF StudioProgress
  <2>2. CASE \E what \in {"snapshot", "dataset"} : StudioStores(u, what)
    BY <2>2 DEF StudioStores
  <2>3. ASSUME NEW from, NEW to, StudioAnswers(u, from, to)
        PROVE  UNCHANGED <<task, job, file, req, studio>>
    BY <2>3 DEF StudioAnswers
  <2> QED
    BY <2>1, <2>2, <2>3
       DEF StudioReply, SnapshotCreated, SnapshotRefused, DatasetRestored, RestoreFailed
<1>2. WritesVouched' /\ CompletedMeansStored'
  BY <1>1 DEF Stored, WritesVouched, CompletedMeansStored, Vouched, Known, TypeInv, TypeOK, Job, Task, Status
<1>3. Answered'
  <2> USE DEF Stored, Answered, StudioStep, TypeInv, TypeOK
  <2>1. CASE StudioProgress(u)
    BY <2>1 DEF StudioProgress
  <2>2. CASE \E what \in {"snapshot", "dataset"} : StudioStores(u, what)
    BY <2>2 DEF StudioStores
  <2>3. CASE SnapshotCreated(u)
    BY <2>3 DEF SnapshotCreated, StudioAnswers
  <2>4. CASE SnapshotRefused(u)
    BY <2>4 DEF SnapshotRefused, StudioAnswers
  <2>5. CASE DatasetRestored(u)
    BY <2>5 DEF DatasetRestored, StudioAnswers
  <2>6. CASE RestoreFailed(u)
    BY <2>6 DEF RestoreFailed, StudioAnswers
  <2> QED BY <2>1, <2>2, <2>3, <2>4, <2>5, <2>6 DEF StudioReply
<1> QED BY <1>2, <1>3 DEF Stored

LEMMA StoredProg ==
    ASSUME TypeInv, Stored, NEW u \in Uploads, ProgStep(u)
    PROVE  Stored'
<1>1. CASE ProgReceive(u)
  <2>1. /\ UpdateTaskState(u, "progress", "uploading", FALSE, FALSE, "none")
        /\ UNCHANGED <<worker, file, studio, req>>
    BY <1>1 DEF ProgReceive, disk
  <2>2. "progress" \in Roles /\ "uploading" \in States /\ "none" \in Errors
    BY DEF Roles, States, ActiveStates, Errors
  <2>3. WritesVouched' /\ CompletedMeansStored'
    BY <2>1, <2>2, UpdateVouched
  <2> QED BY <2>1, <2>3 DEF Stored, Answered
<1>2. CASE ProgWritten(u)
  <2>1. /\ UNCHANGED <<task, worker, file, studio, req>>
        /\ \A v \in Uploads, q \in Roles : job'[v][q] # NoJob => job'[v][q] = job[v][q]
    BY <1>2 DEF ProgWritten, disk, TypeInv, TypeOK
  <2>2. WritesVouched' /\ CompletedMeansStored'
    BY <2>1, FewerWrites
  <2> QED BY <2>1, <2>2 DEF Stored, Answered
<1>3. CASE ProgEnds(u)
  BY <1>3 DEF ProgEnds, disk, Stored, Answered, WritesVouched, CompletedMeansStored, Vouched, Known
<1> QED BY <1>1, <1>2, <1>3 DEF ProgStep

\* Blocking jobs copy what was vouched for, or leave something unreadable.
LEMMA StoredIo ==
    ASSUME TypeInv, Stored, NEW u \in Uploads,
           IoProgress(u) \/ \E r \in Roles : IoFails(u, r)
    PROVE  Stored'
<1>0. PathOf(u) \in Paths
  BY DEF PathOf, TypeInv, TypeOK
<1>1. Answered' /\ UNCHANGED <<task, studio, req>>
  BY DEF IoProgress, IoFails, WriteOpens, WriteLands, UnlinkedLands, RemoveLands, IoStep,
         Stored, Answered
<1>2. ASSUME \A v \in Uploads, q \in Roles : job'[v][q] # NoJob =>
                job[v][q] # NoJob /\ job'[v][q].status = job[v][q].status
      PROVE  WritesVouched'
  <2>1. ASSUME NEW v \in Uploads, NEW q \in Roles, job'[v][q] # NoJob
        PROVE  Vouched(job[v][q].status.id, job[v][q].status)'
    <3>1. job'[v][q].status = job[v][q].status
      BY <1>2, <2>1
    <3>2. Vouched(job[v][q].status.id, job[v][q].status)
      BY <1>2, <2>1 DEF Stored, WritesVouched
    <3> QED BY <1>1, <3>1, <3>2 DEF Vouched
  <2> QED BY <2>1 DEF WritesVouched
<1>3. ASSUME NEW c, file' = [file EXCEPT ![PathOf(u)] = c],
             c \in Status => Vouched(c.id, c)
      PROVE  CompletedMeansStored'
  <2>1. \A v \in Uploads : Known(v)' => Vouched(v, task[v])'
    BY <1>1 DEF Stored, CompletedMeansStored, Vouched, Known
  <2>2. ASSUME NEW p \in Paths, file'[p] \in Status PROVE Vouched(file[p].id, file[p])'
    <3>1. CASE p = PathOf(u)
      BY <1>0, <1>1, <1>3, <2>2, <3>1 DEF Vouched, TypeInv, TypeOK
    <3>2. CASE p # PathOf(u)
      BY <1>1, <1>3, <2>2, <3>2 DEF Stored, CompletedMeansStored, Vouched, TypeInv, TypeOK
    <3> QED BY <3>1, <3>2
  <2> QED BY <2>1, <2>2 DEF CompletedMeansStored
<1>4. ASSUME UNCHANGED file PROVE CompletedMeansStored'
  BY <1>1, <1>4 DEF Stored, CompletedMeansStored, Vouched, Known
<1>5. ASSUME NEW r \in Roles, NEW p \in Phases, job[u][r] # NoJob, ToPhase(u, r, p)
      PROVE  WritesVouched'
  <2>1. \A v \in Uploads, q \in Roles : job'[v][q] # NoJob =>
           job[v][q] # NoJob /\ job'[v][q].status = job[v][q].status
    BY <1>5, ToPhaseType DEF TypeInv
  <2> QED BY <1>2, <2>1
<1>6. ASSUME NEW r \in Roles, WriteOpens(u, r) PROVE Stored'
  <2>1. job[u][r] # NoJob /\ ToPhase(u, r, "open") /\ "open" \in Phases
    BY <1>6 DEF WriteOpens, InPhase, Phases
  <2>2. file' = [file EXCEPT ![PathOf(u)] = Empty] /\ Empty \notin Status
    BY <1>6, UploadAssumption DEF WriteOpens, Put
  <2> QED BY <1>1, <1>3, <1>5, <2>1, <2>2 DEF Stored
<1>7. ASSUME NEW r \in Roles, WriteLands(u, r) PROVE Stored'
  <2>1. job[u][r] # NoJob /\ ToPhase(u, r, "ok") /\ "ok" \in Phases
    BY <1>7 DEF WriteLands, InPhase, Phases
  <2>2. Vouched(job[u][r].status.id, job[u][r].status) /\ Garbled \notin Status
    BY <2>1, UploadAssumption DEF Stored, WritesVouched
  <2>3. PICK c \in {job[u][r].status, Garbled} : file' = [file EXCEPT ![PathOf(u)] = c]
    BY <1>7 DEF WriteLands, Put
  <2>4. c \in Status => Vouched(c.id, c)
    BY <2>2, <2>3
  <2> QED BY <1>1, <1>3, <1>5, <2>1, <2>3, <2>4 DEF Stored
<1>8. ASSUME NEW r \in Roles, UnlinkedLands(u, r) PROVE Stored'
  <2>1. job[u][r] # NoJob /\ ToPhase(u, r, "ok") /\ "ok" \in Phases /\ UNCHANGED file
    BY <1>8 DEF UnlinkedLands, InPhase, Phases
  <2> QED BY <1>1, <1>4, <1>5, <2>1 DEF Stored
<1>9. CASE RemoveLands(u)
  <2>1. ASSUME NEW v \in Uploads, NEW q \in Roles, NEW p \in Phases, job[v][q] # NoJob
        PROVE  [job[v][q] EXCEPT !.phase = p].status = job[v][q].status
    <3>1. job[v][q] \in Job
      BY <2>1 DEF TypeInv, TypeOK
    <3> QED BY <3>1 DEF Job
  <2>2. "ok" \in Phases /\ "unlinked" \in Phases /\ "remove" \in Roles
    BY DEF Phases, Roles
  <2>3. \A v \in Uploads, q \in Roles : job'[v][q] # NoJob =>
           job[v][q] # NoJob /\ job'[v][q].status = job[v][q].status
    BY <1>9, <2>1, <2>2 DEF RemoveLands, InPhase
  <2>4. file' = [file EXCEPT ![PathOf(u)] = NoFile] /\ NoFile \notin Status
    BY <1>9, UploadAssumption DEF RemoveLands, Put
  <2> QED BY <1>1, <1>2, <1>3, <2>3, <2>4 DEF Stored
<1>10. ASSUME NEW r \in Roles, IoFails(u, r) PROVE Stored'
  <2>1. job[u][r] # NoJob /\ ToPhase(u, r, "err") /\ "err" \in Phases /\ UNCHANGED file
    BY <1>10 DEF IoFails, InPhase, Phases
  <2> QED BY <1>1, <1>4, <1>5, <2>1 DEF Stored
<1> QED
  BY <1>6, <1>7, <1>8, <1>9, <1>10 DEF IoProgress

\* Recovery enters what a file says; a restart takes nothing from Studio.
LEMMA StoredServer ==
    ASSUME TypeInv, Stored, HeldVouched,
           \/ Boot \/ ScanFails \/ InitStep \/ Signal \/ ShutdownStep \/ Crash \/ PowerLoss \/ Idle
    PROVE  Stored'
<1> USE DEF disk, counters, ServerStep
<1>1. ASSUME UNCHANGED <<task, job, worker, file, studio, req>> PROVE Stored'
  BY <1>1 DEF Stored, Answered, WritesVouched, CompletedMeansStored, Vouched, Known
<1>2. CASE \/ Boot \/ ScanFails \/ InitDone \/ Signal \/ HttpStopped \/ ShutdownDone \/ Idle
  BY <1>1, <1>2 DEF Boot, ScanFails, InitDone, Signal, HttpStopped, ShutdownDone, Idle, vars
<1>3. ASSUME NEW u \in Uploads, ShutdownPasses(u) PROVE Stored'
  BY <1>1, <1>3 DEF ShutdownPasses
<1>4. ASSUME NEW u \in Uploads, InitWritten(u) \/ ShutdownWritten(u) PROVE Stored'
  <2>1. UNCHANGED <<task, worker, file, studio, req>>
    BY <1>4 DEF InitWritten, ShutdownWritten
  <2>2. \A v \in Uploads, q \in Roles : job'[v][q] # NoJob => job'[v][q] = job[v][q]
    <3>1. CASE InitWritten(u)
      BY <3>1 DEF InitWritten, TypeInv, TypeOK
    <3>2. CASE ShutdownWritten(u)
      BY <3>2 DEF ShutdownWritten, TypeInv, TypeOK
    <3> QED BY <1>4, <3>1, <3>2
  <2>3. WritesVouched' /\ CompletedMeansStored'
    BY <2>1, <2>2, FewerWrites
  <2> QED BY <2>1, <2>3 DEF Stored, Answered
<1>5. ASSUME NEW u \in Uploads, ShutdownCancel(u) PROVE Stored'
  <2>1. /\ Fail(u, "shutdown", "shutdown") /\ UNCHANGED <<file, studio, req>>
        /\ "shutdown" \in Errors /\ "shutdown" \in Roles
    BY <1>5 DEF ShutdownCancel, Errors, Roles
  <2> QED BY <2>1, FailVouched
<1>6. ASSUME Gone, UNCHANGED <<studio, req>>,
             \A p \in Paths : file'[p] \in Status => Vouched(file'[p].id, file'[p])
      PROVE  Stored'
  <2>1. Answered' /\ WritesVouched'
    BY <1>6 DEF Gone, Answered, WritesVouched
  <2>2. CompletedMeansStored'
    BY <1>6 DEF Gone, CompletedMeansStored, Vouched, Known
  <2> QED BY <2>1, <2>2 DEF Stored
<1>7. CASE Exit \/ Crash
  BY <1>6, <1>7 DEF Exit, Crash, Stored, CompletedMeansStored
<1>9. CASE PowerLoss
  BY <1>6, <1>9 DEF PowerLoss, HeldVouched
<1>8. ASSUME NEW p \in Paths, InitFile(p) PROVE Stored'
  <2>1. UNCHANGED <<worker, file, studio, req>>
    BY <1>8 DEF InitFile
  <2>2. CASE UNCHANGED <<task, job>>
    BY <1>1, <2>1, <2>2
  <2>3. CASE file[p] \in Status
    <3> DEFINE s == file[p]
               i == s.id
               t == [state |-> s.state, snapshot |-> s.snapshot,
                     dataset |-> s.dataset, error |-> s.error, handle |-> FALSE]
               f == Failed(s, "restart")
               st == StatusOf(i, f)
               w == Queued(st)
    <3>1. i \in Uploads /\ Vouched(i, s) /\ file[p] \notin {Empty, Garbled}
      BY <2>3, UploadAssumption DEF Status, Stored, CompletedMeansStored
    <3>2. Vouched(i, t) /\ Vouched(i, f) /\ Vouched(i, st)
      BY <3>1 DEF Vouched, Failed, StatusOf
    <3>3. st.id = i /\ w.status = st
      BY DEF StatusOf, Queued
    <3>4. \/ task' = [task EXCEPT ![i] = f] /\ job' = [job EXCEPT ![i]["init"] = w]
          \/ task' = [task EXCEPT ![i] = t] /\ job' = job
      BY <1>8, <3>1 DEF InitFile
    <3>5. Answered' /\ "init" \in Roles
      BY <2>1 DEF Stored, Answered, Roles
    <3> HIDE DEF s, i, t, f, st, w
    <3>6. CASE task' = [task EXCEPT ![i] = f] /\ job' = [job EXCEPT ![i]["init"] = w]
      <4>1. WritesVouched' /\ CompletedMeansStored'
        BY <2>1, <3>1, <3>2, <3>3, <3>5, <3>6, EntryVouched
      <4> QED BY <3>5, <4>1 DEF Stored
    <3>7. CASE task' = [task EXCEPT ![i] = t] /\ job' = job
      <4>1. WritesVouched' /\ CompletedMeansStored'
        BY <2>1, <3>1, <3>2, <3>7
           DEF Stored, WritesVouched, CompletedMeansStored, Vouched, Known, TypeInv, TypeOK
      <4> QED BY <3>5, <4>1 DEF Stored
    <3> QED BY <3>4, <3>6, <3>7
  <2> QED BY <1>8, <2>2, <2>3 DEF InitFile
<1> QED
  BY <1>2, <1>3, <1>4, <1>5, <1>7, <1>8, <1>9 DEF InitStep, ShutdownStep

LEMMA StoredNext == TypeInv /\ Stored /\ HeldVouched /\ [Next]_vars => Stored'
<1> SUFFICES ASSUME TypeInv, Stored, HeldVouched, [Next]_vars PROVE Stored'
  OBVIOUS
<1>1. CASE UNCHANGED vars
  BY <1>1 DEF vars, Stored, Answered, WritesVouched, CompletedMeansStored, Vouched, Known
<1>2. CASE Next
  BY <1>2, StoredServer, StoredHandlers, StoredWorker, StoredStudio, StoredProg, StoredIo
     DEF Next
<1> QED BY <1>1, <1>2

LEMMA HeldVouchedNext ==
    ASSUME TypeInv, TypeInv', HeldVouched, Stored', [Next]_vars
    PROVE  HeldVouched'
<1>1. ASSUME NEW p \in Paths, NEW c \in held'[p], c \in Status PROVE Vouched(c.id, c)'
  <2>1. c.id \in Uploads
    BY <1>1 DEF Status
  <2>2. CASE c \in held[p]
    BY <1>1, <2>1, <2>2, HeldGrows DEF HeldVouched, Vouched
  <2>3. CASE c = file'[p]
    BY <1>1, <2>3 DEF Stored, CompletedMeansStored, Vouched
  <2> QED BY <1>1, <2>2, <2>3, HeldGrows
<1> QED BY <1>1 DEF HeldVouched

\* However the tasks, the aborts, the blocking writes, the shutdowns and the
\* crashes interleave: what is shown or saved as completed is at Studio.
THEOREM CompletedIsStored == Spec => []CompletedMeansStored
<1>1. Init => TypeInv /\ Stored /\ HeldVouched
  BY TypeInvInit, StoredInit
<1>2. TypeInv /\ Stored /\ HeldVouched /\ [Next]_vars => (TypeInv /\ Stored /\ HeldVouched)'
  BY TypeInvNext, StoredNext, HeldVouchedNext
<1>3. TypeInv /\ Stored => CompletedMeansStored
  BY DEF Stored
<1> QED
  BY <1>1, <1>2, <1>3, PTL DEF Spec

-----------------------------------------------------------------------------
(* Stages.  A handler, its worker, the progress task and the writes of an  *)
(* upload come one after the other; Staged says how they do.               *)

\* A write under way is of the upload it was asked for, and a status file is at
\* the recording of the upload it names; both were begun by a request.
WritesOwned ==
    \A u \in Uploads, r \in Roles :
        job[u][r] # NoJob => job[u][r].status.id = u /\ start[u] # "none"
FilesOwned ==
    \A p \in Paths :
        file[p] \in Status => PathOf(file[p].id) = p /\ start[file[p].id] # "none"
Owned == WritesOwned /\ FilesOwned

\* What is known of an upload by how far its handler, its worker and its progress
\* task are: the entry comes with the worker, and only a worker that has waited for
\* the progress task completes the upload.
Stage(u) ==
    /\ start[u] \in {"none", "writing"} => ~Known(u) /\ worker[u] = "none"
    /\ start[u] \in {"writing", "storing"} => server \in {"up", "draining"}
    /\ worker[u] \in {"none", "starting", "wUploading"} => prog[u] = "none"
    /\ worker[u] \in {"wProcessing", "restoring", "restored", "unrestored", "wCompleted", "deleting"}
          => prog[u] = "done"
    /\ Known(u) /\ task[u].state = "completed" =>
          worker[u] \in {"none", "wCompleted", "deleting", "ended"} /\ prog[u] \in {"none", "done"}
    /\ told[u] = "completed" => worker[u] \in {"deleting", "ended"} /\ prog[u] = "done"
    /\ aborted[u] => worker[u] # "none"
    /\ server \in {"down", "booting"} => worker[u] = "none"
    /\ server = "down" => ~Known(u)
Staged == \A u \in Uploads : Stage(u)

\* Recovery reads a status file before anything of its recording is in the table.
Unread == \A u \in Uploads : server = "booting" /\ PathOf(u) \in toScan => ~Known(u)

\* The shutdown has still to look at every upload that is active.
Visited == \A u \in Uploads : server = "cancelling" /\ Active(u) => u \in toVisit

Stages == Owned /\ Staged /\ Unread /\ Visited

\* What a power loss may leave at a recording is of an upload of that recording.
HeldOwned ==
    \A p \in Paths : \A c \in held[p] :
        c \in Status => PathOf(c.id) = p /\ start[c.id] # "none"

StagesInv == Stages /\ HeldOwned

\* What update_task_state makes of the table and of the writes.
LEMMA UpdatesEntry ==
    ASSUME TypeOK, NEW u \in Uploads, NEW r \in Roles, NEW s \in States,
           NEW snap \in BOOLEAN, NEW ds \in BOOLEAN, NEW err \in Errors,
           UpdateTaskState(u, r, s, snap, ds, err)
    PROVE  /\ server # "cancelling" /\ Known(u) /\ Known(u)' /\ task'[u].state = s
           /\ task'[u].error = (IF err = "none" THEN task[u].error ELSE err)
           /\ job'[u][r] # NoJob /\ job'[u][r].phase = "queued" /\ job'[u][r].status.id = u
           /\ job'[u][r].status.state = task'[u].state
           /\ \A q \in Roles \ {r} : job'[u][q] = job[u][q]
           /\ \A v \in Uploads \ {u} : task'[v] = task[v] /\ job'[v] = job[v]
<1> DEFINE t == [state |-> s,
                 snapshot |-> snap \/ task[u].snapshot,
                 dataset |-> ds \/ task[u].dataset,
                 error |-> IF err = "none" THEN task[u].error ELSE err,
                 handle |-> task[u].handle]
           j == Queued(StatusOf(u, t))
<1>1. task[u] \in Task
  BY DEF UpdateTaskState, Known, TypeOK
<1>2. t \in Task /\ t.state = s /\ t.error = (IF err = "none" THEN task[u].error ELSE err)
  BY <1>1 DEF Task
<1>3. j.phase = "queued" /\ j.status = StatusOf(u, t)
  BY DEF Queued
<1>4. j.status.id = u /\ j.status.state = t.state /\ j \in Job
  BY <1>2, <1>3, StatusOfType DEF Queued, Job, Phases, StatusOf
<1>5. t # NoTask /\ j # NoJob
  BY <1>2, <1>4, UploadAssumption
<1>6. task' = [task EXCEPT ![u] = t] /\ job' = [job EXCEPT ![u][r] = j]
      /\ server # "cancelling" /\ Known(u)
  BY DEF UpdateTaskState, LockFree
<1> HIDE DEF t, j
<1>7. task'[u] = t /\ job'[u][r] = j
  BY <1>6 DEF TypeOK
<1>8. /\ \A q \in Roles \ {r} : job'[u][q] = job[u][q]
      /\ \A v \in Uploads \ {u} : task'[v] = task[v] /\ job'[v] = job[v]
  BY <1>6 DEF TypeOK
<1> QED
  BY <1>2, <1>3, <1>4, <1>5, <1>6, <1>7, <1>8 DEF Known

\* The same of a cancellation and a shutdown.
LEMMA FailsEntry ==
    ASSUME TypeOK, NEW u \in Uploads, NEW r \in Roles, NEW why \in Errors,
           Known(u), Fail(u, why, r)
    PROVE  /\ Known(u)' /\ task'[u].state = "failed" /\ task'[u].error = why
           /\ job'[u][r] # NoJob /\ job'[u][r].phase = "queued" /\ job'[u][r].status.id = u
           /\ job'[u][r].status.state = task'[u].state
           /\ \A q \in Roles \ {r} : job'[u][q] = job[u][q]
           /\ \A v \in Uploads \ {u} : task'[v] = task[v] /\ job'[v] = job[v]
           /\ worker'[u] = worker[u] \/ worker'[u] = "ended"
           /\ aborted'[u] = aborted[u] \/ worker[u] \in Runnable
           /\ \A v \in Uploads \ {u} : worker'[v] = worker[v] /\ aborted'[v] = aborted[v]
<1> DEFINE t == Failed(task[u], why)
           j == Queued(StatusOf(u, t))
<1>1. task[u] \in Task
  BY DEF Known, TypeOK
<1>2. t \in Task /\ t.state = "failed" /\ t.error = why
  BY <1>1 DEF Task, Failed, States
<1>3. j.phase = "queued" /\ j.status = StatusOf(u, t)
  BY DEF Queued
<1>4. j.status.id = u /\ j.status.state = t.state /\ j \in Job
  BY <1>2, <1>3, StatusOfType DEF Queued, Job, Phases, StatusOf
<1>5. t # NoTask /\ j # NoJob
  BY <1>2, <1>4, UploadAssumption
<1>6. task' = [task EXCEPT ![u] = t] /\ job' = [job EXCEPT ![u][r] = j]
  BY DEF Fail
<1> HIDE DEF t, j
<1>7. task'[u] = t /\ job'[u][r] = j
  BY <1>6 DEF TypeOK
<1>8. /\ \A q \in Roles \ {r} : job'[u][q] = job[u][q]
      /\ \A v \in Uploads \ {u} : task'[v] = task[v] /\ job'[v] = job[v]
  BY <1>6 DEF TypeOK
<1>9. /\ worker'[u] = worker[u] \/ worker'[u] = "ended"
      /\ aborted'[u] = aborted[u] \/ worker[u] \in Runnable
      /\ \A v \in Uploads \ {u} : worker'[v] = worker[v] /\ aborted'[v] = aborted[v]
  <2>1. CASE task[u].handle
    BY <2>1 DEF Fail, AbortIfHandle, Abort, CanRun, TypeOK
  <2>2. CASE ~task[u].handle
    BY <2>2 DEF Fail, AbortIfHandle
  <2> QED BY <2>1, <2>2
<1> QED
  BY <1>2, <1>3, <1>4, <1>5, <1>7, <1>8, <1>9 DEF Known

\* A change of phase leaves the other writes alone.
LEMMA ToPhaseOthers ==
    ASSUME TypeOK, NEW u \in Uploads, NEW r \in Roles, NEW p \in Phases,
           job[u][r] # NoJob, ToPhase(u, r, p)
    PROVE  /\ job'[u][r] # NoJob /\ job'[u][r].phase = p
           /\ job'[u][r].status = job[u][r].status
           /\ \A q \in Roles \ {r} : job'[u][q] = job[u][q]
           /\ \A v \in Uploads \ {u} : job'[v] = job[v]
<1>1. job[u][r] \in Job
  BY DEF TypeOK
<1> DEFINE j == [job[u][r] EXCEPT !.phase = p]
<1>2. j \in Job /\ j.status = job[u][r].status /\ j.phase = p
  BY <1>1 DEF Job
<1>3. job' = [job EXCEPT ![u][r] = j] /\ j # NoJob
  BY <1>2, UploadAssumption DEF ToPhase
<1> HIDE DEF j
<1>4. job'[u][r] = j
  BY <1>3 DEF TypeOK
<1>5. /\ \A q \in Roles \ {r} : job'[u][q] = job[u][q]
      /\ \A v \in Uploads \ {u} : job'[v] = job[v]
  BY <1>3 DEF TypeOK
<1> QED
  BY <1>2, <1>3, <1>4, <1>5

\* The steps that follow one upload.
UploadStep(u) ==
    \/ StartUpload(u) \/ StartStep(u) \/ StartDropped(u)
    \/ CancelUpload(u) \/ CancelReply(u)
    \/ WorkerStep(u) \/ StudioProgress(u) \/ StudioReply(u) \/ ProgStep(u)
    \/ IoProgress(u) \/ \E r \in Roles : IoFails(u, r)

\* What a step leaves of an upload, but for its writes.
Kept(v) ==
    /\ task'[v] = task[v] /\ start'[v] = start[v] /\ worker'[v] = worker[v]
    /\ aborted'[v] = aborted[v] /\ prog'[v] = prog[v] /\ told'[v] = told[v]
ServerKept == UNCHANGED <<server, toScan, toVisit, req>>

\* Uploads meet in the lock and in their files only.
LEMMA OthersKept ==
    ASSUME TypeInv, NEW u \in Uploads, UploadStep(u)
    PROVE  ServerKept /\ \A v \in Uploads \ {u} : Kept(v)
<1> USE DEF TypeInv, TypeOK, ServerKept, Kept, disk, counters
<1>1. CASE StartUpload(u) \/ StartStep(u) \/ StartDropped(u) \/ CancelReply(u)
  BY <1>1 DEF StartUpload, StartStep, StartWritten, StartStoreHandle, StartFailed,
              StartDropped, CancelReply
<1>2. CASE CancelUpload(u)
  <2>1. Known(u) /\ Fail(u, "cancelled", "cancel") /\ "cancelled" \in Errors /\ "cancel" \in Roles
    BY <1>2 DEF CancelUpload, Errors, Roles
  <2>2. /\ \A v \in Uploads \ {u} : task'[v] = task[v]
        /\ \A v \in Uploads \ {u} : worker'[v] = worker[v] /\ aborted'[v] = aborted[v]
    BY <2>1, FailsEntry
  <2> QED BY <1>2, <2>2 DEF CancelUpload
<1>3. ASSUME NEW next, NEW s, NEW snap, NEW ds, NEW err,
             WorkerUpdates(u, next, s, snap, ds, err)
      PROVE  ServerKept /\ \A v \in Uploads \ {u} : Kept(v)
  BY <1>3 DEF WorkerUpdates, UpdateTaskState
<1>4. ASSUME NEW from, NEW next, NEW s,
             WorkerGoesOn(u, from, next, s), \A v \in Uploads \ {u} : prog'[v] = prog[v]
      PROVE  ServerKept /\ \A v \in Uploads \ {u} : Kept(v)
  BY <1>4 DEF WorkerGoesOn
<1>5. CASE WorkerStep(u)
  <2>1. CASE WorkerBegin(u) \/ WorkerRefused(u) \/ WorkerSnapshot(u) \/ WorkerRestored(u)
             \/ WorkerUnrestored(u)
    BY <1>3, <2>1 DEF WorkerBegin, WorkerRefused, WorkerSnapshot, WorkerRestored, WorkerUnrestored
  <2>2. CASE WorkerCreates(u) \/ WorkerRestores(u) \/ WorkerCompleted(u) \/ WorkerFailed(u)
    BY <1>4, <2>2 DEF WorkerCreates, WorkerRestores, WorkerCompleted, WorkerFailed
  <2>3. CASE WorkerRemoved(u) \/ WorkerGivesUp(u) \/ AbortLands(u)
    BY <2>3 DEF WorkerRemoved, WorkerGivesUp, AbortLands
  <2> QED BY <1>5, <2>1, <2>2, <2>3 DEF WorkerStep
<1>6. CASE StudioProgress(u) \/ StudioReply(u)
  BY <1>6 DEF StudioProgress, StudioReply, StudioStores, SnapshotCreated, SnapshotRefused,
              DatasetRestored, RestoreFailed, StudioAnswers, StudioStep
<1>7. CASE ProgStep(u)
  BY <1>7 DEF ProgStep, ProgReceive, ProgWritten, ProgEnds, UpdateTaskState
<1>8. CASE IoProgress(u) \/ \E r \in Roles : IoFails(u, r)
  BY <1>8 DEF IoProgress, WriteOpens, WriteLands, UnlinkedLands, RemoveLands, IoFails, IoStep
<1> QED BY <1>1, <1>2, <1>5, <1>6, <1>7, <1>8 DEF UploadStep

LEMMA StageKept ==
    ASSUME NEW v \in Uploads, Stage(v), Kept(v), server' = server
    PROVE  Stage(v)'
BY DEF Stage, Kept, Known

\* How each step of an upload moves its stage.
LEMMA StageMoves ==
    ASSUME TypeInv, NEW u \in Uploads, Stage(u), UploadStep(u)
    PROVE  Stage(u)'
<1> USE DEF disk, counters
<1>s. server' = server /\ server \in Servers
  BY OthersKept DEF ServerKept, TypeInv, TypeOK
<1>t. /\ task \in [Uploads -> Task \cup {NoTask}] /\ start \in [Uploads -> StartPcs]
      /\ worker \in [Uploads -> WorkerPcs] /\ prog \in [Uploads -> ProgPcs]
      /\ told \in [Uploads -> States \cup {"none"}] /\ aborted \in [Uploads -> BOOLEAN]
      /\ worker[u] # "none" => Known(u)
  BY DEF TypeInv, TypeOK, Present
<1>1. CASE StartUpload(u)
  BY <1>1, <1>s, <1>t DEF StartUpload, Stage, Known
<1>2. CASE StartWritten(u)
  <2> DEFINE n == [state |-> "queued", snapshot |-> FALSE, dataset |-> FALSE,
                   error |-> "none", handle |-> FALSE]
  <2>1. /\ task'[u] = n /\ n.state = "queued"
        /\ start[u] = "writing" /\ start'[u] = "storing" /\ worker'[u] = "starting"
        /\ UNCHANGED <<server, aborted, prog, told>>
    BY <1>2, <1>t DEF StartWritten
  <2> HIDE DEF n
  <2> QED BY <1>s, <2>1 DEF Stage, Known
<1>3. CASE StartStoreHandle(u)
  <2>1. task[u] \in Task
    BY <1>3, <1>t DEF StartStoreHandle, TypeInv, Present, Known
  <2> DEFINE t == [task[u] EXCEPT !.handle = TRUE]
  <2>2. t.state = task[u].state
    BY <2>1 DEF Task
  <2>3. task'[u] = t /\ start'[u] = "gone" /\ UNCHANGED <<server, worker, aborted, prog, told>>
    BY <1>3, <1>t DEF StartStoreHandle
  <2>4. task[u] # NoTask
    BY <2>1, UploadAssumption
  <2> HIDE DEF t
  <2> QED BY <1>s, <2>2, <2>3, <2>4 DEF Stage, Known
<1>4. CASE StartFailed(u) \/ StartDropped(u)
  BY <1>4, <1>s, <1>t DEF StartFailed, StartDropped, Stage, Known
<1>5. CASE CancelReply(u) \/ IoProgress(u) \/ (\E r \in Roles : IoFails(u, r))
           \/ StudioProgress(u) \/ (\E what \in {"snapshot", "dataset"} : StudioStores(u, what))
  <2>1. Kept(u)
    BY <1>5 DEF Kept, CancelReply, IoProgress, WriteOpens, WriteLands, UnlinkedLands, RemoveLands,
                IoFails, IoStep, StudioProgress, StudioStores, StudioStep
  <2> QED BY <1>s, <2>1, StageKept
<1>6. CASE CancelUpload(u)
  <2>1. Known(u) /\ Fail(u, "cancelled", "cancel") /\ "cancelled" \in Errors /\ "cancel" \in Roles
    BY <1>6 DEF CancelUpload, Errors, Roles
  <2>2. /\ task'[u].state = "failed" /\ worker'[u] \in {worker[u], "ended"}
        /\ aborted'[u] = aborted[u] \/ worker[u] \in Runnable
        /\ UNCHANGED <<start, prog, told>>
    BY <1>6, <2>1, FailsEntry DEF CancelUpload, TypeInv
  <2> QED BY <1>6, <1>s, <1>t, <2>1, <2>2 DEF CancelUpload, Stage, Known, Runnable
<1>7. ASSUME NEW next \in Writing, NEW s \in States, NEW snap \in BOOLEAN, NEW ds \in BOOLEAN,
             NEW err \in Errors, worker[u] \in Runnable, WorkerUpdates(u, next, s, snap, ds, err),
             next = "wUploading" => prog[u] = "none",
             next \in {"wProcessing", "wCompleted"} => prog[u] = "done",
             s = "completed" => next = "wCompleted"
      PROVE  Stage(u)'
  <2>1. UpdateTaskState(u, "worker", s, snap, ds, err) /\ "worker" \in Roles
    BY <1>7 DEF WorkerUpdates, Roles
  <2>2. Known(u) /\ Known(u)' /\ task'[u].state = s
    BY <2>1, UpdatesEntry DEF TypeInv
  <2>3. worker'[u] \in {next, "ended"} /\ ~aborted'[u] /\ UNCHANGED <<start, prog, told>>
    BY <1>7, <1>t DEF WorkerUpdates
  <2> QED BY <1>7, <1>s, <1>t, <2>2, <2>3 DEF Stage, Runnable, Writing
<1>8. CASE WorkerBegin(u) \/ WorkerRefused(u) \/ WorkerSnapshot(u) \/ WorkerRestored(u)
           \/ WorkerUnrestored(u)
  <2>1. /\ worker[u] = "starting" => prog[u] = "none"
        /\ worker[u] \in {"restored", "unrestored"} => prog[u] = "done"
    BY DEF Stage
  <2> QED BY <1>7, <1>8, <2>1 DEF WorkerBegin, WorkerRefused, WorkerSnapshot, ProgressJoined,
             WorkerRestored, WorkerUnrestored, Writing, Runnable, States, ActiveStates, Errors
<1>9. CASE WorkerCreates(u) \/ WorkerRestores(u) \/ WorkerCompleted(u) \/ WorkerFailed(u)
  <2>1. task' = task /\ start' = start /\ aborted' = aborted
    BY <1>9 DEF WorkerCreates, WorkerRestores, WorkerCompleted, WorkerFailed, WorkerGoesOn
  <2>2. \/ /\ worker[u] = "wUploading" /\ worker'[u] = "creating" /\ told'[u] = "uploading"
           /\ prog'[u] = "recv"
        \/ /\ worker[u] = "wProcessing" /\ worker'[u] = "restoring" /\ told'[u] = "processing"
           /\ prog' = prog
        \/ /\ worker[u] = "wCompleted" /\ worker'[u] \in {"deleting", "ended"}
           /\ told'[u] = "completed" /\ prog' = prog
        \/ /\ worker[u] = "wFailed" /\ worker'[u] = "ended" /\ told'[u] = "failed" /\ prog' = prog
    BY <1>9, <1>t DEF WorkerCreates, WorkerRestores, WorkerCompleted, WorkerFailed, WorkerGoesOn
  <2> QED BY <1>s, <1>t, <2>1, <2>2 DEF Stage, Known
<1>10. CASE WorkerRemoved(u) \/ WorkerGivesUp(u)
  BY <1>10, <1>s, <1>t DEF WorkerRemoved, WorkerGivesUp, Writing, Stage, Known
<1>11. CASE AbortLands(u)
  <2>1. Known(u)
    BY <1>11 DEF AbortLands, TypeInv, Present
  <2> QED BY <1>11, <1>s, <1>t, <2>1 DEF AbortLands, Stage, Known
<1>12. CASE SnapshotCreated(u) \/ SnapshotRefused(u) \/ DatasetRestored(u) \/ RestoreFailed(u)
  BY <1>12, <1>s, <1>t DEF SnapshotCreated, SnapshotRefused, DatasetRestored, RestoreFailed,
                          StudioAnswers, StudioStep, Stage, Known
<1>13. CASE ProgReceive(u)
  <2>1. /\ UpdateTaskState(u, "progress", "uploading", FALSE, FALSE, "none")
        /\ "progress" \in Roles /\ "uploading" \in States /\ "none" \in Errors
    BY <1>13 DEF ProgReceive, Roles, States, ActiveStates, Errors
  <2> DEFINE no == FALSE
             r == "progress"
             s == "uploading"
             e == "none"
  <2>a. /\ UpdateTaskState(u, r, s, no, no, e) /\ TypeOK
        /\ r \in Roles /\ s \in States /\ no \in BOOLEAN /\ e \in Errors
    BY <2>1 DEF TypeInv
  <2> HIDE DEF no, r, e
  <2>2. Known(u) /\ Known(u)' /\ task'[u].state = "uploading"
    BY <2>a, UpdatesEntry
  <2>3. prog[u] = "recv" /\ prog'[u] = "writing" /\ UNCHANGED <<start, worker, aborted, told>>
    BY <1>13, <1>t DEF ProgReceive
  <2> QED BY <1>s, <1>t, <2>2, <2>3 DEF Stage, Known
<1>14. CASE ProgWritten(u) \/ ProgEnds(u)
  BY <1>14, <1>s, <1>t DEF ProgWritten, ProgEnds, Stage, Known
<1> QED
  BY <1>1, <1>2, <1>3, <1>4, <1>5, <1>6, <1>8, <1>9, <1>10, <1>11, <1>12, <1>13, <1>14
     DEF UploadStep, StartStep, WorkerStep, StudioReply, ProgStep

\* What a step of an upload does to the writes: it asks for one of its own, or all
\* writes that there are were there before, of the same status.
Asks(u, r) ==
    /\ job'[u][r] # NoJob /\ job'[u][r].phase = "queued" /\ job'[u][r].status.id = u
    /\ \A q \in Roles \ {r} : job'[u][q] # NoJob => job'[u][q] = job[u][q]
    /\ \A v \in Uploads \ {u} : job'[v] = job[v]
NoMoreWrites ==
    \A v \in Uploads, q \in Roles :
        job'[v][q] # NoJob => job[v][q] # NoJob /\ job'[v][q].status = job[v][q].status

LEMMA QueuedAsks ==
    ASSUME TypeOK, NEW u \in Uploads, NEW r \in Roles, NEW st \in Status, st.id = u,
           job' = [job EXCEPT ![u][r] = Queued(st)]
    PROVE  Asks(u, r)
<1> DEFINE j == Queued(st)
<1>1. j \in Job /\ j.phase = "queued" /\ j.status = st
  BY DEF Queued, Job, Phases
<1>2. j # NoJob
  BY <1>1, UploadAssumption
<1>3. job' = [job EXCEPT ![u][r] = j]
  OBVIOUS
<1> HIDE DEF j
<1> QED BY <1>1, <1>2, <1>3 DEF Asks, TypeOK

LEMMA WritesMove ==
    ASSUME TypeInv, NEW u \in Uploads, UploadStep(u)
    PROVE  \/ NoMoreWrites
           \/ \E r \in Roles :
                 /\ Asks(u, r) /\ (Known(u) \/ start'[u] # "none")
                 /\ \/ job'[u][r].status.state = "queued"
                    \/ Known(u)' /\ job'[u][r].status.state = task'[u].state
<1> USE DEF disk, counters
<1>t. job \in [Uploads -> [Roles -> Job \cup {NoJob}]] /\ TypeOK
  BY DEF TypeInv, TypeOK
<1>a. ASSUME NEW r \in Roles, NEW s \in States, NEW snap \in BOOLEAN, NEW ds \in BOOLEAN,
             NEW err \in Errors, UpdateTaskState(u, r, s, snap, ds, err)
      PROVE  Asks(u, r) /\ Known(u) /\ Known(u)' /\ job'[u][r].status.state = task'[u].state
  BY <1>a, <1>t, UpdatesEntry DEF Asks
<1>1. CASE StartUpload(u)
  <2> DEFINE q == [id |-> u, state |-> "queued", snapshot |-> FALSE,
                   dataset |-> FALSE, error |-> "none"]
             r == "start"
  <2>1. q \in Status /\ q.id = u
    BY DEF Status, States, ActiveStates, Errors
  <2>2. job' = [job EXCEPT ![u][r] = Queued(q)] /\ r \in Roles /\ start'[u] = "writing"
    BY <1>1 DEF StartUpload, Roles, TypeInv, TypeOK
  <2> HIDE DEF q, r
  <2>3. Asks(u, r)
    BY <1>t, <2>1, <2>2, QueuedAsks
  <2>4. job'[u][r].status = q
    BY <1>t, <2>2 DEF Queued
  <2>5. q.state = "queued"
    BY DEF q
  <2> QED BY <2>2, <2>3, <2>4, <2>5
<1>2. CASE StartWritten(u) \/ StartStoreHandle(u) \/ StartFailed(u) \/ StartDropped(u)
           \/ CancelReply(u) \/ WorkerCreates(u) \/ WorkerRestores(u) \/ WorkerFailed(u)
           \/ WorkerRemoved(u) \/ WorkerGivesUp(u) \/ AbortLands(u) \/ StudioProgress(u)
           \/ StudioReply(u) \/ ProgWritten(u) \/ ProgEnds(u)
  <2>1. \/ job' = job
        \/ \E r \in Roles : job' = [job EXCEPT ![u][r] = NoJob]
    BY <1>2 DEF StartWritten, StartStoreHandle, StartFailed, StartDropped, CancelReply,
          WorkerCreates, WorkerRestores, WorkerFailed, WorkerRemoved, WorkerGivesUp, AbortLands,
          WorkerGoesOn, StudioProgress, StudioReply, StudioStores, SnapshotCreated,
          SnapshotRefused, DatasetRestored, RestoreFailed, StudioAnswers, StudioStep,
          ProgWritten, ProgEnds, Roles
  <2> QED BY <1>t, <2>1 DEF NoMoreWrites
<1>3. CASE CancelUpload(u)
  <2>1. Known(u) /\ Fail(u, "cancelled", "cancel") /\ "cancelled" \in Errors /\ "cancel" \in Roles
    BY <1>3 DEF CancelUpload, Errors, Roles
  <2>2. Asks(u, "cancel") /\ Known(u)' /\ job'[u]["cancel"].status.state = task'[u].state
    BY <1>t, <2>1, FailsEntry DEF Asks
  <2> QED BY <2>1, <2>2
<1>4. CASE WorkerBegin(u) \/ WorkerRefused(u) \/ WorkerSnapshot(u) \/ WorkerRestored(u)
           \/ WorkerUnrestored(u)
  <2>1. \E s \in States, snap \in BOOLEAN, ds \in BOOLEAN, err \in Errors :
           UpdateTaskState(u, "worker", s, snap, ds, err)
    BY <1>4 DEF WorkerBegin, WorkerRefused, WorkerSnapshot, WorkerRestored, WorkerUnrestored,
                WorkerUpdates, States, ActiveStates, Errors
  <2>2. "worker" \in Roles
    BY DEF Roles
  <2> QED BY <1>a, <2>1, <2>2
<1>5. CASE ProgReceive(u)
  <2>1. \E s \in States, snap \in BOOLEAN, ds \in BOOLEAN, err \in Errors :
           UpdateTaskState(u, "progress", s, snap, ds, err)
    BY <1>5 DEF ProgReceive, States, ActiveStates, Errors
  <2>2. "progress" \in Roles
    BY DEF Roles
  <2> QED BY <1>a, <2>1, <2>2
<1>6. CASE WorkerCompleted(u)
  <2> DEFINE st == StatusOf(u, task[u])
             gone == [job EXCEPT ![u]["worker"] = NoJob]
  <2>1. Known(u) /\ task[u] \in Task
    BY <1>6 DEF WorkerCompleted, WorkerGoesOn, TypeInv, TypeOK, Present, Known
  <2>2. st \in Status /\ st.id = u /\ "remove" \in Roles /\ "worker" \in Roles
    BY <2>1, StatusOfType DEF Roles
  <2>3. CASE file[PathOf(u)] # NoFile
    <3> DEFINE j == Queued(st)
    <3>1. j \in Job /\ j.phase = "queued" /\ j.status = st
      BY <2>2 DEF Queued, Job, Phases
    <3>2. job' = [gone EXCEPT ![u]["remove"] = j] /\ j # NoJob
      BY <1>6, <2>3, <3>1, UploadAssumption DEF WorkerCompleted
    <3>3. gone \in [Uploads -> [Roles -> Job \cup {NoJob}]] /\ gone[u]["worker"] = NoJob
          /\ (\A q \in Roles \ {"worker"} : gone[u][q] = job[u][q])
          /\ (\A v \in Uploads \ {u} : gone[v] = job[v])
      BY <1>t, <2>2
    <3>5. st.state = task'[u].state /\ Known(u)'
      BY <1>6, <2>1 DEF WorkerCompleted, WorkerGoesOn, StatusOf, Known
    <3> HIDE DEF j, gone, st
    <3>4. Asks(u, "remove") /\ job'[u]["remove"].status = st
      BY <2>2, <3>1, <3>2, <3>3 DEF Asks
    <3> QED BY <2>1, <2>2, <3>4, <3>5
  <2>4. CASE file[PathOf(u)] = NoFile
    <3>1. job' = [gone EXCEPT ![u]["remove"] = gone[u]["remove"]]
      BY <1>6, <2>4 DEF WorkerCompleted
    <3>2. gone \in [Uploads -> [Roles -> Job \cup {NoJob}]]
      BY <1>t, <2>2
    <3>3. job' = gone
      BY <2>2, <3>1, <3>2
    <3> QED BY <1>t, <2>2, <3>3 DEF NoMoreWrites
  <2> QED BY <2>3, <2>4
<1>7. ASSUME NEW r \in Roles,
             WriteOpens(u, r) \/ WriteLands(u, r) \/ UnlinkedLands(u, r) \/ IoFails(u, r)
      PROVE  NoMoreWrites
  <2>1. job[u][r] # NoJob /\ \E p \in Phases : ToPhase(u, r, p)
    BY <1>7 DEF WriteOpens, WriteLands, UnlinkedLands, IoFails, InPhase, Phases
  <2> QED BY <1>t, <2>1, ToPhaseType DEF NoMoreWrites
<1>8. CASE RemoveLands(u)
  <2>1. ASSUME NEW v \in Uploads, NEW q \in Roles, job'[v][q] # NoJob
        PROVE  job[v][q] # NoJob /\ job'[v][q].status = job[v][q].status
    <3>1. "remove" \in Roles /\ job[u]["remove"] \in Job /\ job[v][q] \in Job \cup {NoJob}
      BY <1>8, <1>t DEF RemoveLands, InPhase, Roles
    <3>2. \/ job'[v][q] = job[v][q]
          \/ job[v][q] # NoJob /\ \E p \in Phases : job'[v][q] = [job[v][q] EXCEPT !.phase = p]
      BY <1>8, <3>1, UploadAssumption DEF RemoveLands, InPhase, Phases
    <3> QED BY <2>1, <3>1, <3>2, UploadAssumption DEF Job
  <2> QED BY <2>1 DEF NoMoreWrites
<1> QED
  BY <1>1, <1>2, <1>3, <1>4, <1>5, <1>6, <1>7, <1>8
     DEF UploadStep, StartStep, WorkerStep, StudioReply, ProgStep, IoProgress

\* A file is left alone, loses its status, or gets what a write of it lands.
LEMMA FilesMove ==
    ASSUME TypeInv, NEW u \in Uploads, UploadStep(u), NEW p \in Paths, file'[p] \in Status
    PROVE  \/ file'[p] = file[p]
           \/ p = PathOf(u) /\ \E r \in Roles : WriteLands(u, r) /\ file'[p] = job[u][r].status
<1>1. CASE file' = file
  BY <1>1
<1>2. CASE file' # file
  <2>1. (\E r \in Roles : WriteOpens(u, r) \/ WriteLands(u, r)) \/ RemoveLands(u)
    BY <1>2 DEF UploadStep, StartUpload, StartStep, StartWritten, StartStoreHandle, StartFailed,
          StartDropped, CancelUpload, CancelReply, WorkerStep, WorkerBegin, WorkerCreates,
          WorkerRefused, WorkerSnapshot, WorkerRestores, WorkerRestored, WorkerUnrestored,
          WorkerCompleted, WorkerFailed, WorkerRemoved, WorkerGivesUp, AbortLands, WorkerGoesOn,
          WorkerUpdates, StudioProgress, StudioReply, StudioStores, SnapshotCreated,
          SnapshotRefused, DatasetRestored, RestoreFailed, StudioAnswers, StudioStep,
          ProgStep, ProgReceive, ProgWritten, ProgEnds, IoProgress, UnlinkedLands, IoFails, disk
  <2>2. file \in [Paths -> Contents] /\ PathOf(u) \in Paths
    BY DEF TypeInv, TypeOK, PathOf
  <2>3. NoFile \notin Status /\ Empty \notin Status /\ Garbled \notin Status
    BY UploadAssumption
  <2>4. CASE RemoveLands(u) \/ \E r \in Roles : WriteOpens(u, r)
    BY <2>2, <2>3, <2>4 DEF RemoveLands, WriteOpens, Put
  <2>5. ASSUME NEW r \in Roles, WriteLands(u, r)
        PROVE  file'[p] = file[p] \/ (p = PathOf(u) /\ file'[p] = job[u][r].status)
    <3>1. PICK content \in {job[u][r].status, Garbled} : file' = [file EXCEPT ![PathOf(u)] = content]
      BY <2>5 DEF WriteLands, Put
    <3> QED BY <2>2, <2>3, <3>1
  <2> QED BY <2>1, <2>4, <2>5
<1> QED BY <1>1, <1>2

LEMMA StartStays ==
    ASSUME TypeInv, NEW u \in Uploads, UploadStep(u), NEW v \in Uploads, start[v] # "none"
    PROVE  start'[v] # "none"
<1>1. CASE v # u
  BY <1>1, OthersKept DEF Kept
<1>2. CASE v = u
  <2>1. start \in [Uploads -> StartPcs]
    BY DEF TypeInv, TypeOK
  <2>2. start' = start \/ start'[u] \in {"storing", "gone", "writing"}
    BY <2>1 DEF UploadStep, StartUpload, StartStep, StartWritten, StartStoreHandle, StartFailed,
          StartDropped, CancelUpload, CancelReply, WorkerStep, WorkerBegin, WorkerCreates,
          WorkerRefused, WorkerSnapshot, WorkerRestores, WorkerRestored, WorkerUnrestored,
          WorkerCompleted, WorkerFailed, WorkerRemoved, WorkerGivesUp, AbortLands, WorkerGoesOn,
          WorkerUpdates, StudioProgress, StudioReply, StudioStores, SnapshotCreated,
          SnapshotRefused, DatasetRestored, RestoreFailed, StudioAnswers, StudioStep,
          ProgStep, ProgReceive, ProgWritten, ProgEnds, IoProgress, WriteOpens, WriteLands,
          RemoveLands, UnlinkedLands, IoFails, IoStep
  <2> QED BY <1>2, <2>2
<1> QED BY <1>1, <1>2

\* Who changes the table.
LEMMA TableMoves ==
    ASSUME TypeInv, NEW u \in Uploads, UploadStep(u), task' # task
    PROVE  /\ server # "cancelling"
           /\ Known(u) \/ start[u] = "writing"
<1>1. \/ StartWritten(u) \/ StartStoreHandle(u) \/ CancelUpload(u) \/ WorkerBegin(u)
      \/ WorkerRefused(u) \/ WorkerSnapshot(u) \/ WorkerRestored(u) \/ WorkerUnrestored(u)
      \/ ProgReceive(u)
  BY DEF UploadStep, StartUpload, StartStep, StartFailed, StartDropped, CancelReply, WorkerStep,
         WorkerCreates, WorkerRestores, WorkerCompleted, WorkerFailed, WorkerRemoved,
         WorkerGivesUp, AbortLands, WorkerGoesOn, StudioProgress, StudioReply, StudioStores,
         SnapshotCreated, SnapshotRefused, DatasetRestored, RestoreFailed, StudioAnswers,
         StudioStep, ProgStep, ProgWritten, ProgEnds, IoProgress, WriteOpens, WriteLands,
         RemoveLands, UnlinkedLands, IoFails, IoStep
<1>2. CASE StartWritten(u) \/ StartStoreHandle(u)
  BY <1>2 DEF StartWritten, StartStoreHandle, LockFree, TypeInv, Present
<1>3. CASE CancelUpload(u)
  BY <1>3 DEF CancelUpload
<1>4. CASE \/ WorkerBegin(u) \/ WorkerRefused(u) \/ WorkerSnapshot(u) \/ WorkerRestored(u)
           \/ WorkerUnrestored(u) \/ ProgReceive(u)
  BY <1>4 DEF WorkerBegin, WorkerRefused, WorkerSnapshot, WorkerRestored, WorkerUnrestored,
              ProgReceive, WorkerUpdates, UpdateTaskState, LockFree
<1> QED BY <1>1, <1>2, <1>3, <1>4

LEMMA StagesUpload ==
    ASSUME TypeInv, StagesInv, NEW u \in Uploads, UploadStep(u)
    PROVE  Stages'
<1>1. ServerKept /\ \A v \in Uploads \ {u} : Kept(v)
  BY OthersKept
<1>2. Staged'
  BY <1>1, StageKept, StageMoves DEF StagesInv, Stages, Staged, ServerKept
<1>3. WritesOwned'
  <2> SUFFICES ASSUME NEW v \in Uploads, NEW q \in Roles, job'[v][q] # NoJob
               PROVE  job'[v][q].status.id = v /\ start'[v] # "none"
    BY DEF WritesOwned
  <2>1. job[v][q] # NoJob => job[v][q].status.id = v /\ start[v] # "none"
    BY DEF StagesInv, Stages, Owned, WritesOwned
  <2>2. start[v] # "none" => start'[v] # "none"
    BY StartStays
  <2>3. CASE NoMoreWrites
    BY <2>1, <2>2, <2>3 DEF NoMoreWrites
  <2>4. ASSUME NEW r \in Roles, Asks(u, r), Known(u) \/ start'[u] # "none"
        PROVE  job'[v][q].status.id = v /\ start'[v] # "none"
    <3>1. Known(u) => start[u] # "none"
      BY DEF StagesInv, Stages, Staged, Stage
    <3>2. start'[u] # "none"
      BY <2>4, <3>1, StartStays
    <3>3. CASE v = u /\ q = r
      BY <2>4, <3>2, <3>3 DEF Asks
    <3>4. CASE ~(v = u /\ q = r)
      <4>1. job'[v][q] = job[v][q]
        BY <2>4, <3>4 DEF Asks
      <4> QED BY <2>1, <2>2, <4>1
    <3> QED BY <3>3, <3>4
  <2> QED BY <2>3, <2>4, WritesMove
<1>4. FilesOwned'
  <2> SUFFICES ASSUME NEW p \in Paths, file'[p] \in Status
               PROVE  req'[file'[p].id].path = p /\ start'[file'[p].id] # "none"
    BY DEF FilesOwned, PathOf
  <2>1. file'[p].id \in Uploads /\ req' = req
    BY <1>1 DEF Status, ServerKept
  <2>2. CASE file'[p] = file[p]
    <3>1. req[file[p].id].path = p /\ start[file[p].id] # "none"
      BY <2>2 DEF StagesInv, Stages, Owned, FilesOwned, PathOf
    <3> QED BY <2>1, <2>2, <3>1, StartStays
  <2>3. ASSUME NEW r \in Roles, p = PathOf(u), WriteLands(u, r), file'[p] = job[u][r].status
        PROVE  req'[file'[p].id].path = p /\ start'[file'[p].id] # "none"
    <3>1. job[u][r].status.id = u /\ start[u] # "none"
      BY <2>3 DEF StagesInv, Stages, Owned, WritesOwned, WriteLands, InPhase
    <3> QED BY <2>1, <2>3, <3>1, StartStays DEF PathOf
  <2> QED BY <2>2, <2>3, FilesMove
<1>5. Unread'
  <2> SUFFICES ASSUME NEW v \in Uploads, server = "booting", PathOf(v) \in toScan
               PROVE  ~Known(v)'
    BY <1>1 DEF Unread, ServerKept, PathOf
  <2>1. ~Known(v)
    BY DEF StagesInv, Stages, Unread
  <2>2. CASE v # u
    BY <1>1, <2>1, <2>2 DEF Kept, Known
  <2>3. CASE v = u
    <3>1. start[u] # "writing"
      BY DEF StagesInv, Stages, Staged, Stage
    <3> QED BY <2>1, <2>3, <3>1, TableMoves DEF Known
  <2> QED BY <2>2, <2>3
<1>6. Visited'
  <2>1. server' = server /\ toVisit' = toVisit
    BY <1>1 DEF ServerKept
  <2>2. server = "cancelling" => task' = task
    BY TableMoves
  <2> QED BY <2>1, <2>2 DEF StagesInv, Stages, Visited, Active, Known
<1> QED BY <1>2, <1>3, <1>4, <1>5, <1>6 DEF StagesInv, Stages, Owned

\* What recovery enters: an entry that is not active, of an upload of a former
\* process, and the write of a failed one.
LEMMA InitFileEnters ==
    ASSUME TypeInv, StagesInv, NEW p \in Paths, InitFile(p)
    PROVE  \/ file[p] \in {Empty, Garbled} /\ UNCHANGED <<task, job>>
           \/ \E i \in Uploads :
                 /\ file[p] \in Status /\ file[p].id = i /\ PathOf(i) = p
                 /\ start[i] = "gone" /\ worker[i] = "none" /\ ~Known(i)
                 /\ Known(i)' /\ ~Active(i)' /\ task'[i] \in Task
                 /\ \A v \in Uploads \ {i} : task'[v] = task[v]
                 /\ \/ job' = job /\ StatusOf(i, task'[i]) = file[p]
                    \/ Asks(i, "init") /\ job'[i]["init"].status = StatusOf(i, task'[i])
<1>1. CASE file[p] \in {Empty, Garbled} /\ UNCHANGED <<task, job>>
  BY <1>1
<1>2. CASE file[p] \in Status
  <2> DEFINE s == file[p]
             t == [state |-> s.state, snapshot |-> s.snapshot,
                   dataset |-> s.dataset, error |-> s.error, handle |-> FALSE]
             f == Failed(s, "restart")
  <2>0. s.id \in Uploads
    BY <1>2 DEF Status
  <2>1. PICK i \in Uploads : i = s.id
    BY <2>0
  <2> DEFINE st == StatusOf(i, f)
  <2>14. file[p] \notin {Empty, Garbled}
    BY <1>2, UploadAssumption
  <2>2. t \in Task /\ f \in Task /\ t.state = s.state /\ f.state = "failed"
    BY <1>2 DEF Status, Task, Failed, States, Errors
  <2>3. t # NoTask /\ f # NoTask
    BY <2>2, UploadAssumption
  <2>4. PathOf(i) = p /\ start[i] # "none"
    BY <1>2, <2>1 DEF StagesInv, Stages, Owned, FilesOwned
  <2>5. server = "booting" /\ p \in toScan
    BY DEF InitFile
  <2>6. start[i] = "gone" /\ worker[i] = "none" /\ ~Known(i)
    BY <2>1, <2>4, <2>5 DEF StagesInv, Stages, Staged, Stage, Unread, TypeInv, TypeOK, StartPcs
  <2>7. \/ /\ s.state \in ActiveStates
           /\ task' = [task EXCEPT ![i] = f] /\ job' = [job EXCEPT ![i]["init"] = Queued(st)]
        \/ /\ s.state \notin ActiveStates
           /\ task' = [task EXCEPT ![i] = t] /\ job' = job
    BY <2>1, <2>14 DEF InitFile, NeedsRecovery
  <2>8. StatusOf(i, t) = s
    BY <1>2, <2>1 DEF StatusOf, Status
  <2>9. st \in Status /\ st.id = i /\ "init" \in Roles
    BY <2>1, <2>2, StatusOfType DEF Roles
  <2>10. task \in [Uploads -> Task \cup {NoTask}]
         /\ job \in [Uploads -> [Roles -> Job \cup {NoJob}]] /\ TypeOK
    BY DEF TypeInv, TypeOK
  <2>13. "failed" \notin ActiveStates
    BY DEF ActiveStates
  <2>11. CASE s.state \in ActiveStates
    <3>1. task' = [task EXCEPT ![i] = f] /\ job' = [job EXCEPT ![i]["init"] = Queued(st)]
      BY <2>7, <2>11
    <3>2. task'[i] = f /\ \A v \in Uploads \ {i} : task'[v] = task[v]
      BY <2>1, <2>10, <3>1
    <3>3. job'[i]["init"] = Queued(st)
      BY <2>1, <2>9, <2>10, <3>1
    <3>4. job'[i]["init"].status = st
      BY <3>3 DEF Queued
    <3> HIDE DEF st
    <3>5. Asks(i, "init")
      BY <2>1, <2>9, <2>10, <3>1, QueuedAsks
    <3>6. Known(i)' /\ ~Active(i)' /\ task'[i] \in Task
      <4> HIDE DEF f
      <4> QED BY <2>2, <2>3, <2>13, <3>2 DEF Known, Active
    <3> QED BY <1>2, <2>1, <2>4, <2>6, <3>2, <3>4, <3>5, <3>6 DEF st
  <2>12. CASE s.state \notin ActiveStates
    <3>1. task' = [task EXCEPT ![i] = t] /\ job' = job
      BY <2>7, <2>12
    <3>2. task'[i] = t /\ \A v \in Uploads \ {i} : task'[v] = task[v]
      BY <2>1, <2>10, <3>1
    <3>3. Known(i)' /\ ~Active(i)' /\ task'[i] \in Task
      <4> HIDE DEF t
      <4> QED BY <2>2, <2>3, <2>12, <3>2 DEF Known, Active
    <3> QED BY <1>2, <2>1, <2>4, <2>6, <2>8, <3>1, <3>2, <3>3
  <2> QED BY <2>11, <2>12
<1> QED BY <1>1, <1>2 DEF InitFile

LEMMA StagesInit == Init => StagesInv
BY UploadAssumption
   DEF Init, StagesInv, Stages, HeldOwned, Owned, WritesOwned, FilesOwned, Staged, Stage, Unread, Visited, Known

\* A process that begins or ends, and leaves the files to the next one.
LEMMA StagesGone ==
    ASSUME TypeInv, StagesInv, Gone, UNCHANGED req,
           \A p \in Paths : file'[p] \in held[p] \cup {file[p]}
    PROVE  Stages'
<1>1. /\ server' = "down" /\ toScan' = {} /\ req' = req
      /\ \A u \in Uploads :
            /\ task'[u] = NoTask /\ worker'[u] = "none" /\ prog'[u] = "none" /\ told'[u] = "none"
            /\ ~aborted'[u] /\ start'[u] \notin {"writing", "storing"}
            /\ start[u] # "none" => start'[u] # "none"
            /\ \A r \in Roles : job'[u][r] = NoJob
  BY DEF Gone
<1>2. Staged' /\ Unread' /\ Visited'
  BY <1>1 DEF Staged, Stage, Unread, Visited, Known
<1>3. Owned'
  <2>1. ASSUME NEW p \in Paths, file'[p] \in Status
        PROVE  (PathOf(file[p].id) = p /\ start[file[p].id] # "none")'
    <3>1. file'[p].id \in Uploads
      BY <2>1 DEF Status
    <3>2. PathOf(file'[p].id) = p /\ start[file'[p].id] # "none"
      BY <2>1 DEF StagesInv, Stages, Owned, FilesOwned, HeldOwned
    <3> QED BY <1>1, <3>1, <3>2 DEF PathOf
  <2> QED BY <1>1, <2>1 DEF Owned, WritesOwned, FilesOwned
<1> QED BY <1>2, <1>3 DEF Stages

LEMMA OwnedKept ==
    ASSUME Owned, NoMoreWrites, UNCHANGED <<file, req>>,
           \A u \in Uploads : start[u] # "none" => start'[u] # "none"
    PROVE  Owned'
<1>1. \A p \in Paths : file[p] \in Status => file[p].id \in Uploads
  BY DEF Status
<1> QED BY <1>1 DEF Owned, WritesOwned, FilesOwned, NoMoreWrites, PathOf

\* The steps of the server that leave the table alone, and of the writes at most
\* end one: what becomes of the phase, and of the two lists of the server.
Quietly ==
    /\ UNCHANGED <<task, worker, aborted, prog, told, file, req>>
    /\ NoMoreWrites
    /\ \A u \in Uploads :
          /\ start'[u] = start[u] \/ (start'[u] = "gone" /\ start[u] # "none")
          /\ server' \notin {"up", "draining"} => start'[u] \notin {"writing", "storing"}
    /\ server' \in {"down", "booting"} => server \in {"down", "booting"}
    /\ server' = "down" => server = "down"
    /\ server' = "booting" => \/ server = "booting" /\ toScan' \subseteq toScan
                             \/ \A u \in Uploads : ~Known(u)
    /\ server' = "cancelling" =>
          \/ /\ server = "cancelling"
             /\ \A u \in Uploads : Active(u) /\ u \in toVisit => u \in toVisit'
          \/ \A u \in Uploads : Known(u) => u \in toVisit'

LEMMA StagesQuiet == TypeInv /\ StagesInv /\ Quietly => Stages'
<1> SUFFICES ASSUME TypeInv, StagesInv, Quietly PROVE Stages'
  OBVIOUS
<1>1. Owned'
  BY OwnedKept DEF StagesInv, Stages, Quietly
<1>2. Staged'
  BY DEF StagesInv, Stages, Staged, Stage, Known, Quietly
<1>3. Unread'
  BY DEF StagesInv, Stages, Unread, Known, PathOf, Quietly
<1>4. Visited'
  BY DEF StagesInv, Stages, Visited, Active, Known, Quietly
<1> QED BY <1>1, <1>2, <1>3, <1>4 DEF StagesInv, Stages

LEMMA StagesServer ==
    ASSUME TypeInv, StagesInv,
           \/ Boot \/ ScanFails \/ InitStep \/ Signal \/ ShutdownStep \/ Crash \/ PowerLoss \/ Idle
    PROVE  Stages'
<1> USE DEF ServerStep, disk, counters
<1>t. /\ job \in [Uploads -> [Roles -> Job \cup {NoJob}]] /\ TypeOK
      /\ \A u \in Uploads, r \in Roles : job[u][r] = NoJob \/ job[u][r] # NoJob
  BY DEF TypeInv, TypeOK
<1>s. \A u \in Uploads : start[u] \in {"writing", "storing"} => server \in {"up", "draining"}
  BY DEF StagesInv, Stages, Staged, Stage
<1>2. CASE Boot
  <2>1. NoMoreWrites /\ \A u \in Uploads : ~Known(u)
    BY <1>2 DEF Boot, NoMoreWrites, StagesInv, Stages, Staged, Stage
  <2>2. Quietly
    BY <1>2, <1>s, <2>1 DEF Boot, Quietly
  <2> QED BY <2>2, StagesQuiet
<1>3. CASE ScanFails
  <2>1. NoMoreWrites
    BY <1>3 DEF ScanFails, NoMoreWrites
  <2>2. Quietly
    BY <1>3, <1>s, <2>1 DEF ScanFails, Quietly
  <2> QED BY <2>2, StagesQuiet
<1>4. ASSUME NEW p \in Paths, InitFile(p) PROVE Stages'
  <2>1. /\ server = "booting" /\ server' = server /\ toScan' = toScan \ {p}
        /\ UNCHANGED <<start, worker, aborted, prog, told, file, req>>
    BY <1>4 DEF InitFile
  <2>2. CASE UNCHANGED <<task, job>>
    <3>1. NoMoreWrites
      BY <2>2 DEF NoMoreWrites
    <3>2. Quietly
      BY <1>s, <2>1, <2>2, <3>1 DEF Quietly
    <3> QED BY <3>2, StagesQuiet
  <2>3. ASSUME NEW i \in Uploads,
               file[p] \in Status, file[p].id = i, PathOf(i) = p,
               start[i] = "gone", worker[i] = "none", ~Known(i),
               Known(i)', ~Active(i)',
               \A v \in Uploads \ {i} : task'[v] = task[v],
               job' = job \/ Asks(i, "init")
        PROVE  Stages'
    <3>1. FilesOwned'
      <4>1. \A q \in Paths : file[q] \in Status => file[q].id \in Uploads
        BY DEF Status
      <4> QED BY <2>1, <4>1 DEF StagesInv, Stages, Owned, FilesOwned, PathOf
    <3>2. WritesOwned'
      BY <2>1, <2>3 DEF StagesInv, Stages, Owned, WritesOwned, Asks
    <3>3. Staged'
      <4>1. ASSUME NEW v \in Uploads, v # i PROVE Stage(v)'
        BY <2>1, <2>3, <4>1, StageKept DEF StagesInv, Stages, Staged, Kept
      <4>2. Stage(i)'
        <5>1. Stage(i)
          BY DEF StagesInv, Stages, Staged
        <5> QED BY <2>1, <2>3, <5>1 DEF Stage
      <4> QED BY <4>1, <4>2 DEF Staged
    <3>4. Unread'
      BY <2>1, <2>3 DEF StagesInv, Stages, Unread, Known, PathOf
    <3>5. Visited'
      BY <2>1 DEF Visited
    <3> QED BY <3>1, <3>2, <3>3, <3>4, <3>5 DEF StagesInv, Stages, Owned
  <2> QED BY <1>4, <2>2, <2>3, InitFileEnters
<1>5. ASSUME NEW u \in Uploads, InitWritten(u) \/ ShutdownWritten(u) PROVE Stages'
  <2>1. NoMoreWrites
    BY <1>5, <1>t DEF InitWritten, ShutdownWritten, NoMoreWrites
  <2>2. Quietly
    BY <1>5, <1>s, <2>1 DEF InitWritten, ShutdownWritten, Quietly
  <2> QED BY <2>2, StagesQuiet
<1>6. CASE InitDone \/ Signal \/ ShutdownDone
  <2>1. NoMoreWrites
    BY <1>6 DEF InitDone, Signal, ShutdownDone, NoMoreWrites
  <2>2. Quietly
    BY <1>6, <1>s, <2>1 DEF InitDone, Signal, ShutdownDone, Quietly
  <2> QED BY <2>2, StagesQuiet
<1>7. CASE HttpStopped
  <2>1. NoMoreWrites
    BY <1>7 DEF HttpStopped, NoMoreWrites
  <2>2. \A u \in Uploads : /\ start'[u] = start[u] \/ (start'[u] = "gone" /\ start[u] # "none")
                           /\ start'[u] \notin {"writing", "storing"}
    BY <1>7 DEF HttpStopped
  <2>3. Quietly
    BY <1>7, <2>1, <2>2 DEF HttpStopped, Quietly
  <2> QED BY <2>3, StagesQuiet
<1>8. ASSUME NEW u \in Uploads, ShutdownPasses(u) PROVE Stages'
  <2>1. NoMoreWrites
    BY <1>8 DEF ShutdownPasses, NoMoreWrites
  <2>2. Quietly
    BY <1>8, <1>s, <2>1 DEF ShutdownPasses, Quietly
  <2> QED BY <2>2, StagesQuiet
<1>9. ASSUME NEW u \in Uploads, ShutdownCancel(u) PROVE Stages'
  <2>1. Known(u) /\ Fail(u, "shutdown", "shutdown") /\ "shutdown" \in Errors /\ "shutdown" \in Roles
    BY <1>9 DEF ShutdownCancel, Active, Errors, Roles
  <2>2. /\ server = "cancelling" /\ server' = server /\ toVisit' = toVisit \ {u}
        /\ UNCHANGED <<toScan, start, prog, told, file, req>>
    BY <1>9 DEF ShutdownCancel
  <2>3. /\ Known(u)' /\ task'[u].state = "failed"
        /\ job'[u]["shutdown"].status.id = u
        /\ \A q \in Roles \ {"shutdown"} : job'[u][q] = job[u][q]
        /\ \A v \in Uploads \ {u} : task'[v] = task[v] /\ job'[v] = job[v]
        /\ worker'[u] = worker[u] \/ worker'[u] = "ended"
        /\ aborted'[u] = aborted[u] \/ worker[u] \in Runnable
        /\ \A v \in Uploads \ {u} : worker'[v] = worker[v] /\ aborted'[v] = aborted[v]
    BY <1>t, <2>1, FailsEntry
  <2>4. Staged'
    <3>1. ASSUME NEW v \in Uploads, v # u PROVE Stage(v)'
      BY <2>2, <2>3, <3>1, StageKept DEF StagesInv, Stages, Staged, Kept
    <3>2. Stage(u)'
      <4>1. Stage(u)
        BY DEF StagesInv, Stages, Staged
      <4> QED BY <2>1, <2>2, <2>3, <4>1 DEF Stage, Runnable
    <3> QED BY <3>1, <3>2 DEF Staged
  <2>5. Unread' /\ Visited'
    BY <2>2, <2>3 DEF StagesInv, Stages, Unread, Visited, Active, ActiveStates, Known
  <2>6. Owned'
    <3>1. start[u] # "none"
      BY <2>1 DEF StagesInv, Stages, Staged, Stage
    <3>2. FilesOwned'
      <4>1. \A q \in Paths : file[q] \in Status => file[q].id \in Uploads
        BY DEF Status
      <4> QED BY <2>2, <4>1 DEF StagesInv, Stages, Owned, FilesOwned, PathOf
    <3>3. WritesOwned'
      BY <2>2, <2>3, <3>1 DEF StagesInv, Stages, Owned, WritesOwned
    <3> QED BY <3>2, <3>3 DEF Owned
  <2> QED BY <2>4, <2>5, <2>6 DEF StagesInv, Stages
<1>10. CASE Exit \/ Crash
  BY <1>10, StagesGone DEF Exit, Crash, disk
<1>12. CASE PowerLoss
  BY <1>12, StagesGone DEF PowerLoss
<1>11. CASE Idle
  BY <1>11 DEF Idle, vars, StagesInv, Stages, Owned, WritesOwned, FilesOwned, Staged, Stage, Unread,
               Visited, Known, Active, PathOf
<1> QED
  BY <1>2, <1>3, <1>4, <1>5, <1>6, <1>7, <1>8, <1>9, <1>10, <1>11, <1>12
     DEF InitStep, ShutdownStep

LEMMA NextSteps ==
    ASSUME Next
    PROVE  \/ Boot \/ ScanFails \/ InitStep \/ Signal \/ ShutdownStep \/ Crash \/ PowerLoss \/ Idle
           \/ \E u \in Uploads : UploadStep(u)
BY DEF Next, UploadStep

LEMMA StagesNext == TypeInv /\ StagesInv /\ [Next]_vars => StagesInv'
<1> SUFFICES ASSUME TypeInv, StagesInv, [Next]_vars PROVE StagesInv'
  OBVIOUS
<1>1. Stages'
  <2>1. CASE UNCHANGED vars
    BY <2>1 DEF vars, disk, counters, StagesInv, Stages, Owned, WritesOwned, FilesOwned, Staged,
                Stage, Unread, Visited, Known, Active, PathOf
  <2>2. CASE Next
    BY <2>2, NextSteps, StagesServer, StagesUpload
  <2> QED BY <2>1, <2>2
<1>2. ASSUME NEW p \in Paths, NEW c \in held'[p], c \in Status
      PROVE  (PathOf(c.id) = p /\ start[c.id] # "none")'
  <2>1. c.id \in Uploads
    BY <1>2 DEF Status
  <2>2. CASE c \in held[p]
    BY <1>2, <2>1, <2>2, HeldGrows DEF StagesInv, HeldOwned, PathOf
  <2>3. CASE c = file'[p]
    BY <1>1, <1>2, <2>3 DEF Stages, Owned, FilesOwned
  <2> QED BY <1>2, <2>2, <2>3, HeldGrows
<1> QED BY <1>1, <1>2 DEF StagesInv, HeldOwned

LEMMA StagesInvariant == Spec => [](TypeInv /\ StagesInv)
<1>1. Init => TypeInv /\ StagesInv
  BY TypeInvInit, StagesInit
<1>2. TypeInv /\ StagesInv /\ [Next]_vars => (TypeInv /\ StagesInv)'
  BY TypeInvNext, StagesNext
<1> QED
  BY <1>1, <1>2, PTL DEF Spec

\* At the end of the shutdown's walk over the table nothing is left to visit, and
\* nobody made an upload active behind it, because it kept the lock.
THEOREM ShutdownLeavesNone == Spec => ShutdownLeavesNothingActive
<1> DEFINE P == server = "cancelling" /\ server' = "closing" => \A u \in Uploads : ~Active(u)
<1>1. TypeInv /\ StagesInv /\ [Next]_vars => P
  <2> SUFFICES ASSUME TypeInv, StagesInv, [Next]_vars, server = "cancelling", server' = "closing"
               PROVE  \A u \in Uploads : ~Active(u)
    OBVIOUS
  <2>1. ~(UNCHANGED vars) /\ \A u \in Uploads : ~UploadStep(u)
    BY OthersKept DEF vars, ServerKept
  <2>2. ShutdownDone
    BY <2>1, NextSteps DEF Boot, ScanFails, InitStep, InitFile, InitWritten, InitDone, Signal,
       ShutdownStep, HttpStopped, ShutdownCancel, ShutdownPasses, ShutdownWritten, Exit, Crash,
       PowerLoss, Gone, Idle
  <2> QED BY <2>2 DEF ShutdownDone, StagesInv, Stages, Visited
<1>2. (TypeInv /\ StagesInv /\ [Next]_vars => P) => (TypeInv /\ StagesInv /\ [Next]_vars => [P]_vars)
  OBVIOUS
<1> QED
  BY <1>1, StagesInvariant, PTL DEF Spec, ShutdownLeavesNothingActive

-----------------------------------------------------------------------------
(* What only a DELETE does.                                                *)

\* What OnlyCancelLeavesCompleted says of one upload.
LeftByCancel(u) ==
    /\ Known(u) /\ task[u].state = "completed" =>
          \/ task'[u].state = "completed"
          \/ task'[u].state = "failed" /\ task'[u].error = "cancelled"
    /\ told[u] = "completed" => told'[u] = "completed"

LEMMA UploadStepLeaves ==
    ASSUME TypeInv, StagesInv, NEW u \in Uploads, UploadStep(u)
    PROVE  LeftByCancel(u)
<1> USE DEF disk, counters
<1>s. Stage(u)
  BY DEF StagesInv, Stages, Staged
<1>t. /\ task \in [Uploads -> Task \cup {NoTask}] /\ told \in [Uploads -> States \cup {"none"}]
      /\ TypeOK
  BY DEF TypeInv, TypeOK
<1>1. CASE task' = task /\ told' = told
  BY <1>1 DEF LeftByCancel
<1>2. CASE StartUpload(u) \/ StartFailed(u) \/ StartDropped(u) \/ CancelReply(u)
           \/ StudioProgress(u) \/ StudioReply(u) \/ ProgEnds(u)
           \/ WorkerRemoved(u) \/ WorkerGivesUp(u) \/ AbortLands(u)
           \/ IoProgress(u) \/ (\E r \in Roles : IoFails(u, r))
  <2>1. task' = task /\ told' = told
    BY <1>2 DEF StartUpload, StartFailed, StartDropped, CancelReply,
       StudioProgress, StudioReply, StudioStores, SnapshotCreated, SnapshotRefused,
       DatasetRestored, RestoreFailed, StudioAnswers, StudioStep, ProgEnds,
       WorkerRemoved, WorkerGivesUp, AbortLands,
       IoProgress, WriteOpens, WriteLands, UnlinkedLands, RemoveLands, IoFails, IoStep
  <2> QED BY <1>1, <2>1
<1>3. CASE StartWritten(u)
  <2>1. start[u] = "writing" /\ told' = told
    BY <1>3 DEF StartWritten
  <2> QED BY <1>s, <2>1 DEF LeftByCancel, Stage
<1>4. CASE StartStoreHandle(u)
  <2>1. task' = [task EXCEPT ![u].handle = TRUE] /\ told' = told
    BY <1>4 DEF StartStoreHandle
  <2>2. Known(u) => task'[u].state = task[u].state
    BY <1>t, <2>1 DEF Known, Task
  <2> QED BY <2>1, <2>2 DEF LeftByCancel
<1>5. CASE CancelUpload(u)
  <2>1. Known(u) /\ Fail(u, "cancelled", "cancel") /\ told' = told
        /\ "cancelled" \in Errors /\ "cancel" \in Roles
    BY <1>5 DEF CancelUpload, Errors, Roles
  <2>2. task'[u].state = "failed" /\ task'[u].error = "cancelled"
    BY <1>t, <2>1, FailsEntry
  <2> QED BY <2>1, <2>2 DEF LeftByCancel
<1>6. ASSUME NEW next, NEW s, NEW snap, NEW ds, NEW err,
             WorkerUpdates(u, next, s, snap, ds, err), worker[u] \in Runnable
      PROVE  LeftByCancel(u)
  BY <1>s, <1>6 DEF WorkerUpdates, LeftByCancel, Stage, Runnable
<1>7. CASE WorkerBegin(u) \/ WorkerRefused(u) \/ WorkerSnapshot(u) \/ WorkerRestored(u)
           \/ WorkerUnrestored(u)
  BY <1>6, <1>7 DEF WorkerBegin, WorkerRefused, WorkerSnapshot, WorkerRestored,
                    WorkerUnrestored, Runnable
<1>8. CASE WorkerCreates(u) \/ WorkerRestores(u) \/ WorkerCompleted(u) \/ WorkerFailed(u)
  <2>1. worker[u] \in Writing /\ task' = task
    BY <1>8 DEF WorkerCreates, WorkerRestores, WorkerCompleted, WorkerFailed, WorkerGoesOn, Writing
  <2> QED BY <1>s, <2>1 DEF LeftByCancel, Stage, Writing
<1>9. CASE ProgReceive(u)
  <2>1. prog[u] = "recv" /\ told' = told
    BY <1>9 DEF ProgReceive
  <2> QED BY <1>s, <2>1 DEF LeftByCancel, Stage
<1>10. CASE ProgWritten(u)
  <2>1. prog[u] = "writing" /\ task' = task
    BY <1>10 DEF ProgWritten
  <2> QED BY <1>s, <2>1 DEF LeftByCancel, Stage
<1> QED
  BY <1>2, <1>3, <1>4, <1>5, <1>7, <1>8, <1>9, <1>10
     DEF UploadStep, StartStep, WorkerStep, ProgStep

LEMMA ServerLeaves ==
    ASSUME TypeInv, StagesInv, server' # "down",
           \/ Boot \/ ScanFails \/ InitStep \/ Signal \/ ShutdownStep \/ Crash \/ PowerLoss \/ Idle
    PROVE  \A u \in Uploads : LeftByCancel(u)
<1> USE DEF disk, counters, ServerStep
<1>1. ASSUME task' = task, told' = told PROVE \A u \in Uploads : LeftByCancel(u)
  BY <1>1 DEF LeftByCancel
<1>2. CASE Boot \/ ScanFails \/ Signal \/ Idle \/ InitDone \/ HttpStopped \/ ShutdownDone
  <2>1. task' = task /\ told' = told
    BY <1>2 DEF Boot, ScanFails, Signal, Idle, InitDone, HttpStopped, ShutdownDone, vars
  <2> QED BY <1>1, <2>1
<1>3. CASE \E u \in Uploads : InitWritten(u) \/ ShutdownPasses(u) \/ ShutdownWritten(u)
  <2>1. task' = task /\ told' = told
    BY <1>3 DEF InitWritten, ShutdownPasses, ShutdownWritten
  <2> QED BY <1>1, <2>1
<1>4. ASSUME NEW p \in Paths, InitFile(p) PROVE \A u \in Uploads : LeftByCancel(u)
  <2>1. told' = told
    BY <1>4 DEF InitFile
  <2>2. CASE task' = task
    BY <1>1, <2>1, <2>2
  <2>3. ASSUME NEW i \in Uploads, ~Known(i), \A v \in Uploads \ {i} : task'[v] = task[v]
        PROVE  \A u \in Uploads : LeftByCancel(u)
    BY <2>1, <2>3 DEF LeftByCancel
  <2> QED BY <1>4, <2>2, <2>3, InitFileEnters
<1>5. ASSUME NEW u \in Uploads, ShutdownCancel(u) PROVE \A v \in Uploads : LeftByCancel(v)
  <2>1. Known(u) /\ Active(u) /\ Fail(u, "shutdown", "shutdown")
        /\ "shutdown" \in Errors /\ "shutdown" \in Roles /\ told' = told /\ TypeOK
    BY <1>5 DEF ShutdownCancel, Active, Errors, Roles, TypeInv
  <2>2. \A v \in Uploads \ {u} : task'[v] = task[v]
    BY <2>1, FailsEntry
  <2> QED BY <2>1, <2>2 DEF LeftByCancel, Active, ActiveStates
<1>6. CASE Exit \/ Crash \/ PowerLoss
  BY <1>6 DEF Exit, Crash, PowerLoss, Gone
<1> QED
  BY <1>2, <1>3, <1>4, <1>5, <1>6 DEF InitStep, ShutdownStep

\* The worker completes an upload after its progress task has ended, so nobody but a
\* DELETE takes the lock of a completed one; the shutdown passes it over.
THEOREM OnlyCancelUndoes == Spec => OnlyCancelLeavesCompleted
<1> DEFINE P == \A u \in Uploads : server' # "down" =>
          /\ Known(u) /\ task[u].state = "completed" =>
                \/ task'[u].state = "completed"
                \/ task'[u].state = "failed" /\ task'[u].error = "cancelled"
          /\ told[u] = "completed" => told'[u] = "completed"
<1>1. TypeInv /\ StagesInv /\ [Next]_vars => [P]_vars
  <2> SUFFICES ASSUME TypeInv, StagesInv, Next, server' # "down", NEW u \in Uploads
               PROVE  LeftByCancel(u)
    BY DEF LeftByCancel
  <2>1. CASE \E v \in Uploads : UploadStep(v)
    <3>1. PICK v \in Uploads : UploadStep(v)
      BY <2>1
    <3>2. CASE v = u
      BY <3>1, <3>2, UploadStepLeaves
    <3>3. CASE v # u
      BY <3>1, <3>3, OthersKept DEF LeftByCancel, Kept
    <3> QED BY <3>2, <3>3
  <2> QED BY <2>1, NextSteps, ServerLeaves
<1> QED
  BY <1>1, StagesInvariant, PTL DEF Spec, OnlyCancelLeavesCompleted

-----------------------------------------------------------------------------
(* Recovery.                                                               *)

\* During recovery the only writes are its own, of the entry they belong to.
RecoveryWrites ==
    server \in {"down", "booting"} =>
        \A u \in Uploads, r \in Roles : job[u][r] # NoJob =>
            /\ server = "booting" /\ r = "init" /\ PathOf(u) \notin toScan
            /\ Known(u) /\ ~Active(u) /\ job[u][r].status = StatusOf(u, task[u])

\* A file that recovery has read, on a healthy disk, tells what the table says, or
\* is to be written.
Recovered(u, s) ==
    /\ Known(u) /\ ~Active(u)
    /\ StatusOf(u, task[u]) = s \/ InPhase(u, "init", "queued")
RecoveredSoFar ==
    server = "booting" /\ faults = 0 =>
        \A p \in Paths \ toScan, u \in Uploads :
            file[p] \in Status /\ file[p].id = u => Recovered(u, file[p])

RecoveryInv == RecoveryWrites /\ RecoveredSoFar

LEMMA RecoveryInit == Init => RecoveryInv
BY DEF Init, RecoveryInv, RecoveryWrites, RecoveredSoFar

\* Before the server answers nothing follows an upload but the writes of recovery.
LEMMA BootsAlone ==
    ASSUME TypeInv, StagesInv, RecoveryInv, server \in {"down", "booting"},
           NEW u \in Uploads, UploadStep(u)
    PROVE  /\ server = "booting"
           /\ \/ WriteOpens(u, "init") \/ WriteLands(u, "init") \/ UnlinkedLands(u, "init")
              \/ IoFails(u, "init")
<1>s. Stage(u)
  BY DEF StagesInv, Stages, Staged
<1>1. /\ start[u] \in {"none", "gone"} /\ worker[u] = "none" /\ prog[u] = "none" /\ ~aborted[u]
      /\ server \notin {"up", "draining"}
  BY <1>s DEF Stage, TypeInv, TypeOK, StartPcs
<1>2. \A r \in Roles : job[u][r] # NoJob => server = "booting" /\ r = "init"
  BY DEF RecoveryInv, RecoveryWrites
<1>3. ~StartUpload(u) /\ ~StartStep(u) /\ ~StartDropped(u) /\ ~CancelUpload(u)
  BY <1>1 DEF StartUpload, StartStep, StartWritten, StartStoreHandle, StartFailed, StartDropped,
              CancelUpload
<1>4. ~CancelReply(u) /\ ~RemoveLands(u)
  <2>1. "cancel" \in Roles /\ "remove" \in Roles
    BY DEF Roles
  <2> QED BY <1>2, <2>1 DEF CancelReply, RemoveLands, Landed, LandedOk, LandedErr, InPhase
<1>5. ~WorkerStep(u)
  BY <1>1 DEF WorkerStep, WorkerBegin, WorkerCreates, WorkerRefused, WorkerSnapshot,
              WorkerRestores, WorkerRestored, WorkerUnrestored, WorkerCompleted, WorkerRemoved,
              WorkerFailed, WorkerGivesUp, AbortLands, WorkerGoesOn, Writing
<1>6. ~StudioProgress(u) /\ ~StudioReply(u) /\ ~ProgStep(u)
  BY <1>1 DEF StudioProgress, StudioReply, StudioStores, SnapshotCreated, SnapshotRefused,
              DatasetRestored, RestoreFailed, StudioAnswers, ProgStep, ProgReceive, ProgWritten,
              ProgEnds
<1>7. PICK r \in Roles : WriteOpens(u, r) \/ WriteLands(u, r) \/ UnlinkedLands(u, r) \/ IoFails(u, r)
  BY <1>3, <1>4, <1>5, <1>6 DEF UploadStep, IoProgress
<1>8. job[u][r] # NoJob
  BY <1>7 DEF WriteOpens, WriteLands, UnlinkedLands, IoFails, InPhase
<1> QED BY <1>2, <1>7, <1>8

LEMMA RecoveryUpload ==
    ASSUME TypeInv, StagesInv, RecoveryInv, NEW u \in Uploads, UploadStep(u)
    PROVE  RecoveryInv'
<1>s. server' = server /\ toScan' = toScan /\ req' = req
  BY OthersKept DEF ServerKept
<1>1. CASE server \notin {"down", "booting"}
  BY <1>s, <1>1 DEF RecoveryInv, RecoveryWrites, RecoveredSoFar
<1>2. CASE server \in {"down", "booting"}
  <2> DEFINE r == "init"
  <2>1. /\ server = "booting" /\ r \in Roles
        /\ (WriteOpens(u, r) \/ WriteLands(u, r) \/ UnlinkedLands(u, r) \/ IoFails(u, r))
    BY <1>2, BootsAlone DEF Roles
  <2>2. task' = task /\ job[u][r] # NoJob
        /\ \E p \in Phases : ToPhase(u, r, p) /\ p # "queued"
    BY <2>1 DEF WriteOpens, WriteLands, UnlinkedLands, IoFails, IoStep, InPhase, Phases
  <2>d. r = "init"
    OBVIOUS
  <2> HIDE DEF r
  <2>p. PICK ph \in Phases : ToPhase(u, r, ph) /\ ph # "queued"
    BY <2>2
  <2>3. /\ job'[u][r] # NoJob /\ job'[u][r].status = job[u][r].status /\ job'[u][r].phase = ph
        /\ \A q \in Roles \ {r} : job'[u][q] = job[u][q]
        /\ \A v \in Uploads \ {u} : job'[v] = job[v]
    BY <2>1, <2>2, <2>p, ToPhaseOthers DEF TypeInv
  <2>4. RecoveryWrites'
    BY <1>s, <2>1, <2>2, <2>3 DEF RecoveryInv, RecoveryWrites, Known, Active, PathOf, StatusOf
  <2>5. RecoveredSoFar'
    <3>1. /\ Known(u) /\ ~Active(u) /\ job[u][r].status = StatusOf(u, task[u])
      BY <2>1, <2>2 DEF RecoveryInv, RecoveryWrites
    <3>2. SUFFICES ASSUME faults' = 0, NEW p \in Paths \ toScan, NEW v \in Uploads,
                          file'[p] \in Status, file'[p].id = v
                   PROVE  Recovered(v, file[p])'
      BY <1>s DEF RecoveredSoFar
    <3>3. faults = 0 /\ ~IoFails(u, r)
      BY <2>1, <3>2 DEF WriteOpens, WriteLands, UnlinkedLands, IoFails, TypeInv, TypeOK
    <3>4. file'[p] = file[p] \/ (p = PathOf(u) /\ file'[p] = job[u][r].status)
      <4>1. \A q \in Roles : WriteLands(u, q) => q = r
        BY <2>1, <2>d DEF WriteLands, InPhase, RecoveryInv, RecoveryWrites
      <4> QED BY <3>2, <4>1, FilesMove
    <3>5. CASE file'[p] # file[p]
      <4>1. v = u /\ file'[p] = StatusOf(u, task[u])
        BY <3>1, <3>2, <3>4, <3>5 DEF StatusOf
      <4> QED BY <2>2, <3>1, <4>1 DEF Recovered, Known, Active, StatusOf
    <3>6. CASE file'[p] = file[p]
      <4>1. Recovered(v, file[p])
        BY <2>1, <3>2, <3>3, <3>6 DEF RecoveryInv, RecoveredSoFar
      <4>2. CASE v # u
        BY <2>2, <2>3, <3>6, <4>1, <4>2 DEF Recovered, Known, Active, StatusOf, InPhase
      <4>3. CASE v = u
        <5>1. PathOf(u) = p
          BY <3>2, <3>6, <4>3 DEF StagesInv, Stages, Owned, FilesOwned
        <5>2. ~WriteOpens(u, r)
          BY <3>2, <5>1, UploadAssumption DEF WriteOpens, Put, TypeInv, TypeOK
        <5>3. ~InPhase(u, r, "queued")
          BY <2>1, <3>3, <5>2 DEF WriteLands, UnlinkedLands, InPhase
        <5>4. StatusOf(u, task[u]) = file[p]
          BY <2>d, <4>1, <4>3, <5>3 DEF Recovered
        <5> QED BY <2>2, <3>1, <3>6, <4>3, <5>4 DEF Recovered, Known, Active, StatusOf
      <4> QED BY <4>2, <4>3
    <3> QED BY <3>5, <3>6
  <2> QED BY <2>4, <2>5 DEF RecoveryInv
<1> QED BY <1>1, <1>2

LEMMA RecoveryServer ==
    ASSUME TypeInv, StagesInv, RecoveryInv,
           \/ Boot \/ ScanFails \/ InitStep \/ Signal \/ ShutdownStep \/ Crash \/ PowerLoss \/ Idle
    PROVE  RecoveryInv'
<1> USE DEF ServerStep, disk, counters
<1>1. CASE server' \notin {"down", "booting"}
  BY <1>1 DEF RecoveryInv, RecoveryWrites, RecoveredSoFar
<1>2. CASE Boot
  <2>1. \A u \in Uploads, r \in Roles : job[u][r] = NoJob
    BY <1>2 DEF Boot, RecoveryInv, RecoveryWrites
  <2> QED BY <1>2, <2>1, UploadAssumption DEF Boot, RecoveryInv, RecoveryWrites, RecoveredSoFar
<1>3. ASSUME NEW p \in Paths, InitFile(p) PROVE RecoveryInv'
  <2>1. /\ server = "booting" /\ server' = server /\ toScan' = toScan \ {p} /\ p \in toScan
        /\ UNCHANGED <<file, req, faults>>
    BY <1>3 DEF InitFile
  <2>2. CASE file[p] \in {Empty, Garbled} /\ UNCHANGED <<task, job>>
    <3>1. file[p] \notin Status
      BY <2>2, UploadAssumption
    <3> QED BY <2>1, <2>2, <3>1 DEF RecoveryInv, RecoveryWrites, RecoveredSoFar, Recovered, InPhase,
               Known, Active, StatusOf, PathOf
  <2>3. ASSUME NEW i \in Uploads,
               file[p] \in Status, file[p].id = i, PathOf(i) = p,
               ~Known(i), Known(i)', ~Active(i)',
               \A v \in Uploads \ {i} : task'[v] = task[v],
               \/ job' = job /\ StatusOf(i, task'[i]) = file[p]
               \/ Asks(i, "init") /\ job'[i]["init"].status = StatusOf(i, task'[i])
        PROVE  RecoveryInv'
    <3>1. \A v \in Uploads \ {i} : job'[v] = job[v]
      BY <2>3 DEF Asks
    <3>2. \A q \in Roles : job'[i][q] # NoJob =>
             q = "init" /\ job'[i][q].status = StatusOf(i, task'[i])
      BY <2>1, <2>3 DEF Asks, RecoveryInv, RecoveryWrites
    <3>3. RecoveryWrites'
      BY <2>1, <2>3, <3>1, <3>2 DEF RecoveryInv, RecoveryWrites, Known, Active, PathOf, StatusOf
    <3>4. RecoveredSoFar'
      <4>1. SUFFICES ASSUME faults = 0, NEW q \in Paths, q \notin toScan \ {p}, NEW v \in Uploads,
                            file[q] \in Status, file[q].id = v
                     PROVE  Recovered(v, file[q])'
        BY <2>1 DEF RecoveredSoFar
      <4>2. PathOf(v) = q
        BY <4>1 DEF StagesInv, Stages, Owned, FilesOwned
      <4>3. CASE v = i
        <5>1. q = p
          BY <2>3, <4>2, <4>3
        <5> QED BY <2>1, <2>3, <4>3, <5>1 DEF Recovered, InPhase, Asks, StatusOf, Known, Active
      <4>4. CASE v # i
        <5>1. q \notin toScan
          BY <2>3, <4>1, <4>4
        <5>2. Recovered(v, file[q])
          BY <2>1, <4>1, <5>1 DEF RecoveryInv, RecoveredSoFar
        <5> QED BY <2>1, <2>3, <3>1, <4>4, <5>2 DEF Recovered, InPhase, StatusOf, Known, Active
      <4> QED BY <4>3, <4>4
    <3> QED BY <3>3, <3>4 DEF RecoveryInv
  <2> QED BY <1>3, <2>2, <2>3, InitFileEnters
<1>4. ASSUME NEW u \in Uploads, InitWritten(u) PROVE RecoveryInv'
  <2>1. /\ server = "booting" /\ server' = server /\ Landed(u, "init")
        /\ UNCHANGED <<toScan, task, file, req, faults>>
        /\ job' = [job EXCEPT ![u]["init"] = NoJob]
        /\ job \in [Uploads -> [Roles -> Job \cup {NoJob}]] /\ "init" \in Roles
    BY <1>4 DEF InitWritten, TypeInv, TypeOK, Roles
  <2>2. /\ \A v \in Uploads \ {u} : job'[v] = job[v]
        /\ job'[u]["init"] = NoJob
        /\ \A v \in Uploads, r \in Roles : job'[v][r] # NoJob => job'[v][r] = job[v][r]
    BY <2>1
  <2>3. ~InPhase(u, "init", "queued")
    BY <2>1 DEF Landed, LandedOk, LandedErr, InPhase
  <2>4. RecoveryWrites'
    BY <2>1, <2>2 DEF RecoveryInv, RecoveryWrites, Known, Active, PathOf, StatusOf
  <2>5. RecoveredSoFar'
    BY <2>1, <2>2, <2>3 DEF RecoveryInv, RecoveredSoFar, Recovered, Known, Active, InPhase, StatusOf
  <2> QED BY <2>4, <2>5 DEF RecoveryInv
<1>5. CASE Exit \/ Crash \/ PowerLoss
  <2>1. server' = "down" /\ \A u \in Uploads, r \in Roles : job'[u][r] = NoJob
    BY <1>5 DEF Exit, Crash, PowerLoss, Gone
  <2> QED BY <2>1 DEF RecoveryInv, RecoveryWrites, RecoveredSoFar
<1>6. CASE ScanFails \/ InitDone \/ Signal \/ HttpStopped \/ ShutdownDone \/ Idle
           \/ (\E u \in Uploads : ShutdownCancel(u) \/ ShutdownPasses(u) \/ ShutdownWritten(u))
  <2>1. server' \notin {"down", "booting"}
    BY <1>6 DEF ScanFails, InitDone, Signal, HttpStopped, ShutdownDone, Idle, vars, ShutdownCancel,
       ShutdownPasses, ShutdownWritten
  <2> QED BY <1>1, <2>1
<1> QED
  BY <1>2, <1>3, <1>4, <1>5, <1>6 DEF InitStep, ShutdownStep

LEMMA RecoveryNext == TypeInv /\ StagesInv /\ RecoveryInv /\ [Next]_vars => RecoveryInv'
<1> SUFFICES ASSUME TypeInv, StagesInv, RecoveryInv, [Next]_vars PROVE RecoveryInv'
  OBVIOUS
<1>1. CASE UNCHANGED vars
  BY <1>1 DEF vars, disk, counters, RecoveryInv, RecoveryWrites, RecoveredSoFar, Recovered, InPhase,
              Known, Active, PathOf, StatusOf
<1>2. CASE Next
  BY <1>2, NextSteps, RecoveryServer, RecoveryUpload
<1> QED BY <1>1, <1>2

\* Recovery reads each file before it enters its upload, enters it settled, and
\* waits for each write: with all files read and no write left, both agree.
THEOREM RecoveryCompletes == Spec => RecoveryIsComplete
<1> DEFINE P == server = "booting" /\ server' = "up" /\ faults' = 0
                => \A p \in Paths : file[p] \in Status =>
                     LET u == file[p].id
                     IN  /\ ~Active(u)
                         /\ Known(u) /\ StatusOf(u, task[u]) = file[p]
<1>1. TypeInv /\ StagesInv /\ RecoveryInv /\ [Next]_vars => [P]_vars
  <2> SUFFICES ASSUME TypeInv, StagesInv, RecoveryInv, Next,
                      server = "booting", server' = "up", faults' = 0,
                      NEW p \in Paths, file[p] \in Status
               PROVE  /\ ~Active(file[p].id) /\ Known(file[p].id)
                      /\ StatusOf(file[p].id, task[file[p].id]) = file[p]
    OBVIOUS
  <2>1. \A u \in Uploads : ~UploadStep(u)
    BY OthersKept DEF ServerKept
  <2>2. InitDone
    BY <2>1, NextSteps DEF Boot, ScanFails, InitStep, InitFile, InitWritten, Signal, ShutdownStep,
       HttpStopped, ShutdownCancel, ShutdownPasses, ShutdownWritten, ShutdownDone, Exit, Crash,
       PowerLoss, Gone, Idle, TypeInv, TypeOK, ServerStep, vars
  <2>3. file[p].id \in Uploads
    BY DEF Status
  <2>4. Recovered(file[p].id, file[p])
    BY <2>2, <2>3 DEF InitDone, ServerStep, counters, RecoveryInv, RecoveredSoFar
  <2> QED BY <2>2, <2>3, <2>4 DEF InitDone, Recovered, InPhase
<1>2. Spec => [](TypeInv /\ StagesInv /\ RecoveryInv)
  <2>1. Init => TypeInv /\ StagesInv /\ RecoveryInv
    BY TypeInvInit, StagesInit, RecoveryInit
  <2>2. TypeInv /\ StagesInv /\ RecoveryInv /\ [Next]_vars => (TypeInv /\ StagesInv /\ RecoveryInv)'
    BY TypeInvNext, StagesNext, RecoveryNext
  <2> QED BY <2>1, <2>2, PTL DEF Spec
<1> QED
  BY <1>1, <1>2, PTL DEF Spec, RecoveryIsComplete

\* Neither hands the table on with an upload under way in it.
THEOREM PhasesEndSettled == Spec => NothingLeftActive
BY RecoveryCompletes, ShutdownLeavesNone DEF NothingLeftActive

-----------------------------------------------------------------------------
(* The status file of an upload at work.                                   *)

\* The worker of an upload without an error is at work; of its writes there is one
\* at most, and only such a write leaves the status file empty for a while.
Healthy(u) == Active(u) /\ task[u].error = "none"
Fit(u) ==
    /\ worker[u] \notin {"none", "wCompleted", "wFailed", "deleting", "ended"}
    /\ \A r \in Roles \ {"worker", "progress"} : job[u][r] = NoJob
    /\ job[u]["worker"] # NoJob => worker[u] \in Writing
    /\ job[u]["progress"] # NoJob => prog[u] = "writing"
    /\ Alone(u) => IF \E r \in Roles : InPhase(u, r, "open") THEN file[PathOf(u)] = Empty
                   ELSE file[PathOf(u)] \in Status /\ file[PathOf(u)].id = u
AtWork(u) == Healthy(u) /\ faults = 0 => Fit(u)

\* Whoever fails an upload, or aborts its worker, says why.
Blamed(u) ==
    /\ Known(u) /\ worker[u] # "none" /\ task[u].state = "failed" => task[u].error # "none"
    /\ aborted[u] => task[u].error # "none"

\* The first write of a request is alone, and leaves a file that names its upload.
Begun(u) ==
    /\ InPhase(u, "start", "open") => file[PathOf(u)] = Empty
    /\ InPhase(u, "start", "ok") => file[PathOf(u)] \in Status /\ file[PathOf(u)].id = u
    /\ ~InPhase(u, "start", "unlinked")
Begins(u) ==
    start[u] = "writing" =>
        /\ \A r \in Roles \ {"start"} : job[u][r] = NoJob
        /\ Alone(u) /\ faults = 0 => Begun(u)

NoErrors == faults = 0 => \A u \in Uploads, r \in Roles : ~InPhase(u, r, "err")
WorkInv == NoErrors /\ \A u \in Uploads : Blamed(u) /\ AtWork(u) /\ Begins(u)

LEMMA WorkInit == Init => WorkInv
BY DEF Init, WorkInv, NoErrors, Blamed, AtWork, Begins, Healthy, Active, Known, InPhase

\* The steps that are not those of a write.
Quick(u) ==
    \/ StartUpload(u) \/ StartStep(u) \/ StartDropped(u)
    \/ CancelUpload(u) \/ CancelReply(u)
    \/ WorkerStep(u) \/ StudioProgress(u) \/ StudioReply(u) \/ ProgStep(u)
Io(u, r) == WriteOpens(u, r) \/ WriteLands(u, r) \/ UnlinkedLands(u, r) \/ IoFails(u, r)

LEMMA UploadStepSplits ==
    ASSUME NEW u \in Uploads, UploadStep(u)
    PROVE  Quick(u) \/ RemoveLands(u) \/ \E r \in Roles : Io(u, r)
BY DEF UploadStep, Quick, Io, IoProgress

LEMMA QuickKeepsFiles ==
    ASSUME NEW u \in Uploads, Quick(u)
    PROVE  file' = file /\ faults' = faults
BY DEF Quick, StartUpload, StartStep, StartWritten, StartStoreHandle, StartFailed,
       StartDropped, CancelUpload, CancelReply, WorkerStep, WorkerBegin, WorkerCreates,
       WorkerRefused, WorkerSnapshot, WorkerRestores, WorkerRestored, WorkerUnrestored,
       WorkerCompleted, WorkerFailed, WorkerRemoved, WorkerGivesUp, AbortLands, WorkerGoesOn,
       WorkerUpdates, StudioProgress, StudioReply, StudioStores, SnapshotCreated,
       SnapshotRefused, DatasetRestored, RestoreFailed, StudioAnswers, StudioStep, ProgStep,
       ProgReceive, ProgWritten, ProgEnds, disk, counters

LEMMA QuickKeepsOthers ==
    ASSUME TypeInv, NEW u \in Uploads, Quick(u), NEW v \in Uploads \ {u}
    PROVE  job'[v] = job[v]
<1> USE DEF disk, counters
<1>t. job \in [Uploads -> [Roles -> Job \cup {NoJob}]] /\ TypeOK
  BY DEF TypeInv, TypeOK
<1>1. CASE StartUpload(u) \/ StartStep(u) \/ StartDropped(u) \/ CancelReply(u)
  BY <1>1, <1>t DEF StartUpload, StartStep, StartWritten, StartStoreHandle, StartFailed,
                    StartDropped, CancelReply
<1>2. CASE CancelUpload(u)
  BY <1>2, <1>t DEF CancelUpload, Fail
<1>3. CASE WorkerStep(u)
  BY <1>3, <1>t DEF WorkerStep, WorkerBegin, WorkerCreates, WorkerRefused, WorkerSnapshot,
       WorkerRestores, WorkerRestored, WorkerUnrestored, WorkerCompleted, WorkerFailed,
       WorkerRemoved, WorkerGivesUp, AbortLands, WorkerUpdates, UpdateTaskState
<1>4. CASE StudioProgress(u) \/ StudioReply(u)
  BY <1>4 DEF StudioProgress, StudioReply, StudioStores, SnapshotCreated, SnapshotRefused,
              DatasetRestored, RestoreFailed, StudioAnswers, StudioStep
<1>5. CASE ProgStep(u)
  BY <1>5, <1>t DEF ProgStep, ProgReceive, ProgWritten, ProgEnds, UpdateTaskState
<1> QED BY <1>1, <1>2, <1>3, <1>4, <1>5 DEF Quick

LEMMA IoMoves ==
    ASSUME TypeInv, NEW u \in Uploads, NEW r \in Roles, Io(u, r)
    PROVE  /\ job[u][r] # NoJob /\ job'[u][r] # NoJob
           /\ \A q \in Roles \ {r} : job'[u][q] = job[u][q]
           /\ \A v \in Uploads \ {u} : job'[v] = job[v]
           /\ \/ /\ InPhase(u, r, "queued") /\ InPhase(u, r, "open")' /\ r # "remove"
                 /\ file' = [file EXCEPT ![PathOf(u)] = Empty] /\ faults' = faults
              \/ /\ InPhase(u, r, "open") /\ InPhase(u, r, "ok")' /\ faults' = faults
                 /\ file[PathOf(u)] = Empty =>
                       file' = [file EXCEPT ![PathOf(u)] = job[u][r].status]
                 /\ \A p \in Paths \ {PathOf(u)} : file'[p] = file[p]
              \/ /\ InPhase(u, r, "unlinked") /\ InPhase(u, r, "ok")' /\ faults' = faults
                 /\ file' = file
              \/ faults' # 0 /\ file' = file
<1>t. faults \in Nat /\ file \in [Paths -> Contents] /\ TypeOK
  BY UploadAssumption DEF TypeInv, TypeOK
<1>p. /\ "open" \in Phases /\ "ok" \in Phases /\ "err" \in Phases
  BY DEF Phases
<1>j. job[u][r] # NoJob
  BY DEF Io, WriteOpens, WriteLands, UnlinkedLands, IoFails, InPhase
<1>a. ASSUME NEW p \in Phases, ToPhase(u, r, p)
      PROVE  /\ job'[u][r] # NoJob /\ job'[u][r].phase = p
             /\ \A q \in Roles \ {r} : job'[u][q] = job[u][q]
             /\ \A v \in Uploads \ {u} : job'[v] = job[v]
  BY <1>a, <1>j, <1>t, ToPhaseOthers
<1>1. CASE WriteOpens(u, r)
  <2>1. ToPhase(u, r, "open")
    BY <1>1 DEF WriteOpens
  <2>2. /\ job'[u][r] # NoJob /\ job'[u][r].phase = "open"
        /\ \A q \in Roles \ {r} : job'[u][q] = job[u][q]
        /\ \A v \in Uploads \ {u} : job'[v] = job[v]
    BY <1>a, <1>p, <2>1
  <2> QED BY <1>1, <1>j, <2>2 DEF WriteOpens, Put, InPhase
<1>2. CASE WriteLands(u, r)
  <2>1. ToPhase(u, r, "ok") /\ InPhase(u, r, "open") /\ faults' = faults
    BY <1>2 DEF WriteLands
  <2>2. /\ job'[u][r] # NoJob /\ job'[u][r].phase = "ok"
        /\ \A q \in Roles \ {r} : job'[u][q] = job[u][q]
        /\ \A v \in Uploads \ {u} : job'[v] = job[v]
    BY <1>a, <1>p, <2>1
  <2>3. /\ file[PathOf(u)] = Empty => file' = [file EXCEPT ![PathOf(u)] = job[u][r].status]
        /\ \A p \in Paths \ {PathOf(u)} : file'[p] = file[p]
    BY <1>2, <1>t DEF WriteLands, Put
  <2> QED BY <1>j, <2>1, <2>2, <2>3 DEF InPhase
<1>3. CASE UnlinkedLands(u, r)
  <2>1. ToPhase(u, r, "ok") /\ InPhase(u, r, "unlinked") /\ faults' = faults /\ file' = file
    BY <1>3 DEF UnlinkedLands
  <2>2. /\ job'[u][r] # NoJob /\ job'[u][r].phase = "ok"
        /\ \A q \in Roles \ {r} : job'[u][q] = job[u][q]
        /\ \A v \in Uploads \ {u} : job'[v] = job[v]
    BY <1>a, <1>p, <2>1
  <2> QED BY <1>j, <2>1, <2>2 DEF InPhase
<1>4. CASE IoFails(u, r)
  <2>1. ToPhase(u, r, "err") /\ faults' = faults + 1 /\ file' = file
    BY <1>4 DEF IoFails
  <2>2. /\ job'[u][r] # NoJob
        /\ \A q \in Roles \ {r} : job'[u][q] = job[u][q]
        /\ \A v \in Uploads \ {u} : job'[v] = job[v]
    BY <1>a, <1>p, <2>1
  <2>3. faults' # 0
    BY <1>t, <2>1
  <2> QED BY <1>j, <2>1, <2>2, <2>3
<1> QED BY <1>1, <1>2, <1>3, <1>4 DEF Io

LEMMA RemoveMoves ==
    ASSUME TypeInv, NEW u \in Uploads, RemoveLands(u)
    PROVE  /\ job[u]["remove"] # NoJob /\ faults' = faults
           /\ \A p \in Paths \ {PathOf(u)} : file'[p] = file[p]
           /\ \A v \in Uploads, r \in Roles :
                 /\ job'[v][r] # NoJob => job[v][r] # NoJob
                 /\ v # u /\ PathOf(v) # PathOf(u) => job'[v][r] = job[v][r]
                 /\ InPhase(v, r, "err")' => InPhase(v, r, "err")
<1>1. /\ job[u]["remove"] # NoJob /\ faults' = faults
      /\ \A p \in Paths \ {PathOf(u)} : file'[p] = file[p]
  BY DEF RemoveLands, Put, InPhase, TypeInv, TypeOK
<1>2. ASSUME NEW v \in Uploads, NEW r \in Roles
      PROVE  /\ job'[v][r] # NoJob => job[v][r] # NoJob
             /\ v # u /\ PathOf(v) # PathOf(u) => job'[v][r] = job[v][r]
             /\ InPhase(v, r, "err")' => InPhase(v, r, "err")
  <2>t. job[u][r] \in Job \cup {NoJob} /\ job[v][r] \in Job \cup {NoJob}
    BY DEF TypeInv, TypeOK
  <2> DEFINE a == [job[u][r] EXCEPT !.phase = "ok"]
             b == [job[v][r] EXCEPT !.phase = "unlinked"]
  <2>1. job'[v][r] = IF <<v, r>> = <<u, "remove">> THEN a
                     ELSE IF PathOf(v) = PathOf(u) /\ InPhase(v, r, "open") THEN b
                     ELSE job[v][r]
    BY DEF RemoveLands
  <2>2. /\ job[u][r] \in Job => a.phase = "ok"
        /\ job[v][r] \in Job => b.phase = "unlinked"
    BY DEF Job
  <2> HIDE DEF a, b
  <2>3. CASE v = u /\ r = "remove"
    BY <1>1, <2>t, <2>1, <2>2, <2>3 DEF InPhase
  <2>4. CASE ~(v = u /\ r = "remove") /\ PathOf(v) = PathOf(u) /\ InPhase(v, r, "open")
    BY <2>t, <2>1, <2>2, <2>4 DEF InPhase
  <2>5. CASE ~(v = u /\ r = "remove") /\ ~(PathOf(v) = PathOf(u) /\ InPhase(v, r, "open"))
    BY <2>1, <2>5 DEF InPhase
  <2> QED BY <2>3, <2>4, <2>5
<1> QED BY <1>1, <1>2

\* What a step of one upload may do to another: nothing, if that one is alone on its
\* recording; at most it unlinks its writes.
LEMMA StepsApart ==
    ASSUME TypeInv, StagesInv, NEW u \in Uploads, UploadStep(u), NEW v \in Uploads \ {u}
    PROVE  /\ Kept(v) /\ (faults' = 0 => faults = 0)
           /\ \A r \in Roles : job'[v][r] # NoJob => job[v][r] # NoJob
           /\ \A r \in Roles : InPhase(v, r, "err")' => InPhase(v, r, "err")
           /\ Alone(v)' => Alone(v) /\ job'[v] = job[v] /\ file'[PathOf(v)] = file[PathOf(v)]
<1>1. Kept(v) /\ req' = req
  BY OthersKept DEF ServerKept
<1>2. Alone(v)' => Alone(v)
  BY <1>1, StartStays DEF Alone, PathOf
<1>3. Alone(v)' /\ (\E r \in Roles : job[u][r] # NoJob) => PathOf(u) # PathOf(v)
  <2>1. (\E r \in Roles : job[u][r] # NoJob) => start'[u] # "none"
    BY StartStays DEF StagesInv, Stages, Owned, WritesOwned
  <2> QED BY <1>1, <2>1 DEF Alone, PathOf
<1>p. PathOf(v) \in Paths /\ faults \in Nat /\ job[v] \in [Roles -> Job \cup {NoJob}]
  BY DEF TypeInv, TypeOK, PathOf
<1>4. CASE Quick(u)
  BY <1>1, <1>2, <1>4, QuickKeepsFiles, QuickKeepsOthers DEF InPhase
<1>5. CASE RemoveLands(u)
  <2>1. /\ \A r \in Roles : /\ job'[v][r] # NoJob => job[v][r] # NoJob
                            /\ InPhase(v, r, "err")' => InPhase(v, r, "err")
        /\ faults' = faults
        /\ PathOf(v) # PathOf(u) => file'[PathOf(v)] = file[PathOf(v)]
                                    /\ \A r \in Roles : job'[v][r] = job[v][r]
    BY <1>5, <1>p, RemoveMoves
  <2>2. job'[v] \in [Roles -> Job \cup {NoJob}]
    BY <1>5, TypeInvIo DEF IoProgress, TypeInv, TypeOK
  <2>3. PathOf(v) # PathOf(u) => job'[v] = job[v]
    BY <1>p, <2>1, <2>2
  <2>4. job[u]["remove"] # NoJob /\ "remove" \in Roles
    BY <1>5, RemoveMoves DEF Roles
  <2> QED BY <1>1, <1>2, <1>3, <2>1, <2>3, <2>4
<1>6. ASSUME NEW r \in Roles, Io(u, r)
      PROVE  /\ faults' = 0 => faults = 0
             /\ job'[v] = job[v]
             /\ Alone(v)' => file'[PathOf(v)] = file[PathOf(v)]
  <2>1. job[u][r] # NoJob /\ job'[v] = job[v]
    BY <1>6, IoMoves
  <2>2. faults' = 0 => faults = 0
    BY <1>6, IoMoves
  <2>3. ASSUME PathOf(v) # PathOf(u) PROVE file'[PathOf(v)] = file[PathOf(v)]
    <3>1. \/ file' = [file EXCEPT ![PathOf(u)] = Empty] \/ file' = file
          \/ \A p \in Paths \ {PathOf(u)} : file'[p] = file[p]
      BY <1>6, IoMoves
    <3> QED BY <1>p, <2>3, <3>1 DEF TypeInv, TypeOK
  <2> QED BY <1>3, <2>1, <2>2, <2>3
<1> QED BY <1>1, <1>2, <1>4, <1>5, <1>6, UploadStepSplits DEF InPhase

\* The same for a step that touches none of the files, and opens no write.
LEMMA FitKept ==
    ASSUME NEW u \in Uploads, Fit(u), file' = file, req' = req, Alone(u)' => Alone(u),
           worker'[u] \notin {"none", "wCompleted", "wFailed", "deleting", "ended"},
           \A r \in Roles \ {"worker", "progress"} : job'[u][r] # NoJob => job[u][r] # NoJob,
           job'[u]["worker"] # NoJob => worker'[u] \in Writing,
           job'[u]["progress"] # NoJob => prog'[u] = "writing",
           \A r \in Roles : InPhase(u, r, "open")' = InPhase(u, r, "open")
    PROVE  Fit(u)'
BY DEF Fit, PathOf

LEMMA AloneBefore ==
    ASSUME TypeInv, NEW u \in Uploads, UploadStep(u), NEW v \in Uploads, Alone(v)'
    PROVE  Alone(v)
BY StartStays, OthersKept DEF Alone, PathOf, ServerKept

LEMMA QuickIsStep == ASSUME NEW u \in Uploads, Quick(u) PROVE UploadStep(u)
BY DEF Quick, UploadStep

\* The updates of the worker: what they say of an upload goes with where it goes on.
LEMMA WorksUpdates ==
    ASSUME TypeInv, StagesInv, WorkInv, NEW u \in Uploads, UploadStep(u), file' = file,
           faults' = faults,
           NEW next \in Writing, NEW s \in States, NEW snap \in BOOLEAN, NEW ds \in BOOLEAN,
           NEW err \in Errors, worker[u] \in Runnable, WorkerUpdates(u, next, s, snap, ds, err),
           s \in ActiveStates => next \in {"wUploading", "wProcessing"},
           s = "failed" => err # "none"
    PROVE  Blamed(u)' /\ AtWork(u)'
<1>1. UpdateTaskState(u, "worker", s, snap, ds, err) /\ "worker" \in Roles
      /\ TypeOK /\ Blamed(u) /\ AtWork(u) /\ Stage(u)
  BY DEF WorkerUpdates, Roles, TypeInv, WorkInv, StagesInv, Stages, Staged
<1>2. /\ Known(u) /\ Known(u)' /\ task'[u].state = s
      /\ task'[u].error = (IF err = "none" THEN task[u].error ELSE err)
      /\ job'[u]["worker"] # NoJob /\ job'[u]["worker"].phase = "queued"
      /\ \A q \in Roles \ {"worker"} : job'[u][q] = job[u][q]
  BY <1>1, UpdatesEntry
<1>3. /\ worker'[u] = (IF aborted[u] THEN "ended" ELSE next) /\ ~aborted'[u] /\ prog' = prog
      /\ req' = req
  BY DEF WorkerUpdates, TypeInv, TypeOK, disk
<1>4. Blamed(u)'
  BY <1>2, <1>3 DEF Blamed
<1>5. ASSUME Healthy(u)', faults' = 0 PROVE Fit(u)'
  <2>1. s \in ActiveStates /\ task[u].error = "none"
    BY <1>2, <1>5 DEF Healthy, Active, Errors
  <2>2. task[u].state \in States
    BY <1>1, <1>2 DEF TypeOK, Known, Task
  <2>3. task[u].state \in ActiveStates /\ ~aborted[u]
    BY <1>1, <1>2, <2>1, <2>2 DEF Stage, Blamed, Runnable, States
  <2>4. Fit(u)
    BY <1>1, <1>2, <1>5, <2>1, <2>3 DEF AtWork, Healthy, Active
  <2>5. job[u]["worker"] = NoJob
    BY <2>4 DEF Fit, Runnable, Writing
  <2>6. \A r \in Roles : InPhase(u, r, "open")' = InPhase(u, r, "open")
    BY <1>2, <2>5 DEF InPhase
  <2>7. Alone(u)' => Alone(u)
    BY AloneBefore
  <2>8. worker'[u] \in {"wUploading", "wProcessing"}
    BY <1>3, <2>1, <2>3
  <2>9. job'[u]["progress"] # NoJob => prog'[u] = "writing"
    BY <1>2, <1>3, <2>4 DEF Fit, Roles
  <2>10. \A r \in Roles \ {"worker", "progress"} : job'[u][r] # NoJob => job[u][r] # NoJob
    BY <1>2
  <2> QED BY <1>3, <2>4, <2>6, <2>7, <2>8, <2>9, <2>10, FitKept DEF Writing
<1> QED BY <1>4, <1>5 DEF AtWork

LEMMA WorksWorker ==
    ASSUME TypeInv, StagesInv, WorkInv, NEW u \in Uploads, WorkerStep(u)
    PROVE  Blamed(u)' /\ AtWork(u)'
<1>q. Quick(u) /\ UploadStep(u) /\ file' = file /\ faults' = faults
  BY QuickKeepsFiles, QuickIsStep DEF Quick
<1>t. /\ job \in [Uploads -> [Roles -> Job \cup {NoJob}]] /\ worker \in [Uploads -> WorkerPcs]
      /\ aborted \in [Uploads -> BOOLEAN] /\ prog \in [Uploads -> ProgPcs]
      /\ "worker" \in Roles /\ "progress" \in Roles /\ "remove" \in Roles
  BY DEF TypeInv, TypeOK, Roles
<1>i. Blamed(u) /\ AtWork(u) /\ Stage(u) /\ NoErrors
  BY DEF WorkInv, StagesInv, Stages, Staged
<1>r. req' = req /\ (Alone(u)' => Alone(u))
  BY <1>q, OthersKept, AloneBefore DEF ServerKept
<1>1. CASE WorkerBegin(u) \/ WorkerRefused(u) \/ WorkerSnapshot(u) \/ WorkerRestored(u)
           \/ WorkerUnrestored(u)
  BY <1>q, <1>1, WorksUpdates DEF WorkerBegin, WorkerRefused, WorkerSnapshot, WorkerRestored,
     WorkerUnrestored, Writing, Runnable, States, ActiveStates, Errors
\* The worker goes on: its write has landed.
<1>2. CASE WorkerCreates(u) \/ WorkerRestores(u)
  <2>1. /\ UNCHANGED <<task, aborted>> /\ LandedOk(u, "worker")
        /\ job' = [job EXCEPT ![u]["worker"] = NoJob]
    BY <1>2 DEF WorkerCreates, WorkerRestores, WorkerGoesOn
  <2>2. \/ worker[u] = "wUploading" /\ worker'[u] = "creating"
        \/ worker[u] = "wProcessing" /\ worker'[u] = "restoring" /\ prog' = prog
    BY <1>2, <1>t DEF WorkerCreates, WorkerRestores, WorkerGoesOn
  <2>3. /\ job'[u]["worker"] = NoJob /\ ~InPhase(u, "worker", "open")
        /\ \A q \in Roles \ {"worker"} : job'[u][q] = job[u][q]
    BY <1>t, <2>1 DEF LandedOk, InPhase
  <2>4. Blamed(u)'
    BY <1>i, <2>1, <2>2 DEF Blamed, Known
  <2>5. ASSUME Healthy(u)', faults' = 0 PROVE Fit(u)'
    <3>1. Fit(u)
      BY <1>i, <1>q, <2>1, <2>5 DEF AtWork, Healthy, Active, Known
    <3>2. \A r \in Roles : InPhase(u, r, "open")' = InPhase(u, r, "open")
      BY <2>3 DEF InPhase
    <3>3. job'[u]["progress"] # NoJob => prog'[u] = "writing"
      BY <1>i, <1>t, <2>2, <2>3, <3>1 DEF Fit, Stage
    <3>4. \A r \in Roles \ {"worker", "progress"} : job'[u][r] # NoJob => job[u][r] # NoJob
      BY <2>3
    <3> QED BY <1>q, <1>r, <2>2, <2>3, <3>1, <3>2, <3>3, <3>4, FitKept
  <2> QED BY <2>4, <2>5 DEF AtWork
\* The worker ends: the upload was not healthy.
<1>3. CASE WorkerCompleted(u) \/ WorkerFailed(u) \/ WorkerRemoved(u) \/ WorkerGivesUp(u)
           \/ AbortLands(u)
  <2>1. task' = task /\ (aborted'[u] => aborted[u]) /\ worker[u] # "none"
    BY <1>3, <1>t, <1>i DEF WorkerCompleted, WorkerFailed, WorkerRemoved, WorkerGivesUp, AbortLands,
       WorkerGoesOn, Writing, Stage
  <2>2. Blamed(u)'
    BY <1>i, <2>1 DEF Blamed, Known
  <2>3. ASSUME Healthy(u), faults = 0 PROVE FALSE
    <3>1. Fit(u) /\ ~aborted[u]
      BY <1>i, <2>3 DEF AtWork, Healthy, Blamed
    <3>2. ~LandedErr(u, "worker")
      BY <1>i, <1>t, <2>3 DEF NoErrors, LandedErr, InPhase
    <3> QED BY <1>3, <3>1, <3>2 DEF Fit, WorkerCompleted, WorkerFailed, WorkerRemoved,
               WorkerGivesUp, AbortLands, WorkerGoesOn
  <2>4. Healthy(u)' => Healthy(u)
    BY <2>1 DEF Healthy, Active, Known
  <2> QED BY <1>q, <2>2, <2>3, <2>4 DEF AtWork
<1> QED BY <1>1, <1>2, <1>3 DEF WorkerStep

LEMMA WorksProg ==
    ASSUME TypeInv, StagesInv, WorkInv, NEW u \in Uploads,
           StudioProgress(u) \/ StudioReply(u) \/ ProgStep(u)
    PROVE  Blamed(u)' /\ AtWork(u)'
<1>q. Quick(u) /\ UploadStep(u) /\ file' = file /\ faults' = faults
  BY QuickKeepsFiles, QuickIsStep DEF Quick
<1>t. /\ job \in [Uploads -> [Roles -> Job \cup {NoJob}]] /\ worker \in [Uploads -> WorkerPcs]
      /\ prog \in [Uploads -> ProgPcs] /\ TypeOK
      /\ "worker" \in Roles /\ "progress" \in Roles
  BY DEF TypeInv, TypeOK, Roles
<1>i. Blamed(u) /\ AtWork(u) /\ Stage(u)
  BY DEF WorkInv, StagesInv, Stages, Staged
<1>r. req' = req /\ (Alone(u)' => Alone(u))
  BY <1>q, OthersKept, AloneBefore DEF ServerKept
<1>1. CASE StudioProgress(u) \/ StudioReply(u)
  <2>1. /\ UNCHANGED <<task, aborted, prog, job>>
        /\ worker[u] \in {"creating", "restoring"}
        /\ worker'[u] \in {"creating", "restoring", "joining", "refused", "restored", "unrestored"}
    BY <1>1, <1>t DEF StudioProgress, StudioReply, StudioStores, SnapshotCreated, SnapshotRefused,
       DatasetRestored, RestoreFailed, StudioAnswers, StudioStep
  <2>2. Blamed(u)'
    BY <1>i, <2>1 DEF Blamed, Known
  <2>3. ASSUME Healthy(u)', faults' = 0 PROVE Fit(u)'
    <3>1. Fit(u)
      BY <1>i, <1>q, <2>1, <2>3 DEF AtWork, Healthy, Active, Known
    <3>2. job'[u]["worker"] = NoJob /\ (job'[u]["progress"] # NoJob => prog'[u] = "writing")
      BY <2>1, <3>1 DEF Fit, Writing
    <3>3. \A r \in Roles : InPhase(u, r, "open")' = InPhase(u, r, "open")
      BY <2>1 DEF InPhase
    <3> QED BY <1>q, <1>r, <2>1, <3>1, <3>2, <3>3, FitKept
  <2> QED BY <2>2, <2>3 DEF AtWork
<1>2. CASE ProgReceive(u)
  <2>1. /\ UpdateTaskState(u, "progress", "uploading", FALSE, FALSE, "none")
        /\ prog[u] = "recv" /\ prog'[u] = "writing" /\ UNCHANGED <<worker, aborted>>
        /\ "uploading" \in States /\ "none" \in Errors
    BY <1>2, <1>t DEF ProgReceive, States, ActiveStates, Errors
  <2> DEFINE no == FALSE
             r == "progress"
             s == "uploading"
             e == "none"
  <2>a. /\ UpdateTaskState(u, r, s, no, no, e) /\ TypeOK
        /\ r \in Roles /\ s \in States /\ no \in BOOLEAN /\ e \in Errors
    BY <1>t, <2>1
  <2>d. r = "progress" /\ e = "none"
    OBVIOUS
  <2> HIDE DEF no, r, e
  <2>2. /\ Known(u) /\ Known(u)' /\ task'[u].state = "uploading"
        /\ task'[u].error = (IF e = "none" THEN task[u].error ELSE e)
        /\ job'[u][r] # NoJob /\ job'[u][r].phase = "queued"
        /\ \A q \in Roles \ {r} : job'[u][q] = job[u][q]
    BY <2>a, UpdatesEntry
  <2>3. worker[u] # "none" /\ task'[u].error = task[u].error
    BY <1>i, <2>1, <2>2, <2>d DEF Stage
  <2>4. Blamed(u)'
    BY <1>i, <2>1, <2>2, <2>3 DEF Blamed
  <2>5. ASSUME Healthy(u)', faults' = 0 PROVE Fit(u)'
    <3>1. task[u].error = "none" /\ task[u].state \in States
      BY <1>t, <2>2, <2>3, <2>5 DEF Healthy, TypeOK, Known, Task
    <3>2. task[u].state \in ActiveStates
      BY <1>i, <2>1, <2>2, <2>3, <3>1 DEF Stage, Blamed, States
    <3>3. Fit(u)
      BY <1>i, <1>q, <2>2, <2>5, <3>1, <3>2 DEF AtWork, Healthy, Active
    <3>4. job[u]["progress"] = NoJob
      BY <2>1, <3>3 DEF Fit
    <3>5. \A q \in Roles : InPhase(u, q, "open")' = InPhase(u, q, "open")
      BY <2>2, <2>d, <3>4 DEF InPhase
    <3>6. job'[u]["worker"] # NoJob => worker'[u] \in Writing
      BY <1>t, <2>1, <2>2, <2>d, <3>3 DEF Fit
    <3>7. \A q \in Roles \ {"worker", "progress"} : job'[u][q] # NoJob => job[u][q] # NoJob
      BY <2>2, <2>d
    <3>8. worker'[u] \notin {"none", "wCompleted", "wFailed", "deleting", "ended"}
      BY <2>1, <3>3 DEF Fit
    <3> QED BY <1>q, <1>r, <2>1, <3>3, <3>5, <3>6, <3>7, <3>8, FitKept
  <2> QED BY <2>4, <2>5 DEF AtWork
<1>3. CASE ProgWritten(u) \/ ProgEnds(u)
  <2>1. /\ UNCHANGED <<task, aborted, worker>>
        /\ \/ /\ prog[u] = "writing" /\ prog'[u] = "recv" /\ Landed(u, "progress")
              /\ job' = [job EXCEPT ![u]["progress"] = NoJob]
           \/ prog[u] = "recv" /\ job' = job
    BY <1>3, <1>t DEF ProgWritten, ProgEnds
  <2>2. Blamed(u)'
    BY <1>i, <2>1 DEF Blamed, Known
  <2>3. ASSUME Healthy(u)', faults' = 0 PROVE Fit(u)'
    <3>1. Fit(u)
      BY <1>i, <1>q, <2>1, <2>3 DEF AtWork, Healthy, Active, Known
    <3>2. /\ job'[u]["progress"] = NoJob /\ ~InPhase(u, "progress", "open")
          /\ \A q \in Roles \ {"progress"} : job'[u][q] = job[u][q]
      BY <1>t, <2>1, <3>1 DEF Fit, Landed, LandedOk, LandedErr, InPhase
    <3>3. \A q \in Roles : InPhase(u, q, "open")' = InPhase(u, q, "open")
      BY <3>2 DEF InPhase
    <3>4. /\ job'[u]["worker"] # NoJob => worker'[u] \in Writing
          /\ worker'[u] \notin {"none", "wCompleted", "wFailed", "deleting", "ended"}
      BY <1>t, <2>1, <3>1, <3>2 DEF Fit
    <3>5. \A q \in Roles \ {"worker", "progress"} : job'[u][q] # NoJob => job[u][q] # NoJob
      BY <3>2
    <3> QED BY <1>q, <1>r, <3>1, <3>2, <3>3, <3>4, <3>5, FitKept
  <2> QED BY <2>2, <2>3 DEF AtWork
<1> QED BY <1>1, <1>2, <1>3 DEF ProgStep

LEMMA WorksHandlers ==
    ASSUME TypeInv, StagesInv, WorkInv, NEW u \in Uploads,
           \/ StartUpload(u) \/ StartStep(u) \/ StartDropped(u)
           \/ CancelUpload(u) \/ CancelReply(u)
    PROVE  Blamed(u)' /\ AtWork(u)'
<1>q. Quick(u) /\ UploadStep(u) /\ file' = file /\ faults' = faults
  BY QuickKeepsFiles, QuickIsStep DEF Quick
<1>t. /\ job \in [Uploads -> [Roles -> Job \cup {NoJob}]] /\ worker \in [Uploads -> WorkerPcs]
      /\ task \in [Uploads -> Task \cup {NoTask}] /\ TypeOK
      /\ "start" \in Roles /\ "cancel" \in Roles /\ "worker" \in Roles /\ "progress" \in Roles
  BY DEF TypeInv, TypeOK, Roles
<1>i. Blamed(u) /\ AtWork(u) /\ Stage(u) /\ Begins(u)
  BY DEF WorkInv, StagesInv, Stages, Staged
<1>r. req' = req /\ (Alone(u)' => Alone(u))
  BY <1>q, OthersKept, AloneBefore DEF ServerKept
<1>1. CASE StartUpload(u) \/ StartFailed(u) \/ (StartDropped(u) /\ start[u] = "writing")
  <2>1. task' = task /\ worker' = worker /\ aborted' = aborted /\ start[u] \in {"none", "writing"}
    BY <1>1 DEF StartUpload, StartFailed, StartDropped
  <2>2. ~Known(u)' /\ ~aborted'[u]
    BY <1>i, <2>1 DEF Stage, Known
  <2> QED BY <2>2 DEF Blamed, AtWork, Healthy, Active
<1>2. CASE StartDropped(u) /\ start[u] = "storing"
  <2>1. UNCHANGED <<task, worker, aborted, prog, job>>
    BY <1>2 DEF StartDropped
  <2>2. Blamed(u)'
    BY <1>i, <2>1 DEF Blamed, Known
  <2>3. AtWork(u)'
    BY <1>i, <1>q, <1>r, <2>1 DEF AtWork, Healthy, Active, Known, Fit, InPhase, PathOf
  <2> QED BY <2>2, <2>3
<1>3. CASE StartWritten(u)
  <2> DEFINE n == [state |-> "queued", snapshot |-> FALSE, dataset |-> FALSE,
                   error |-> "none", handle |-> FALSE]
  <2>1. /\ task'[u] = n /\ n.state = "queued"
        /\ start[u] = "writing" /\ LandedOk(u, "start") /\ worker'[u] = "starting"
        /\ job' = [job EXCEPT ![u]["start"] = NoJob]
        /\ UNCHANGED <<aborted, prog>>
    BY <1>3, <1>t DEF StartWritten
  <2> HIDE DEF n
  <2>2. Blamed(u)'
    BY <1>i, <2>1 DEF Blamed, Stage
  <2>3. ASSUME faults' = 0 PROVE Fit(u)'
    <3>1. \A r \in Roles : job'[u][r] = NoJob
      BY <1>i, <1>t, <2>1 DEF Begins
    <3>2. Alone(u) => file[PathOf(u)] \in Status /\ file[PathOf(u)].id = u
      BY <1>i, <1>q, <2>1, <2>3 DEF Begins, Begun, LandedOk, InPhase
    <3> QED BY <1>q, <1>r, <1>t, <2>1, <3>1, <3>2 DEF Fit, InPhase, PathOf
  <2> QED BY <2>2, <2>3 DEF AtWork
<1>4. CASE StartStoreHandle(u)
  <2>1. task[u] \in Task
    BY <1>4, <1>t DEF StartStoreHandle, TypeInv, Present, Known
  <2> DEFINE t == [task[u] EXCEPT !.handle = TRUE]
  <2>2. t.state = task[u].state /\ t.error = task[u].error
    BY <2>1 DEF Task
  <2>3. task'[u] = t /\ UNCHANGED <<worker, aborted, prog, job>>
    BY <1>4, <1>t DEF StartStoreHandle
  <2>4. task[u] # NoTask
    BY <2>1, UploadAssumption
  <2> HIDE DEF t
  <2>5. Blamed(u)'
    BY <1>i, <2>2, <2>3, <2>4 DEF Blamed, Known
  <2>6. Healthy(u)' => Healthy(u)
    BY <2>2, <2>3, <2>4 DEF Healthy, Active, Known
  <2>7. AtWork(u)'
    BY <1>i, <1>q, <1>r, <2>3, <2>6 DEF AtWork, Fit, InPhase, PathOf
  <2> QED BY <2>5, <2>7
<1>5. CASE CancelUpload(u)
  <2>1. Known(u) /\ Fail(u, "cancelled", "cancel") /\ "cancelled" \in Errors
    BY <1>5 DEF CancelUpload, Errors
  <2>2. task'[u].error = "cancelled"
    BY <1>t, <2>1, FailsEntry
  <2> QED BY <2>2 DEF Blamed, AtWork, Healthy
<1>6. CASE CancelReply(u)
  <2>1. UNCHANGED <<task, worker, aborted, prog>> /\ job[u]["cancel"] # NoJob
    BY <1>6 DEF CancelReply, Landed, LandedOk, LandedErr
  <2>2. Blamed(u)'
    BY <1>i, <2>1 DEF Blamed, Known
  <2>3. ~(Healthy(u) /\ faults = 0)
    BY <1>i, <1>t, <2>1 DEF AtWork, Fit
  <2>4. Healthy(u)' => Healthy(u)
    BY <2>1 DEF Healthy, Active, Known
  <2> QED BY <1>q, <2>2, <2>3, <2>4 DEF AtWork
<1> QED BY <1>1, <1>2, <1>3, <1>4, <1>5, <1>6 DEF StartStep, StartDropped

\* While the first write is under way nothing else follows the upload.
LEMMA BeginsQuick ==
    ASSUME TypeInv, StagesInv, WorkInv, NEW u \in Uploads, Quick(u)
    PROVE  Begins(u)'
<1>t. /\ job \in [Uploads -> [Roles -> Job \cup {NoJob}]] /\ start \in [Uploads -> StartPcs]
      /\ "start" \in Roles /\ "cancel" \in Roles
  BY DEF TypeInv, TypeOK, Roles
<1>1. CASE StartUpload(u)
  <2> DEFINE st == [id |-> u, state |-> "queued", snapshot |-> FALSE, dataset |-> FALSE,
                    error |-> "none"]
             j == Queued(st)
  <2>1. start[u] = "none" /\ job' = [job EXCEPT ![u]["start"] = j] /\ j.phase = "queued"
    BY <1>1 DEF StartUpload, Queued
  <2> HIDE DEF j
  <2>2. \A r \in Roles : job[u][r] = NoJob
    BY <2>1 DEF StagesInv, Stages, Owned, WritesOwned
  <2>3. job'[u]["start"].phase = "queued" /\ \A r \in Roles \ {"start"} : job'[u][r] = NoJob
    BY <1>t, <2>1, <2>2
  <2> QED BY <2>3 DEF Begins, Begun, InPhase
<1>2. CASE StartStep(u) \/ StartDropped(u)
  BY <1>2, <1>t DEF StartStep, StartWritten, StartStoreHandle, StartFailed, StartDropped, Begins
<1>3. CASE CancelUpload(u) \/ CancelReply(u) \/ WorkerStep(u) \/ StudioProgress(u)
           \/ StudioReply(u) \/ ProgStep(u)
  <2>1. SUFFICES ASSUME start'[u] = "writing" PROVE FALSE
    BY DEF Begins
  <2>2. start' = start
    BY <1>3 DEF CancelUpload, CancelReply, WorkerStep, WorkerBegin,
       WorkerCreates, WorkerRefused, WorkerSnapshot, WorkerRestores, WorkerRestored,
       WorkerUnrestored, WorkerCompleted, WorkerFailed, WorkerRemoved, WorkerGivesUp, AbortLands,
       WorkerGoesOn, WorkerUpdates, StudioProgress, StudioReply, StudioStores, SnapshotCreated,
       SnapshotRefused, DatasetRestored, RestoreFailed, StudioAnswers, StudioStep, ProgStep,
       ProgReceive, ProgWritten, ProgEnds
  <2>3. /\ ~Known(u) /\ worker[u] = "none" /\ prog[u] = "none" /\ ~aborted[u]
        /\ job[u]["cancel"] = NoJob
    BY <1>t, <2>1, <2>2 DEF StagesInv, Stages, Staged, Stage, WorkInv, Begins
  <2> QED BY <1>3, <2>3 DEF CancelUpload, CancelReply, Landed, LandedOk, LandedErr, WorkerStep,
       WorkerBegin, WorkerCreates, WorkerRefused, WorkerSnapshot, WorkerRestores, WorkerRestored,
       WorkerUnrestored, WorkerCompleted, WorkerFailed, WorkerRemoved, WorkerGivesUp, AbortLands,
       WorkerGoesOn, Writing, StudioProgress, StudioReply, StudioStores, SnapshotCreated,
       SnapshotRefused, DatasetRestored, RestoreFailed, StudioAnswers, ProgStep,
       ProgReceive, ProgWritten, ProgEnds
<1> QED BY <1>1, <1>2, <1>3 DEF Quick

\* The writes of the upload itself.
LEMMA WorksIo ==
    ASSUME TypeInv, StagesInv, WorkInv, NEW u \in Uploads, NEW r \in Roles, Io(u, r),
           UploadStep(u), UNCHANGED <<task, start, worker, aborted, prog>>
    PROVE  Blamed(u)' /\ AtWork(u)' /\ Begins(u)'
<1>t. /\ job \in [Uploads -> [Roles -> Job \cup {NoJob}]] /\ PathOf(u) \in Paths
      /\ file \in [Paths -> Contents]
      /\ "start" \in Roles /\ "worker" \in Roles /\ "progress" \in Roles
  BY DEF TypeInv, TypeOK, Roles, PathOf
<1>i. Blamed(u) /\ AtWork(u) /\ Stage(u) /\ Begins(u)
  BY DEF WorkInv, StagesInv, Stages, Staged
<1>r. req' = req /\ (Alone(u)' => Alone(u)) /\ PathOf(u)' = PathOf(u)
  BY OthersKept, AloneBefore DEF ServerKept, PathOf
<1>j. /\ job[u][r] # NoJob /\ job'[u][r] # NoJob
      /\ \A q \in Roles \ {r} : job'[u][q] = job[u][q]
      /\ job[u][r].status.id = u /\ job[u][r].status \in Status
      /\ \A q \in Roles : job'[u][q] # NoJob => job[u][q] # NoJob
  BY <1>t, IoMoves DEF StagesInv, Stages, Owned, WritesOwned, Job
<1>m. \/ /\ InPhase(u, r, "queued") /\ InPhase(u, r, "open")'
         /\ file'[PathOf(u)] = Empty /\ faults' = faults
      \/ /\ InPhase(u, r, "open") /\ InPhase(u, r, "ok")' /\ faults' = faults
         /\ file[PathOf(u)] = Empty => file'[PathOf(u)] = job[u][r].status
      \/ /\ InPhase(u, r, "unlinked") /\ InPhase(u, r, "ok")' /\ faults' = faults
         /\ file' = file
      \/ faults' # 0
  BY <1>t, IoMoves
<1>1. Blamed(u)'
  BY <1>i DEF Blamed, Known
<1>2. ASSUME Healthy(u)', faults' = 0 PROVE Fit(u)'
  <2>1. Fit(u) /\ faults' = faults
    BY <1>i, <1>m, <1>2 DEF AtWork, Healthy, Active, Known
  <2>2. \A q \in Roles \ {r} : ~InPhase(u, q, "open")
    BY <1>i, <1>j, <2>1 DEF Fit, Stage, Writing, InPhase
  <2>3. \A q \in Roles \ {r} : InPhase(u, q, "open")' = InPhase(u, q, "open")
    BY <1>j DEF InPhase
  <2>4. Alone(u) => IF \E q \in Roles : InPhase(u, q, "open")' THEN file'[PathOf(u)] = Empty
                    ELSE file'[PathOf(u)] \in Status /\ file'[PathOf(u)].id = u
    BY <1>j, <1>m, <1>2, <2>1, <2>2, <2>3 DEF Fit, InPhase
  <2>5. Alone(u)' => IF \E q \in Roles : InPhase(u, q, "open")' THEN file'[PathOf(u)'] = Empty
                     ELSE file'[PathOf(u)'] \in Status /\ file'[PathOf(u)'].id = u
    BY <1>r, <2>4
  <2> QED BY <1>j, <1>t, <2>1, <2>5 DEF Fit
<1>3. Begins(u)'
  <2>1. SUFFICES ASSUME start[u] = "writing"
                 PROVE  /\ \A q \in Roles \ {"start"} : job'[u][q] = NoJob
                        /\ Alone(u)' /\ faults' = 0 => Begun(u)'
    BY DEF Begins
  <2>2. r = "start" /\ \A q \in Roles \ {"start"} : job'[u][q] = NoJob
    BY <1>i, <1>j, <2>1 DEF Begins
  <2>3. ASSUME Alone(u)', faults' = 0 PROVE Begun(u)'
    <3>1. Begun(u) /\ faults' = faults
      BY <1>i, <1>m, <1>r, <2>1, <2>3 DEF Begins
    <3> QED BY <1>j, <1>m, <1>r, <2>2, <2>3, <3>1 DEF Begun, InPhase
  <2> QED BY <2>2, <2>3
<1> QED BY <1>1, <1>2, <1>3 DEF AtWork

\* A write is asked for, left alone, or forgotten: only the disk moves it.
LEMMA QuickWrites ==
    ASSUME TypeInv, NEW u \in Uploads, Quick(u), NEW r \in Roles, job'[u][r] # NoJob
    PROVE  job'[u][r] = job[u][r] \/ job'[u][r].phase = "queued"
<1>t. job \in [Uploads -> [Roles -> Job \cup {NoJob}]] /\ TypeOK
  BY DEF TypeInv, TypeOK
<1>a. ASSUME NEW q \in Roles, NEW s, job' = [job EXCEPT ![u][q] = Queued(s)]
      PROVE  job'[u][r] = job[u][r] \/ job'[u][r].phase = "queued"
  <2> DEFINE j == Queued(s)
  <2>1. j.phase = "queued" /\ job' = [job EXCEPT ![u][q] = j]
    BY <1>a DEF Queued
  <2> HIDE DEF j
  <2> QED BY <1>t, <2>1
<1>b. ASSUME NEW q \in Roles, job' = [job EXCEPT ![u][q] = NoJob]
      PROVE  job'[u][r] = job[u][r]
  BY <1>t, <1>b
<1>r. {"start", "cancel", "worker", "progress", "remove"} \subseteq Roles
  BY DEF Roles
<1>1. CASE job' = job
  BY <1>1
<1>2. CASE StartUpload(u) \/ CancelUpload(u)
  <2>1. \E q \in Roles : \E s : job' = [job EXCEPT ![u][q] = Queued(s)]
    BY <1>2, <1>r DEF StartUpload, CancelUpload, Fail
  <2> QED BY <1>a, <2>1
<1>3. CASE WorkerBegin(u) \/ WorkerRefused(u) \/ WorkerSnapshot(u) \/ WorkerRestored(u)
           \/ WorkerUnrestored(u) \/ ProgReceive(u)
  <2>1. \E q \in Roles : \E s : job' = [job EXCEPT ![u][q] = Queued(s)]
    BY <1>3, <1>r DEF WorkerBegin, WorkerRefused, WorkerSnapshot, WorkerRestored,
       WorkerUnrestored, ProgReceive, WorkerUpdates, UpdateTaskState
  <2> QED BY <1>a, <2>1
<1>4. CASE StartWritten(u) \/ StartFailed(u) \/ CancelReply(u) \/ WorkerCreates(u)
           \/ WorkerRestores(u) \/ WorkerFailed(u) \/ WorkerRemoved(u) \/ WorkerGivesUp(u)
           \/ ProgWritten(u)
  <2>1. \E q \in Roles : job' = [job EXCEPT ![u][q] = NoJob]
    BY <1>4, <1>r DEF StartWritten, StartFailed, CancelReply, WorkerCreates, WorkerRestores,
       WorkerFailed, WorkerRemoved, WorkerGivesUp, ProgWritten
  <2> QED BY <1>b, <2>1
<1>5. CASE WorkerCompleted(u)
  <2> DEFINE j == Queued(StatusOf(u, task[u]))
             k == IF file[PathOf(u)] # NoFile THEN j ELSE job[u]["remove"]
  <2>1. j.phase = "queued"
    BY DEF Queued
  <2>2. \A q \in Roles : job'[u][q] = IF q = "remove" THEN k
                                     ELSE IF q = "worker" THEN NoJob ELSE job[u][q]
    BY <1>5, <1>t, <1>r DEF WorkerCompleted
  <2> HIDE DEF j
  <2> QED BY <2>1, <2>2
<1>6. CASE StartStoreHandle(u) \/ StartDropped(u) \/ AbortLands(u) \/ StudioProgress(u)
           \/ StudioReply(u) \/ ProgEnds(u)
  BY <1>1, <1>6 DEF StartStoreHandle, StartDropped, AbortLands, StudioProgress, StudioReply,
     StudioStores, SnapshotCreated, SnapshotRefused, DatasetRestored, RestoreFailed,
     StudioAnswers, StudioStep, ProgEnds
<1> QED BY <1>2, <1>3, <1>4, <1>5, <1>6 DEF Quick, StartStep, WorkerStep, ProgStep

LEMMA WorkUpload ==
    ASSUME TypeInv, StagesInv, WorkInv, NEW u \in Uploads, UploadStep(u)
    PROVE  WorkInv'
<1>1. req' = req
  BY OthersKept DEF ServerKept
<1>2. ASSUME NEW v \in Uploads, v # u
      PROVE  Blamed(v)' /\ AtWork(v)' /\ Begins(v)'
  <2>1. /\ Kept(v) /\ (faults' = 0 => faults = 0)
        /\ \A r \in Roles : job'[v][r] # NoJob => job[v][r] # NoJob
        /\ Alone(v)' => Alone(v) /\ job'[v] = job[v] /\ file'[PathOf(v)] = file[PathOf(v)]
    BY <1>2, StepsApart
  <2>2. Blamed(v) /\ AtWork(v) /\ Begins(v)
    BY DEF WorkInv
  <2>r. "worker" \in Roles /\ "progress" \in Roles /\ "start" \in Roles
    BY DEF Roles
  <2>3. Blamed(v)'
    BY <2>1, <2>2 DEF Blamed, Known, Kept
  <2>4. AtWork(v)'
    <3>1. SUFFICES ASSUME Healthy(v)', faults' = 0 PROVE Fit(v)'
      BY DEF AtWork
    <3>2. Fit(v)
      BY <2>1, <2>2, <3>1 DEF AtWork, Healthy, Active, Known, Kept
    <3> QED BY <1>1, <2>1, <2>r, <3>2 DEF Fit, Kept, InPhase, PathOf
  <2>5. Begins(v)'
    BY <1>1, <2>1, <2>2, <2>r DEF Begins, Begun, Kept, InPhase, PathOf
  <2> QED BY <2>3, <2>4, <2>5
<1>3. CASE Quick(u)
  <2>1. Blamed(u)' /\ AtWork(u)'
    BY <1>3, WorksHandlers, WorksWorker, WorksProg DEF Quick
  <2>2. Begins(u)'
    BY <1>3, BeginsQuick
  <2>3. NoErrors'
    <3>1. \A r \in Roles : InPhase(u, r, "err")' => InPhase(u, r, "err")
      BY <1>3, QuickWrites DEF InPhase
    <3>2. \A v \in Uploads \ {u}, r \in Roles : InPhase(v, r, "err")' => InPhase(v, r, "err")
      BY StepsApart
    <3> QED BY <1>3, <3>1, <3>2, QuickKeepsFiles DEF NoErrors, WorkInv
  <2> QED BY <1>2, <2>1, <2>2, <2>3 DEF WorkInv
<1>4. CASE RemoveLands(u)
  <2>1. /\ job[u]["remove"] # NoJob /\ "remove" \in Roles /\ faults' = faults
        /\ \A v \in Uploads, r \in Roles : InPhase(v, r, "err")' => InPhase(v, r, "err")
    BY <1>4, RemoveMoves DEF Roles
  <2>2. UNCHANGED <<task, worker, aborted, start>>
    BY <1>4 DEF RemoveLands, IoStep
  <2>3. Blamed(u) /\ AtWork(u) /\ Begins(u) /\ NoErrors
    BY DEF WorkInv
  <2>4. Blamed(u)' /\ AtWork(u)'
    BY <2>1, <2>2, <2>3 DEF Blamed, AtWork, Healthy, Active, Known, Fit
  <2>5. Begins(u)'
    BY <2>1, <2>2, <2>3 DEF Begins
  <2>6. NoErrors'
    BY <2>1, <2>3 DEF NoErrors
  <2> QED BY <1>2, <2>4, <2>5, <2>6 DEF WorkInv
<1>5. ASSUME NEW r \in Roles, Io(u, r) PROVE WorkInv'
  <2>1. UNCHANGED <<task, start, worker, aborted, prog>>
    BY <1>5 DEF Io, WriteOpens, WriteLands, UnlinkedLands, IoFails, IoStep
  <2>2. Blamed(u)' /\ AtWork(u)' /\ Begins(u)'
    BY <1>5, <2>1, WorksIo
  <2>3. NoErrors'
    <3>1. SUFFICES ASSUME faults' = 0, NEW v \in Uploads, NEW q \in Roles, InPhase(v, q, "err")'
                   PROVE  InPhase(v, q, "err") /\ faults = 0
      BY DEF WorkInv, NoErrors
    <3>2. CASE v # u
      BY <3>1, <3>2, StepsApart
    <3>3. CASE v = u
      <4>1. /\ \A x \in Roles \ {r} : job'[u][x] = job[u][x]
            /\ faults' = faults /\ (InPhase(u, r, "open")' \/ InPhase(u, r, "ok")')
        BY <1>5, <3>1, IoMoves
      <4>2. q # r
        BY <3>1, <3>3, <4>1 DEF InPhase
      <4> QED BY <3>1, <3>3, <4>1, <4>2 DEF InPhase
    <3> QED BY <3>2, <3>3
  <2> QED BY <1>2, <2>2, <2>3 DEF WorkInv
<1> QED BY <1>3, <1>4, <1>5, UploadStepSplits

\* A step that only forgets writes that are no longer needed.
LEMMA WorkQuiet ==
    ASSUME WorkInv, UNCHANGED <<task, worker, aborted, prog, file, req, faults>>,
           \A v \in Uploads : start'[v] = "writing" => start[v] = "writing",
           \A v \in Uploads : start[v] # "none" => start'[v] # "none",
           \A v \in Uploads, r \in Roles :
              job'[v][r] # NoJob => r \in {"init", "shutdown"} \/ job'[v][r] = job[v][r],
           \A v \in Uploads, r \in {"init", "shutdown"} :
              job'[v][r] = job[v][r] \/ (job[v][r] # NoJob /\ job'[v][r] = NoJob),
           \A v \in Uploads, r \in Roles \ {"init", "shutdown"} : job'[v][r] = job[v][r]
    PROVE  WorkInv'
<1>r. /\ "worker" \in Roles /\ "progress" \in Roles /\ "start" \in Roles
      /\ "init" \in Roles /\ "shutdown" \in Roles
  BY DEF Roles
<1>1. NoErrors'
  BY DEF WorkInv, NoErrors, InPhase
<1>2. ASSUME NEW v \in Uploads PROVE Blamed(v)' /\ AtWork(v)' /\ Begins(v)'
  <2>1. Blamed(v) /\ AtWork(v) /\ Begins(v)
    BY DEF WorkInv
  <2>2. (Alone(v)' => Alone(v)) /\ PathOf(v)' = PathOf(v)
    BY DEF Alone, PathOf
  <2>3. Blamed(v)'
    BY <2>1 DEF Blamed, Known
  <2>4. AtWork(v)'
    <3>1. SUFFICES ASSUME Healthy(v)', faults' = 0 PROVE Fit(v)'
      BY DEF AtWork
    <3>2. Fit(v)
      BY <2>1, <3>1 DEF AtWork, Healthy, Active, Known
    <3>3. \A r \in Roles : job'[v][r] = job[v][r]
      BY <1>r, <3>2 DEF Fit
    <3>4. \A r \in Roles : InPhase(v, r, "open")' = InPhase(v, r, "open")
      BY <3>3 DEF InPhase
    <3> QED BY <1>r, <2>2, <3>2, <3>3, <3>4, FitKept DEF Fit
  <2>5. Begins(v)'
    <3>1. SUFFICES ASSUME start'[v] = "writing"
                   PROVE  /\ \A r \in Roles \ {"start"} : job'[v][r] = NoJob
                          /\ Alone(v)' /\ faults' = 0 => Begun(v)'
      BY DEF Begins
    <3>2. /\ \A r \in Roles \ {"start"} : job[v][r] = NoJob
          /\ Alone(v) /\ faults = 0 => Begun(v)
      BY <2>1, <3>1 DEF Begins
    <3>3. job'[v]["start"] = job[v]["start"]
      BY <1>r
    <3>4. \A r \in Roles \ {"start"} : job'[v][r] = NoJob
      BY <3>2
    <3> QED BY <2>2, <3>2, <3>3, <3>4 DEF Begun, InPhase
  <2> QED BY <2>3, <2>4, <2>5
<1> QED BY <1>1, <1>2 DEF WorkInv

LEMMA WorkServer ==
    ASSUME TypeInv, StagesInv, WorkInv,
           \/ Boot \/ ScanFails \/ InitStep \/ Signal \/ ShutdownStep \/ Crash \/ PowerLoss \/ Idle
    PROVE  WorkInv'
<1> USE DEF ServerStep, disk, counters
<1>t. /\ job \in [Uploads -> [Roles -> Job \cup {NoJob}]] /\ TypeOK
      /\ "init" \in Roles /\ "shutdown" \in Roles
  BY DEF TypeInv, TypeOK, Roles
<1>s. \A u \in Uploads : Stage(u) /\ Blamed(u) /\ AtWork(u) /\ Begins(u)
  BY DEF StagesInv, Stages, Staged, WorkInv
<1>1. CASE Boot \/ InitDone \/ Signal \/ HttpStopped \/ ShutdownDone \/ Idle
           \/ (\E u \in Uploads : InitWritten(u) \/ ShutdownWritten(u) \/ ShutdownPasses(u))
  <2>1. /\ UNCHANGED <<task, worker, aborted, prog, file, req, faults>>
        /\ \A v \in Uploads : /\ start'[v] = "writing" => start[v] = "writing"
                              /\ start[v] # "none" => start'[v] # "none"
    BY <1>1 DEF Boot, InitDone, Signal, HttpStopped, ShutdownDone, Idle, vars,
                InitWritten, ShutdownWritten, ShutdownPasses
  <2>2. \/ job' = job
        \/ \E u \in Uploads, r \in {"init", "shutdown"} :
              Landed(u, r) /\ job' = [job EXCEPT ![u][r] = NoJob]
    BY <1>1 DEF Boot, InitDone, Signal, HttpStopped, ShutdownDone, Idle, vars,
                InitWritten, ShutdownWritten, ShutdownPasses
  <2>3. /\ \A v \in Uploads, r \in Roles :
              job'[v][r] # NoJob => r \in {"init", "shutdown"} \/ job'[v][r] = job[v][r]
        /\ \A v \in Uploads, r \in {"init", "shutdown"} :
              job'[v][r] = job[v][r] \/ (job[v][r] # NoJob /\ job'[v][r] = NoJob)
        /\ \A v \in Uploads, r \in Roles \ {"init", "shutdown"} : job'[v][r] = job[v][r]
    BY <1>t, <2>2 DEF Landed, LandedOk, LandedErr
  <2> QED BY <2>1, <2>3, WorkQuiet
<1>2. CASE ScanFails
  <2>1. faults \in Nat /\ faults' = faults + 1 /\ server = "booting"
        /\ UNCHANGED <<task, start, worker, aborted>>
    BY <1>2, UploadAssumption DEF ScanFails, TypeInv, TypeOK
  <2>2. faults' # 0
    BY <2>1
  <2>3. \A u \in Uploads : start[u] # "writing"
    BY <1>s, <2>1 DEF Stage
  <2> QED BY <1>s, <2>1, <2>2, <2>3 DEF WorkInv, NoErrors, Blamed, AtWork, Begins, Known
<1>3. ASSUME NEW p \in Paths, InitFile(p) PROVE WorkInv'
  <2>1. server = "booting" /\ UNCHANGED <<start, worker, aborted, prog, file, req, faults>>
    BY <1>3 DEF InitFile
  <2>2. CASE UNCHANGED <<task, job>>
    BY <2>1, <2>2, WorkQuiet
  <2>3. ASSUME NEW i \in Uploads, worker[i] = "none", ~Known(i), Known(i)', ~Active(i)',
               \A v \in Uploads \ {i} : task'[v] = task[v],
               job' = job \/ Asks(i, "init")
        PROVE  WorkInv'
    <3>1. NoErrors'
      BY <2>1, <2>3 DEF WorkInv, NoErrors, Asks, InPhase
    <3>2. Blamed(i)' /\ AtWork(i)' /\ Begins(i)'
      BY <1>s, <2>1, <2>3 DEF Blamed, AtWork, Healthy, Begins, Stage
    <3>3. ASSUME NEW v \in Uploads, v # i PROVE Blamed(v)' /\ AtWork(v)' /\ Begins(v)'
      <4>1. job'[v] = job[v] /\ task'[v] = task[v]
        BY <2>3, <3>3 DEF Asks
      <4>2. Blamed(v)' /\ AtWork(v)'
        BY <1>s, <2>1, <4>1 DEF Blamed, AtWork, Healthy, Active, Known, Fit, InPhase, Alone, PathOf
      <4>3. Begins(v)'
        BY <1>s, <2>1 DEF Begins, Stage
      <4> QED BY <4>2, <4>3
    <3> QED BY <3>1, <3>2, <3>3 DEF WorkInv
  <2> QED BY <1>3, <2>2, <2>3, InitFileEnters
<1>4. ASSUME NEW u \in Uploads, ShutdownCancel(u) PROVE WorkInv'
  <2>1. Known(u) /\ Fail(u, "shutdown", "shutdown") /\ "shutdown" \in Errors
        /\ server = "cancelling" /\ UNCHANGED <<start, prog, file, req, faults>>
    BY <1>4 DEF ShutdownCancel, Active, Errors
  <2>2. /\ task'[u].error = "shutdown" /\ job'[u]["shutdown"].phase = "queued"
        /\ \A q \in Roles \ {"shutdown"} : job'[u][q] = job[u][q]
        /\ \A v \in Uploads \ {u} : task'[v] = task[v] /\ job'[v] = job[v]
        /\ \A v \in Uploads \ {u} : worker'[v] = worker[v] /\ aborted'[v] = aborted[v]
    BY <1>t, <2>1, FailsEntry
  <2>3. NoErrors'
    BY <2>1, <2>2 DEF WorkInv, NoErrors, InPhase
  <2>4. \A v \in Uploads : Begins(v)'
    BY <1>s, <2>1 DEF Begins, Stage
  <2>5. Blamed(u)' /\ AtWork(u)'
    BY <2>2 DEF Blamed, AtWork, Healthy
  <2>6. ASSUME NEW v \in Uploads, v # u PROVE Blamed(v)' /\ AtWork(v)'
    BY <1>s, <2>1, <2>2, <2>6 DEF Blamed, AtWork, Healthy, Active, Known, Fit, InPhase, Alone, PathOf
  <2> QED BY <2>3, <2>4, <2>5, <2>6 DEF WorkInv
<1>5. CASE Exit \/ Crash \/ PowerLoss
  <2>1. \A u \in Uploads :
           /\ task'[u] = NoTask /\ ~aborted'[u] /\ start'[u] # "writing"
           /\ \A r \in Roles : job'[u][r] = NoJob
    BY <1>5 DEF Exit, Crash, PowerLoss, Gone
  <2> QED BY <2>1 DEF WorkInv, NoErrors, Blamed, AtWork, Healthy, Active, Known, Begins, InPhase
<1> QED
  BY <1>1, <1>2, <1>3, <1>4, <1>5 DEF InitStep, ShutdownStep

LEMMA WorkNext == TypeInv /\ StagesInv /\ WorkInv /\ [Next]_vars => WorkInv'
<1> SUFFICES ASSUME TypeInv, StagesInv, WorkInv, [Next]_vars PROVE WorkInv'
  OBVIOUS
<1>1. CASE UNCHANGED vars
  <2>1. /\ UNCHANGED <<task, worker, aborted, prog, file, req, faults>>
        /\ start' = start /\ job' = job
    BY <1>1 DEF vars, disk, counters
  <2> QED BY <2>1, WorkQuiet
<1>2. CASE Next
  BY <1>2, NextSteps, WorkServer, WorkUpload
<1> QED BY <1>1, <1>2

\* An upload that is alone on its recording has one writer at a time; while it works
\* the file is empty for the time of a write, and names it before and after.
THEOREM WorkIsRecoverable == Spec => []RecoverableOnDisk
<1>1. Init => TypeInv /\ StagesInv /\ WorkInv
  BY TypeInvInit, StagesInit, WorkInit
<1>2. TypeInv /\ StagesInv /\ WorkInv /\ [Next]_vars => (TypeInv /\ StagesInv /\ WorkInv)'
  BY TypeInvNext, StagesNext, WorkNext
<1>3. WorkInv => RecoverableOnDisk
  BY DEF WorkInv, AtWork, Healthy, Fit, RecoverableOnDisk, Recoverable
<1> QED
  BY <1>1, <1>2, <1>3, PTL DEF Spec

-----------------------------------------------------------------------------
(* What the end of the process leaves of an upload under way.              *)

\* Of an upload under way, or about to be, nothing that is to be written, is in a
\* file, or may come back after a loss of power tells a finished one.
LeftOf(u) ==
    \A p \in Paths : \A c \in held[p] \cup {file[p]} :
        c \in Status /\ c.id = u => NeedsRecovery(c)
Unfinished(u) ==
    Healthy(u) \/ start[u] = "writing" =>
        /\ \A r \in Roles : job[u][r] # NoJob => NeedsRecovery(job[u][r].status)
        /\ LeftOf(u)
LeftInv == \A u \in Uploads : Unfinished(u)

LEMMA LeftInit == Init => LeftInv
BY DEF Init, LeftInv, Unfinished, Healthy, Active, Known

\* An upload comes under way by its request alone: no other step makes a finished
\* one active, or takes an error back.
LEMMA HealthyBefore ==
    ASSUME TypeInv, StagesInv, NEW u \in Uploads, Blamed(u), UploadStep(u), Healthy(u)'
    PROVE  Healthy(u) \/ start[u] = "writing"
<1> USE DEF disk, counters
<1>t. /\ task \in [Uploads -> Task \cup {NoTask}] /\ TypeOK
      /\ Stage(u)
  BY DEF TypeInv, TypeOK, StagesInv, Stages, Staged
<1>s. Known(u) => task[u].state \in ActiveStates \cup {"completed", "failed"}
  BY <1>t DEF Known, Task, States
<1>1. CASE task'[u] = task[u]
  BY <1>1 DEF Healthy, Active, Known
<1>2. ASSUME NEW s \in States, NEW snap \in BOOLEAN, NEW ds \in BOOLEAN, NEW err \in Errors,
             NEW r \in Roles, UpdateTaskState(u, r, s, snap, ds, err),
             task[u].state # "completed", task[u].state = "failed" => task[u].error # "none"
      PROVE  Healthy(u)
  <2>1. Known(u) /\ task'[u].error = (IF err = "none" THEN task[u].error ELSE err)
    BY <1>2, <1>t, UpdatesEntry
  <2>2. task[u].error = "none"
    BY <2>1 DEF Healthy
  <2> QED BY <1>2, <1>s, <2>1, <2>2 DEF Healthy, Active
<1>3. CASE StartWritten(u)
  BY <1>3 DEF StartWritten
<1>4. CASE StartStoreHandle(u)
  <2>1. Known(u) /\ task' = [task EXCEPT ![u].handle = TRUE]
    BY <1>4 DEF StartStoreHandle, TypeInv, Present
  <2>2. task'[u].state = task[u].state /\ task'[u].error = task[u].error
    BY <1>t, <2>1 DEF Known, Task
  <2> QED BY <2>1, <2>2 DEF Healthy, Active
<1>5. CASE CancelUpload(u)
  <2>1. Known(u) /\ Fail(u, "cancelled", "cancel") /\ "cancelled" \in Errors /\ "cancel" \in Roles
    BY <1>5 DEF CancelUpload, Errors, Roles
  <2>2. task'[u].error = "cancelled"
    BY <1>t, <2>1, FailsEntry
  <2> QED BY <2>2 DEF Healthy
<1>6. CASE WorkerBegin(u) \/ WorkerRefused(u) \/ WorkerSnapshot(u) \/ WorkerRestored(u)
           \/ WorkerUnrestored(u)
  <2>1. worker[u] \in Runnable
    BY <1>6 DEF WorkerBegin, WorkerRefused, WorkerSnapshot, WorkerRestored, WorkerUnrestored,
                Runnable
  <2>2. \E s \in States, snap \in BOOLEAN, ds \in BOOLEAN, err \in Errors :
           UpdateTaskState(u, "worker", s, snap, ds, err)
    BY <1>6 DEF WorkerBegin, WorkerRefused, WorkerSnapshot, WorkerRestored, WorkerUnrestored,
                WorkerUpdates, States, ActiveStates, Errors
  <2>3. "worker" \in Roles /\ Known(u)
    BY <2>2 DEF Roles, UpdateTaskState
  <2>4. task[u].state # "completed" /\ (task[u].state = "failed" => task[u].error # "none")
    BY <1>t, <2>1, <2>3 DEF Stage, Blamed, Runnable
  <2> QED BY <1>2, <2>2, <2>3, <2>4
<1>7. CASE ProgReceive(u)
  <2>1. prog[u] = "recv" /\ UpdateTaskState(u, "progress", "uploading", FALSE, FALSE, "none")
    BY <1>7 DEF ProgReceive
  <2>2. "progress" \in Roles /\ "uploading" \in States /\ "none" \in Errors /\ Known(u)
    BY <2>1 DEF Roles, States, ActiveStates, Errors, UpdateTaskState
  <2>3. task[u].state # "completed" /\ (task[u].state = "failed" => task[u].error # "none")
    BY <1>t, <2>1, <2>2 DEF Stage, Blamed
  <2> QED BY <1>2, <2>1, <2>2, <2>3
<1>8. CASE task' = task
  BY <1>1, <1>8
<1>9. \/ StartWritten(u) \/ StartStoreHandle(u) \/ CancelUpload(u) \/ WorkerBegin(u)
      \/ WorkerRefused(u) \/ WorkerSnapshot(u) \/ WorkerRestored(u) \/ WorkerUnrestored(u)
      \/ ProgReceive(u) \/ task' = task
  BY DEF UploadStep, StartUpload, StartStep, StartFailed, StartDropped, CancelReply, WorkerStep,
         WorkerCreates, WorkerRestores, WorkerCompleted, WorkerFailed, WorkerRemoved,
         WorkerGivesUp, AbortLands, WorkerGoesOn, StudioProgress, StudioReply, StudioStores,
         SnapshotCreated, SnapshotRefused, DatasetRestored, RestoreFailed, StudioAnswers,
         StudioStep, ProgStep, ProgWritten, ProgEnds, IoProgress, WriteOpens, WriteLands,
         RemoveLands, UnlinkedLands, IoFails, IoStep
<1> QED BY <1>3, <1>4, <1>5, <1>6, <1>7, <1>8, <1>9

LEMMA LeftUpload ==
    ASSUME TypeInv, TypeInv', StagesInv, WorkInv, LeftInv, [Next]_vars,
           NEW u \in Uploads, UploadStep(u)
    PROVE  LeftInv'
<1>1. ServerKept /\ \A v \in Uploads \ {u} : Kept(v)
  BY OthersKept
<1>n. "queued" \in ActiveStates
  BY DEF ActiveStates
<1>2. ASSUME NEW v \in Uploads, Healthy(v)' \/ start'[v] = "writing"
      PROVE  \/ start[v] = "none"
             \/ Unfinished(v) /\ (Healthy(v) \/ start[v] = "writing")
  <2>1. Unfinished(v)
    BY DEF LeftInv
  <2>2. CASE v # u
    BY <1>1, <1>2, <2>1, <2>2 DEF Kept, Healthy, Active, Known
  <2>3. CASE v = u /\ Healthy(v)'
    BY <2>1, <2>3, HealthyBefore DEF WorkInv
  <2>4. CASE v = u /\ start'[v] = "writing"
    <3>1. start[u] \in {"none", "writing"}
      BY <2>4 DEF UploadStep, StartUpload, StartStep, StartWritten, StartStoreHandle, StartFailed,
            StartDropped, CancelUpload, CancelReply, WorkerStep, WorkerBegin, WorkerCreates,
            WorkerRefused, WorkerSnapshot, WorkerRestores, WorkerRestored, WorkerUnrestored,
            WorkerCompleted, WorkerFailed, WorkerRemoved, WorkerGivesUp, AbortLands, WorkerGoesOn,
            WorkerUpdates, StudioProgress, StudioReply, StudioStores, SnapshotCreated,
            SnapshotRefused, DatasetRestored, RestoreFailed, StudioAnswers, StudioStep,
            ProgStep, ProgReceive, ProgWritten, ProgEnds, IoProgress, WriteOpens, WriteLands,
            RemoveLands, UnlinkedLands, IoFails, IoStep, TypeInv, TypeOK
    <3>2. start[v] = "none" \/ start[v] = "writing"
      BY <2>4, <3>1
    <3>3. CASE start[v] = "none"
      BY <3>3
    <3>4. CASE start[v] = "writing"
      BY <2>1, <3>4
    <3> QED BY <3>2, <3>3, <3>4
  <2> QED BY <1>2, <2>2, <2>3, <2>4
<1>3. ASSUME NEW v \in Uploads, Healthy(v)' \/ start'[v] = "writing"
      PROVE  /\ \A r \in Roles : job[v][r] # NoJob => NeedsRecovery(job[v][r].status)
             /\ LeftOf(v)
  <2>1. CASE start[v] = "none"
    <3>1. \A p \in Paths : \A c \in held[p] \cup {file[p]} : c \in Status => c.id # v
      BY <2>1 DEF StagesInv, Stages, Owned, FilesOwned, HeldOwned
    <3>2. \A r \in Roles : job[v][r] = NoJob
      BY <2>1 DEF StagesInv, Stages, Owned, WritesOwned
    <3> QED BY <3>1, <3>2 DEF LeftOf
  <2> QED BY <1>2, <1>3, <2>1 DEF Unfinished
<1>4. ASSUME NEW v \in Uploads, Healthy(v)' \/ start'[v] = "writing",
             NEW r \in Roles, job'[v][r] # NoJob
      PROVE  NeedsRecovery(job'[v][r].status)
  <2>1. CASE job[v][r] # NoJob /\ job'[v][r].status = job[v][r].status
    BY <1>3, <1>4, <2>1
  <2>2. CASE v = u /\ job'[u][r].status.state = "queued"
    BY <1>n, <2>2 DEF NeedsRecovery
  <2>3. CASE v = u /\ Known(u)' /\ job'[u][r].status.state = task'[u].state
    <3>1. start'[u] # "writing"
      BY <2>3, StagesNext DEF StagesInv, Stages, Staged, Stage
    <3> QED BY <1>4, <2>3, <3>1 DEF Healthy, Active, NeedsRecovery
  <2>4. CASE NoMoreWrites
    BY <1>4, <2>1, <2>4 DEF NoMoreWrites
  <2>5. ASSUME NEW q \in Roles, Asks(u, q),
               \/ job'[u][q].status.state = "queued"
               \/ Known(u)' /\ job'[u][q].status.state = task'[u].state
        PROVE  NeedsRecovery(job'[v][r].status)
    BY <1>4, <2>1, <2>2, <2>3, <2>5 DEF Asks
  <2> QED BY <2>4, <2>5, WritesMove
<1>5. ASSUME NEW v \in Uploads, Healthy(v)' \/ start'[v] = "writing",
             NEW p \in Paths, NEW c \in held'[p] \cup {file'[p]}, c \in Status, c.id = v
      PROVE  NeedsRecovery(c)
  <2>1. CASE c \in held[p] \cup {file[p]}
    BY <1>3, <1>5, <2>1 DEF LeftOf
  <2>2. ASSUME NEW r \in Roles, WriteLands(u, r), c = job[u][r].status
        PROVE  NeedsRecovery(c)
    <3>1. job[u][r] # NoJob
      BY <2>2 DEF WriteLands, InPhase
    <3>2. u = v
      BY <1>5, <2>2, <3>1 DEF StagesInv, Stages, Owned, WritesOwned
    <3> QED BY <1>3, <1>5, <2>2, <3>1, <3>2
  <2>3. CASE c = file'[p]
    BY <1>5, <2>1, <2>2, <2>3, FilesMove
  <2> QED BY <1>5, <2>1, <2>3, HeldGrows
<1> QED BY <1>4, <1>5 DEF LeftInv, Unfinished, LeftOf

\* A step that brings no upload under way, and asks for no write of one that is.
LEMMA LeftQuiet ==
    ASSUME TypeInv, LeftInv, [Next]_vars, file' = file,
           \A v \in Uploads : Healthy(v)' => Healthy(v),
           \A v \in Uploads : start'[v] = "writing" => start[v] = "writing",
           \A v \in Uploads, r \in Roles : Healthy(v)' /\ job'[v][r] # NoJob =>
              job[v][r] # NoJob /\ job'[v][r].status = job[v][r].status,
           \A v \in Uploads, r \in Roles : start'[v] = "writing" /\ job'[v][r] # NoJob =>
              job[v][r] # NoJob /\ job'[v][r].status = job[v][r].status
    PROVE  LeftInv'
<1>1. \A p \in Paths : held'[p] \cup {file'[p]} \subseteq held[p] \cup {file[p]}
  BY HeldGrows
<1> QED BY <1>1 DEF LeftInv, Unfinished, LeftOf

LEMMA LeftServer ==
    ASSUME TypeInv, StagesInv, LeftInv, [Next]_vars,
           \/ Boot \/ ScanFails \/ InitStep \/ Signal \/ ShutdownStep \/ Crash \/ PowerLoss \/ Idle
    PROVE  LeftInv'
<1> USE DEF ServerStep, disk, counters
<1>t. /\ job \in [Uploads -> [Roles -> Job \cup {NoJob}]] /\ TypeOK
      /\ "init" \in Roles /\ "shutdown" \in Roles
  BY DEF TypeInv, TypeOK, Roles
<1>s. \A u \in Uploads : Stage(u)
  BY DEF StagesInv, Stages, Staged
<1>1. CASE Boot \/ ScanFails \/ InitDone \/ Signal \/ HttpStopped \/ ShutdownDone \/ Idle
           \/ (\E u \in Uploads : InitWritten(u) \/ ShutdownWritten(u) \/ ShutdownPasses(u))
  <2>1. /\ UNCHANGED <<task, file>>
        /\ \A v \in Uploads : start'[v] = "writing" => start[v] = "writing"
    BY <1>1 DEF Boot, ScanFails, InitDone, Signal, HttpStopped, ShutdownDone, Idle, vars,
       InitWritten, ShutdownWritten, ShutdownPasses
  <2>2. job' = job \/ \E u \in Uploads, r \in Roles : job' = [job EXCEPT ![u][r] = NoJob]
    BY <1>1, <1>t DEF Boot, ScanFails, InitDone, Signal, HttpStopped, ShutdownDone, Idle, vars,
       InitWritten, ShutdownWritten, ShutdownPasses
  <2>3. \A v \in Uploads, r \in Roles : job'[v][r] # NoJob => job'[v][r] = job[v][r]
    BY <1>t, <2>2
  <2>4. \A v \in Uploads : Healthy(v)' => Healthy(v)
    BY <2>1 DEF Healthy, Active, Known
  <2> QED BY <2>1, <2>3, <2>4, LeftQuiet
<1>2. ASSUME NEW i \in Uploads, NEW r \in Roles, ~Healthy(i)', start'[i] # "writing",
             \A v \in Uploads \ {i} : task'[v] = task[v] /\ job'[v] = job[v],
             file' = file, start' = start
      PROVE  LeftInv'
  <2>1. \A v \in Uploads : Healthy(v)' => v # i /\ Healthy(v)
    BY <1>2 DEF Healthy, Active, Known
  <2> QED BY <1>2, <2>1, LeftQuiet
<1>3. ASSUME NEW p \in Paths, InitFile(p) PROVE LeftInv'
  <2>1. UNCHANGED <<start, file>>
    BY <1>3 DEF InitFile
  <2>2. CASE UNCHANGED <<task, job>>
    <3>1. \A v \in Uploads : Healthy(v)' => Healthy(v)
      BY <2>2 DEF Healthy, Active, Known
    <3> QED BY <2>1, <2>2, <3>1, LeftQuiet
  <2>3. ASSUME NEW i \in Uploads, start[i] = "gone", ~Active(i)',
               \A v \in Uploads \ {i} : task'[v] = task[v],
               job' = job \/ Asks(i, "init")
        PROVE  LeftInv'
    <3>1. ~Healthy(i)' /\ start'[i] # "writing"
          /\ \A v \in Uploads \ {i} : task'[v] = task[v] /\ job'[v] = job[v]
      BY <2>1, <2>3 DEF Healthy, Asks
    <3> QED BY <1>2, <1>t, <2>1, <3>1
  <2> QED BY <1>3, <2>2, <2>3, InitFileEnters
<1>4. ASSUME NEW u \in Uploads, ShutdownCancel(u) PROVE LeftInv'
  <2>1. /\ Known(u) /\ Fail(u, "shutdown", "shutdown") /\ "shutdown" \in Errors
        /\ UNCHANGED <<start, file>> /\ start[u] # "writing"
    BY <1>4, <1>s DEF ShutdownCancel, Active, Errors, Stage
  <2>2. /\ task'[u].error = "shutdown"
        /\ \A v \in Uploads \ {u} : task'[v] = task[v] /\ job'[v] = job[v]
    BY <1>t, <2>1, FailsEntry
  <2>3. ~Healthy(u)'
    BY <2>2 DEF Healthy
  <2> QED BY <1>2, <1>t, <2>1, <2>2, <2>3
<1>5. CASE Exit \/ Crash \/ PowerLoss
  <2>1. \A v \in Uploads : ~Known(v)' /\ start'[v] # "writing"
    BY <1>5 DEF Exit, Crash, PowerLoss, Gone, Known
  <2> QED BY <2>1 DEF LeftInv, Unfinished, Healthy, Active
<1> QED BY <1>1, <1>3, <1>4, <1>5 DEF InitStep, ShutdownStep

\* Whatever a kill or a loss of power leaves of an upload under way, recovery finds
\* it unfinished, or finds nothing that it can read.
THEOREM EndsAsUnfinished == Spec => LeftUnfinished
<1> DEFINE P == server # "down" /\ server' = "down" =>
          \A u \in Uploads :
             Active(u) /\ task[u].error = "none" /\ Alone(u)
                /\ file'[PathOf(u)] \in Status
             => file'[PathOf(u)].id = u /\ NeedsRecovery(file'[PathOf(u)])
           I == TypeInv /\ StagesInv /\ WorkInv /\ LeftInv
<1>1. Init => I
  BY TypeInvInit, StagesInit, WorkInit, LeftInit
<1>2. I /\ [Next]_vars => I'
  <2> SUFFICES ASSUME I, [Next]_vars PROVE I'
    OBVIOUS
  <2>1. TypeInv' /\ StagesInv' /\ WorkInv'
    BY TypeInvNext, StagesNext, WorkNext
  <2>2. CASE UNCHANGED vars
    <3>1. LeftInv'
      BY <2>2 DEF vars, disk, counters, LeftInv, Unfinished, LeftOf, Healthy, Active, Known
    <3> QED BY <2>1, <3>1
  <2>3. CASE Next
    BY <2>1, <2>3, NextSteps, LeftUpload, LeftServer
  <2> QED BY <2>1, <2>2, <2>3
<1>3. I /\ [Next]_vars => [P]_vars
  <2> SUFFICES ASSUME I, Next, server # "down", server' = "down", NEW u \in Uploads,
                      Active(u), task[u].error = "none", Alone(u), file'[PathOf(u)] \in Status
               PROVE  file'[PathOf(u)].id = u /\ NeedsRecovery(file'[PathOf(u)])
    OBVIOUS
  <2> DEFINE c == file'[PathOf(u)]
  <2>1. Exit \/ Crash \/ PowerLoss
    <3>1. \A v \in Uploads : ~UploadStep(v)
      BY OthersKept DEF ServerKept
    <3> QED BY <3>1, NextSteps DEF Boot, ScanFails, InitStep, InitFile, InitWritten, InitDone,
               Signal, ShutdownStep, HttpStopped, ShutdownCancel, ShutdownPasses,
               ShutdownWritten, ShutdownDone, Idle, vars, ServerStep
  <2>2. PathOf(u) \in Paths /\ c \in held[PathOf(u)] \cup {file[PathOf(u)]}
    BY <2>1 DEF Exit, Crash, PowerLoss, disk, TypeInv, TypeOK, PathOf
  <2>3. c.id \in Uploads
    BY DEF Status
  <2>4. PathOf(c.id) = PathOf(u) /\ start[c.id] # "none"
    BY <2>2 DEF StagesInv, Stages, Owned, FilesOwned, HeldOwned
  <2>5. c.id = u
    BY <2>3, <2>4 DEF Alone
  <2> QED BY <2>2, <2>5 DEF LeftInv, Unfinished, LeftOf, Healthy
<1> HIDE DEF I
<1> QED BY <1>1, <1>2, <1>3, PTL DEF Spec, LeftUnfinished

-----------------------------------------------------------------------------
(* The state diagram, as long as nobody cancels.                           *)

\* Where the worker is tells the state of its upload, and the progress task has an
\* end before the worker says more than "uploading".
Undisturbed(u) ==
    /\ worker[u] = "starting" => task[u].state = "queued"
    /\ worker[u] \in {"wUploading", "creating", "joining"} => task[u].state = "uploading"
    /\ worker[u] \in {"wProcessing", "restoring", "restored", "unrestored"}
          => task[u].state = "processing" /\ req[u].mode = "extended"
    /\ worker[u] # "refused" /\ ~aborted[u]
    /\ prog[u] \in {"recv", "writing"} => worker[u] \in {"creating", "joining"}
Calm == cancels = 0
LifeInv == Calm /\ Serving => \A u \in Uploads : Undisturbed(u)

\* The states that the diagram tells.
Shown == [u \in Uploads |-> IF Serving /\ Known(u) THEN task[u].state ELSE "absent"]
ShownModes == [u \in Uploads |-> req[u].mode]

LEMMA LifeInvInit == Init => LifeInv
BY DEF Init, LifeInv, Undisturbed

\* A step that takes an upload from one state of the diagram to another.
LEMMA ShowsMove ==
    ASSUME NEW u \in Uploads, NEW from, Shown[u] \in from, Known(u)', req' = req,
           Serving, server' = server,
           \A v \in Uploads \ {u} : task'[v] = task[v]
    PROVE  Lifecycle!Move(u, from, task'[u].state)
<1>1. Shown' = [Shown EXCEPT ![u] = task'[u].state]
  BY DEF Shown, Known, Serving
<1>2. ShownModes' = ShownModes
  BY DEF ShownModes
<1> QED BY <1>1, <1>2 DEF Lifecycle!Move, Shown, ShownModes

LEMMA ShowsNothing ==
    ASSUME req' = req, \A u \in Uploads : Shown'[u] = Shown[u]
    PROVE  Shown' = Shown /\ ShownModes' = ShownModes
BY DEF Shown, ShownModes

LifeStep == Lifecycle!LifeNext \/ (Shown' = Shown /\ ShownModes' = ShownModes)

LEMMA LifeUpdates ==
    ASSUME TypeInv, LifeInv, Calm, Serving, NEW u \in Uploads, UploadStep(u),
           NEW next \in Writing, NEW s \in States, NEW snap \in BOOLEAN, NEW ds \in BOOLEAN,
           NEW err \in Errors, WorkerUpdates(u, next, s, snap, ds, err)
    PROVE  /\ Known(u) /\ Known(u)' /\ task'[u].state = s
           /\ \A v \in Uploads \ {u} : task'[v] = task[v]
           /\ worker'[u] = next /\ ~aborted'[u] /\ prog' = prog /\ req' = req
<1>1. UpdateTaskState(u, "worker", s, snap, ds, err) /\ "worker" \in Roles
      /\ TypeOK /\ ~aborted[u]
  BY DEF WorkerUpdates, Roles, TypeInv, LifeInv, Undisturbed
<1>2. /\ Known(u) /\ Known(u)' /\ task'[u].state = s
      /\ \A v \in Uploads \ {u} : task'[v] = task[v]
  BY <1>1, UpdatesEntry
<1>3. worker'[u] = next /\ ~aborted'[u] /\ prog' = prog /\ req' = req
  BY <1>1 DEF WorkerUpdates, TypeInv, TypeOK, disk
<1> QED BY <1>2, <1>3

LEMMA CalmBefore ==
    ASSUME TypeInv, Calm', NEW u \in Uploads, UploadStep(u)
    PROVE  Calm
<1> USE DEF disk, counters
<1>1. cancels' \in {cancels, cancels + 1}
  BY DEF UploadStep, StartUpload, StartStep, StartWritten, StartStoreHandle, StartFailed,
     StartDropped, CancelUpload, CancelReply, WorkerStep, WorkerBegin, WorkerCreates,
     WorkerRefused, WorkerSnapshot, WorkerRestores, WorkerRestored, WorkerUnrestored,
     WorkerCompleted, WorkerFailed, WorkerRemoved, WorkerGivesUp, AbortLands, WorkerGoesOn,
     WorkerUpdates, StudioProgress, StudioReply, StudioStores, SnapshotCreated,
     SnapshotRefused, DatasetRestored, RestoreFailed, StudioAnswers, StudioStep, ProgStep,
     ProgReceive, ProgWritten, ProgEnds, IoProgress, WriteOpens, WriteLands, UnlinkedLands,
     RemoveLands, IoFails, IoStep
<1>2. cancels \in Nat /\ cancels' = 0
  BY UploadAssumption DEF TypeInv, TypeOK, Calm
<1>3. cancels + 1 # 0
  BY <1>2
<1> QED BY <1>1, <1>2, <1>3 DEF Calm

\* What a step of an upload shows of it, and where it leaves it.
LEMMA LifeUpload ==
    ASSUME TypeInv, StagesInv, LifeInv, ~UploadErrors, Calm', Serving, NEW u \in Uploads, UploadStep(u)
    PROVE  LifeStep /\ Undisturbed(u)'
<1> USE DEF disk, counters
<1>c. Calm
  BY CalmBefore
<1>t. /\ task \in [Uploads -> Task \cup {NoTask}] /\ worker \in [Uploads -> WorkerPcs]
      /\ aborted \in [Uploads -> BOOLEAN] /\ prog \in [Uploads -> ProgPcs] /\ TypeOK
      /\ req[u].mode \in {"basic", "extended"}
  BY UploadAssumption DEF TypeInv, TypeOK
<1>i. Undisturbed(u) /\ Stage(u)
  BY <1>c DEF LifeInv, StagesInv, Stages, Staged
<1>o. req' = req /\ server' = server /\ \A v \in Uploads \ {u} : task'[v] = task[v]
  BY OthersKept DEF ServerKept, Kept
<1>s. ASSUME Shown'[u] = Shown[u] PROVE LifeStep
  BY <1>o, <1>s, ShowsNothing DEF LifeStep, Shown, Known, Serving
<1>1. CASE StartUpload(u) \/ StartFailed(u) \/ StartDropped(u) \/ CancelReply(u)
           \/ (\E what \in {"snapshot", "dataset"} : StudioStores(u, what)) \/ StudioProgress(u)
           \/ IoProgress(u) \/ (\E r \in Roles : IoFails(u, r))
  <2>1. UNCHANGED <<task, worker, aborted, prog>>
    BY <1>1 DEF StartUpload, StartFailed, StartDropped, CancelReply, StudioStores, StudioProgress,
       StudioStep, IoProgress, WriteOpens, WriteLands, UnlinkedLands, RemoveLands, IoFails, IoStep
  <2> QED BY <1>i, <1>o, <1>s, <2>1 DEF Shown, Known, Serving, Undisturbed
<1>2. CASE StartWritten(u)
  <2> DEFINE n == [state |-> "queued", snapshot |-> FALSE, dataset |-> FALSE,
                   error |-> "none", handle |-> FALSE]
  <2>1. /\ task'[u] = n /\ n.state = "queued" /\ n \in Task
        /\ start[u] = "writing" /\ worker'[u] = "starting" /\ UNCHANGED <<aborted, prog>>
    BY <1>2, <1>t DEF StartWritten, Task, States, ActiveStates, Errors
  <2>2. ~Known(u) /\ Known(u)' /\ task'[u].state = "queued"
    BY <1>i, <2>1, UploadAssumption DEF Stage, Known
  <2>3. Lifecycle!Accept(u)
    <3>1. Shown[u] \in {"absent"}
      BY <2>2 DEF Shown
    <3>2. Lifecycle!Move(u, {"absent"}, task'[u].state)
      BY <1>o, <2>2, <3>1, ShowsMove
    <3> QED BY <2>2, <3>2 DEF Lifecycle!Accept, Lifecycle!Move
  <2> QED BY <1>i, <1>o, <2>1, <2>2, <2>3 DEF LifeStep, Lifecycle!LifeNext, Undisturbed, Stage
<1>3. CASE StartStoreHandle(u)
  <2>1. task[u] \in Task
    BY <1>3, <1>t DEF StartStoreHandle, TypeInv, Present, Known
  <2> DEFINE t == [task[u] EXCEPT !.handle = TRUE]
  <2>2. t.state = task[u].state
    BY <2>1 DEF Task
  <2>3. task'[u] = t /\ UNCHANGED <<worker, aborted, prog>>
    BY <1>3, <1>t DEF StartStoreHandle
  <2>4. task[u] # NoTask /\ t # NoTask
    BY <2>1, UploadAssumption DEF Task
  <2> HIDE DEF t
  <2> QED BY <1>i, <1>o, <1>s, <2>2, <2>3, <2>4 DEF Shown, Known, Serving, Undisturbed
<1>4. CASE CancelUpload(u)
  <2>1. cancels \in Nat /\ cancels' = cancels + 1 /\ cancels' = 0
    BY <1>4, UploadAssumption DEF CancelUpload, TypeInv, TypeOK, Calm
  <2> QED BY <2>1
<1>5. CASE WorkerBegin(u)
  <2>1. worker[u] = "starting" /\ WorkerUpdates(u, "wUploading", "uploading", FALSE, FALSE, "none")
    BY <1>5 DEF WorkerBegin
  <2>2. /\ Known(u) /\ Known(u)' /\ task'[u].state = "uploading"
        /\ worker'[u] = "wUploading" /\ ~aborted'[u] /\ prog' = prog
    BY <1>c, <2>1, LifeUpdates DEF Writing, States, ActiveStates, Errors
  <2>3. Lifecycle!Move(u, {"queued"}, task'[u].state)
    BY <1>i, <1>o, <2>1, <2>2, ShowsMove DEF Shown, Undisturbed
  <2>4. Lifecycle!Begin(u)
    BY <2>2, <2>3 DEF Lifecycle!Begin, Lifecycle!Move
  <2> QED BY <1>i, <2>1, <2>2, <2>4 DEF LifeStep, Lifecycle!LifeNext, Undisturbed
<1>6. CASE WorkerSnapshot(u)
  <2>1. worker[u] = "joining" /\ prog[u] = "done"
    BY <1>6 DEF WorkerSnapshot, ProgressJoined
  <2>2. CASE req[u].mode = "basic" /\ WorkerUpdates(u, "wCompleted", "completed", TRUE, FALSE, "none")
    <3>1. /\ Known(u) /\ Known(u)' /\ task'[u].state = "completed"
          /\ worker'[u] = "wCompleted" /\ ~aborted'[u] /\ prog' = prog
      BY <1>c, <2>2, LifeUpdates DEF Writing, States, ActiveStates, Errors
    <3>2. Lifecycle!Move(u, {"uploading"}, task'[u].state)
      BY <1>i, <1>o, <2>1, <3>1, ShowsMove DEF Shown, Undisturbed
    <3>3. Lifecycle!Complete(u)
      BY <2>2, <3>1, <3>2 DEF Lifecycle!Complete, Lifecycle!Move
    <3> QED BY <1>i, <2>1, <3>1, <3>3 DEF LifeStep, Lifecycle!LifeNext, Undisturbed
  <2>3. CASE /\ req[u].mode = "extended"
             /\ WorkerUpdates(u, "wProcessing", "processing", TRUE, FALSE, "none")
    <3>1. /\ Known(u) /\ Known(u)' /\ task'[u].state = "processing"
          /\ worker'[u] = "wProcessing" /\ ~aborted'[u] /\ prog' = prog
      BY <1>c, <2>3, LifeUpdates DEF Writing, States, ActiveStates, Errors
    <3>2. Lifecycle!Move(u, {"uploading"}, task'[u].state)
      BY <1>i, <1>o, <2>1, <3>1, ShowsMove DEF Shown, Undisturbed
    <3>3. Lifecycle!Process(u)
      BY <2>3, <3>1, <3>2 DEF Lifecycle!Process, Lifecycle!Move
    <3> QED BY <1>i, <1>o, <2>1, <2>3, <3>1, <3>3 DEF LifeStep, Lifecycle!LifeNext, Undisturbed
  <2> QED BY <1>6, <2>2, <2>3 DEF WorkerSnapshot
<1>7. CASE WorkerRestored(u)
  <2>1. worker[u] = "restored" /\ WorkerUpdates(u, "wCompleted", "completed", TRUE, TRUE, "none")
    BY <1>7 DEF WorkerRestored
  <2>2. /\ Known(u) /\ Known(u)' /\ task'[u].state = "completed"
        /\ worker'[u] = "wCompleted" /\ ~aborted'[u] /\ prog' = prog
    BY <1>c, <2>1, LifeUpdates DEF Writing, States, ActiveStates, Errors
  <2>3. Lifecycle!Move(u, {"processing"}, task'[u].state)
    BY <1>i, <1>o, <2>1, <2>2, ShowsMove DEF Shown, Undisturbed
  <2>4. Lifecycle!Complete(u)
    BY <1>i, <2>1, <2>2, <2>3 DEF Lifecycle!Complete, Lifecycle!Move, Undisturbed
  <2> QED BY <1>i, <2>1, <2>2, <2>4 DEF LifeStep, Lifecycle!LifeNext, Undisturbed
<1>8. CASE WorkerUnrestored(u)
  <2>1. worker[u] = "unrestored" /\ WorkerUpdates(u, "wFailed", "failed", TRUE, FALSE, "restore")
    BY <1>8 DEF WorkerUnrestored
  <2>2. /\ Known(u) /\ Known(u)' /\ task'[u].state = "failed"
        /\ worker'[u] = "wFailed" /\ ~aborted'[u] /\ prog' = prog
    BY <1>c, <2>1, LifeUpdates DEF Writing, States, ActiveStates, Errors
  <2>3. Lifecycle!Move(u, Lifecycle!Working, task'[u].state)
    BY <1>i, <1>o, <2>1, <2>2, ShowsMove DEF Shown, Undisturbed, Lifecycle!Working
  <2>4. Lifecycle!Fail(u)
    BY <2>2, <2>3 DEF Lifecycle!Fail, Lifecycle!Move
  <2> QED BY <1>i, <2>1, <2>2, <2>4 DEF LifeStep, Lifecycle!LifeNext, Undisturbed
<1>9. CASE WorkerRefused(u) \/ SnapshotRefused(u) \/ AbortLands(u)
  BY <1>9, <1>i DEF WorkerRefused, SnapshotRefused, AbortLands, Undisturbed
<1>10. CASE WorkerCreates(u) \/ WorkerRestores(u) \/ WorkerCompleted(u) \/ WorkerFailed(u)
            \/ WorkerRemoved(u) \/ WorkerGivesUp(u)
            \/ SnapshotCreated(u) \/ DatasetRestored(u) \/ RestoreFailed(u)
  <2>1. UNCHANGED <<task, aborted>>
    BY <1>10 DEF WorkerCreates, WorkerRestores, WorkerCompleted, WorkerFailed, WorkerGoesOn,
       WorkerRemoved, WorkerGivesUp, SnapshotCreated, DatasetRestored, RestoreFailed,
       StudioAnswers, StudioStep
  <2>2. \/ worker[u] = "wUploading" /\ worker'[u] = "creating"
        \/ worker[u] = "creating" /\ worker'[u] = "joining" /\ prog' = prog
        \/ worker[u] = "wProcessing" /\ worker'[u] = "restoring" /\ prog' = prog
        \/ /\ worker[u] = "restoring" /\ worker'[u] \in {"restored", "unrestored"} /\ prog' = prog
        \/ /\ worker[u] \in Writing \cup {"deleting"} /\ worker'[u] \in {"deleting", "ended"}
           /\ prog' = prog
    BY <1>10, <1>t DEF WorkerCreates, WorkerRestores, WorkerCompleted, WorkerFailed, WorkerGoesOn,
       WorkerRemoved, WorkerGivesUp, SnapshotCreated, DatasetRestored, RestoreFailed,
       StudioAnswers, StudioStep, Writing
  <2>3. Undisturbed(u)'
    BY <1>i, <1>o, <2>1, <2>2 DEF Undisturbed, Writing
  <2> QED BY <1>o, <1>s, <2>1, <2>3 DEF Shown, Known, Serving
<1>11. CASE ProgReceive(u)
  <2>1. /\ UpdateTaskState(u, "progress", "uploading", FALSE, FALSE, "none")
        /\ prog[u] = "recv" /\ prog'[u] = "writing" /\ UNCHANGED <<worker, aborted>>
        /\ "uploading" \in States /\ "none" \in Errors /\ "progress" \in Roles
    BY <1>11, <1>t DEF ProgReceive, States, ActiveStates, Errors, Roles
  <2> DEFINE no == FALSE
             r == "progress"
             s == "uploading"
             e == "none"
  <2>a. /\ UpdateTaskState(u, r, s, no, no, e) /\ TypeOK
        /\ r \in Roles /\ s \in States /\ no \in BOOLEAN /\ e \in Errors
    BY <1>t, <2>1
  <2> HIDE DEF no, r, e
  <2>2. Known(u) /\ Known(u)' /\ task'[u].state = "uploading"
    BY <2>a, UpdatesEntry
  <2>3. task[u].state = "uploading" /\ worker[u] \in {"creating", "joining"}
    BY <1>i, <2>1 DEF Undisturbed
  <2>4. Shown'[u] = Shown[u]
    BY <1>o, <2>2, <2>3 DEF Shown, Serving
  <2> QED BY <1>i, <1>s, <2>1, <2>2, <2>3, <2>4 DEF Undisturbed
<1>12. CASE ProgWritten(u) \/ ProgEnds(u)
  <2>1. /\ UNCHANGED <<task, worker, aborted>> /\ prog[u] \in {"recv", "writing"}
        /\ prog'[u] \in {"recv", "done"}
    BY <1>12, <1>t DEF ProgWritten, ProgEnds
  <2> QED BY <1>i, <1>o, <1>s, <2>1 DEF Shown, Known, Serving, Undisturbed
<1> QED
  BY <1>1, <1>2, <1>3, <1>4, <1>5, <1>6, <1>7, <1>8, <1>9, <1>10, <1>11, <1>12
     DEF UploadStep, StartStep, WorkerStep, StudioReply, ProgStep

LEMMA LifeServer ==
    ASSUME TypeInv, StagesInv, LifeInv, Calm',
           \/ Boot \/ ScanFails \/ InitStep \/ Signal \/ ShutdownStep \/ Crash \/ PowerLoss \/ Idle
    PROVE  LifeStep /\ LifeInv'
<1> USE DEF ServerStep, disk, counters
<1>t. task \in [Uploads -> Task \cup {NoTask}]
  BY DEF TypeInv, TypeOK
<1>c. Calm
  BY DEF Boot, ScanFails, InitStep, InitFile, InitWritten, InitDone, Signal, ShutdownStep,
     HttpStopped, ShutdownCancel, ShutdownPasses, ShutdownWritten, ShutdownDone, Exit, Crash,
     PowerLoss, Idle, vars, Calm
<1>i. Serving => \A u \in Uploads : Undisturbed(u)
  BY <1>c DEF LifeInv
<1>1. ASSUME UNCHANGED <<task, worker, aborted, prog, req>>, Serving' = Serving
      PROVE  LifeStep /\ LifeInv'
  <2>1. \A u \in Uploads : Shown'[u] = Shown[u]
    BY <1>1 DEF Shown, Known
  <2>2. LifeStep
    BY <1>1, <2>1, ShowsNothing DEF LifeStep
  <2> QED BY <1>1, <1>i, <2>2 DEF LifeInv, Undisturbed
<1>2. CASE Boot \/ ScanFails \/ InitDone \/ Signal \/ Idle \/ (\E u \in Uploads : InitWritten(u))
  <2>1. UNCHANGED <<task, worker, aborted, prog, req>> /\ Serving' = Serving
    BY <1>2 DEF Boot, ScanFails, InitDone, Signal, Idle, vars, InitWritten, Serving
  <2> QED BY <1>1, <2>1
<1>3. ASSUME NEW p \in Paths, InitFile(p) PROVE LifeStep /\ LifeInv'
  <2>1. UNCHANGED <<server, worker, aborted, prog, req>> /\ Serving /\ Serving'
    BY <1>3 DEF InitFile, Serving
  <2>2. CASE task' = task
    BY <1>1, <2>1, <2>2
  <2>3. ASSUME NEW i \in Uploads, worker[i] = "none", ~Known(i), Known(i)', ~Active(i)',
               task'[i] \in Task, \A v \in Uploads \ {i} : task'[v] = task[v]
        PROVE  LifeStep /\ LifeInv'
    <3>1. Lifecycle!Move(i, {"absent"}, task'[i].state)
      <4>1. Shown[i] \in {"absent"} /\ req' = req /\ server' = server
        BY <2>1, <2>3 DEF Shown
      <4>2. Shown' = [Shown EXCEPT ![i] = task'[i].state] /\ ShownModes' = ShownModes
        BY <2>1, <2>3, <4>1 DEF Shown, ShownModes, Known
      <4> QED BY <4>1, <4>2 DEF Lifecycle!Move, Shown, ShownModes
    <3>2. task'[i].state \in {"completed", "failed"}
      BY <2>3 DEF Active, Task, States
    <3>3. Lifecycle!Recover(i)
      BY <3>1, <3>2 DEF Lifecycle!Recover, Lifecycle!Move
    <3>4. \A u \in Uploads : Undisturbed(u)'
      BY <1>i, <2>1, <2>3 DEF Undisturbed
    <3> QED BY <3>3, <3>4 DEF LifeStep, Lifecycle!LifeNext, LifeInv
  <2> QED BY <1>3, <2>2, <2>3, InitFileEnters
<1>4. ASSUME ~Serving', req' = req PROVE LifeStep /\ LifeInv'
  <2>1. Lifecycle!Restart
    BY <1>4 DEF Lifecycle!Restart
  <2> QED BY <1>4, <2>1 DEF LifeStep, Lifecycle!LifeNext, LifeInv
<1>5. CASE HttpStopped \/ ShutdownDone
           \/ (\E u \in Uploads : ShutdownCancel(u) \/ ShutdownPasses(u) \/ ShutdownWritten(u))
  <2>1. ~Serving' /\ req' = req
    BY <1>5 DEF HttpStopped, ShutdownDone, ShutdownCancel, ShutdownPasses, ShutdownWritten, Serving
  <2> QED BY <1>4, <2>1
<1>6. CASE Exit \/ Crash \/ PowerLoss
  <2>1. /\ req' = req /\ worker' = [u \in Uploads |-> "none"]
        /\ task' = [u \in Uploads |-> NoTask] /\ aborted' = [u \in Uploads |-> FALSE]
        /\ prog' = [u \in Uploads |-> "none"]
    BY <1>6 DEF Exit, Crash, PowerLoss, Gone
  <2>2. Lifecycle!Restart
    BY <2>1 DEF Lifecycle!Restart, Known
  <2>3. LifeInv'
    BY <2>1 DEF LifeInv, Undisturbed
  <2> QED BY <2>2, <2>3 DEF LifeStep, Lifecycle!LifeNext
<1> QED
  BY <1>2, <1>3, <1>5, <1>6 DEF InitStep, ShutdownStep

LEMMA LifeMoves ==
    ASSUME ~UploadErrors, TypeInv, StagesInv, LifeInv, [Next]_vars
    PROVE  LifeInv' /\ (Calm' => LifeStep)
<1>1. CASE UNCHANGED vars
  <2>1. UNCHANGED <<task, worker, aborted, prog, req, server, cancels>>
    BY <1>1 DEF vars, disk, counters
  <2>2. \A u \in Uploads : Shown'[u] = Shown[u]
    BY <2>1 DEF Shown, Known, Serving
  <2> QED BY <2>1, <2>2, ShowsNothing DEF LifeInv, Calm, Undisturbed, LifeStep, Serving
<1>2. CASE Next
  <2>1. SUFFICES ASSUME Calm' PROVE LifeInv' /\ LifeStep
    BY DEF LifeInv
  <2>2. ASSUME NEW u \in Uploads, UploadStep(u) PROVE LifeInv' /\ LifeStep
    <3>1. server' = server /\ req' = req /\ \A v \in Uploads \ {u} : Kept(v)
      BY <2>2, OthersKept DEF ServerKept
    <3>2. CASE Serving
      <4>1. LifeStep /\ Undisturbed(u)'
        BY <2>1, <2>2, <3>2, LifeUpload
      <4>2. Calm
        BY <2>1, <2>2, CalmBefore
      <4> QED BY <3>1, <3>2, <4>1, <4>2 DEF LifeInv, Undisturbed, Kept
    <3>3. CASE ~Serving
      <4>1. ~Serving'
        BY <3>1, <3>3 DEF Serving
      <4>2. \A v \in Uploads : Shown'[v] = Shown[v]
        BY <3>3, <4>1 DEF Shown
      <4> QED BY <3>1, <4>1, <4>2, ShowsNothing DEF LifeInv, LifeStep
    <3> QED BY <3>2, <3>3
  <2> QED BY <1>2, <2>1, <2>2, NextSteps, LifeServer
<1> QED BY <1>1, <1>2

LEMMA LifeInvariant == ASSUME ~UploadErrors PROVE Spec => [](TypeInv /\ StagesInv /\ LifeInv)
<1>1. Init => TypeInv /\ StagesInv /\ LifeInv
  BY TypeInvInit, StagesInit, LifeInvInit
<1>2. TypeInv /\ StagesInv /\ LifeInv /\ [Next]_vars => (TypeInv /\ StagesInv /\ LifeInv)'
  BY TypeInvNext, StagesNext, LifeMoves
<1> QED BY <1>1, <1>2, PTL DEF Spec

\* While nobody has cancelled and Studio accepts the files, each step is a step of
\* the diagram, whatever crashes, shutdowns and the disk do.
THEOREM UndisturbedFollowsDiagram ==
    ASSUME ~UploadErrors
    PROVE  Spec => [][Calm' => Lifecycle!LifeNext \/ (Shown' = Shown /\ ShownModes' = ShownModes)]_vars
<1>1. TypeInv /\ StagesInv /\ LifeInv /\ [Next]_vars
      => [Calm' => Lifecycle!LifeNext \/ (Shown' = Shown /\ ShownModes' = ShownModes)]_vars
  BY LifeMoves DEF LifeStep
<1> QED BY <1>1, LifeInvariant, PTL DEF Spec

\* The upload manager implements the safety of the diagram when nobody can cancel
\* and Studio accepts the files.
THEOREM ImplementsLifecycle ==
    ASSUME ~UploadErrors, MaxCancels = 0
    PROVE  Spec => Lifecycle!LifeSafe
<1>1. Init => Lifecycle!LifeInit
  BY UploadAssumption DEF Init, Lifecycle!LifeInit, Known
<1>2. TypeInv /\ StagesInv /\ LifeInv /\ [Next]_vars
      => [Lifecycle!LifeNext]_<<[u \in Uploads |-> req[u].mode],
                               [u \in Uploads |-> IF Serving /\ Known(u) THEN task[u].state ELSE "absent"]>>
  <2> SUFFICES ASSUME TypeInv, StagesInv, LifeInv, [Next]_vars
               PROVE  LifeStep
    BY DEF LifeStep, Shown, ShownModes
  <2>1. Calm'
    BY TypeInvNext DEF TypeInv, TypeOK, Calm
  <2> QED BY <2>1, LifeMoves
<1> QED BY <1>1, <1>2, LifeInvariant, PTL DEF Spec, Lifecycle!LifeSafe
==============================================================================
