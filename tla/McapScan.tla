----------------------------- MODULE McapScan -----------------------------
(***************************************************************************)
(* The listing of recordings (src/src/mcap.rs, from map_mcap to            *)
(* scan_into_cache): concurrent calls of read_mcap_info_for_listing, the   *)
(* cache of linear scans, the set of files in flight, and the background   *)
(* thread that scans them.  Recorders and users write the files meanwhile. *)
(* read_mcap_info, which no handler of the server calls, is left out.      *)
(*                                                                         *)
(* A version stands for a file's content and, with it, for its length and  *)
(* modification time; what a scan finds is the version it saw, or 0 for    *)
(* the empty result.  A mapping shows the file as it was when mapped: the  *)
(* recordings are appended to or replaced, never rewritten in place.       *)
(***************************************************************************)
EXTENDS Naturals, Sequences, FiniteSets

CONSTANTS
    Files,       \* recordings in the storage directory
    Listers,     \* concurrent calls made by GET /api/recordings
    MaxVersion,  \* bound: versions of a file
    Thread,      \* the thread "mcap-scan"
    NoFile

\* Who runs scan_into_cache: the thread or, without it, a lister in place.
Executors == Listers \cup {Thread}
Versions == 1..MaxVersion
Infos == 0..MaxVersion

\* What classify finds: a summary that suffices, a summary without what is
\* needed (the file is complete), or none (it may still be written to).
Kinds == {"summary", "linear", "open"}

ASSUME ScanAssumption ==
    /\ IsFiniteSet(Files)
    /\ MaxVersion \in Nat \ {0}
    /\ Thread \notin Listers
    /\ NoFile \notin Files

VARIABLES
    ver,       \* version of each file
    kind,      \* what classify would find in it, "absent" if it is not there
    recent,    \* without a summary, and modified within IN_PROGRESS_WINDOW
    cache,     \* linear_cache: key version and info, 0 for no entry
    inFlight,  \* files queued or being scanned
    toScan,     \* the channel to the thread
    thread,    \* whether the thread could be started
    call,      \* control and locals of each call
    job,       \* control and locals of each run of scan_into_cache
    report,    \* what the last listing said of a file
    scans      \* observation: linear scans of each version by an executor

disk == <<ver, kind, recent>>
scanVars == <<ver, kind, recent, cache, inFlight, toScan, thread, call, job, report, scans>>

IdleCall == [pc |-> "idle", file |-> NoFile, complete |-> FALSE, meta |-> 0]
NoJob == [pc |-> "none", file |-> NoFile, meta |-> 0, content |-> 0]

CallPcs == {"idle", "stat", "look", "enqueue", "send", "inplace", "reread"}
JobPcs == {"none", "stat", "check", "map", "run", "end"}
Call == [pc : CallPcs, file : Files \cup {NoFile}, complete : BOOLEAN, meta : Infos]
Job == [pc : JobPcs, file : Files \cup {NoFile}, meta : Infos, content : Infos]

ScanTypeOK ==
    /\ ver \in [Files -> Versions]
    /\ kind \in [Files -> Kinds \cup {"absent"}]
    /\ recent \in [Files -> BOOLEAN]
    /\ cache \in [Files -> [meta : Infos, info : Infos]]
    /\ inFlight \subseteq Files
    /\ toScan \in Seq(Files) /\ Len(toScan) <= Cardinality(Files)
    /\ thread \in BOOLEAN
    /\ call \in [Listers -> Call]
    /\ job \in [Executors -> Job]
    /\ report \in [Files -> {"none", "scanning", "ready"}]
    /\ scans \in [Files -> [Versions -> 0..2]]

ScanInit ==
    /\ ver = [f \in Files |-> 1]
    /\ kind \in [Files -> Kinds \cup {"absent"}]
    /\ recent \in [Files -> BOOLEAN]
    /\ \A f \in Files : recent[f] => kind[f] = "open"
    /\ cache = [f \in Files |-> [meta |-> 0, info |-> 0]]
    /\ inFlight = {}
    /\ toScan = <<>>
    /\ thread \in BOOLEAN
    /\ call = [c \in Listers |-> IdleCall]
    /\ job = [e \in Executors |-> NoJob]
    /\ report = [f \in Files |-> "none"]
    /\ scans = [f \in Files |-> [v \in Versions |-> 0]]

-----------------------------------------------------------------------------
(* The files, written by recorders and copied by users.                    *)

Present(f) == kind[f] # "absent"

\* A new version: appended to, finished, copied anew.  Its modification time
\* may be an old one, or in the future (a preserved time, a clock step).
Written(f) ==
    /\ ver[f] < MaxVersion
    /\ ver' = [ver EXCEPT ![f] = @ + 1]
    /\ \E k \in Kinds, r \in BOOLEAN :
          /\ kind' = [kind EXCEPT ![f] = k]
          /\ recent' = [recent EXCEPT ![f] = r /\ k = "open"]
    /\ UNCHANGED <<cache, inFlight, toScan, thread, call, job, report, scans>>

Removed(f) ==
    /\ Present(f)
    /\ kind' = [kind EXCEPT ![f] = "absent"]
    /\ recent' = [recent EXCEPT ![f] = FALSE]
    /\ UNCHANGED <<ver, cache, inFlight, toScan, thread, call, job, report, scans>>

Ages(f) ==
    /\ recent[f]
    /\ recent' = [recent EXCEPT ![f] = FALSE]
    /\ UNCHANGED <<ver, kind, cache, inFlight, toScan, thread, call, job, report, scans>>

-----------------------------------------------------------------------------
(* The cache.                                                              *)

\* cached: an entry for the file as its metadata were read.
Cached(f, meta) == cache[f].meta = meta

\* What a linear scan returns: what it saw, or the empty result if it panics.
ScanResults(content) == {content, 0}

CacheInsert(f, meta, info) == cache' = [cache EXCEPT ![f] = [meta |-> meta, info |-> info]]

-----------------------------------------------------------------------------
(* A call: lookup, then what a listing does on a miss.                     *)

Goes(c, pc) == call' = [call EXCEPT ![c].pc = pc]
Answers(c, f, r) ==
    /\ call' = [call EXCEPT ![c] = IdleCall]
    /\ report' = [report EXCEPT ![f] = r]

\* The file is opened, mapped and classified; an error reads as empty.
Ask(c, f) ==
    /\ call[c].pc = "idle"
    /\ IF kind[f] \in {"absent", "summary"}
       THEN Answers(c, f, "ready")
       ELSE /\ call' = [call EXCEPT ![c] =
                          [pc |-> "stat", file |-> f, meta |-> 0,
                           complete |-> kind[f] = "linear"]]
            /\ UNCHANGED report
    /\ UNCHANGED <<disk, cache, inFlight, toScan, thread, job, scans>>

\* The metadata come after the mapping.  A file without a summary that was
\* just modified is being recorded and reads as empty.
Stat(c) ==
    LET f == call[c].file
    IN  /\ call[c].pc = "stat"
        /\ IF ~Present(f) \/ (~call[c].complete /\ recent[f])
           THEN Answers(c, f, "ready")
           ELSE /\ call' = [call EXCEPT ![c].pc = "look", ![c].meta = ver[f],
                                        ![c].complete = FALSE]
                /\ UNCHANGED report
        /\ UNCHANGED <<disk, cache, inFlight, toScan, thread, job, scans>>

Look(c) ==
    LET f == call[c].file
    IN  /\ call[c].pc = "look"
        /\ IF Cached(f, call[c].meta)
           THEN Answers(c, f, "ready")
           ELSE Goes(c, "enqueue") /\ UNCHANGED report
        /\ UNCHANGED <<disk, cache, inFlight, toScan, thread, job, scans>>

\* Variant: a file in flight is queued again.
EnqueueAgain(c) ==
    LET f == call[c].file
    IN  /\ call[c].pc = "enqueue"
        /\ IF Cached(f, call[c].meta)
           THEN Answers(c, f, "ready") /\ UNCHANGED inFlight
           ELSE inFlight' = inFlight \cup {f} /\ Goes(c, "send") /\ UNCHANGED report
        /\ UNCHANGED <<disk, cache, toScan, thread, job, scans>>

\* Under the lock of the in-flight set.
Enqueue(c) ==
    LET f == call[c].file
    IN  /\ call[c].pc = "enqueue"
        /\ \/ /\ Cached(f, call[c].meta)
              /\ Answers(c, f, "ready")
              /\ UNCHANGED inFlight
           \/ /\ ~Cached(f, call[c].meta) /\ f \in inFlight
              /\ Answers(c, f, "scanning")
              /\ UNCHANGED inFlight
           \/ /\ ~Cached(f, call[c].meta) /\ f \notin inFlight
              /\ inFlight' = inFlight \cup {f}
              /\ Goes(c, "send") /\ UNCHANGED report
        /\ UNCHANGED <<disk, cache, toScan, thread, job, scans>>

\* To the thread, or scanned in place if there is none.
Send(c) ==
    LET f == call[c].file
    IN  /\ call[c].pc = "send"
        /\ IF thread
           THEN /\ toScan' = Append(toScan, f)
                /\ Answers(c, f, "scanning")
                /\ UNCHANGED job
           ELSE /\ job' = [job EXCEPT ![c] = [NoJob EXCEPT !.pc = "stat", !.file = f]]
                /\ Goes(c, "inplace") /\ UNCHANGED <<toScan, report>>
        /\ UNCHANGED <<disk, cache, inFlight, thread, scans>>

\* After a scan in place.
Reread(c) ==
    /\ call[c].pc = "reread"
    /\ Answers(c, call[c].file,
               IF Cached(call[c].file, call[c].meta) THEN "ready" ELSE "scanning")
    /\ UNCHANGED <<disk, cache, inFlight, toScan, thread, job, scans>>

-----------------------------------------------------------------------------
(* scan_into_cache, by the thread or in place.                             *)

\* Variant: the thread releases the file as it starts on it.
TakeReleases ==
    /\ job[Thread] = NoJob /\ toScan # <<>>
    /\ job' = [job EXCEPT ![Thread] = [NoJob EXCEPT !.pc = "stat", !.file = Head(toScan)]]
    /\ toScan' = Tail(toScan)
    /\ inFlight' = inFlight \ {Head(toScan)}
    /\ UNCHANGED <<disk, cache, thread, call, report, scans>>

\* The thread receives a file.
Take ==
    /\ job[Thread] = NoJob /\ toScan # <<>>
    /\ job' = [job EXCEPT ![Thread] = [NoJob EXCEPT !.pc = "stat", !.file = Head(toScan)]]
    /\ toScan' = Tail(toScan)
    /\ UNCHANGED <<disk, cache, inFlight, thread, call, report, scans>>

JobGoes(e, pc) == job' = [job EXCEPT ![e].pc = pc]

ScanStat(e) ==
    /\ job[e].pc = "stat"
    /\ IF Present(job[e].file)
       THEN job' = [job EXCEPT ![e].pc = "check", ![e].meta = ver[job[e].file]]
       ELSE JobGoes(e, "end")
    /\ UNCHANGED <<disk, cache, inFlight, toScan, thread, call, report, scans>>

ScanCheck(e) ==
    /\ job[e].pc = "check"
    /\ JobGoes(e, IF Cached(job[e].file, job[e].meta) THEN "end" ELSE "map")
    /\ UNCHANGED <<disk, cache, inFlight, toScan, thread, call, report, scans>>

ScanMap(e) ==
    /\ job[e].pc = "map"
    /\ IF Present(job[e].file)
       THEN job' = [job EXCEPT ![e].pc = "run", ![e].content = ver[job[e].file]]
       ELSE JobGoes(e, "end")
    /\ UNCHANGED <<disk, cache, inFlight, toScan, thread, call, report, scans>>

\* Variant: the result is kept under the metadata the file has after the scan.
MetaAfterScan(e) == ver[job[e].file]

\* The metadata read before the file was mapped.
ScanKey(e) == job[e].meta

\* Variant: a scan that panics is not cached.
PanicUncached(e) ==
    LET f == job[e].file
    IN  /\ job[e].pc = "run"
        /\ \E info \in ScanResults(job[e].content) :
              IF info = 0 THEN UNCHANGED cache ELSE CacheInsert(f, ScanKey(e), info)
        /\ scans' = [scans EXCEPT ![f][job[e].meta] = IF @ = 2 THEN 2 ELSE @ + 1]
        /\ JobGoes(e, "end")
        /\ UNCHANGED <<disk, inFlight, toScan, thread, call, report>>

ScanRun(e) ==
    LET f == job[e].file
    IN  /\ job[e].pc = "run"
        /\ \E info \in ScanResults(job[e].content) : CacheInsert(f, ScanKey(e), info)
        /\ scans' = [scans EXCEPT ![f][job[e].meta] = IF @ = 2 THEN 2 ELSE @ + 1]
        /\ JobGoes(e, "end")
        /\ UNCHANGED <<disk, inFlight, toScan, thread, call, report>>

\* Variant: a file that is not scanned stays in flight.
KeptIfUnscanned(e) == IF job[e].content = 0 THEN inFlight ELSE inFlight \ {job[e].file}

\* Scanned, skipped, failed or panicked: the file leaves the set.
Released(e) == inFlight \ {job[e].file}

ScanEnd(e) ==
    /\ job[e].pc = "end"
    /\ inFlight' = Released(e)
    /\ job' = [job EXCEPT ![e] = NoJob]
    /\ IF e \in Listers THEN Goes(e, "reread") ELSE UNCHANGED call
    /\ UNCHANGED <<disk, cache, toScan, thread, report, scans>>

-----------------------------------------------------------------------------
\* list_mcap_files asks for the files of the directory one after the other; one
\* that is gone since the directory was read is left out or reads as empty.
Lists(c) == \E f \in Files : Ask(c, f)

CallStep(c) ==
    \/ Stat(c) \/ Look(c) \/ Enqueue(c) \/ Send(c) \/ Reread(c)
ScanStep(e) ==
    \/ ScanStat(e) \/ ScanCheck(e) \/ ScanMap(e) \/ ScanRun(e) \/ ScanEnd(e)

ScanNext ==
    \/ \E f \in Files : Written(f) \/ Removed(f) \/ Ages(f)
    \/ \E c \in Listers : CallStep(c) \/ Lists(c)
    \/ Take \/ \E e \in Executors : ScanStep(e)

ScanSpec == ScanInit /\ [][ScanNext]_scanVars

\* Listers and scans go on; a client that was told "scanning" lists again, and a
\* listing asks for every file.  Nobody has to write or remove a file.
ScanFairness ==
    /\ \A c \in Listers : WF_scanVars(CallStep(c))
    /\ WF_scanVars(Take) /\ \A e \in Executors : WF_scanVars(ScanStep(e))
    /\ \A f \in Files : SF_scanVars(report[f] = "scanning" /\ \E c \in Listers : Ask(c, f))

FairScanSpec == ScanSpec /\ ScanFairness

-----------------------------------------------------------------------------
(* Properties.                                                             *)

Waiting(f) == {i \in 1..Len(toScan) : toScan[i] = f}
Sending(f) == {c \in Listers : call[c].pc = "send" /\ call[c].file = f}
Scanning(f) == {e \in Executors : job[e].file = f}

\* A file is in flight exactly while one call sends it, or it waits in the
\* toScan once, or one executor scans it (Scanner::enqueue and the thread).
InFlightIsExact ==
    \A f \in Files :
        LET holders == (Waiting(f) \X {"toScan"}) \cup (Sending(f) \X {"send"})
                           \cup (Scanning(f) \X {"scan"})
        IN  IF f \in inFlight THEN \E h \in holders : holders = {h} ELSE holders = {}

\* The info cached for a file as it is now is that of its present content, or
\* the empty result of a scan that panicked, however the file changes while it
\* is looked up, queued, mapped and scanned.
CacheIsCurrent ==
    \A f \in Files :
        Present(f) /\ Cached(f, ver[f]) => cache[f].info \in ScanResults(ver[f])

\* Listings alone scan an unchanged file once, even if the scan panics.
ScannedOnce == \A f \in Files, v \in Versions : scans[f][v] < 2

\* A file reported as "scanning" is reported ready in the end, even if it is
\* removed, changed or fails to scan meanwhile.
ScanningEnds == \A f \in Files : report[f] = "scanning" ~> report[f] = "ready"
=============================================================================
