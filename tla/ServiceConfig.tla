--------------------------- MODULE ServiceConfig ---------------------------
(***************************************************************************)
(* Saving the configuration of a service (src/src/config.rs: set_config,   *)
(* write_atomic, check_service_status) and its systemd unit, which the     *)
(* handlers of src/src/services.rs and src/src/recording.rs (system mode)  *)
(* start and stop.  Handlers run on several threads and take no lock, so   *)
(* they interleave at every system call.  The server may die between two   *)
(* calls, and the power may fail.                                          *)
(***************************************************************************)
EXTENDS EnvFile

CONSTANTS
    Editors,   \* concurrent requests
    Worlds,    \* instances, by name: see WorldOf
    NoFile

ASSUME WorldsAssumption ==
    \A w \in DOMAIN Worlds :
        /\ Worlds[w].editors \subseteq Editors /\ Worlds[w].edits \in Nat
        /\ \A p \in Worlds[w].posts : AreUpdates(p.updates)
        /\ IF Worlds[w].path = "" THEN Worlds[w].files = {NoFile}
           ELSE \A f \in Worlds[w].files : IsFile(f) /\ f.eol # Torn.eol

VARIABLES
    world,    \* the instance: what may be posted, by whom, and the names in use
    file,     \* the content that the path of the configuration shows
    durable,  \* the content that the path shows after a power failure
    soft,     \* whether the file's data may not be on the disk yet
    call,     \* control and locals of each request
    unit,     \* the service's unit: its state, and the file it was started with
    budget,   \* bound: posts that may still change the file
    saves,    \* observation: the replacements since the device was switched on
    base      \* observation: the file it was switched on with

configVars == <<world, file, durable, soft, call, unit, budget, saves, base>>
disks == <<file, durable, soft>>
observed == <<saves, base>>

\* A world: the contents the file may have, the requests and how many of them may
\* change it, the names of the file and of the unit, "" if there is none.
WorldOf(files, posts, editors, edits, path, service) ==
    [files |-> files, posts |-> posts, editors |-> editors, edits |-> edits,
     path |-> path, service |-> service]

Here == Worlds[world]

EditorPcs == {"idle", "write", "sync", "rename", "check", "restart", "restarting"}
IdleEditor == [pc |-> "idle", entries |-> <<>>, content |-> NoFile, read |-> 0, save |-> 0]
NoUnit == [state |-> "inactive", loaded |-> NoFile]

\* What the answer to a save says of the restart.
Told == {"pending", "restarted", "notRunning", "restartError"}

ConfigTypeOK ==
    /\ world \in DOMAIN Worlds
    /\ IF Here.path = "" THEN file = NoFile
       ELSE IsFile(file) /\ IsFile(durable) /\ IsFile(base)
    /\ soft \in BOOLEAN
    /\ \A c \in Editors :
          /\ call[c].pc \in EditorPcs
          /\ call[c].read \in 0..Len(saves)
          /\ call[c].save \in 0..Len(saves)
          /\ call[c].save > 0 <=> call[c].pc \in {"check", "restart", "restarting"}
          /\ call[c].save > 0 => saves[call[c].save].told = "pending"
    /\ unit.state \in {"inactive", "queued", "starting", "active"}
    /\ unit.state \in {"inactive", "queued"} => unit.loaded = NoFile
    /\ budget \in 0..Here.edits
    /\ \A s \in DOMAIN saves : saves[s].told \in Told /\ saves[s].read < s

\* The service may be running when the server starts.
ConfigInit ==
    /\ world \in DOMAIN Worlds
    /\ file \in Here.files
    /\ durable = file /\ soft = FALSE
    /\ call = [c \in Editors |-> IdleEditor]
    /\ unit \in {NoUnit} \cup {[state |-> "active", loaded |-> f] : f \in {file} \ {NoFile}}
    /\ unit.state = "active" => Here.service # ""
    /\ budget = Here.edits
    /\ saves = <<>> /\ base = file

-----------------------------------------------------------------------------
(* set_config up to the replacement.                                       *)

\* resolve_config and resolve_service_name: the other of the two names, with or
\* without the prefix, is used if only that exists.
Alternate(name) == IF name = "svc" THEN "edgefirst-svc" ELSE "svc"
Resolves(name, existing) == existing # "" /\ existing \in {name, Alternate(name)}

\* A post to the URL of a service: the updates, or why there are none, and the
\* file named in the body.
Post(service, fileName, body, updates) ==
    [service |-> service, fileName |-> fileName, body |-> body, updates |-> updates]

WellFormed(p) == p.body = "object" /\ p.fileName = p.service

\* The reserved key, however spelled, is no setting.
Submitted(p) ==
    FlattenSeq([j \in DOMAIN p.updates |->
                   IF p.updates[j].key.name = Reserved THEN <<>> ELSE <<p.updates[j]>>])

\* One bad update refuses them all.
Accepted(p) == Rejected(Submitted(p)) = {}

\* Read, planned, and to be written if anything changes.  The other outcomes, 400,
\* 404 and "no changes", leave no trace.
Submit(c, p) ==
    LET entries == Entries(Submitted(p))
        content == Planned(file, entries)
    IN  /\ call[c].pc = "idle"
        /\ WellFormed(p) /\ Resolves(p.fileName, Here.path)
        /\ Accepted(p) /\ content # file
        /\ budget > 0 /\ budget' = budget - 1
        /\ call' = [call EXCEPT ![c] = [IdleEditor EXCEPT
                        !.pc = "write", !.entries = entries, !.content = content,
                        !.read = Len(saves)]]
        /\ UNCHANGED <<world, disks, unit, observed>>

-----------------------------------------------------------------------------
(* write_atomic.                                                           *)

Continues(c, pc) == call' = [call EXCEPT ![c].pc = pc]

\* A failure of any step: 500, and the temporary file is removed.
Fails(c) ==
    /\ call[c].pc \in {"write", "sync", "rename"}
    /\ call' = [call EXCEPT ![c] = IdleEditor]
    /\ UNCHANGED <<world, disks, unit, budget, observed>>

\* The permissions are read, the temporary file is created and written.
WriteTemp(c) ==
    /\ call[c].pc = "write" /\ Continues(c, "sync")
    /\ UNCHANGED <<world, disks, unit, budget, observed>>

\* sync_all: the data are on the disk before the name is.
SyncTemp(c) ==
    /\ call[c].pc = "sync" /\ Continues(c, "rename")
    /\ UNCHANGED <<world, disks, unit, budget, observed>>

\* Variant: the file is not synced, so that its data may come after its name.
Unsynced == TRUE

DataMayLag == FALSE

Rename(c) ==
    /\ call[c].pc = "rename"
    /\ file' = call[c].content /\ soft' = DataMayLag
    /\ saves' = Append(saves, [entries |-> call[c].entries, read |-> call[c].read,
                               told |-> "pending"])
    /\ call' = [call EXCEPT ![c].pc = "check", ![c].save = Len(saves) + 1]
    /\ UNCHANGED <<world, durable, unit, budget, base>>

-----------------------------------------------------------------------------
(* check_service_status, and the answer.                                   *)

Tells(c, what) == saves' = [saves EXCEPT ![call[c].save].told = what]
Answers(c, what) == call' = [call EXCEPT ![c] = IdleEditor] /\ Tells(c, what)

\* Variant: a service that is about to run is taken for one that runs anew.
TakesStartingForRestarted(c) ==
    /\ call[c].pc = "check"
    /\ IF unit.state = "active" THEN Continues(c, "restart") /\ UNCHANGED saves
       ELSE Answers(c, IF unit.state = "starting" THEN "restarted" ELSE "notRunning")
    /\ UNCHANGED <<world, disks, unit, budget, base>>

\* is-active of the unit under the name that resolves, else of one that is not
\* there.  A unit that is being started is not active yet.
CheckUnit(c) ==
    /\ call[c].pc = "check"
    /\ IF unit.state = "active" THEN Continues(c, "restart") /\ UNCHANGED saves
       ELSE Answers(c, "notRunning")
    /\ UNCHANGED <<world, disks, unit, budget, base>>

\* systemctl cannot be run.
CheckNotSpawned(c) ==
    /\ call[c].pc = "check" /\ Answers(c, "restartError")
    /\ UNCHANGED <<world, disks, unit, budget, base>>

\* systemctl restart returns when the unit is up again or has failed.  It also
\* starts a unit that was stopped since the check.
Restart(c) ==
    /\ call[c].pc = "restart" /\ Continues(c, "restarting")
    /\ unit' = [state |-> "queued", loaded |-> NoFile]
    /\ UNCHANGED <<world, disks, budget, observed>>

RestartNotSpawned(c) ==
    /\ call[c].pc = "restart" /\ Answers(c, "restartError")
    /\ UNCHANGED <<world, disks, unit, budget, base>>

-----------------------------------------------------------------------------
(* The unit, as systemd runs it: the environment file is read when the     *)
(* service is started.  Whoever waits for a restart is told how it ended.  *)

Waiters == {c \in Editors : call[c].pc = "restarting"}

TellsWaiters(what) ==
    /\ call' = [c \in Editors |-> IF c \in Waiters THEN IdleEditor ELSE call[c]]
    /\ saves' = [s \in DOMAIN saves |->
                    IF \E c \in Waiters : call[c].save = s THEN [saves[s] EXCEPT !.told = what]
                    ELSE saves[s]]
    /\ UNCHANGED <<world, disks, budget, base>>

UnitLoads ==
    /\ unit.state = "queued" /\ unit' = [state |-> "starting", loaded |-> file]
    /\ UNCHANGED <<world, disks, call, budget, observed>>

UnitUp ==
    /\ unit.state = "starting" /\ unit' = [unit EXCEPT !.state = "active"]
    /\ TellsWaiters("restarted")

\* It fails to start, ends by itself, or is stopped: a restart under way is
\* cancelled.
UnitDown ==
    /\ unit.state # "inactive" /\ unit' = NoUnit
    /\ TellsWaiters("restartError")

\* isolate_system: the units that the target does not want are stopped.
Isolated == UnitDown

\* update_service and start: nothing if it runs already.
UnitStart ==
    /\ unit.state = "inactive" /\ Here.service # ""
    /\ unit' = [state |-> "queued", loaded |-> NoFile]
    /\ UNCHANGED <<world, disks, call, budget, observed>>

-----------------------------------------------------------------------------
(* Crashes.                                                                *)

\* The server dies with its requests; a restart that was asked for goes on.
ServerDies ==
    /\ \E c \in Editors : call[c].pc # "idle"
    /\ call' = [c \in Editors |-> IdleEditor]
    /\ UNCHANGED <<world, disks, unit, budget, observed>>

\* The file system writes back what it has cached, the directory included.
Flush ==
    /\ durable # file \/ soft
    /\ durable' = file /\ soft' = FALSE
    /\ UNCHANGED <<world, file, call, unit, budget, observed>>

\* The directory is not synced after the rename: the old file may be back.
PowerFails ==
    /\ Len(saves) > 0
    /\ file' \in {durable, IF soft THEN Torn ELSE file}
    /\ durable' = file' /\ soft' = FALSE
    /\ call' = [c \in Editors |-> IdleEditor] /\ unit' = NoUnit
    /\ saves' = <<>> /\ base' = file'
    /\ UNCHANGED <<world, budget>>

-----------------------------------------------------------------------------
EditorStep(c) ==
    \/ Fails(c) \/ WriteTemp(c) \/ SyncTemp(c) \/ Rename(c)
    \/ CheckUnit(c) \/ CheckNotSpawned(c) \/ Restart(c) \/ RestartNotSpawned(c)

UnitStep == UnitLoads \/ UnitUp \/ UnitDown \/ Isolated \/ UnitStart

ConfigNext ==
    \/ \E c \in Here.editors : EditorStep(c) \/ \E p \in Here.posts : Submit(c, p)
    \/ UnitStep
    \/ ServerDies \/ Flush \/ PowerFails

ConfigSpec == ConfigInit /\ [][ConfigNext]_configVars

-----------------------------------------------------------------------------
(* Properties.                                                             *)

\* A save is all or nothing and keeps what it is not about: the file is never
\* torn, not even after a crash between any two steps of several saves, and
\* still has every comment and every other line without a key, in their order.
FileStaysWhole ==
    file # NoFile => file # Torn /\ KeepsRemarks(base, file)

\* The settings after a save, or those the device was switched on with.
Touches(s, n) == \E j \in DOMAIN saves[s].entries : saves[s].entries[j].name = n
After(s) == IF s = 0 THEN Settings(base) ELSE Overridden(<<>>, saves[s].entries)
Agree(a, b, n) == /\ n \in DOMAIN a <=> n \in DOMAIN b
                  /\ n \in DOMAIN a => a[n] = b[n]

\* A save's settings, and those nobody saved, are in the file until another save
\* of the same name, whatever else is saved meanwhile; only a save that had read
\* the file before may take them back (config.rs has no lock between reading
\* and replacing it).
EditsKept ==
    file # NoFile =>
        LET names == DOMAIN Settings(base) \cup DOMAIN Settings(file)
                         \cup {u.key.name : u \in UNION {ToSet(p.updates) : p \in Here.posts}}
        IN  \A s \in 0..Len(saves), n \in names :
                /\ s > 0 => Touches(s, n)
                /\ \A t \in s + 1..Len(saves) : ~Touches(t, n) /\ saves[t].read >= s
                => Agree(Settings(file), After(s), n)

Proposed == {p \in Here.posts : WellFormed(p) /\ Accepted(p)}

\* In every file that saves lead to: a post reports that nothing changes exactly
\* if it changes nothing, but for mixed line ends, and once applied it has nothing
\* left to do, so that the service is not restarted again.
ReportIsTrue ==
    file # NoFile => \A p \in Proposed :
        LET entries == Entries(Submitted(p))
            content == Planned(file, entries)
        IN  /\ (\A j \in DOMAIN entries : Disposition(file, entries[j]) = "unchanged")
                   <=> content = [file EXCEPT !.eol = content.eol]
            /\ Planned(content, entries) = content

\* What the posts of the editor may not say is not in the file.
Postable(f) ==
    LET keys == {k \in DOMAIN View(f) : k.name # Reserved}
    IN  /\ \A k \in keys : GoodKey(k)
        /\ \A k, l \in keys : k.name = l.name => k = l
        /\ \A i \in ActiveLines(f) : \A w \in ToSet(f.lines[i].text) : w[1] \notin Control

SettingsSentBack(f) == Settings(Planned(f, Entries(SentBack(f))))

\* In every file that saves lead to, posting back what GET answered is accepted,
\* unless the file itself defines a key that no post may have, or one key in two
\* spellings, or has a control character in a value; and it changes no setting,
\* unless a value that is not in quotes has a quote in it, which GET leaves out.
RoundTrip ==
    file # NoFile /\ Postable(file) =>
        /\ Rejected(SentBack(file)) = {}
        /\ (\A i \in ActiveLines(file) : Literal(file.lines[i]))
              => SettingsSentBack(file) = Settings(file)

\* Once the storage directory is saved through the editor, the reader of the
\* recordings' directory, which has a parser of its own, finds what was posted,
\* with the variables of the server's environment filled in, unless the text needs
\* escapes or another key of the file begins with STORAGE.
StorageAgrees ==
    file # NoFile => \A p \in Proposed :
        LET entries == Entries(Submitted(p))
            content == Planned(file, entries)
        IN  \A j \in DOMAIN entries :
                /\ entries[j].name = "STORAGE" /\ entries[j].set /\ Ordinary(entries[j].text)
                /\ DOMAIN Settings(content) \cap StorageNames = {"STORAGE"}
                => StorageDirectory(content) = {Expanded(entries[j].text)}

\* If the last save was answered "restarted", the service runs with its file, also
\* if the unit was stopped, started or restarted by others at any moment.
RestartedRunsLatest ==
    Len(saves) > 0 /\ Last(saves).told = "restarted" /\ unit.state \in {"starting", "active"}
        => unit.loaded = file
=============================================================================
