------------------------------ MODULE Recorder ------------------------------
(***************************************************************************)
(* Recording control in user mode (src/src/recording.rs: user_mode_start,  *)
(* user_mode_stop, user_mode_check_recorder_status): concurrent requests,  *)
(* the handle of the spawned recorder, and the process table.  The         *)
(* handlers run on several threads and lock only the handle.               *)
(*                                                                         *)
(* The files recorder.pid and edgefirst-recorder.pid are written and       *)
(* removed, but no code reads them: only the failure to write one counts.  *)
(***************************************************************************)
EXTENDS Naturals, FiniteSets

CONSTANTS
    Clients,    \* concurrent requests
    Pids,       \* bound: process identifiers, reused
    Nothing,    \* None
    MaxPolls,   \* looks at the process table after a spawn (10 in the code)
    MaySleep    \* whether a recorder may be seen in uninterruptible sleep

ASSUME RecorderAssumption ==
    /\ Nothing \notin Pids /\ MaxPolls \in Nat \ {0} /\ MaySleep \in BOOLEAN

VARIABLES
    table,   \* the process table
    handle,  \* ServerContext::process
    pc,      \* control of each request
    child,   \* the child a request holds
    polls    \* looks each start has taken

vars == <<table, handle, pc, child, polls>>

\* A recorder spawned by the server runs, sleeps in the disk, or ends, for it
\* was signalled; then it is a zombie until the server waits for it.  A pid may
\* also be a recorder started by someone else, or another program.
Ours == {"run", "disk", "ending", "zombie"}
Recorders == Ours \cup {"foreign"}
Active == {"run", "disk"}
States == Recorders \cup {"free", "stranger"}

StartPcs == {"spawn", "store", "poll", "take", "trywait", "putback", "clear", "pidfile", "kill"}

TypeOK ==
    /\ table \in [Pids -> States]
    /\ handle \in Pids \cup {Nothing}
    /\ pc \in [Clients -> StartPcs \cup {"idle", "signal"}]
    /\ child \in [Clients -> Pids \cup {Nothing}]
    /\ \A c \in Clients : child[c] # Nothing <=> pc[c] \in {"store", "trywait", "putback", "signal"}
    /\ polls \in [Clients -> 0..MaxPolls]

Init ==
    /\ table \in [Pids -> {"free", "foreign"}]
    /\ handle = Nothing
    /\ pc = [c \in Clients |-> "idle"]
    /\ child = [c \in Clients |-> Nothing]
    /\ polls = [c \in Clients |-> 0]

-----------------------------------------------------------------------------
(* Processes.                                                              *)

Becomes(p, from, to) ==
    /\ table[p] \in from
    /\ table' = [table EXCEPT ![p] = to]
    /\ UNCHANGED <<handle, pc, child, polls>>

Sleeps(p) == MaySleep /\ Becomes(p, {"run"}, "disk")
Wakes(p)  == Becomes(p, {"disk"}, "run")
Exits(p)  == Becomes(p, {"run", "ending"}, "zombie")
Others(p) == \/ Becomes(p, {"free"}, "foreign") \/ Becomes(p, {"foreign"}, "free")
             \/ Becomes(p, {"free"}, "stranger") \/ Becomes(p, {"stranger"}, "free")

\* What the status may be: the first process with the recorder's name decides,
\* in the table's arbitrary order, and a zombie has the name too.
Found == {p \in Pids : table[p] \in Recorders}
SeenRunning == \E p \in Found : table[p] \in {"run", "ending", "foreign"}
SeenStopped == Found = {} \/ \E p \in Found : table[p] \in {"disk", "zombie"}

-----------------------------------------------------------------------------
(* user_mode_start.                                                        *)

Goes(c, to) == pc' = [pc EXCEPT ![c] = to]
Holds(c, p) == child' = [child EXCEPT ![c] = p]

\* Refused if a recorder is seen running; status does the same and no more.
Start(c) ==
    /\ pc[c] = "idle" /\ SeenStopped
    /\ Goes(c, "spawn")
    /\ UNCHANGED <<table, handle, child, polls>>

Spawn(c) ==
    /\ pc[c] = "spawn"
    /\ \/ Goes(c, "idle") /\ UNCHANGED <<table, child>>
       \/ \E p \in Pids :
             /\ table[p] = "free"
             /\ table' = [table EXCEPT ![p] = "run"]
             /\ Holds(c, p) /\ Goes(c, "store")
    /\ UNCHANGED <<handle, polls>>

\* The handle that was there is dropped: its process is neither signalled nor
\* waited for.
Store(c) ==
    /\ pc[c] = "store"
    /\ handle' = child[c] /\ Holds(c, Nothing)
    /\ Goes(c, "poll") /\ polls' = [polls EXCEPT ![c] = 0]
    /\ UNCHANGED table

\* Variant: one look too many.
OnePollMore(n) == n > MaxPolls

LastPoll(n) == n = MaxPolls

Poll(c) ==
    /\ pc[c] = "poll"
    /\ \/ SeenRunning /\ Goes(c, "idle") /\ UNCHANGED polls
       \/ /\ SeenStopped
          /\ polls' = [polls EXCEPT ![c] = @ + 1]
          /\ Goes(c, IF LastPoll(polls[c] + 1) THEN "take" ELSE "poll")
    /\ UNCHANGED <<table, handle, child>>

\* The child is taken out of the handle, if there is one.
Take(c) ==
    /\ pc[c] = "take"
    /\ handle' = Nothing
    /\ IF handle = Nothing THEN Goes(c, "pidfile") /\ UNCHANGED child
       ELSE Holds(c, handle) /\ Goes(c, "trywait")
    /\ UNCHANGED <<table, polls>>

\* Without the lock, it is waited for without waiting: one that has exited is
\* reaped, one that runs is to be put back.
TryWait(c) ==
    /\ pc[c] = "trywait"
    /\ \/ /\ table[child[c]] = "zombie"
          /\ table' = [table EXCEPT ![child[c]] = "free"]
          /\ Holds(c, Nothing) /\ Goes(c, "clear")
       \/ /\ table[child[c]] # "zombie"
          /\ Goes(c, "putback") /\ UNCHANGED <<table, child>>
    /\ UNCHANGED <<handle, polls>>

PutBack(c) ==
    /\ pc[c] = "putback"
    /\ handle' = child[c] /\ Holds(c, Nothing)
    /\ Goes(c, "pidfile")
    /\ UNCHANGED <<table, polls>>

\* The recorder exited: an error, and whatever handle there is is dropped.
Clear(c) ==
    /\ pc[c] = "clear"
    /\ handle' = Nothing
    /\ Goes(c, "idle")
    /\ UNCHANGED <<table, child, polls>>

\* The pid file is written, or the start is undone.
PidFile(c) ==
    /\ pc[c] = "pidfile"
    /\ Goes(c, "idle") \/ Goes(c, "kill")
    /\ UNCHANGED <<table, handle, child, polls>>

\* Whichever child is in the handle is killed, and not waited for.
Kill(c) ==
    /\ pc[c] = "kill"
    /\ table' = IF handle = Nothing THEN table ELSE [table EXCEPT ![handle] = "zombie"]
    /\ handle' = Nothing
    /\ Goes(c, "idle")
    /\ UNCHANGED <<child, polls>>

-----------------------------------------------------------------------------
(* user_mode_stop.                                                         *)

\* Variant: the handle stays for the next stop.
HandleKept == handle

HandleTaken == Nothing

\* Without a handle nothing is stopped, and the answer is the same.
Stop(c) ==
    /\ pc[c] = "idle" /\ handle # Nothing
    /\ Holds(c, handle) /\ handle' = HandleTaken
    /\ Goes(c, "signal")
    /\ UNCHANGED <<table, polls>>

\* Variant: only a recorder that is seen running is signalled.
SignalsRunning(p) == table[p] = "run"

\* Any process with the child's pid is sent SIGINT; a zombie ignores it.
Signals(p) == table[p] \in Active \cup {"stranger", "foreign"}

\* The child is dropped without being waited for.
Signal(c) ==
    /\ pc[c] = "signal"
    /\ table' = IF Signals(child[c]) THEN [table EXCEPT ![child[c]] = "ending"] ELSE table
    /\ Holds(c, Nothing) /\ Goes(c, "idle")
    /\ UNCHANGED <<handle, polls>>

-----------------------------------------------------------------------------
RequestStep(c) ==
    \/ Spawn(c) \/ Store(c) \/ Poll(c) \/ Take(c) \/ TryWait(c) \/ PutBack(c) \/ Clear(c)
    \/ PidFile(c) \/ Kill(c) \/ Signal(c)

Next ==
    \/ \E c \in Clients : Start(c) \/ Stop(c) \/ RequestStep(c)
    \/ \E p \in Pids : Sleeps(p) \/ Wakes(p) \/ Exits(p) \/ Others(p)

Spec == Init /\ [][Next]_vars

\* Threads run, and a recorder that got SIGINT finishes its file and ends.
Fairness ==
    /\ \A c \in Clients : WF_vars(RequestStep(c))
    /\ \A p \in Pids : WF_vars(table[p] = "ending" /\ Exits(p))

FairSpec == Spec /\ Fairness

-----------------------------------------------------------------------------
(* Properties.                                                             *)

Owners(p) == {c \in Clients : child[c] = p} \cup ({handle} \cap {p})

\* However starts and stops interleave, a child is in the handle or with one
\* request, never both, and it has not been waited for: no signal goes to a
\* process that has got the pid of a recorder that is gone.
ChildrenOwned ==
    \A p \in Pids :
        /\ Cardinality(Owners(p)) <= 1
        /\ Owners(p) # {} => table[p] \in Ours

\* A recorder that a stop takes ends, whatever it is doing and whatever other
\* requests do meanwhile: it does not go on recording, and it does not only
\* begin to end.
StopEnds ==
    \A c \in Clients, p \in Pids :
        pc[c] = "signal" /\ child[c] = p ~> table[p] \notin Active \cup {"ending"}

\* "tracks it via Mutex<Option<Child>>": a recorder that goes on recording can be
\* stopped, for the handle or a request has it.
Tracked == \A p \in Pids : table[p] \in Active => Owners(p) # {}
=============================================================================
