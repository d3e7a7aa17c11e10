---------------------------- MODULE ControlProofs ----------------------------
(***************************************************************************)
(* Proofs about Recorder and ServiceConfig.  For any number of requests and *)
(* processes, a recorder's process belongs to one of those that may signal *)
(* or kill it and has not been waited for.  For any number of editors, files *)
(* and posts, and any order of power losses and deaths of the server: the  *)
(* file is a whole one that kept its remarks, a value read is the one posted *)
(* last by those that saved in turn, answers say what was done and can be  *)
(* posted back, and a service that a save was told of runs the saved file. *)
(* With both, the types of the composition.                                *)
(***************************************************************************)
EXTENDS MCControl, EnvFileProofs, FiniteSetTheorems

-----------------------------------------------------------------------------
(* Recorder: who has which child.                                          *)

\* A request that polls has a look left.
LooksLeft == \A c \in Clients : pc[c] = "poll" => polls[c] < MaxPolls

\* A request's child is its own, and not waited for, like the one in the handle.
OneOwner ==
    /\ \A c \in Clients : child[c] # Nothing => child[c] # handle /\ table[child[c]] \in Ours
    /\ \A c, d \in Clients : child[c] # Nothing /\ child[c] = child[d] => c = d
    /\ handle # Nothing => table[handle] \in Ours

RecorderInv == TypeOK /\ LooksLeft /\ OneOwner

LEMMA RecorderStarts == Init => RecorderInv
  <1> SUFFICES ASSUME Init PROVE RecorderInv
    OBVIOUS
  <1>1. TypeOK
    BY RecorderAssumption DEF Init, TypeOK, States, Recorders, Ours
  <1>2. LooksLeft /\ OneOwner
    BY DEF Init, LooksLeft, OneOwner
  <1> QED BY <1>1, <1>2 DEF RecorderInv

\* What happens to a process outside the server.
LEMMA ProcessKeeps ==
    ASSUME RecorderInv, NEW p \in Pids, NEW from, NEW to \in States, Becomes(p, from, to),
           table[p] \in Ours => to \in Ours
    PROVE  RecorderInv'
  <1>1. /\ table' = [table EXCEPT ![p] = to] /\ handle' = handle /\ pc' = pc
        /\ child' = child /\ polls' = polls
    BY DEF Becomes
  <1>2. \A r \in Pids : table[r] \in Ours => table'[r] \in Ours
    BY <1>1 DEF RecorderInv, TypeOK
  <1>3. TypeOK'
    BY <1>1 DEF RecorderInv, TypeOK
  <1>4. LooksLeft'
    BY <1>1 DEF RecorderInv, LooksLeft
  <1>5. OneOwner'
    BY <1>1, <1>2 DEF RecorderInv, OneOwner, TypeOK
  <1> QED BY <1>3, <1>4, <1>5 DEF RecorderInv

\* Control alone.
LEMMA GoesKeeps ==
    ASSUME RecorderInv, NEW c \in Clients, NEW to \in StartPcs \cup {"idle", "signal"}, Goes(c, to),
           child[c] = Nothing, to \notin {"store", "trywait", "putback", "signal"},
           UNCHANGED <<table, handle, child>>,
           polls' \in [Clients -> 0..MaxPolls],
           \A d \in Clients : d # c => polls'[d] = polls[d],
           to = "poll" => polls'[c] < MaxPolls
    PROVE  RecorderInv'
  <1>1. pc' = [pc EXCEPT ![c] = to] /\ table' = table /\ handle' = handle /\ child' = child
    BY DEF Goes
  <1>2. TypeOK'
    BY <1>1 DEF RecorderInv, TypeOK
  <1>3. LooksLeft'
    BY <1>1 DEF RecorderInv, LooksLeft, TypeOK
  <1>4. OneOwner'
    BY <1>1 DEF RecorderInv, OneOwner
  <1> QED BY <1>2, <1>3, <1>4 DEF RecorderInv

\* A request takes a child or lets go of one.
LEMMA HoldsKeeps ==
    ASSUME RecorderInv, NEW c \in Clients, NEW to \in StartPcs \cup {"idle", "signal"}, Goes(c, to),
           NEW x \in Pids \cup {Nothing}, Holds(c, x),
           x # Nothing <=> to \in {"store", "trywait", "putback", "signal"},
           table' \in [Pids -> States], handle' \in Pids \cup {Nothing},
           polls' \in [Clients -> 0..MaxPolls],
           \A d \in Clients : d # c => polls'[d] = polls[d],
           to = "poll" => polls'[c] < MaxPolls,
           x # Nothing => x # handle' /\ table'[x] \in Ours,
           handle' # Nothing => table'[handle'] \in Ours,
           \A d \in Clients : d # c /\ child[d] # Nothing =>
               /\ child[d] # x /\ child[d] # handle'
               /\ table'[child[d]] \in Ours
    PROVE  RecorderInv'
  <1>1. pc' = [pc EXCEPT ![c] = to] /\ child' = [child EXCEPT ![c] = x]
    BY DEF Goes, Holds
  <1>2. /\ child'[c] = x /\ pc'[c] = to
        /\ \A d \in Clients : d # c => child'[d] = child[d] /\ pc'[d] = pc[d]
    BY <1>1 DEF RecorderInv, TypeOK
  <1>3. TypeOK'
    <2>1. /\ pc' \in [Clients -> StartPcs \cup {"idle", "signal"}]
          /\ child' \in [Clients -> Pids \cup {Nothing}]
      BY <1>1 DEF RecorderInv, TypeOK
    <2>2. \A d \in Clients : child'[d] # Nothing <=> pc'[d] \in {"store", "trywait", "putback", "signal"}
      BY <1>2 DEF RecorderInv, TypeOK
    <2> QED BY <2>1, <2>2 DEF TypeOK
  <1>4. LooksLeft'
    BY <1>2 DEF RecorderInv, LooksLeft
  <1>5. OneOwner'
    <2>1. ASSUME NEW d \in Clients, child'[d] # Nothing
          PROVE  child'[d] # handle' /\ table'[child'[d]] \in Ours
      BY <1>2, <2>1
    <2>2. ASSUME NEW d \in Clients, NEW e \in Clients, child'[d] # Nothing, child'[d] = child'[e]
          PROVE  d = e
      BY <1>2, <2>2 DEF RecorderInv, OneOwner
    <2> QED BY <2>1, <2>2 DEF OneOwner
  <1> QED BY <1>3, <1>4, <1>5 DEF RecorderInv

\* What a request with or without a child knows.
LEMMA RecorderTypes ==
    ASSUME RecorderInv, NEW c \in Clients
    PROVE  /\ table \in [Pids -> States] /\ handle \in Pids \cup {Nothing}
           /\ child \in [Clients -> Pids \cup {Nothing}] /\ polls \in [Clients -> 0..MaxPolls]
           /\ pc[c] \in StartPcs \cup {"idle", "signal"}
           /\ child[c] # Nothing <=> pc[c] \in {"store", "trywait", "putback", "signal"}
           /\ child[c] \in Pids \cup {Nothing}
  BY DEF RecorderInv, TypeOK

\* The child of another request is not the handle's, and stays what it is.
LEMMA OthersChildren ==
    ASSUME RecorderInv, NEW c \in Clients, NEW d \in Clients, d # c, child[d] # Nothing
    PROVE  /\ child[d] \in Pids /\ child[d] # child[c] /\ child[d] # handle
           /\ table[child[d]] \in Ours
  BY DEF RecorderInv, TypeOK, OneOwner

LEMMA StartKeeps ==
    ASSUME RecorderInv, NEW c \in Clients, Start(c)
    PROVE  RecorderInv'
  <1>1. /\ pc[c] = "idle" /\ Goes(c, "spawn") /\ UNCHANGED <<table, handle, child>>
        /\ polls' = polls
    BY DEF Start
  <1>2. child[c] = Nothing /\ polls \in [Clients -> 0..MaxPolls]
    BY <1>1, RecorderTypes
  <1> QED BY <1>1, <1>2, GoesKeeps DEF StartPcs

\* A free pid is nobody's.
LEMMA SpawnKeeps ==
    ASSUME RecorderInv, NEW c \in Clients, Spawn(c)
    PROVE  RecorderInv'
  <1>1. /\ pc[c] = "spawn" /\ handle' = handle /\ polls' = polls
        /\ polls \in [Clients -> 0..MaxPolls] /\ handle \in Pids \cup {Nothing}
        /\ child[c] = Nothing
    BY RecorderTypes DEF Spawn
  <1>2. CASE Goes(c, "idle") /\ UNCHANGED <<table, child>>
    BY <1>1, <1>2, GoesKeeps
  <1>3. ASSUME NEW p \in Pids, table[p] = "free", table' = [table EXCEPT ![p] = "run"],
               Holds(c, p), Goes(c, "store")
        PROVE  RecorderInv'
    <2>1. /\ p # Nothing /\ p \in Pids \cup {Nothing} /\ table'[p] = "run" /\ table[p] \notin Ours
          /\ \A r \in Pids : r # p => table'[r] = table[r]
      BY <1>3, RecorderTypes, RecorderAssumption DEF Ours
    <2>2. p # handle
      BY <2>1 DEF RecorderInv, OneOwner
    <2>3. handle' # Nothing => table'[handle'] \in Ours
      BY <1>1, <2>1, <2>2 DEF RecorderInv, OneOwner
    <2>4. ASSUME NEW d \in Clients, d # c, child[d] # Nothing
          PROVE  /\ child[d] # p /\ child[d] # handle'
                 /\ table'[child[d]] \in Ours
      BY <1>1, <2>1, <2>4, OthersChildren
    <2>5. table' \in [Pids -> States] /\ "run" \in Ours
      BY <1>3, RecorderTypes DEF States, Recorders, Ours
    <2> QED BY <1>1, <1>3, <2>1, <2>2, <2>3, <2>4, <2>5, HoldsKeeps DEF StartPcs
  <1> QED BY <1>2, <1>3 DEF Spawn

LEMMA StoreKeeps ==
    ASSUME RecorderInv, NEW c \in Clients, Store(c)
    PROVE  RecorderInv'
  <1>1. /\ pc[c] = "store" /\ handle' = child[c] /\ Holds(c, Nothing) /\ Goes(c, "poll")
        /\ polls' = [polls EXCEPT ![c] = 0] /\ table' = table
    BY DEF Store
  <1>2. polls' \in [Clients -> 0..MaxPolls] /\ polls'[c] = 0 /\ 0 < MaxPolls
        /\ \A d \in Clients : d # c => polls'[d] = polls[d]
    BY <1>1, RecorderTypes, RecorderAssumption
  <1>3. /\ child[c] # Nothing /\ handle' \in Pids \cup {Nothing} /\ table'[handle'] \in Ours
        /\ table' \in [Pids -> States]
    BY <1>1, RecorderTypes DEF RecorderInv, OneOwner
  <1>4. ASSUME NEW d \in Clients, d # c, child[d] # Nothing
        PROVE  child[d] # Nothing /\ child[d] # handle' /\ table'[child[d]] \in Ours
    BY <1>1, <1>4, OthersChildren
  <1> QED BY <1>1, <1>2, <1>3, <1>4, HoldsKeeps DEF StartPcs

LEMMA PollKeeps ==
    ASSUME RecorderInv, NEW c \in Clients, Poll(c)
    PROVE  RecorderInv'
  <1>1. /\ pc[c] = "poll" /\ UNCHANGED <<table, handle, child>> /\ child[c] = Nothing
        /\ polls \in [Clients -> 0..MaxPolls] /\ polls[c] < MaxPolls
    BY RecorderTypes DEF Poll, RecorderInv, LooksLeft
  <1>2. CASE Goes(c, "idle") /\ polls' = polls
    BY <1>1, <1>2, GoesKeeps
  <1>3. CASE /\ polls' = [polls EXCEPT ![c] = @ + 1]
             /\ Goes(c, IF LastPoll(polls[c] + 1) THEN "take" ELSE "poll")
    <2>1. MaxPolls \in Nat /\ polls[c] \in Nat
      BY <1>1, RecorderAssumption
    <2>2. /\ polls' \in [Clients -> 0..MaxPolls] /\ polls'[c] = polls[c] + 1
          /\ \A d \in Clients : d # c => polls'[d] = polls[d]
      BY <1>1, <1>3, <2>1
    <2>3. CASE LastPoll(polls[c] + 1)
      <3>1. Goes(c, "take")
        BY <1>3, <2>3
      <3> QED BY <1>1, <2>2, <3>1, GoesKeeps DEF StartPcs
    <2>4. CASE ~LastPoll(polls[c] + 1)
      <3>1. Goes(c, "poll") /\ polls'[c] < MaxPolls
        BY <1>1, <1>3, <2>1, <2>2, <2>4 DEF LastPoll
      <3> QED BY <1>1, <2>2, <3>1, GoesKeeps DEF StartPcs
    <2> QED BY <2>3, <2>4
  <1> QED BY <1>2, <1>3 DEF Poll

\* The child goes from the handle to the request.
LEMMA TakeKeeps ==
    ASSUME RecorderInv, NEW c \in Clients, Take(c)
    PROVE  RecorderInv'
  <1>1. /\ pc[c] = "take" /\ handle' = Nothing /\ table' = table /\ polls' = polls
        /\ child[c] = Nothing
        /\ polls \in [Clients -> 0..MaxPolls] /\ table \in [Pids -> States]
        /\ handle \in Pids \cup {Nothing} /\ child \in [Clients -> Pids \cup {Nothing}]
    BY RecorderTypes DEF Take
  <1>2. CASE handle = Nothing
    <2>1. Goes(c, "pidfile") /\ UNCHANGED <<table, handle, child>>
      BY <1>1, <1>2 DEF Take
    <2> QED BY <1>1, <2>1, GoesKeeps DEF StartPcs
  <1>3. CASE handle # Nothing
    <2>1. Holds(c, handle) /\ Goes(c, "trywait")
      BY <1>3 DEF Take
    <2>2. table'[handle] \in Ours /\ handle # handle'
      BY <1>1, <1>3 DEF RecorderInv, OneOwner
    <2>3. ASSUME NEW d \in Clients, d # c, child[d] # Nothing
          PROVE  child[d] # handle /\ child[d] # handle' /\ table'[child[d]] \in Ours
      BY <1>1, <2>3, OthersChildren
    <2> QED BY <1>1, <1>3, <2>1, <2>2, <2>3, HoldsKeeps DEF StartPcs
  <1> QED BY <1>2, <1>3

\* A child that is reaped was the request's alone: its pid may be reused.
LEMMA TryWaitKeeps ==
    ASSUME RecorderInv, NEW c \in Clients, TryWait(c)
    PROVE  RecorderInv'
  <1>1. /\ pc[c] = "trywait" /\ handle' = handle /\ polls' = polls
        /\ polls \in [Clients -> 0..MaxPolls] /\ table \in [Pids -> States]
        /\ handle \in Pids \cup {Nothing} /\ child[c] \in Pids /\ child[c] # Nothing
        /\ child \in [Clients -> Pids \cup {Nothing}]
    BY RecorderTypes DEF TryWait
  <1>2. CASE table[child[c]] = "zombie"
    <2>1. table' = [table EXCEPT ![child[c]] = "free"] /\ Goes(c, "clear") /\ Holds(c, Nothing)
      BY <1>2 DEF TryWait
    <2>2. ASSUME NEW d \in Clients, d # c, child[d] # Nothing
          PROVE  child[d] # Nothing /\ child[d] # handle' /\ table'[child[d]] \in Ours
      BY <1>1, <2>1, <2>2, OthersChildren
    <2>3. table' \in [Pids -> States]
      BY <1>1, <2>1 DEF States
    <2>4. handle' # Nothing => table'[handle'] \in Ours
      <3>1. child[c] # handle /\ (handle # Nothing => table[handle] \in Ours)
        BY <1>1 DEF RecorderInv, OneOwner
      <3> QED BY <1>1, <2>1, <3>1
    <2> QED BY <1>1, <2>1, <2>2, <2>3, <2>4, HoldsKeeps DEF StartPcs
  <1>3. CASE table[child[c]] # "zombie"
    <2>1. Goes(c, "putback") /\ table' = table /\ child' = child
      BY <1>3 DEF TryWait
    <2>2. Holds(c, child[c])
      BY <1>1, <2>1 DEF Holds
    <2>3. table'[child[c]] \in Ours /\ child[c] # handle'
      BY <1>1, <2>1 DEF RecorderInv, OneOwner
    <2>4. ASSUME NEW d \in Clients, d # c, child[d] # Nothing
          PROVE  child[d] # child[c] /\ child[d] # handle' /\ table'[child[d]] \in Ours
      BY <1>1, <2>1, <2>4, OthersChildren
    <2>5. handle' # Nothing => table'[handle'] \in Ours
      BY <1>1, <2>1 DEF RecorderInv, OneOwner
    <2> QED BY <1>1, <2>1, <2>2, <2>3, <2>4, <2>5, HoldsKeeps DEF StartPcs
  <1> QED BY <1>2, <1>3

LEMMA PutBackKeeps ==
    ASSUME RecorderInv, NEW c \in Clients, PutBack(c)
    PROVE  RecorderInv'
  <1>1. /\ pc[c] = "putback" /\ handle' = child[c] /\ Holds(c, Nothing) /\ Goes(c, "pidfile")
        /\ polls' = polls /\ table' = table
        /\ polls \in [Clients -> 0..MaxPolls] /\ table \in [Pids -> States]
        /\ child[c] \in Pids /\ child[c] # Nothing
    BY RecorderTypes DEF PutBack
  <1>2. table'[handle'] \in Ours
    BY <1>1 DEF RecorderInv, OneOwner
  <1>3. ASSUME NEW d \in Clients, d # c, child[d] # Nothing
        PROVE  child[d] # Nothing /\ child[d] # handle' /\ table'[child[d]] \in Ours
    BY <1>1, <1>3, OthersChildren
  <1> QED BY <1>1, <1>2, <1>3, HoldsKeeps DEF StartPcs

LEMMA ClearKeeps ==
    ASSUME RecorderInv, NEW c \in Clients, Clear(c)
    PROVE  RecorderInv'
  <1>1. /\ pc[c] = "clear" /\ handle' = Nothing /\ Goes(c, "idle") /\ child' = child
        /\ polls' = polls /\ table' = table
        /\ polls \in [Clients -> 0..MaxPolls] /\ table \in [Pids -> States]
        /\ child \in [Clients -> Pids \cup {Nothing}] /\ child[c] = Nothing
    BY RecorderTypes DEF Clear
  <1>2. Holds(c, Nothing)
    BY <1>1 DEF Holds
  <1>3. ASSUME NEW d \in Clients, d # c, child[d] # Nothing
        PROVE  child[d] # Nothing /\ child[d] # handle' /\ table'[child[d]] \in Ours
    BY <1>1, <1>3, OthersChildren
  <1> QED BY <1>1, <1>2, <1>3, HoldsKeeps

LEMMA PidFileKeeps ==
    ASSUME RecorderInv, NEW c \in Clients, PidFile(c)
    PROVE  RecorderInv'
  <1>1. /\ pc[c] = "pidfile" /\ UNCHANGED <<table, handle, child>> /\ polls' = polls
        /\ polls \in [Clients -> 0..MaxPolls] /\ child[c] = Nothing
    BY RecorderTypes DEF PidFile
  <1>2. CASE Goes(c, "idle")
    BY <1>1, <1>2, GoesKeeps
  <1>3. CASE Goes(c, "kill")
    BY <1>1, <1>3, GoesKeeps DEF StartPcs
  <1> QED BY <1>2, <1>3 DEF PidFile

LEMMA KillKeeps ==
    ASSUME RecorderInv, NEW c \in Clients, Kill(c)
    PROVE  RecorderInv'
  <1>1. /\ pc[c] = "kill" /\ handle' = Nothing /\ Goes(c, "idle") /\ child' = child
        /\ polls' = polls
        /\ table' = IF handle = Nothing THEN table ELSE [table EXCEPT ![handle] = "zombie"]
        /\ polls \in [Clients -> 0..MaxPolls] /\ table \in [Pids -> States]
        /\ handle \in Pids \cup {Nothing}
        /\ child \in [Clients -> Pids \cup {Nothing}] /\ child[c] = Nothing
    BY RecorderTypes DEF Kill
  <1>2. Holds(c, Nothing)
    BY <1>1 DEF Holds
  <1>3. ASSUME NEW d \in Clients, d # c, child[d] # Nothing
        PROVE  child[d] # Nothing /\ child[d] # handle' /\ table'[child[d]] \in Ours
    BY <1>1, <1>3, OthersChildren
  <1>4. table' \in [Pids -> States]
    BY <1>1 DEF States, Recorders, Ours
  <1> QED BY <1>1, <1>2, <1>3, <1>4, HoldsKeeps

LEMMA StopKeeps ==
    ASSUME RecorderInv, NEW c \in Clients, Stop(c)
    PROVE  RecorderInv'
  <1>1. /\ pc[c] = "idle" /\ handle # Nothing /\ Holds(c, handle) /\ handle' = Nothing
        /\ Goes(c, "signal") /\ table' = table /\ polls' = polls
        /\ polls \in [Clients -> 0..MaxPolls] /\ table \in [Pids -> States]
        /\ handle \in Pids \cup {Nothing}
    BY RecorderTypes DEF Stop, HandleTaken
  <1>2. table'[handle] \in Ours
    BY <1>1 DEF RecorderInv, OneOwner
  <1>3. ASSUME NEW d \in Clients, d # c, child[d] # Nothing
        PROVE  child[d] # handle /\ child[d] # handle' /\ table'[child[d]] \in Ours
    BY <1>1, <1>3, OthersChildren
  <1> QED BY <1>1, <1>2, <1>3, HoldsKeeps

LEMMA SignalKeeps ==
    ASSUME RecorderInv, NEW c \in Clients, Signal(c)
    PROVE  RecorderInv'
  <1>1. /\ pc[c] = "signal" /\ Holds(c, Nothing) /\ Goes(c, "idle") /\ handle' = handle
        /\ table' = IF Signals(child[c]) THEN [table EXCEPT ![child[c]] = "ending"] ELSE table
        /\ polls' = polls /\ child[c] \in Pids /\ child[c] # Nothing
        /\ polls \in [Clients -> 0..MaxPolls] /\ table \in [Pids -> States]
        /\ handle \in Pids \cup {Nothing}
    BY RecorderTypes DEF Signal
  <1>2. table' \in [Pids -> States] /\ \A p \in Pids : p # child[c] => table'[p] = table[p]
    BY <1>1 DEF States, Recorders, Ours
  <1>3. handle' # Nothing => table'[handle'] \in Ours
    BY <1>1, <1>2 DEF RecorderInv, OneOwner
  <1>4. ASSUME NEW d \in Clients, d # c, child[d] # Nothing
        PROVE  child[d] # Nothing /\ child[d] # handle' /\ table'[child[d]] \in Ours
    BY <1>1, <1>2, <1>4, OthersChildren
  <1> QED BY <1>1, <1>2, <1>3, <1>4, HoldsKeeps

LEMMA RecorderStep ==
    ASSUME RecorderInv, [Next]_vars
    PROVE  RecorderInv'
  <1>1. CASE UNCHANGED vars
    BY <1>1 DEF vars, RecorderInv, TypeOK, LooksLeft, OneOwner
  <1>2. ASSUME NEW c \in Clients, Start(c) \/ Stop(c) \/ RequestStep(c) PROVE RecorderInv'
    BY <1>2, StartKeeps, StopKeeps, SpawnKeeps, StoreKeeps, PollKeeps, TakeKeeps,
       TryWaitKeeps, PutBackKeeps, ClearKeeps, PidFileKeeps, KillKeeps, SignalKeeps DEF RequestStep
  <1>3. ASSUME NEW p \in Pids, Sleeps(p) \/ Wakes(p) \/ Exits(p) \/ Others(p)
        PROVE  RecorderInv'
    <2>1. {"run", "disk", "ending", "zombie", "foreign", "free", "stranger"} \subseteq States
      BY DEF States, Recorders, Ours
    <2>2. CASE Sleeps(p) \/ Wakes(p) \/ Exits(p)
      BY <2>1, <2>2, ProcessKeeps DEF Sleeps, Wakes, Exits, Ours
    <2>3. CASE Others(p)
      <3>1. table[p] \notin Ours
        BY <2>3 DEF Others, Becomes, Ours
      <3> QED BY <2>1, <2>3, <3>1, ProcessKeeps DEF Others
    <2> QED BY <1>3, <2>2, <2>3
  <1> QED BY <1>1, <1>2, <1>3 DEF Next

LEMMA RecorderInvHolds == Spec => []RecorderInv
  BY RecorderStarts, RecorderStep, PTL DEF Spec

\* In every reachable state the requests, the handle and the process table are
\* what recording.rs can make of them.
THEOREM RecorderTyped == Spec => []TypeOK
  <1>1. RecorderInv => TypeOK
    BY DEF RecorderInv
  <1> QED BY <1>1, RecorderInvHolds, PTL

\* However many starts and stops interleave, a child is in ServerContext::process
\* or with one request, never both, and it has not been waited for.
THEOREM ChildrenAreOwned == Spec => []ChildrenOwned
  <1>1. ASSUME RecorderInv PROVE ChildrenOwned
    <2> SUFFICES ASSUME NEW p \in Pids
                 PROVE  /\ Cardinality(Owners(p)) <= 1
                        /\ Owners(p) # {} => table[p] \in Ours
      BY DEF ChildrenOwned
    <2>1. Owners(p) # {} => table[p] \in Ours
      BY <1>1, RecorderAssumption DEF Owners, RecorderInv, OneOwner
    <2>2. ASSUME NEW x \in Owners(p), NEW y \in Owners(p) PROVE x = y
      BY <1>1, RecorderAssumption DEF Owners, RecorderInv, OneOwner
    <2>3. CASE Owners(p) = {}
      BY <2>1, <2>3, FS_EmptySet
    <2>4. CASE Owners(p) # {}
      <3>1. PICK x \in Owners(p) : TRUE
        BY <2>4
      <3>2. Owners(p) = {x}
        BY <2>2, <3>1
      <3>3. Cardinality({x}) = 1
        BY FS_Singleton
      <3>4. 1 <= 1
        OBVIOUS
      <3> QED BY <2>1, <3>2, <3>3, <3>4
    <2> QED BY <2>3, <2>4
  <1> QED BY <1>1, RecorderInvHolds, PTL

-----------------------------------------------------------------------------
(* ServiceConfig: what a save was told of the restart.                     *)

\* The contents of files are whatever the editor makes of them: a record is as
\* it should be in the fields that control the requests.
SaveRecord(r) == [entries : {r.entries}, read : {r.read}, told : Told]
CallRecord(r) == [pc : EditorPcs, entries : {r.entries}, content : {r.content},
                  read : {r.read}, save : Nat]
UnitRecord(r) == [state : {"inactive", "queued", "starting", "active"}, loaded : {r.loaded}]

SavesTyped ==
    /\ Len(saves) \in Nat /\ saves = [s \in 1..Len(saves) |-> saves[s]]
    /\ \A s \in 1..Len(saves) : saves[s] \in SaveRecord(saves[s])

CallsTyped ==
    /\ call = [c \in Editors |-> call[c]]
    /\ \A c \in Editors :
          /\ call[c] \in CallRecord(call[c])
          /\ call[c].save <= Len(saves)
          /\ call[c].save > 0 <=> call[c].pc \in {"check", "restart", "restarting"}

\* The same replacements, whatever they were told.
SameEdits(sv, sw, r) ==
    \A s \in 1..r : sw[s].entries = sv[s].entries /\ sw[s].read = sv[s].read

\* Who waits for a restart waits for a unit that is about to run, and the editor
\* of the last save for one that has not read the file yet or has read that save.
RestartsAwaited ==
    \A c \in Editors : call[c].pc = "restarting" =>
        /\ unit.state \in {"queued", "starting"}
        /\ call[c].save = Len(saves) /\ unit.state = "starting" => unit.loaded = file

ConfigInv ==
    /\ SavesTyped /\ CallsTyped /\ unit \in UnitRecord(unit)
    /\ RestartsAwaited /\ RestartedRunsLatest

LEMMA ConfigStarts == ConfigInit => ConfigInv
  <1> SUFFICES ASSUME ConfigInit PROVE ConfigInv
    OBVIOUS
  <1>1. saves = <<>> /\ Len(saves) = 0 /\ call = [c \in Editors |-> IdleEditor]
    BY DEF ConfigInit
  <1>2. SavesTyped
    BY <1>1 DEF SavesTyped
  <1>3. CallsTyped
    BY <1>1 DEF CallsTyped, CallRecord, IdleEditor, EditorPcs
  <1>4. unit \in UnitRecord(unit)
    <2>1. CASE unit = NoUnit
      BY <2>1 DEF UnitRecord, NoUnit
    <2>2. ASSUME NEW f, unit = [state |-> "active", loaded |-> f] PROVE unit \in UnitRecord(unit)
      BY <2>2 DEF UnitRecord
    <2> QED BY <2>1, <2>2 DEF ConfigInit
  <1>5. RestartsAwaited /\ RestartedRunsLatest
    BY <1>1 DEF RestartsAwaited, RestartedRunsLatest, IdleEditor
  <1> QED BY <1>2, <1>3, <1>4, <1>5 DEF ConfigInv

LEMMA SequenceIsFunction ==
    ASSUME NEW S, NEW q \in Seq(S)
    PROVE  q = [i \in 1..Len(q) |-> q[i]]
  OBVIOUS

\* A replacement is one more.
LEMMA SaveAppended ==
    ASSUME SavesTyped, NEW r, r \in SaveRecord(r), saves' = Append(saves, r)
    PROVE  SavesTyped' /\ Len(saves') = Len(saves) + 1 /\ saves'[Len(saves) + 1] = r
  <1> DEFINE T == {saves[s] : s \in 1..Len(saves)} \cup {r}
  <1>1. saves \in Seq(T)
    BY DEF SavesTyped
  <1> HIDE DEF T
  <1>2. /\ saves' \in Seq(T) /\ Len(saves') = Len(saves) + 1 /\ saves'[Len(saves) + 1] = r
        /\ \A s \in 1..Len(saves) : saves'[s] = saves[s]
    BY <1>1 DEF T
  <1>3. saves' = [s \in 1..Len(saves') |-> saves'[s]]
    BY <1>2, SequenceIsFunction
  <1>4. ASSUME NEW s \in 1..Len(saves') PROVE saves'[s] \in SaveRecord(saves'[s])
    <2>1. Len(saves) \in Nat
      BY DEF SavesTyped
    <2>2. CASE s = Len(saves) + 1
      BY <1>2, <2>2
    <2>3. CASE s # Len(saves) + 1
      <3>1. s \in 1..Len(saves)
        BY <1>2, <2>1, <2>3
      <3> QED BY <1>2, <3>1 DEF SavesTyped
    <2> QED BY <2>2, <2>3
  <1> QED BY <1>2, <1>3, <1>4 DEF SavesTyped

\* Some of the saves are told how the restart went.
LEMMA SavesTold ==
    ASSUME SavesTyped, NEW K, NEW what \in Told,
           saves' = [s \in 1..Len(saves) |->
                        IF s \in K THEN [saves[s] EXCEPT !.told = what] ELSE saves[s]]
    PROVE  /\ SavesTyped' /\ Len(saves') = Len(saves) /\ SameEdits(saves, saves', Len(saves))
           /\ \A s \in 1..Len(saves) : saves'[s].told = IF s \in K THEN what ELSE saves[s].told
  <1>0. Len(saves) \in Nat
    BY DEF SavesTyped
  <1>1. ASSUME NEW s \in 1..Len(saves)
        PROVE  /\ saves'[s] \in SaveRecord(saves'[s])
               /\ saves'[s].entries = saves[s].entries /\ saves'[s].read = saves[s].read
               /\ saves'[s].told = IF s \in K THEN what ELSE saves[s].told
    <2> DEFINE r == saves[s]
               t == [r EXCEPT !.told = what]
    <2>1. r \in [entries : {r.entries}, read : {r.read}, told : Told]
      BY DEF SavesTyped, SaveRecord
    <2> HIDE DEF r
    <2>2. /\ t \in [entries : {t.entries}, read : {t.read}, told : Told] /\ t.told = what
          /\ t.entries = r.entries /\ t.read = r.read
      BY <2>1
    <2> HIDE DEF t
    <2>3. saves'[s] = IF s \in K THEN t ELSE r
      BY DEF r, t
    <2> QED BY <2>1, <2>2, <2>3 DEF r, SaveRecord
  <1>2. Len(saves') = Len(saves)
    BY <1>0
  <1>3. saves' = [s \in 1..Len(saves') |-> saves'[s]]
    BY <1>2
  <1> QED BY <1>1, <1>2, <1>3 DEF SavesTyped, SameEdits

LEMMA OneTold ==
    ASSUME SavesTyped, NEW k \in 1..Len(saves), NEW what \in Told,
           saves' = [saves EXCEPT ![k].told = what]
    PROVE  /\ SavesTyped' /\ Len(saves') = Len(saves) /\ SameEdits(saves, saves', Len(saves))
           /\ saves'[k].told = what
           /\ \A s \in 1..Len(saves) : s # k => saves'[s].told = saves[s].told
  <1>1. saves' = [s \in 1..Len(saves) |->
                     IF s \in {k} THEN [saves[s] EXCEPT !.told = what] ELSE saves[s]]
    <2>1. saves = [s \in 1..Len(saves) |-> saves[s]]
      BY DEF SavesTyped
    <2> QED BY <2>1
  <1> QED BY <1>1, SavesTold

\* A request gets another record.
LEMMA CallChanged ==
    ASSUME ConfigInv, NEW c \in Editors, NEW r, r \in CallRecord(r),
           call' = [call EXCEPT ![c] = r],
           Len(saves') \in Nat, Len(saves) <= Len(saves'), r.save <= Len(saves'),
           r.save > 0 <=> r.pc \in {"check", "restart", "restarting"}
    PROVE  CallsTyped' /\ call'[c] = r /\ \A d \in Editors : d # c => call'[d] = call[d]
  <1>1. call = [d \in Editors |-> call[d]] /\ Len(saves) \in Nat
    BY DEF ConfigInv, CallsTyped, SavesTyped
  <1>2. /\ call' = [d \in Editors |-> call'[d]]
        /\ call'[c] = r /\ \A d \in Editors : d # c => call'[d] = call[d]
    BY <1>1
  <1>3. ASSUME NEW d \in Editors
        PROVE  /\ call'[d] \in CallRecord(call'[d])
               /\ call'[d].save <= Len(saves')
               /\ call'[d].save > 0 <=> call'[d].pc \in {"check", "restart", "restarting"}
    <2>1. CASE d = c
      BY <1>2, <2>1
    <2>2. CASE d # c
      <3>1. /\ call[d] \in CallRecord(call[d]) /\ call[d].save <= Len(saves)
            /\ call[d].save > 0 <=> call[d].pc \in {"check", "restart", "restarting"}
            /\ call'[d] = call[d]
        BY <1>2, <2>2 DEF ConfigInv, CallsTyped
      <3>2. call[d].save \in Nat
        BY <3>1 DEF CallRecord
      <3>3. call[d].save <= Len(saves')
        BY <1>1, <3>1, <3>2
      <3> QED BY <3>1, <3>3
    <2> QED BY <2>1, <2>2
  <1> QED BY <1>2, <1>3 DEF CallsTyped

\* Nothing that happens to a request that is not waiting, and to what a save was
\* told but "restarted", tells of the unit.
LEMMA RestartsApart ==
    ASSUME ConfigInv, CallsTyped', SavesTyped', Len(saves') = Len(saves),
           unit' = unit, file' = file,
           \A d \in Editors : call'[d].pc = "restarting" => call'[d] = call[d],
           Len(saves) > 0 /\ saves'[Len(saves)].told = "restarted"
               => saves[Len(saves)].told = "restarted"
    PROVE  ConfigInv'
  <1>1. unit' \in UnitRecord(unit') /\ RestartsAwaited'
    BY DEF ConfigInv, RestartsAwaited, UnitRecord
  <1>2. RestartedRunsLatest'
    BY DEF ConfigInv, RestartedRunsLatest, Last
  <1> QED BY <1>1, <1>2 DEF ConfigInv

LEMMA ConfigTypes ==
    ASSUME ConfigInv, NEW c \in Editors
    PROVE  /\ Len(saves) \in Nat /\ SavesTyped
           /\ call[c] \in CallRecord(call[c]) /\ call[c].save \in Nat
           /\ call[c].save <= Len(saves)
           /\ call[c].save > 0 <=> call[c].pc \in {"check", "restart", "restarting"}
  BY DEF ConfigInv, SavesTyped, CallsTyped, CallRecord

\* A request goes on.
LEMMA Continued ==
    ASSUME ConfigInv, NEW c \in Editors, NEW pc2 \in EditorPcs, Continues(c, pc2),
           saves' = saves
    PROVE  \E r : /\ r \in CallRecord(r) /\ call' = [call EXCEPT ![c] = r]
                  /\ r.pc = pc2 /\ r.save = call[c].save /\ r.read = call[c].read
  <1> DEFINE a == call[c]
             r == [a EXCEPT !.pc = pc2]
  <1>1. a \in [pc : EditorPcs, entries : {a.entries}, content : {a.content},
                read : {a.read}, save : Nat]
    BY ConfigTypes DEF CallRecord
  <1>2. call' = [call EXCEPT ![c] = r]
    BY DEF Continues
  <1> HIDE DEF a
  <1>3. /\ r \in [pc : EditorPcs, entries : {r.entries}, content : {r.content},
                   read : {r.read}, save : Nat]
        /\ r.pc = pc2 /\ r.save = a.save /\ r.read = a.read
    BY <1>1
  <1> QED BY <1>2, <1>3 DEF a, CallRecord

LEMMA GoesOnKeeps ==
    ASSUME ConfigInv, NEW c \in Editors, NEW pc2 \in EditorPcs, Continues(c, pc2),
           saves' = saves, unit' = unit, file' = file,
           pc2 # "restarting",
           pc2 \in {"check", "restart", "restarting"}
               <=> call[c].pc \in {"check", "restart", "restarting"}
    PROVE  ConfigInv'
  <1>1. PICK r : /\ r \in CallRecord(r) /\ call' = [call EXCEPT ![c] = r]
                 /\ r.pc = pc2 /\ r.save = call[c].save
    BY Continued
  <1>2. /\ Len(saves') = Len(saves) /\ Len(saves) \in Nat /\ SavesTyped'
        /\ Len(saves) <= Len(saves')
        /\ r.save <= Len(saves') /\ (r.save > 0 <=> r.pc \in {"check", "restart", "restarting"})
    BY <1>1, ConfigTypes DEF SavesTyped
  <1>3. CallsTyped' /\ call'[c] = r /\ \A d \in Editors : d # c => call'[d] = call[d]
    BY <1>1, <1>2, CallChanged
  <1>4. \A d \in Editors : call'[d].pc = "restarting" => call'[d] = call[d]
    BY <1>1, <1>3
  <1> QED BY <1>2, <1>3, <1>4, RestartsApart

LEMMA Idle == /\ IdleEditor \in CallRecord(IdleEditor) /\ IdleEditor.pc = "idle"
              /\ IdleEditor.save = 0
  BY DEF IdleEditor, CallRecord, EditorPcs

\* A request is answered, and its save is told that the service is not restarted.
LEMMA AnswersKeeps ==
    ASSUME ConfigInv, NEW c \in Editors, NEW what \in Told \ {"restarted"}, Answers(c, what),
           call[c].save > 0, unit' = unit, file' = file
    PROVE  ConfigInv'
  <1>1. /\ call' = [call EXCEPT ![c] = IdleEditor]
        /\ saves' = [saves EXCEPT ![call[c].save].told = what]
        /\ call[c].save \in 1..Len(saves)
    BY ConfigTypes DEF Answers, Tells
  <1>2. /\ SavesTyped' /\ Len(saves') = Len(saves) /\ saves'[call[c].save].told = what
        /\ \A s \in 1..Len(saves) : s # call[c].save => saves'[s].told = saves[s].told
    BY <1>1, ConfigTypes, OneTold
  <1>3. CallsTyped' /\ call'[c] = IdleEditor /\ \A d \in Editors : d # c => call'[d] = call[d]
    <2>1. /\ Len(saves') \in Nat /\ Len(saves) <= Len(saves') /\ IdleEditor.save <= Len(saves')
          /\ (IdleEditor.save > 0 <=> IdleEditor.pc \in {"check", "restart", "restarting"})
      BY <1>2, ConfigTypes, Idle
    <2> QED BY <1>1, <2>1, Idle, CallChanged
  <1>4. \A d \in Editors : call'[d].pc = "restarting" => call'[d] = call[d]
    BY <1>3, Idle
  <1>5. Len(saves) > 0 /\ saves'[Len(saves)].told = "restarted"
               => saves[Len(saves)].told = "restarted"
    BY <1>1, <1>2, ConfigTypes
  <1> QED BY <1>2, <1>3, <1>4, <1>5, RestartsApart

\* A request begins or fails.
LEMMA OwnRecordKeeps ==
    ASSUME ConfigInv, NEW c \in Editors, NEW r, r \in CallRecord(r),
           call' = [call EXCEPT ![c] = r], r.save = 0, r.pc \in {"idle", "write"},
           saves' = saves, unit' = unit, file' = file
    PROVE  ConfigInv'
  <1>1. /\ SavesTyped' /\ Len(saves') = Len(saves) /\ Len(saves') \in Nat
        /\ Len(saves) <= Len(saves') /\ r.save <= Len(saves')
        /\ (r.save > 0 <=> r.pc \in {"check", "restart", "restarting"})
    BY ConfigTypes DEF SavesTyped
  <1>2. CallsTyped' /\ call'[c] = r /\ \A d \in Editors : d # c => call'[d] = call[d]
    BY <1>1, CallChanged
  <1>3. \A d \in Editors : call'[d].pc = "restarting" => call'[d] = call[d]
    BY <1>2
  <1> QED BY <1>1, <1>2, <1>3, RestartsApart

LEMMA SubmitKeeps ==
    ASSUME ConfigInv, NEW c \in Editors, NEW p, Submit(c, p)
    PROVE  ConfigInv'
  <1> DEFINE r == [IdleEditor EXCEPT
                      !.pc = "write", !.entries = Entries(Submitted(p)),
                      !.content = Planned(file, Entries(Submitted(p))), !.read = Len(saves)]
  <1>1. call' = [call EXCEPT ![c] = r] /\ saves' = saves /\ unit' = unit /\ file' = file
    BY DEF Submit, disks, observed
  <1>2. r \in CallRecord(r) /\ r.save = 0 /\ r.pc = "write"
    BY DEF CallRecord, IdleEditor, EditorPcs
  <1> HIDE DEF r
  <1> QED BY <1>1, <1>2, OwnRecordKeeps

\* The last save is a new one, for which nobody waits yet.
LEMMA RenameKeeps ==
    ASSUME ConfigInv, NEW c \in Editors, Rename(c)
    PROVE  ConfigInv'
  <1> DEFINE saved == [entries |-> call[c].entries, read |-> call[c].read, told |-> "pending"]
             a == call[c]
             r == [a EXCEPT !.pc = "check", !.save = Len(saves) + 1]
  <1>0. Len(saves) \in Nat /\ SavesTyped
    BY ConfigTypes
  <1>1. call' = [call EXCEPT ![c] = r] /\ saves' = Append(saves, saved) /\ unit' = unit
    BY DEF Rename
  <1>2. saved \in SaveRecord(saved) /\ saved.told = "pending"
    BY DEF SaveRecord, Told
  <1>3. a \in [pc : EditorPcs, entries : {a.entries}, content : {a.content},
                read : {a.read}, save : Nat]
    BY ConfigTypes DEF CallRecord
  <1> HIDE DEF a
  <1>4. r \in CallRecord(r) /\ r.pc = "check" /\ r.save = Len(saves) + 1
    <2>1. "check" \in EditorPcs /\ Len(saves) + 1 \in Nat
      BY <1>0 DEF EditorPcs
    <2>2. /\ r \in [pc : EditorPcs, entries : {r.entries}, content : {r.content},
                     read : {r.read}, save : Nat]
          /\ r.pc = "check" /\ r.save = Len(saves) + 1
      BY <1>3, <2>1
    <2> QED BY <2>2 DEF CallRecord
  <1> HIDE DEF saved, r
  <1>5. /\ SavesTyped' /\ Len(saves') = Len(saves) + 1 /\ saves'[Len(saves) + 1] = saved
    BY <1>0, <1>1, <1>2, SaveAppended
  <1>6. CallsTyped' /\ call'[c] = r /\ \A d \in Editors : d # c => call'[d] = call[d]
    <2>1. /\ Len(saves') \in Nat /\ Len(saves) <= Len(saves') /\ r.save <= Len(saves')
          /\ (r.save > 0 <=> r.pc \in {"check", "restart", "restarting"})
      BY <1>0, <1>4, <1>5
    <2> QED BY <1>1, <1>4, <2>1, CallChanged
  <1>7. RestartsAwaited'
    <2> SUFFICES ASSUME NEW d \in Editors, call'[d].pc = "restarting"
                 PROVE  /\ unit'.state \in {"queued", "starting"}
                        /\ call'[d].save # Len(saves')
      BY DEF RestartsAwaited
    <2>1. d # c /\ call'[d] = call[d]
      BY <1>4, <1>6
    <2>2. call[d].save <= Len(saves) /\ call[d].save \in Nat
      BY ConfigTypes
    <2> QED BY <1>0, <1>1, <1>5, <2>1, <2>2 DEF ConfigInv, RestartsAwaited
  <1>8. RestartedRunsLatest'
    BY <1>2, <1>5 DEF RestartedRunsLatest, Last
  <1>9. unit' \in UnitRecord(unit')
    BY <1>1 DEF ConfigInv
  <1> QED BY <1>5, <1>6, <1>7, <1>8, <1>9 DEF ConfigInv

\* The unit is on its way up, and has read nothing yet.
LEMMA RestartKeeps ==
    ASSUME ConfigInv, NEW c \in Editors, Restart(c)
    PROVE  ConfigInv'
  <1>1. /\ Continues(c, "restarting") /\ saves' = saves /\ call[c].pc = "restart"
        /\ unit' = [state |-> "queued", loaded |-> NoFile] /\ file' = file
    BY DEF Restart, disks, observed
  <1>2. PICK r : /\ r \in CallRecord(r) /\ call' = [call EXCEPT ![c] = r]
                 /\ r.pc = "restarting" /\ r.save = call[c].save
    BY <1>1, Continued DEF EditorPcs
  <1>3. /\ Len(saves') = Len(saves) /\ Len(saves) \in Nat /\ SavesTyped'
        /\ Len(saves) <= Len(saves')
        /\ r.save <= Len(saves') /\ (r.save > 0 <=> r.pc \in {"check", "restart", "restarting"})
    BY <1>1, <1>2, ConfigTypes DEF SavesTyped
  <1>4. CallsTyped'
    BY <1>2, <1>3, CallChanged
  <1>5. unit'.state = "queued" /\ unit' \in UnitRecord(unit')
    BY <1>1 DEF UnitRecord
  <1> QED BY <1>3, <1>4, <1>5 DEF ConfigInv, RestartsAwaited, RestartedRunsLatest

LEMMA EditorKeeps ==
    ASSUME ConfigInv, NEW c \in Editors, EditorStep(c)
    PROVE  ConfigInv'
  <1>1. CASE Fails(c)
    <2>1. call' = [call EXCEPT ![c] = IdleEditor] /\ saves' = saves /\ unit' = unit /\ file' = file
      BY <1>1 DEF Fails, disks, observed
    <2> QED BY <2>1, Idle, OwnRecordKeeps
  <1>2. CASE WriteTemp(c)
    <2>1. /\ call[c].pc = "write" /\ Continues(c, "sync")
          /\ saves' = saves /\ unit' = unit /\ file' = file
      BY <1>2 DEF WriteTemp, disks, observed
    <2> QED BY <2>1, GoesOnKeeps DEF EditorPcs
  <1>3. CASE SyncTemp(c)
    <2>1. /\ call[c].pc = "sync" /\ Continues(c, "rename")
          /\ saves' = saves /\ unit' = unit /\ file' = file
      BY <1>3 DEF SyncTemp, disks, observed
    <2> QED BY <2>1, GoesOnKeeps DEF EditorPcs
  <1>4. CASE CheckUnit(c)
    <2>1. call[c].pc = "check" /\ call[c].save > 0 /\ unit' = unit /\ file' = file
      BY <1>4, ConfigTypes DEF CheckUnit, disks
    <2>2. CASE Continues(c, "restart") /\ saves' = saves
      BY <2>1, <2>2, GoesOnKeeps DEF EditorPcs
    <2>3. CASE Answers(c, "notRunning")
      BY <2>1, <2>3, AnswersKeeps DEF Told
    <2> QED BY <1>4, <2>2, <2>3 DEF CheckUnit
  <1>5. CASE RestartNotSpawned(c)
    <2>1. /\ call[c].pc = "restart" /\ call[c].save > 0 /\ unit' = unit /\ file' = file
          /\ Answers(c, "restartError")
      BY <1>5, ConfigTypes DEF RestartNotSpawned, disks
    <2> QED BY <2>1, AnswersKeeps DEF Told
  <1>6. CASE CheckNotSpawned(c)
    <2>1. /\ call[c].pc = "check" /\ call[c].save > 0 /\ unit' = unit /\ file' = file
          /\ Answers(c, "restartError")
      BY <1>6, ConfigTypes DEF CheckNotSpawned, disks
    <2> QED BY <2>1, AnswersKeeps DEF Told
  <1> QED BY <1>1, <1>2, <1>3, <1>4, <1>5, <1>6, RenameKeeps, RestartKeeps DEF EditorStep

LEMMA UnitLoadsKeeps ==
    ASSUME ConfigInv, UnitLoads
    PROVE  ConfigInv'
  <1>1. /\ unit' = [state |-> "starting", loaded |-> file]
        /\ file' = file /\ call' = call /\ saves' = saves
    BY DEF UnitLoads, disks, observed
  <1>2. unit' \in UnitRecord(unit') /\ unit'.state = "starting" /\ unit'.loaded = file'
    BY <1>1 DEF UnitRecord
  <1>3. SavesTyped' /\ CallsTyped'
    BY <1>1 DEF ConfigInv, SavesTyped, CallsTyped
  <1> QED BY <1>2, <1>3 DEF ConfigInv, RestartsAwaited, RestartedRunsLatest

\* Nobody waits any longer: each save of a waiter is told how the restart ended.
LEMMA WaitersTold ==
    ASSUME ConfigInv, NEW what \in Told, TellsWaiters(what)
    PROVE  /\ SavesTyped' /\ CallsTyped' /\ RestartsAwaited' /\ Len(saves') = Len(saves)
           /\ file' = file /\ SameEdits(saves, saves', Len(saves))
           /\ \A s \in 1..Len(saves) :
                 \/ saves'[s].told = saves[s].told
                 \/ /\ saves'[s].told = what
                    /\ \E c \in Editors : call[c].pc = "restarting" /\ call[c].save = s
  <1> DEFINE K == {s \in 1..Len(saves) : \E c \in Waiters : call[c].save = s}
  <1>1. /\ call' = [c \in Editors |-> IF c \in Waiters THEN IdleEditor ELSE call[c]]
        /\ file' = file
    BY DEF TellsWaiters, disks
  <1>2. saves' = [s \in 1..Len(saves) |->
                     IF s \in K THEN [saves[s] EXCEPT !.told = what] ELSE saves[s]]
    <2>1. DOMAIN saves = 1..Len(saves)
      BY DEF ConfigInv, SavesTyped
    <2> QED BY <2>1 DEF TellsWaiters
  <1>3. \A s \in K : \E c \in Editors : call[c].pc = "restarting" /\ call[c].save = s
    BY DEF Waiters
  <1> HIDE DEF K
  <1>4. /\ SavesTyped' /\ Len(saves') = Len(saves) /\ SameEdits(saves, saves', Len(saves))
        /\ \A s \in 1..Len(saves) : saves'[s].told = IF s \in K THEN what ELSE saves[s].told
    BY <1>2, SavesTold DEF ConfigInv
  <1>5. ASSUME NEW c \in Editors
        PROVE  /\ call'[c] = IF call[c].pc = "restarting" THEN IdleEditor ELSE call[c]
               /\ call'[c].pc # "restarting"
    BY <1>1, Idle DEF Waiters
  <1>6. CallsTyped'
    <2>1. call' = [c \in Editors |-> call'[c]]
      BY <1>1
    <2>2. ASSUME NEW c \in Editors
          PROVE  /\ call'[c] \in CallRecord(call'[c]) /\ call'[c].save <= Len(saves')
                 /\ call'[c].save > 0 <=> call'[c].pc \in {"check", "restart", "restarting"}
      <3>1. CASE call[c].pc = "restarting"
        <4>1. call'[c] = IdleEditor /\ 0 <= Len(saves')
          BY <1>4, <1>5, <3>1, ConfigTypes
        <4> QED BY <4>1, Idle
      <3>2. CASE call[c].pc # "restarting"
        <4>1. call'[c] = call[c]
          BY <1>5, <3>2
        <4> QED BY <1>4, <4>1, ConfigTypes
      <3> QED BY <3>1, <3>2
    <2> QED BY <2>1, <2>2 DEF CallsTyped
  <1>7. RestartsAwaited'
    BY <1>5 DEF RestartsAwaited
  <1> QED BY <1>1, <1>3, <1>4, <1>6, <1>7

LEMMA UnitUpKeeps ==
    ASSUME ConfigInv, UnitUp
    PROVE  ConfigInv'
  <1> DEFINE u == unit
             v == [u EXCEPT !.state = "active"]
  <1>1. unit.state = "starting" /\ unit' = v /\ TellsWaiters("restarted")
    BY DEF UnitUp
  <1>2. u \in [state : {"inactive", "queued", "starting", "active"}, loaded : {u.loaded}]
    BY DEF ConfigInv, UnitRecord
  <1> HIDE DEF u
  <1>3. /\ v \in [state : {"inactive", "queued", "starting", "active"}, loaded : {v.loaded}]
        /\ v.loaded = u.loaded
    BY <1>2
  <1> HIDE DEF v
  <1>4. unit' \in UnitRecord(unit') /\ unit'.loaded = unit.loaded
    BY <1>1, <1>3 DEF u, UnitRecord
  <1>5. /\ SavesTyped' /\ CallsTyped' /\ RestartsAwaited' /\ Len(saves') = Len(saves)
        /\ file' = file
        /\ \A s \in 1..Len(saves) :
              \/ saves'[s].told = saves[s].told
              \/ \E c \in Editors : call[c].pc = "restarting" /\ call[c].save = s
    BY <1>1, WaitersTold DEF Told
  <1>6. RestartedRunsLatest'
    <2> SUFFICES ASSUME Len(saves) > 0, saves'[Len(saves)].told = "restarted"
                 PROVE  unit.loaded = file
      BY <1>4, <1>5 DEF RestartedRunsLatest, Last
    <2>1. Len(saves) \in 1..Len(saves)
      BY DEF ConfigInv, SavesTyped
    <2>2. CASE saves[Len(saves)].told = "restarted"
      BY <1>1, <2>2 DEF ConfigInv, RestartedRunsLatest, Last
    <2>3. ASSUME NEW c \in Editors, call[c].pc = "restarting", call[c].save = Len(saves)
          PROVE  unit.loaded = file
      BY <1>1, <2>3 DEF ConfigInv, RestartsAwaited
    <2> QED BY <1>5, <2>1, <2>2, <2>3
  <1> QED BY <1>4, <1>5, <1>6 DEF ConfigInv

LEMMA UnitDownKeeps ==
    ASSUME ConfigInv, UnitDown
    PROVE  ConfigInv'
  <1>1. unit' = NoUnit /\ TellsWaiters("restartError")
    BY DEF UnitDown
  <1>2. unit' \in UnitRecord(unit') /\ unit'.state = "inactive"
    BY <1>1 DEF NoUnit, UnitRecord
  <1>3. SavesTyped' /\ CallsTyped' /\ RestartsAwaited'
    BY <1>1, WaitersTold DEF Told
  <1> QED BY <1>2, <1>3 DEF ConfigInv, RestartedRunsLatest

LEMMA UnitStartKeeps ==
    ASSUME ConfigInv, UnitStart
    PROVE  ConfigInv'
  <1>1. /\ unit.state = "inactive" /\ unit' = [state |-> "queued", loaded |-> NoFile]
        /\ file' = file /\ call' = call /\ saves' = saves
    BY DEF UnitStart, disks, observed
  <1>2. unit' \in UnitRecord(unit') /\ unit'.state = "queued"
    BY <1>1 DEF UnitRecord
  <1>3. SavesTyped' /\ CallsTyped'
    BY <1>1 DEF ConfigInv, SavesTyped, CallsTyped
  <1> QED BY <1>2, <1>3 DEF ConfigInv, RestartsAwaited, RestartedRunsLatest

\* The server's requests end; with the power the unit and the saves do too.
LEMMA CrashesKeep ==
    ASSUME ConfigInv, ServerDies \/ PowerFails
    PROVE  ConfigInv'
  <1>1. call' = [c \in Editors |-> IdleEditor]
    BY DEF ServerDies, PowerFails
  <1>2. RestartsAwaited'
    BY <1>1, Idle DEF RestartsAwaited
  <1>3. CASE ServerDies
    <2>1. saves' = saves /\ unit' = unit /\ file' = file
      BY <1>3 DEF ServerDies, disks, observed
    <2>2. SavesTyped' /\ 0 <= Len(saves')
      BY <2>1 DEF ConfigInv, SavesTyped
    <2>3. CallsTyped'
      BY <1>1, <2>2, Idle DEF CallsTyped
    <2> QED BY <1>2, <2>1, <2>2, <2>3 DEF ConfigInv, RestartedRunsLatest
  <1>4. CASE PowerFails
    <2>1. saves' = <<>> /\ Len(saves') = 0 /\ unit' = NoUnit
      BY <1>4 DEF PowerFails
    <2>2. SavesTyped'
      BY <2>1 DEF SavesTyped
    <2>3. CallsTyped'
      BY <1>1, <2>1, Idle DEF CallsTyped
    <2>4. unit' \in UnitRecord(unit')
      BY <2>1 DEF NoUnit, UnitRecord
    <2>5. RestartedRunsLatest'
      BY <2>1 DEF RestartedRunsLatest
    <2> QED BY <1>2, <2>2, <2>3, <2>4, <2>5 DEF ConfigInv
  <1> QED BY <1>3, <1>4

LEMMA ConfigStep ==
    ASSUME ConfigInv, world \in DOMAIN Worlds, [ConfigNext]_configVars
    PROVE  ConfigInv' /\ world' \in DOMAIN Worlds
  <1>1. world' = world
    BY DEF ConfigNext, EditorStep, Fails, WriteTemp, SyncTemp, Rename, CheckUnit,
           CheckNotSpawned, Restart, RestartNotSpawned, Submit, UnitStep, UnitLoads,
           UnitUp, UnitDown, Isolated, UnitStart, TellsWaiters, ServerDies, Flush, PowerFails, configVars
  <1>2. ASSUME NEW c \in Here.editors PROVE c \in Editors
    BY WorldsAssumption DEF Here
  <1>3. CASE UNCHANGED configVars
    BY <1>3 DEF configVars, disks, observed, ConfigInv, SavesTyped, CallsTyped, RestartsAwaited,
                RestartedRunsLatest
  <1>4. CASE Flush
    <2>1. file' = file /\ call' = call /\ unit' = unit /\ saves' = saves
      BY <1>4 DEF Flush, observed
    <2> QED BY <1>1, <2>1 DEF ConfigInv, SavesTyped, CallsTyped, RestartsAwaited,
                              RestartedRunsLatest
  <1> QED BY <1>1, <1>2, <1>3, <1>4, EditorKeeps, SubmitKeeps, UnitLoadsKeeps, UnitUpKeeps,
             UnitDownKeeps, UnitStartKeeps, CrashesKeep DEF ConfigNext, UnitStep, Isolated

\* Whatever is posted, and whoever restarts, stops or starts the service: if the
\* last save was answered "restarted", the service runs with what it saved.
THEOREM RestartedServiceRunsLatest == ConfigSpec => []RestartedRunsLatest
  <1> DEFINE Inv == ConfigInv /\ world \in DOMAIN Worlds
  <1>1. ConfigInit => Inv
    BY ConfigStarts DEF ConfigInit
  <1>2. Inv /\ [ConfigNext]_configVars => Inv'
    BY ConfigStep
  <1>3. Inv => RestartedRunsLatest
    BY DEF ConfigInv
  <1> HIDE DEF Inv
  <1> QED BY <1>1, <1>2, <1>3, PTL DEF ConfigSpec

-----------------------------------------------------------------------------
(* ServiceConfig: the file that saves lead to.                             *)

\* A request that has read the file and not replaced it.
Pending(c) == call[c].pc \in {"write", "sync", "rename"}

\* The name was saved last by the s-th replacement (or by none), as far as the r-th.
KeptFrom(sv, s, r, n) ==
    /\ s > 0 => n \in Names(sv[s].entries)
    /\ \A t \in s + 1..r : n \notin Names(sv[t].entries) /\ sv[t].read >= s

AfterSave(sv, bs, s) == IF s = 0 THEN Settings(bs) ELSE Overridden(<<>>, sv[s].entries)

HoldsFor(sv, bs, f, r, n) ==
    \A s \in 0..r : KeptFrom(sv, s, r, n) => At(Settings(f), n) = At(AfterSave(sv, bs, s), n)

Whole(f) == IsFile(f) /\ f.eol # Torn.eol

\* What a request is about to write: its own settings, and for other names those
\* of the file that it has read.
MadeFrom(k, sv, bs) ==
    /\ Proper(k.entries) /\ k.read \in 0..Len(sv)
    /\ Whole(k.content) /\ KeepsRemarks(bs, k.content)
    /\ \A n : IF n \in Names(k.entries)
              THEN At(Settings(k.content), n) = At(Overridden(<<>>, k.entries), n)
              ELSE HoldsFor(sv, bs, k.content, k.read, n)

FileInv ==
    /\ soft = FALSE
    /\ Here.path = "" => file = NoFile /\ durable = NoFile
    /\ Here.path # "" => /\ Whole(file) /\ Whole(durable) /\ Whole(base)
                         /\ KeepsRemarks(base, file)
                         /\ \A n : HoldsFor(saves, base, file, Len(saves), n)
    /\ \A c \in Editors : Pending(c) => Here.path # "" /\ MadeFrom(call[c], saves, base)

\* A step that replaces nothing and after which nobody else has read the file.
NothingWritten ==
    /\ Len(saves') = Len(saves) /\ SameEdits(saves, saves', Len(saves))
    /\ file' = file /\ base' = base /\ world' = world
    /\ durable' \in {durable, file} /\ soft' \in {soft, FALSE}
    /\ \A c \in Editors : Pending(c)' =>
          /\ Pending(c) /\ call'[c].entries = call[c].entries
          /\ call'[c].content = call[c].content /\ call'[c].read = call[c].read

LEMMA HoldsStill ==
    ASSUME NEW sv, NEW sw, NEW r \in Nat, SameEdits(sv, sw, r), NEW bs, NEW f, NEW n,
           HoldsFor(sv, bs, f, r, n)
    PROVE  HoldsFor(sw, bs, f, r, n)
  <1> SUFFICES ASSUME NEW s \in 0..r, KeptFrom(sw, s, r, n)
               PROVE  At(Settings(f), n) = At(AfterSave(sw, bs, s), n)
    BY DEF HoldsFor
  <1>1. s > 0 => s \in 1..r
    OBVIOUS
  <1>2. \A t \in s + 1..r : t \in 1..r
    OBVIOUS
  <1>3. KeptFrom(sv, s, r, n)
    BY <1>1, <1>2 DEF KeptFrom, SameEdits
  <1>4. AfterSave(sw, bs, s) = AfterSave(sv, bs, s)
    BY <1>1 DEF AfterSave, SameEdits
  <1> QED BY <1>3, <1>4 DEF HoldsFor

LEMMA MadeStill ==
    ASSUME NEW sv, NEW sw, Len(sv) \in Nat, Len(sw) \in Nat, Len(sv) <= Len(sw),
           SameEdits(sv, sw, Len(sv)), NEW k, NEW l, NEW bs, MadeFrom(k, sv, bs),
           l.entries = k.entries, l.content = k.content, l.read = k.read
    PROVE  MadeFrom(l, sw, bs)
  <1>1. k.read \in Nat /\ k.read <= Len(sv) /\ k.read \in 0..Len(sw)
    BY DEF MadeFrom
  <1>2. SameEdits(sv, sw, k.read)
    BY <1>1 DEF SameEdits
  <1> DEFINE r == k.read
             f == k.content
  <1>3. ASSUME NEW n, HoldsFor(sv, bs, f, r, n)
        PROVE  HoldsFor(sw, bs, f, r, n)
    <2>1. r \in Nat /\ SameEdits(sv, sw, r)
      BY <1>1, <1>2
    <2> HIDE DEF r, f
    <2> QED BY <1>3, <2>1, HoldsStill
  <1> QED BY <1>1, <1>3 DEF MadeFrom

LEMMA NothingWrittenKeeps ==
    ASSUME FileInv, Len(saves) \in Nat, NothingWritten
    PROVE  FileInv'
  <1>1. Here' = Here
    BY DEF NothingWritten, Here
  <1>2. soft' = FALSE
    BY DEF NothingWritten, FileInv
  <1>3. Here'.path = "" => file' = NoFile /\ durable' = NoFile
    <2>1. file' = file /\ durable' \in {durable, file}
      BY DEF NothingWritten
    <2> QED BY <1>1, <2>1 DEF FileInv
  <1>4. ASSUME Here'.path # ""
        PROVE  /\ Whole(file') /\ Whole(durable') /\ Whole(base')
               /\ KeepsRemarks(base', file')
    BY <1>1, <1>4 DEF NothingWritten, FileInv
  <1>5. ASSUME Here'.path # "", NEW n
        PROVE  HoldsFor(saves', base', file', Len(saves'), n)
    <2>1. HoldsFor(saves, base, file, Len(saves), n)
      BY <1>1, <1>5 DEF FileInv
    <2>2. HoldsFor(saves', base, file, Len(saves), n)
      BY <2>1, HoldsStill DEF NothingWritten
    <2> QED BY <2>2 DEF NothingWritten
  <1>6. ASSUME NEW c \in Editors, Pending(c)'
        PROVE  Here'.path # "" /\ MadeFrom(call'[c], saves', base')
    <2>1. /\ Pending(c) /\ call'[c].entries = call[c].entries
          /\ call'[c].content = call[c].content /\ call'[c].read = call[c].read
      BY <1>6 DEF NothingWritten
    <2>2. Here.path # "" /\ MadeFrom(call[c], saves, base)
      BY <2>1 DEF FileInv
    <2>3. Len(saves') \in Nat /\ Len(saves) <= Len(saves') /\ SameEdits(saves, saves', Len(saves))
      BY DEF NothingWritten
    <2>4. MadeFrom(call'[c], saves', base)
      BY <2>1, <2>2, <2>3, MadeStill
    <2> QED BY <1>1, <2>2, <2>4 DEF NothingWritten
  <1> QED BY <1>2, <1>3, <1>4, <1>5, <1>6 DEF FileInv

\* A request goes on, or is over, without a replacement.
LEMMA RequestWritesNothing ==
    ASSUME ConfigInv, NEW c \in Editors, NEW r, r.pc \notin {"write", "sync", "rename"},
           call' = [call EXCEPT ![c] = r],
           Len(saves') = Len(saves), SameEdits(saves, saves', Len(saves)),
           UNCHANGED <<world, file, durable, soft, base>>
    PROVE  NothingWritten
  <1>1. call = [d \in Editors |-> call[d]]
    BY DEF ConfigInv, CallsTyped
  <1>2. call'[c] = r /\ \A d \in Editors : d # c => call'[d] = call[d]
    BY <1>1
  <1> QED BY <1>2 DEF NothingWritten, Pending

\* A request that has made its file goes on to replace it.
LEMMA RequestPrepares ==
    ASSUME ConfigInv, NEW c \in Editors, Pending(c), NEW pc2 \in EditorPcs, Continues(c, pc2),
           UNCHANGED <<world, file, durable, soft, saves, base>>
    PROVE  NothingWritten
  <1> DEFINE a == call[c]
             r == [a EXCEPT !.pc = pc2]
  <1>1. a \in [pc : EditorPcs, entries : {a.entries}, content : {a.content},
                read : {a.read}, save : Nat]
    BY ConfigTypes DEF CallRecord
  <1>2. call' = [call EXCEPT ![c] = r]
    BY DEF Continues
  <1> HIDE DEF a
  <1>3. r.entries = a.entries /\ r.content = a.content /\ r.read = a.read
    BY <1>1
  <1> HIDE DEF r
  <1>4. call = [d \in Editors |-> call[d]]
    BY DEF ConfigInv, CallsTyped
  <1>5. call'[c] = r /\ \A d \in Editors : d # c => call'[d] = call[d]
    BY <1>2, <1>4
  <1>6. SameEdits(saves, saves', Len(saves)) /\ Len(saves') = Len(saves)
    BY DEF SameEdits
  <1> QED BY <1>3, <1>5, <1>6 DEF NothingWritten, Pending, a

LEMMA EditorWrites ==
    ASSUME ConfigInv, NEW c \in Editors, EditorStep(c), ~Rename(c)
    PROVE  NothingWritten
  <1>0. saves' = saves => SameEdits(saves, saves', Len(saves)) /\ Len(saves') = Len(saves)
    BY DEF SameEdits
  <1>1. IdleEditor.pc = "idle"
    BY Idle
  <1>2. CASE Fails(c)
    <2>1. /\ call' = [call EXCEPT ![c] = IdleEditor] /\ saves' = saves
          /\ UNCHANGED <<world, file, durable, soft, base>>
      BY <1>2 DEF Fails, disks, observed
    <2> QED BY <1>0, <1>1, <2>1, RequestWritesNothing
  <1>3. CASE WriteTemp(c)
    <2>1. /\ Pending(c) /\ Continues(c, "sync")
          /\ UNCHANGED <<world, file, durable, soft, saves, base>>
      BY <1>3 DEF WriteTemp, Pending, disks, observed
    <2> QED BY <2>1, RequestPrepares DEF EditorPcs
  <1>4. CASE SyncTemp(c)
    <2>1. /\ Pending(c) /\ Continues(c, "rename")
          /\ UNCHANGED <<world, file, durable, soft, saves, base>>
      BY <1>4 DEF SyncTemp, Pending, disks, observed
    <2> QED BY <2>1, RequestPrepares DEF EditorPcs
  <1>5. ASSUME NEW what \in Told, Answers(c, what), call[c].save > 0,
               UNCHANGED <<world, file, durable, soft, base>>
        PROVE  NothingWritten
    <2>1. /\ call' = [call EXCEPT ![c] = IdleEditor]
          /\ saves' = [saves EXCEPT ![call[c].save].told = what]
          /\ call[c].save \in 1..Len(saves)
      BY <1>5, ConfigTypes DEF Answers, Tells
    <2>2. Len(saves') = Len(saves) /\ SameEdits(saves, saves', Len(saves))
      BY <2>1, ConfigTypes, OneTold
    <2> QED BY <1>1, <1>5, <2>1, <2>2, RequestWritesNothing
  <1>6. ASSUME NEW pc2 \in EditorPcs \ {"write", "sync", "rename"}, Continues(c, pc2),
               UNCHANGED <<world, file, durable, soft, saves, base>>
        PROVE  NothingWritten
    <2>1. PICK r : call' = [call EXCEPT ![c] = r] /\ r.pc = pc2
      BY <1>6, Continued
    <2> QED BY <1>0, <1>6, <2>1, RequestWritesNothing
  <1>7. CASE CheckUnit(c)
    <2>1. /\ call[c].save > 0 /\ UNCHANGED <<world, file, durable, soft, base>>
      BY <1>7, ConfigTypes DEF CheckUnit, disks
    <2>2. (Continues(c, "restart") /\ saves' = saves) \/ Answers(c, "notRunning")
      BY <1>7 DEF CheckUnit
    <2> QED BY <1>5, <1>6, <2>1, <2>2 DEF EditorPcs, Told
  <1>8. CASE Restart(c)
    <2>1. Continues(c, "restarting") /\ UNCHANGED <<world, file, durable, soft, saves, base>>
      BY <1>8 DEF Restart, disks, observed
    <2> QED BY <1>6, <2>1 DEF EditorPcs
  <1>9. CASE RestartNotSpawned(c)
    <2>1. /\ call[c].save > 0 /\ Answers(c, "restartError")
          /\ UNCHANGED <<world, file, durable, soft, base>>
      BY <1>9, ConfigTypes DEF RestartNotSpawned, disks
    <2> QED BY <1>5, <2>1 DEF Told
  <1>10. CASE CheckNotSpawned(c)
    <2>1. /\ call[c].save > 0 /\ Answers(c, "restartError")
          /\ UNCHANGED <<world, file, durable, soft, base>>
      BY <1>10, ConfigTypes DEF CheckNotSpawned, disks
    <2> QED BY <1>5, <2>1 DEF Told
  <1> QED BY <1>2, <1>3, <1>4, <1>7, <1>8, <1>9, <1>10 DEF EditorStep

LEMMA OthersWrite ==
    ASSUME ConfigInv, UnitStep \/ ServerDies \/ Flush \/ UNCHANGED configVars
    PROVE  NothingWritten
  <1>0. saves' = saves => SameEdits(saves, saves', Len(saves)) /\ Len(saves') = Len(saves)
    BY DEF SameEdits
  <1>1. CASE UnitLoads \/ UnitStart \/ Flush \/ UNCHANGED configVars
    <2>1. /\ call' = call /\ saves' = saves /\ UNCHANGED <<world, file, base>>
          /\ durable' \in {durable, file} /\ soft' \in {soft, FALSE}
      BY <1>1 DEF UnitLoads, UnitStart, Flush, disks, observed, configVars
    <2> QED BY <1>0, <2>1 DEF NothingWritten, Pending
  <1>2. CASE ServerDies
    <2>1. /\ call' = [c \in Editors |-> IdleEditor] /\ saves' = saves
          /\ UNCHANGED <<world, file, durable, soft, base>>
      BY <1>2 DEF ServerDies, disks, observed
    <2>2. \A c \in Editors : ~Pending(c)'
      BY <2>1, Idle DEF Pending
    <2> QED BY <1>0, <2>1, <2>2 DEF NothingWritten
  <1>3. ASSUME NEW what \in Told, TellsWaiters(what)
        PROVE  NothingWritten
    <2>1. /\ call' = [c \in Editors |-> IF c \in Waiters THEN IdleEditor ELSE call[c]]
          /\ UNCHANGED <<world, file, durable, soft, base>>
      BY <1>3 DEF TellsWaiters, disks
    <2>2. Len(saves') = Len(saves) /\ SameEdits(saves, saves', Len(saves))
      BY <1>3, WaitersTold
    <2>3. \A c \in Editors : Pending(c)' => Pending(c) /\ call'[c] = call[c]
      BY <2>1, Idle DEF Pending
    <2> QED BY <2>1, <2>2, <2>3 DEF NothingWritten
  <1>4. CASE UnitUp
    BY <1>3, <1>4 DEF UnitUp, Told
  <1>5. CASE UnitDown
    BY <1>3, <1>5 DEF UnitDown, Told
  <1> QED BY <1>1, <1>2, <1>4, <1>5 DEF UnitStep, Isolated

LEMMA FileStarts == ConfigInit => FileInv
  <1> SUFFICES ASSUME ConfigInit PROVE FileInv
    OBVIOUS
  <1>1. /\ world \in DOMAIN Worlds /\ file \in Here.files /\ durable = file /\ soft = FALSE
        /\ base = file /\ saves = <<>> /\ Len(saves) = 0
        /\ call = [c \in Editors |-> IdleEditor]
    BY DEF ConfigInit
  <1>2. IF Here.path = "" THEN Here.files = {NoFile}
        ELSE \A f \in Here.files : IsFile(f) /\ f.eol # Torn.eol
    BY <1>1, WorldsAssumption DEF Here
  <1>3. \A c \in Editors : ~Pending(c)
    BY <1>1, Idle DEF Pending
  <1>4. \A n : HoldsFor(saves, base, file, Len(saves), n)
    BY <1>1 DEF HoldsFor, AfterSave
  <1>5. KeepsRemarks(base, file)
    BY <1>1, RemarksOfItself
  <1> HIDE DEF Here
  <1> QED BY <1>1, <1>2, <1>3, <1>4, <1>5 DEF FileInv, Whole

\* The power comes back to one whole file or another.
LEMMA PowerKeepsFile ==
    ASSUME FileInv, PowerFails
    PROVE  FileInv'
  <1>1. /\ file' \in {durable, file} /\ durable' = file' /\ soft' = FALSE /\ base' = file'
        /\ saves' = <<>> /\ Len(saves') = 0 /\ Here' = Here
        /\ call' = [c \in Editors |-> IdleEditor]
    BY DEF PowerFails, FileInv, Here
  <1>2. \A c \in Editors : ~Pending(c)'
    BY <1>1, Idle DEF Pending
  <1>3. \A n : HoldsFor(saves', base', file', Len(saves'), n)
    BY <1>1 DEF HoldsFor, AfterSave
  <1>4. KeepsRemarks(base', file')
    BY <1>1, RemarksOfItself
  <1>5. Here.path = "" => file' = NoFile
    BY <1>1 DEF FileInv
  <1>6. Here.path # "" => Whole(file')
    BY <1>1 DEF FileInv
  <1> QED BY <1>1, <1>2, <1>3, <1>4, <1>5, <1>6 DEF FileInv

LEMMA SubmittedAreUpdates ==
    ASSUME NEW p, AreUpdates(p.updates)
    PROVE  Submitted(p) \in Seq(ToSet(p.updates))
  <1> DEFINE X == ToSet(p.updates)
             one(j) == IF p.updates[j].key.name = Reserved THEN <<>> ELSE <<p.updates[j]>>
             parts == [j \in DOMAIN p.updates |-> one(j)]
             N == Len(p.updates)
  <1>1. p.updates \in Seq(X) /\ N \in Nat /\ DOMAIN p.updates = 1..N
    BY DEF AreUpdates
  <1>2. \A j \in 1..N : one(j) \in Seq(X)
    <2> SUFFICES ASSUME NEW j \in 1..N PROVE one(j) \in Seq(X)
      OBVIOUS
    <2>1. p.updates[j] \in X
      BY <1>1
    <2> HIDE DEF X
    <2> QED BY <2>1
  <1> HIDE DEF X, one
  <1>3. parts \in Seq(Seq(X)) /\ Len(parts) = N
    BY <1>1, <1>2, IsASeq
  <1>4. Submitted(p) = FlattenSeq(parts)
    BY DEF Submitted, one
  <1> HIDE DEF parts, N
  <1>5. PICK g \in [0..N -> Seq(X)] : FlattenSeq(parts) = g[N]
    BY <1>3, FlattenSteps
  <1>6. N \in 0..N
    BY <1>1
  <1> QED BY <1>4, <1>5, <1>6 DEF X

\* What is accepted can be written, and read again.
LEMMA AcceptedIsProper ==
    ASSUME NEW p, AreUpdates(p.updates), Accepted(p)
    PROVE  Proper(Entries(Submitted(p)))
  <1> DEFINE W == WordsOf(p.updates)
             X == ToSet(p.updates)
             us == Submitted(p)
  <1>1. us \in Seq(X)
    BY SubmittedAreUpdates
  <1>2. /\ \A u \in X : u.value.parts \in Seq(Seq(W))
        /\ \A w \in W : IsWord(w)
    BY DEF AreUpdates
  <1>3. Rejected(us) = {}
    BY DEF Accepted
  <1> HIDE DEF W, X, us
  <1>4. ASSUME NEW i \in 1..Len(us) PROVE IsText(Coerced(us[i].value))
    <2> DEFINE v == us[i].value
    <2>1. v.parts \in Seq(Seq(W))
      BY <1>1, <1>2
    <2> HIDE DEF v
    <2>2. Coerced(v) \in Seq(W)
      BY <2>1, CoercedIsText
    <2>3. IsText(Coerced(v))
      BY <1>2, <2>2, WordsAreText
    <2> QED BY <2>3 DEF v
  <1>5. Proper(Entries(us))
    BY <1>1, <1>3, <1>4, EntriesAreProper
  <1> QED BY <1>5 DEF us

LEMMA UpToItself == \A m \in Nat : m \in 0..m
  OBVIOUS

\* What a request makes of a file.
LEMMA PlannedIsMade ==
    ASSUME FileInv, Here.path # "", Len(saves) \in Nat, NEW E, Proper(E),
           NEW k, k.entries = E, k.content = Planned(file, E), k.read = Len(saves)
    PROVE  MadeFrom(k, saves, base)
  <1> DEFINE S == ToSet(file.lines)
             f == file
  <1>1. /\ f.lines \in Seq(S) /\ IsFile(f) /\ f.eol # Torn.eol /\ KeepsRemarks(base, f)
        /\ \A n : HoldsFor(saves, base, f, Len(saves), n)
    BY DEF FileInv, Whole, IsFile
  <1> HIDE DEF S, f
  <1>2. Whole(Planned(f, E))
    BY <1>1, PlannedIsFile DEF Whole
  <1>3. KeepsRemarks(base, Planned(f, E))
    <2> DEFINE h == Planned(f, E)
               b == base
    <2>1. KeepsRemarks(f, h) /\ KeepsRemarks(b, f)
      BY <1>1, PlannedKeepsRemarks
    <2> HIDE DEF h, b
    <2>2. KeepsRemarks(b, h)
      BY <2>1, RemarksThroughBoth
    <2> QED BY <2>2 DEF h, b
  <1>4. ASSUME NEW n
        PROVE  IF n \in Names(E)
               THEN At(Settings(Planned(f, E)), n) = At(Overridden(<<>>, E), n)
               ELSE HoldsFor(saves, base, Planned(f, E), Len(saves), n)
    <2>1. At(Settings(Planned(f, E)), n)
               = At(IF n \in Names(E) THEN Overridden(<<>>, E) ELSE Settings(f), n)
      BY <1>1, PlannedSettings
    <2>2. HoldsFor(saves, base, f, Len(saves), n)
      BY <1>1
    <2> QED BY <2>1, <2>2 DEF HoldsFor
  <1>5. k.content = Planned(f, E) /\ k.read = Len(saves)
    BY DEF f
  <1>6. Len(saves) \in 0..Len(saves)
    BY UpToItself
  <1> QED BY <1>2, <1>3, <1>4, <1>5, <1>6 DEF MadeFrom

LEMMA SubmitKeepsFile ==
    ASSUME ConfigInv, FileInv, world \in DOMAIN Worlds,
           NEW c \in Editors, NEW p \in Here.posts, Submit(c, p)
    PROVE  FileInv'
  <1> DEFINE E == Entries(Submitted(p))
             r == [IdleEditor EXCEPT !.pc = "write", !.entries = E,
                                     !.content = Planned(file, E), !.read = Len(saves)]
  <1>1. /\ call' = [call EXCEPT ![c] = r] /\ Accepted(p) /\ Here.path # "" /\ Here' = Here
        /\ UNCHANGED <<world, file, durable, soft, saves, base>>
    BY DEF Submit, Resolves, disks, observed, Here
  <1>2. Proper(E)
    <2>1. AreUpdates(p.updates)
      BY WorldsAssumption DEF Here
    <2> QED BY <1>1, <2>1, AcceptedIsProper
  <1>3. r.entries = E /\ r.content = Planned(file, E) /\ r.read = Len(saves)
    BY DEF IdleEditor
  <1>4. Len(saves) \in Nat /\ call = [d \in Editors |-> call[d]]
    BY DEF ConfigInv, SavesTyped, CallsTyped
  <1> HIDE DEF E, r
  <1>5. MadeFrom(r, saves, base)
    BY <1>1, <1>2, <1>3, <1>4, PlannedIsMade
  <1>6. call'[c] = r /\ \A d \in Editors : d # c => call'[d] = call[d]
    BY <1>1, <1>4
  <1>7. \A d \in Editors : Pending(d)' => Here'.path # "" /\ MadeFrom(call'[d], saves', base')
    <2> SUFFICES ASSUME NEW d \in Editors, Pending(d)'
                 PROVE  MadeFrom(call'[d], saves, base)
      BY <1>1
    <2>1. CASE d = c
      BY <1>5, <1>6, <2>1
    <2>2. CASE d # c
      BY <1>6, <2>2 DEF FileInv, Pending
    <2> QED BY <2>1, <2>2
  <1>8. \A n : HoldsFor(saves', base', file', Len(saves'), n) <=> HoldsFor(saves, base, file, Len(saves), n)
    BY <1>1
  <1> QED BY <1>1, <1>7, <1>8 DEF FileInv

\* A replacement: the settings of its post are those of the file until the next,
\* and of the others it keeps those that were saved before it read the file.
LEMMA RenameKeepsFile ==
    ASSUME ConfigInv, FileInv, NEW c \in Editors, Rename(c)
    PROVE  FileInv'
  <1> DEFINE k == call[c]
             new == [entries |-> k.entries, read |-> k.read, told |-> "pending"]
             N == Len(saves)
             T == {saves[s] : s \in 1..N} \cup {new}
  <1>1. /\ file' = k.content /\ soft' = FALSE /\ saves' = Append(saves, new)
        /\ durable' = durable /\ base' = base /\ Here' = Here /\ Pending(c)
    BY DEF Rename, DataMayLag, Pending, Here
  <1>2. Here.path # "" /\ MadeFrom(k, saves, base)
    BY <1>1 DEF FileInv
  <1>3. saves \in Seq(T) /\ N \in Nat
    BY DEF ConfigInv, SavesTyped
  <1> HIDE DEF T
  <1>4. /\ Len(saves') = N + 1 /\ saves'[N + 1] = new
        /\ \A s \in 1..N : saves'[s] = saves[s]
    BY <1>1, <1>3 DEF T
  <1>5. new.entries = k.entries /\ new.read = k.read
    OBVIOUS
  <1>6. /\ Whole(k.content) /\ KeepsRemarks(base, k.content) /\ k.read \in 0..N
        /\ \A n : IF n \in Names(k.entries)
                  THEN At(Settings(k.content), n) = At(Overridden(<<>>, k.entries), n)
                  ELSE HoldsFor(saves, base, k.content, k.read, n)
    BY <1>2 DEF MadeFrom
  <1> HIDE DEF k, new, N
  <1>7. ASSUME NEW n, NEW s \in 0..N + 1, KeptFrom(saves', s, N + 1, n)
        PROVE  At(Settings(k.content), n) = At(AfterSave(saves', base, s), n)
    <2>1. CASE s = N + 1
      <3>1. n \in Names(k.entries) /\ AfterSave(saves', base, s) = Overridden(<<>>, k.entries)
        BY <1>3, <1>4, <1>5, <1>7, <2>1 DEF KeptFrom, AfterSave
      <3> QED BY <1>6, <3>1
    <2>2. CASE s # N + 1
      <3>1. s \in 0..N /\ N + 1 \in s + 1..N + 1
        BY <1>3, <2>2
      <3>2. n \notin Names(k.entries) /\ k.read >= s /\ s \in 0..k.read
        <4>1. n \notin Names(saves'[N + 1].entries) /\ saves'[N + 1].read >= s
          BY <1>7, <3>1 DEF KeptFrom
        <4>2. n \notin Names(k.entries) /\ k.read >= s
          BY <1>4, <1>5, <4>1
        <4> QED BY <1>3, <1>6, <3>1, <4>2
      <3>3. s > 0 => saves'[s] = saves[s]
        BY <1>3, <1>4, <3>1
      <3>4. \A t \in s + 1..k.read : t \in s + 1..N + 1 /\ saves'[t] = saves[t]
        <4>1. \A t \in s + 1..k.read : t \in s + 1..N + 1 /\ t \in 1..N
          BY <1>3, <1>6, <3>1
        <4> QED BY <1>4, <4>1
      <3>5. KeptFrom(saves, s, k.read, n)
        BY <1>7, <3>3, <3>4 DEF KeptFrom
      <3>6. AfterSave(saves', base, s) = AfterSave(saves, base, s)
        BY <1>3, <3>1, <3>3 DEF AfterSave
      <3> QED BY <1>6, <3>2, <3>5, <3>6 DEF HoldsFor
    <2> QED BY <2>1, <2>2
  <1>8. ASSUME NEW n PROVE HoldsFor(saves', base', file', Len(saves'), n)
    BY <1>1, <1>4, <1>7 DEF HoldsFor
  <1>9. ASSUME NEW d \in Editors, Pending(d)'
        PROVE  MadeFrom(call'[d], saves', base')
    <2>1. call = [e \in Editors |-> call[e]]
      BY DEF ConfigInv, CallsTyped
    <2>2. d # c
      <3>1. ~Pending(c)'
        <4> DEFINE a == call[c]
                   r == [a EXCEPT !.pc = "check", !.save = Len(saves) + 1]
        <4>1. a \in [pc : EditorPcs, entries : {a.entries}, content : {a.content},
                      read : {a.read}, save : Nat]
          BY ConfigTypes DEF CallRecord
        <4>2. call'[c] = r
          BY <2>1 DEF Rename
        <4> HIDE DEF a
        <4>3. r.pc = "check"
          BY <4>1
        <4> QED BY <4>2, <4>3 DEF Pending
      <3> QED BY <1>9, <3>1
    <2>3. call'[d] = call[d]
      BY <2>1, <2>2 DEF Rename
    <2>4. MadeFrom(call[d], saves, base)
      BY <1>9, <2>3 DEF FileInv, Pending
    <2>5. /\ Len(saves) \in Nat /\ Len(saves') \in Nat /\ Len(saves) <= Len(saves')
          /\ SameEdits(saves, saves', Len(saves))
      BY <1>3, <1>4 DEF SameEdits, N
    <2>6. MadeFrom(call'[d], saves', base)
      BY <2>3, <2>4, <2>5, MadeStill
    <2> QED BY <1>1, <2>6
  <1> QED BY <1>1, <1>2, <1>6, <1>8, <1>9 DEF FileInv

LEMMA FileStep ==
    ASSUME ConfigInv, FileInv, world \in DOMAIN Worlds, [ConfigNext]_configVars
    PROVE  FileInv'
  <1>1. ASSUME NEW c \in Here.editors PROVE c \in Editors
    BY WorldsAssumption DEF Here
  <1>2. Len(saves) \in Nat
    BY DEF ConfigInv, SavesTyped
  <1>3. ASSUME NEW c \in Here.editors, EditorStep(c) PROVE FileInv'
    <2>1. CASE Rename(c)
      BY <1>1, <2>1, RenameKeepsFile
    <2>2. CASE ~Rename(c)
      <3>1. NothingWritten
        BY <1>1, <1>3, <2>2, EditorWrites
      <3> QED BY <1>2, <3>1, NothingWrittenKeeps
    <2> QED BY <2>1, <2>2
  <1>4. ASSUME NEW c \in Here.editors, NEW p \in Here.posts, Submit(c, p) PROVE FileInv'
    BY <1>1, <1>4, SubmitKeepsFile
  <1>5. CASE UnitStep \/ ServerDies \/ Flush \/ UNCHANGED configVars
    <2>1. NothingWritten
      BY <1>5, OthersWrite
    <2> QED BY <1>2, <2>1, NothingWrittenKeeps
  <1>6. CASE PowerFails
    BY <1>6, PowerKeepsFile
  <1> QED BY <1>3, <1>4, <1>5, <1>6 DEF ConfigNext

LEMMA FileInvHolds ==
    ConfigSpec => [](ConfigInv /\ world \in DOMAIN Worlds /\ FileInv)
  <1> DEFINE Inv == ConfigInv /\ world \in DOMAIN Worlds /\ FileInv
  <1>1. ConfigInit => Inv
    BY ConfigStarts, FileStarts DEF ConfigInit
  <1>2. Inv /\ [ConfigNext]_configVars => Inv'
    BY ConfigStep, FileStep
  <1> HIDE DEF Inv
  <1>3. ConfigSpec => []Inv
    BY <1>1, <1>2, PTL DEF ConfigSpec
  <1> QED BY <1>3 DEF Inv

\* Whoever saves what at once, and wherever the server dies or the power fails: a
\* setting that was saved is in the file until it is saved anew, unless by a
\* request that had read the file before.
THEOREM EditsAreKept == ConfigSpec => []EditsKept
  <1>1. ConfigInv /\ world \in DOMAIN Worlds /\ FileInv => EditsKept
    <2> SUFFICES ASSUME FileInv, file # NoFile, NEW s \in 0..Len(saves), NEW n,
                        s > 0 => Touches(s, n),
                        \A t \in s + 1..Len(saves) : ~Touches(t, n) /\ saves[t].read >= s
                 PROVE  Agree(Settings(file), After(s), n)
      BY DEF EditsKept
    <2>1. HoldsFor(saves, base, file, Len(saves), n)
      BY DEF FileInv
    <2>2. \A t : Touches(t, n) <=> n \in Names(saves[t].entries)
      BY DEF Touches, Names
    <2>3. KeptFrom(saves, s, Len(saves), n)
      BY <2>2 DEF KeptFrom
    <2>4. After(s) = AfterSave(saves, base, s)
      BY DEF After, AfterSave
    <2>5. At(Settings(file), n) = At(After(s), n)
      BY <2>1, <2>3, <2>4 DEF HoldsFor
    <2> QED BY <2>5 DEF At, Agree
  <1> QED BY <1>1, FileInvHolds, PTL

\* The file is one that was there or one that a save has made, never torn, and
\* keeps every line that defines nothing, in its place.
THEOREM FileIsWhole == ConfigSpec => []FileStaysWhole
  <1>1. ConfigInv /\ world \in DOMAIN Worlds /\ FileInv => FileStaysWhole
    BY DEF FileInv, FileStaysWhole, Whole
  <1> QED BY <1>1, FileInvHolds, PTL

\* In every file that saves lead to: what a post reports as unchanged is, and a
\* second post of the same has nothing to do.
THEOREM ReportsAreTrue == ConfigSpec => []ReportIsTrue
  <1>1. ConfigInv /\ world \in DOMAIN Worlds /\ FileInv => ReportIsTrue
    <2> SUFFICES ASSUME world \in DOMAIN Worlds, FileInv, file # NoFile, NEW p \in Proposed
                 PROVE  LET entries == Entries(Submitted(p))
                            content == Planned(file, entries)
                        IN  /\ (\A j \in DOMAIN entries :
                                    Disposition(file, entries[j]) = "unchanged")
                                   <=> content = [file EXCEPT !.eol = content.eol]
                            /\ Planned(content, entries) = content
      BY DEF ReportIsTrue
    <2> DEFINE E == Entries(Submitted(p))
    <2>1. AreUpdates(p.updates) /\ Accepted(p)
      BY WorldsAssumption DEF Proposed, Here
    <2>2. Proper(E)
      BY <2>1, AcceptedIsProper
    <2>3. IsFile(file)
      BY DEF FileInv, Whole
    <2> HIDE DEF E
    <2>4. /\ (\A j \in DOMAIN E : Disposition(file, E[j]) = "unchanged")
                  <=> Planned(file, E) = [file EXCEPT !.eol = Planned(file, E).eol]
          /\ Planned(Planned(file, E), E) = Planned(file, E)
      BY <2>2, <2>3, EditorReportsTheEdit
    <2> QED BY <2>4 DEF E
  <1> QED BY <1>1, FileInvHolds, PTL

\* Whatever else was saved: the storage directory that the editor has saved is the
\* one that the reader of recordings finds.
THEOREM StorageStaysFound == ConfigSpec => []StorageAgrees
  <1>1. ConfigInv /\ world \in DOMAIN Worlds /\ FileInv => StorageAgrees
    <2> SUFFICES ASSUME world \in DOMAIN Worlds, FileInv, file # NoFile, NEW p \in Proposed,
                        NEW j \in DOMAIN Entries(Submitted(p)),
                        Entries(Submitted(p))[j].name = "STORAGE",
                        Entries(Submitted(p))[j].set, Ordinary(Entries(Submitted(p))[j].text),
                        DOMAIN Settings(Planned(file, Entries(Submitted(p)))) \cap StorageNames
                            = {"STORAGE"}
                 PROVE  StorageDirectory(Planned(file, Entries(Submitted(p))))
                            = {Expanded(Entries(Submitted(p))[j].text)}
      BY DEF StorageAgrees
    <2> DEFINE E == Entries(Submitted(p))
               S == ToSet(file.lines)
               W == ToSet(E[j].text)
    <2>1. AreUpdates(p.updates) /\ Accepted(p)
      BY WorldsAssumption DEF Proposed, Here
    <2>2. Proper(E)
      BY <2>1, AcceptedIsProper
    <2>3. file.lines \in Seq(S)
      BY DEF FileInv, Whole, IsFile
    <2>4. E[j].text \in Seq(W)
      BY <2>2 DEF Proper, IsText
    <2>5. /\ j \in DOMAIN E /\ E[j].name = "STORAGE" /\ E[j].set /\ Ordinary(E[j].text)
          /\ DOMAIN Settings(Planned(file, E)) \cap StorageNames = {"STORAGE"}
      OBVIOUS
    <2> HIDE DEF E, S, W
    <2>6. StorageDirectory(Planned(file, E)) = {Expanded(E[j].text)}
      BY <2>2, <2>3, <2>4, <2>5, StorageIsFound
    <2> QED BY <2>6 DEF E
  <1> QED BY <1>1, FileInvHolds, PTL

\* In every file that saves lead to: GET's answer can be posted back, and changes
\* nothing, unless GET has left quotes out.
THEOREM AnswersAreTakenBack == ConfigSpec => []RoundTrip
  <1>1. ConfigInv /\ world \in DOMAIN Worlds /\ FileInv => RoundTrip
    <2> SUFFICES ASSUME FileInv, file # NoFile, Postable(file)
                 PROVE  /\ Rejected(SentBack(file)) = {}
                        /\ (\A i \in ActiveLines(file) : Literal(file.lines[i]))
                              => Settings(Planned(file, Entries(SentBack(file)))) = Settings(file)
      BY DEF RoundTrip, SettingsSentBack
    <2>1. IsFile(file)
      BY DEF FileInv, Whole
    <2>2. /\ \A k \in KeysRead(file) : GoodKey(k)
          /\ \A k, l \in KeysRead(file) : k.name = l.name => k = l
          /\ \A i \in ActiveLines(file) : \A w \in ToSet(file.lines[i].text) : w[1] \notin Control
      BY DEF Postable, KeysRead
    <2> QED BY <2>1, <2>2, EditorTakesItBack
  <1> QED BY <1>1, FileInvHolds, PTL

-----------------------------------------------------------------------------
(* ServiceConfig: its types.                                               *)

\* Each replacement is that of one request, which is still to be answered, and
\* was read for before it was made.
AnswersDue ==
    /\ \A c \in Editors : call[c].read \in 0..Len(saves)
    /\ \A c \in Editors : call[c].save > 0 => saves[call[c].save].told = "pending"
    /\ \A c, d \in Editors : c # d /\ call[c].save > 0 => call[c].save # call[d].save
    /\ \A s \in 1..Len(saves) : saves[s].read \in Nat /\ saves[s].read < s

UnitLoaded == unit.state \in {"inactive", "queued"} => unit.loaded = NoFile

InBudget == budget \in 0..Here.edits

\* A request goes on, begins or fails.
LEMMA OwnRecordDue ==
    ASSUME ConfigInv, AnswersDue, NEW c \in Editors, NEW r,
           call' = [call EXCEPT ![c] = r], saves' = saves,
           r.read \in 0..Len(saves), r.save \in {0, call[c].save}
    PROVE  AnswersDue'
  <1>1. call = [d \in Editors |-> call[d]]
    BY DEF ConfigInv, CallsTyped
  <1>2. call'[c] = r /\ \A d \in Editors : d # c => call'[d] = call[d]
    BY <1>1
  <1>3. \A d \in Editors : call'[d].read \in 0..Len(saves')
    BY <1>2 DEF AnswersDue
  <1>4. \A d \in Editors : call'[d].save \in {0, call[d].save}
    BY <1>2
  <1>5. \A d \in Editors : call'[d].save > 0 => call'[d].save = call[d].save
    BY <1>4
  <1>6. \A d \in Editors : call'[d].save > 0 => saves'[call'[d].save].told = "pending"
    BY <1>5 DEF AnswersDue
  <1>7. ASSUME NEW d \in Editors, NEW e \in Editors, d # e, call'[d].save > 0
        PROVE  call'[d].save # call'[e].save
    <2>1. call'[d].save = call[d].save /\ call[d].save # call[e].save /\ call'[d].save # 0
      BY <1>5, <1>7 DEF AnswersDue
    <2> QED BY <1>4, <2>1
  <1> QED BY <1>3, <1>6, <1>7 DEF AnswersDue

LEMMA ContinuesDue ==
    ASSUME ConfigInv, AnswersDue, NEW c \in Editors, NEW pc2 \in EditorPcs, Continues(c, pc2),
           saves' = saves
    PROVE  AnswersDue'
  <1>1. PICK r : /\ call' = [call EXCEPT ![c] = r]
                 /\ r.save = call[c].save /\ r.read = call[c].read
    BY Continued
  <1>2. r.read \in 0..Len(saves)
    BY <1>1 DEF AnswersDue
  <1> QED BY <1>1, <1>2, OwnRecordDue

\* Requests are over, and their saves are told how.
LEMMA ToldDue ==
    ASSUME ConfigInv, AnswersDue, NEW D \in SUBSET Editors,
           call' = [d \in Editors |-> IF d \in D THEN IdleEditor ELSE call[d]],
           Len(saves') = Len(saves), SameEdits(saves, saves', Len(saves)),
           \A s \in 1..Len(saves) : saves'[s].told = saves[s].told
                                    \/ \E d \in D : call[d].save = s
    PROVE  AnswersDue'
  <1>0. IdleEditor.save = 0 /\ IdleEditor.read = 0 /\ Len(saves) \in Nat
    BY DEF IdleEditor, ConfigInv, SavesTyped
  <1>1. \A d \in Editors : call'[d] = IF d \in D THEN IdleEditor ELSE call[d]
    OBVIOUS
  <1>2. ASSUME NEW d \in Editors PROVE call'[d].read \in 0..Len(saves')
    <2>1. call[d].read \in 0..Len(saves) /\ 0 \in 0..Len(saves)
      BY <1>0 DEF AnswersDue
    <2> QED BY <1>0, <1>1, <2>1
  <1>3. ASSUME NEW d \in Editors, call'[d].save > 0
        PROVE  d \notin D /\ call'[d].save = call[d].save
    <2>1. d \notin D
      BY <1>0, <1>1, <1>3
    <2> QED BY <1>1, <2>1
  <1>4. ASSUME NEW d \in Editors, call'[d].save > 0
        PROVE  saves'[call'[d].save].told = "pending"
    <2>1. call[d].save \in 1..Len(saves) /\ d \notin D /\ call'[d].save = call[d].save
      BY <1>3, <1>4, ConfigTypes
    <2>2. \A e \in D : call[e].save # call[d].save
      BY <1>4, <2>1 DEF AnswersDue
    <2>3. saves'[call[d].save].told = saves[call[d].save].told
      BY <2>1, <2>2
    <2> QED BY <1>4, <2>1, <2>3 DEF AnswersDue
  <1>5. ASSUME NEW d \in Editors, NEW e \in Editors, d # e, call'[d].save > 0
        PROVE  call'[d].save # call'[e].save
    <2>1. call'[d].save = call[d].save /\ call[d].save # call[e].save /\ call'[d].save # 0
      BY <1>3, <1>5 DEF AnswersDue
    <2> QED BY <1>0, <1>1, <2>1
  <1>6. \A s \in 1..Len(saves') : saves'[s].read \in Nat /\ saves'[s].read < s
    BY DEF AnswersDue, SameEdits
  <1> QED BY <1>2, <1>4, <1>5, <1>6 DEF AnswersDue

LEMMA AnswerDue ==
    ASSUME ConfigInv, AnswersDue, NEW c \in Editors, NEW what \in Told, Answers(c, what),
           call[c].save > 0
    PROVE  AnswersDue'
  <1>1. /\ call' = [call EXCEPT ![c] = IdleEditor]
        /\ saves' = [saves EXCEPT ![call[c].save].told = what]
        /\ call[c].save \in 1..Len(saves)
    BY ConfigTypes DEF Answers, Tells
  <1>2. /\ Len(saves') = Len(saves) /\ SameEdits(saves, saves', Len(saves))
        /\ \A s \in 1..Len(saves) : s # call[c].save => saves'[s].told = saves[s].told
    BY <1>1, ConfigTypes, OneTold
  <1> DEFINE D == {c}
  <1>3. call' = [d \in Editors |-> IF d \in D THEN IdleEditor ELSE call[d]]
    <2>1. call = [d \in Editors |-> call[d]]
      BY DEF ConfigInv, CallsTyped
    <2> QED BY <1>1, <2>1
  <1>4. /\ D \in SUBSET Editors
        /\ \A s \in 1..Len(saves) : saves'[s].told = saves[s].told \/ \E d \in D : call[d].save = s
    BY <1>2
  <1> HIDE DEF D
  <1> QED BY <1>2, <1>3, <1>4, ToldDue

LEMMA RenameDue ==
    ASSUME ConfigInv, AnswersDue, NEW c \in Editors, Rename(c)
    PROVE  AnswersDue'
  <1> DEFINE a == call[c]
             new == [entries |-> a.entries, read |-> a.read, told |-> "pending"]
             N == Len(saves)
             r == [a EXCEPT !.pc = "check", !.save = N + 1]
             T == {saves[s] : s \in 1..N} \cup {new}
  <1>1. saves' = Append(saves, new) /\ call' = [call EXCEPT ![c] = r]
    BY DEF Rename
  <1>2. saves \in Seq(T) /\ N \in Nat
    BY DEF ConfigInv, SavesTyped
  <1> HIDE DEF T
  <1>3. /\ Len(saves') = N + 1 /\ saves'[N + 1] = new
        /\ \A s \in 1..N : saves'[s] = saves[s]
    BY <1>1, <1>2 DEF T
  <1>4. a \in [pc : EditorPcs, entries : {a.entries}, content : {a.content},
                read : {a.read}, save : Nat]
    BY ConfigTypes DEF CallRecord
  <1>5. a.read \in 0..N /\ new.read = a.read /\ new.told = "pending"
    BY DEF AnswersDue
  <1>6. call = [d \in Editors |-> call[d]]
    BY DEF ConfigInv, CallsTyped
  <1>7. call'[c] = r /\ \A d \in Editors : d # c => call'[d] = call[d]
    BY <1>1, <1>6
  <1> HIDE DEF a, new
  <1>8. r.read = a.read /\ r.save = N + 1
    BY <1>4
  <1> HIDE DEF r
  <1>9. \A d \in Editors : call[d].save \in Nat /\ call[d].save <= N
    BY ConfigTypes DEF N
  <1>10. \A d \in Editors : call[d].read \in 0..N
    BY DEF AnswersDue, N
  <1>a. \A s \in 1..N : saves[s].read \in Nat /\ saves[s].read < s
    BY DEF AnswersDue, N
  <1>b. \A d \in Editors : call[d].save > 0 => saves[call[d].save].told = "pending"
    BY DEF AnswersDue
  <1>c. \A d, e \in Editors : d # e /\ call[d].save > 0 => call[d].save # call[e].save
    BY DEF AnswersDue
  <1> HIDE DEF N
  <1>11. ASSUME NEW d \in Editors PROVE call'[d].read \in 0..Len(saves')
    <2>1. call[d].read \in 0..N + 1 /\ a.read \in 0..N + 1
      BY <1>2, <1>5, <1>10
    <2>2. call'[d].read \in {call[d].read, a.read}
      BY <1>7, <1>8
    <2> QED BY <1>3, <2>1, <2>2
  <1>12. ASSUME NEW d \in Editors, call'[d].save > 0
         PROVE  saves'[call'[d].save].told = "pending"
    <2>1. CASE d = c
      BY <1>3, <1>5, <1>7, <1>8, <2>1
    <2>2. CASE d # c
      <3>1. call'[d] = call[d] /\ call[d].save \in 1..N
        BY <1>2, <1>7, <1>9, <1>12, <2>2
      <3> QED BY <1>3, <1>12, <1>b, <3>1
    <2> QED BY <2>1, <2>2
  <1>13. ASSUME NEW d \in Editors, NEW e \in Editors, d # e, call'[d].save > 0
         PROVE  call'[d].save # call'[e].save
    <2>0. \A f \in Editors : call[f].save # N + 1
      BY <1>2, <1>9
    <2>1. CASE d # c /\ e # c
      BY <1>7, <1>13, <1>c, <2>1
    <2>2. CASE d = c \/ e = c
      BY <1>7, <1>8, <1>13, <2>0, <2>2
    <2> QED BY <2>1, <2>2
  <1>14. ASSUME NEW s \in 1..Len(saves') PROVE saves'[s].read \in Nat /\ saves'[s].read < s
    <2>1. CASE s = N + 1
      BY <1>2, <1>3, <1>5, <2>1
    <2>2. CASE s # N + 1
      <3>1. s \in 1..N
        BY <1>2, <1>3, <2>2
      <3> QED BY <1>3, <1>a, <3>1
    <2> QED BY <2>1, <2>2
  <1> QED BY <1>11, <1>12, <1>13, <1>14 DEF AnswersDue

LEMMA EditorDue ==
    ASSUME ConfigInv, AnswersDue, NEW c \in Editors, EditorStep(c)
    PROVE  AnswersDue'
  <1>1. CASE Fails(c)
    <2>1. call' = [call EXCEPT ![c] = IdleEditor] /\ saves' = saves
      BY <1>1 DEF Fails, observed
    <2>2. IdleEditor.save = 0 /\ IdleEditor.read = 0 /\ 0 \in 0..Len(saves)
      BY DEF IdleEditor, ConfigInv, SavesTyped
    <2> QED BY <2>1, <2>2, OwnRecordDue
  <1>2. CASE WriteTemp(c)
    <2>1. Continues(c, "sync") /\ saves' = saves
      BY <1>2 DEF WriteTemp, observed
    <2> QED BY <2>1, ContinuesDue DEF EditorPcs
  <1>3. CASE SyncTemp(c)
    <2>1. Continues(c, "rename") /\ saves' = saves
      BY <1>3 DEF SyncTemp, observed
    <2> QED BY <2>1, ContinuesDue DEF EditorPcs
  <1>4. CASE CheckUnit(c)
    <2>1. CASE Continues(c, "restart") /\ saves' = saves
      BY <2>1, ContinuesDue DEF EditorPcs
    <2>2. CASE Answers(c, "notRunning")
      <3>1. call[c].save > 0
        BY <1>4, ConfigTypes DEF CheckUnit
      <3> QED BY <2>2, <3>1, AnswerDue DEF Told
    <2> QED BY <1>4, <2>1, <2>2 DEF CheckUnit
  <1>5. CASE Restart(c)
    <2>1. Continues(c, "restarting") /\ saves' = saves
      BY <1>5 DEF Restart, observed
    <2> QED BY <2>1, ContinuesDue DEF EditorPcs
  <1>6. CASE RestartNotSpawned(c)
    <2>1. call[c].save > 0 /\ Answers(c, "restartError")
      BY <1>6, ConfigTypes DEF RestartNotSpawned
    <2> QED BY <2>1, AnswerDue DEF Told
  <1>7. CASE CheckNotSpawned(c)
    <2>1. call[c].save > 0 /\ Answers(c, "restartError")
      BY <1>7, ConfigTypes DEF CheckNotSpawned
    <2> QED BY <2>1, AnswerDue DEF Told
  <1> QED BY <1>1, <1>2, <1>3, <1>4, <1>5, <1>6, <1>7, RenameDue DEF EditorStep

LEMMA OthersDue ==
    ASSUME ConfigInv, AnswersDue, UnitStep \/ ServerDies \/ Flush \/ PowerFails
    PROVE  AnswersDue'
  <1>0. IdleEditor.save = 0 /\ IdleEditor.read = 0 /\ Len(saves) \in Nat
    BY DEF IdleEditor, ConfigInv, SavesTyped
  <1>1. CASE UnitLoads \/ UnitStart \/ Flush
    <2>1. call' = call /\ saves' = saves
      BY <1>1 DEF UnitLoads, UnitStart, Flush, observed
    <2> QED BY <2>1 DEF AnswersDue
  <1>2. CASE ServerDies
    <2>1. saves' = saves /\ \A c \in Editors : call'[c] = IdleEditor
      BY <1>2 DEF ServerDies, observed
    <2> QED BY <1>0, <2>1 DEF AnswersDue
  <1>3. CASE PowerFails
    <2>1. saves' = <<>> /\ \A c \in Editors : call'[c] = IdleEditor
      BY <1>3 DEF PowerFails
    <2> QED BY <1>0, <2>1 DEF AnswersDue
  <1>4. ASSUME NEW what \in Told, TellsWaiters(what)
        PROVE  AnswersDue'
    <2> DEFINE D == Waiters
    <2>1. /\ call' = [c \in Editors |-> IF c \in D THEN IdleEditor ELSE call[c]]
          /\ D \in SUBSET Editors
      BY <1>4 DEF TellsWaiters, Waiters
    <2>2. /\ Len(saves') = Len(saves) /\ SameEdits(saves, saves', Len(saves))
          /\ \A s \in 1..Len(saves) :
                saves'[s].told = saves[s].told \/ \E d \in D : call[d].save = s
      BY <1>4, WaitersTold DEF Waiters
    <2> HIDE DEF D
    <2> QED BY <2>1, <2>2, ToldDue
  <1>5. CASE UnitUp
    BY <1>4, <1>5 DEF UnitUp, Told
  <1>6. CASE UnitDown
    BY <1>4, <1>6 DEF UnitDown, Told
  <1> QED BY <1>1, <1>2, <1>3, <1>5, <1>6 DEF UnitStep, Isolated

LEMMA AnswersDueStep ==
    ASSUME ConfigInv, AnswersDue, world \in DOMAIN Worlds, [ConfigNext]_configVars
    PROVE  AnswersDue'
  <1>1. ASSUME NEW c \in Here.editors PROVE c \in Editors
    BY WorldsAssumption DEF Here
  <1>2. ASSUME NEW c \in Here.editors, EditorStep(c) PROVE AnswersDue'
    BY <1>1, <1>2, EditorDue
  <1>3. ASSUME NEW c \in Here.editors, NEW p \in Here.posts, Submit(c, p) PROVE AnswersDue'
    <2> DEFINE r == [IdleEditor EXCEPT
                        !.pc = "write", !.entries = Entries(Submitted(p)),
                        !.content = Planned(file, Entries(Submitted(p))), !.read = Len(saves)]
    <2>1. call' = [call EXCEPT ![c] = r] /\ saves' = saves
      BY <1>3 DEF Submit, observed
    <2>2. r.save = 0 /\ r.read = Len(saves)
      BY DEF IdleEditor
    <2> HIDE DEF r
    <2>3. r.read \in 0..Len(saves)
      BY <2>2, UpToItself DEF ConfigInv, SavesTyped
    <2> QED BY <1>1, <2>1, <2>2, <2>3, OwnRecordDue
  <1>4. CASE UnitStep \/ ServerDies \/ Flush \/ PowerFails
    BY <1>4, OthersDue
  <1>5. CASE UNCHANGED configVars
    <2>1. call' = call /\ saves' = saves
      BY <1>5 DEF configVars, observed
    <2> QED BY <2>1 DEF AnswersDue
  <1> QED BY <1>2, <1>3, <1>4, <1>5 DEF ConfigNext

LEMMA UnitSteps ==
    ASSUME ConfigInv, UnitLoaded, InBudget, world \in DOMAIN Worlds, [ConfigNext]_configVars
    PROVE  UnitLoaded' /\ InBudget'
  <1>1. Here' = Here
    <2>1. world' = world
      BY DEF ConfigNext, EditorStep, Fails, WriteTemp, SyncTemp, Rename, CheckUnit,
           CheckNotSpawned, Restart, RestartNotSpawned, Submit, UnitStep, UnitLoads,
             UnitUp, UnitDown, Isolated, UnitStart, TellsWaiters, ServerDies, Flush, PowerFails, configVars
    <2> QED BY <2>1 DEF Here
  <1>2. Here.edits \in Nat
    BY WorldsAssumption DEF Here
  <1>3. budget' = budget \/ (budget > 0 /\ budget' = budget - 1)
    BY DEF ConfigNext, EditorStep, Fails, WriteTemp, SyncTemp, Rename, CheckUnit,
           CheckNotSpawned, Restart, RestartNotSpawned, Submit, UnitStep, UnitLoads,
           UnitUp, UnitDown, Isolated, UnitStart, TellsWaiters, ServerDies, Flush, PowerFails, configVars
  <1>4. \/ unit' = unit \/ unit' = NoUnit \/ unit' = [state |-> "queued", loaded |-> NoFile]
        \/ unit' = [state |-> "starting", loaded |-> file]
        \/ unit' = [unit EXCEPT !.state = "active"]
    BY DEF ConfigNext, EditorStep, Fails, WriteTemp, SyncTemp, Rename, CheckUnit,
           CheckNotSpawned, Restart, RestartNotSpawned, Submit, UnitStep, UnitLoads,
           UnitUp, UnitDown, Isolated, UnitStart, TellsWaiters, ServerDies, Flush, PowerFails, configVars
  <1>5. UnitLoaded'
    <2>1. CASE unit' = unit
      BY <2>1 DEF UnitLoaded
    <2>2. CASE unit' = NoUnit \/ unit' = [state |-> "queued", loaded |-> NoFile]
      BY <2>2 DEF UnitLoaded, NoUnit
    <2>3. CASE unit' = [state |-> "starting", loaded |-> file]
      BY <2>3 DEF UnitLoaded
    <2>4. CASE unit' = [unit EXCEPT !.state = "active"]
      <3> DEFINE u == unit
      <3>1. u \in [state : {"inactive", "queued", "starting", "active"}, loaded : {u.loaded}]
        BY DEF ConfigInv, UnitRecord
      <3>2. unit' = [u EXCEPT !.state = "active"]
        BY <2>4
      <3> HIDE DEF u
      <3>3. unit'.state = "active"
        BY <3>1, <3>2
      <3> QED BY <3>3 DEF UnitLoaded
    <2> QED BY <1>4, <2>1, <2>2, <2>3, <2>4
  <1>6. InBudget'
    BY <1>1, <1>2, <1>3 DEF InBudget
  <1> QED BY <1>5, <1>6

ConfigTypesInv ==
    /\ ConfigInv /\ world \in DOMAIN Worlds /\ FileInv
    /\ AnswersDue /\ UnitLoaded /\ InBudget

LEMMA ConfigTypesStart == ConfigInit => ConfigTypesInv
  <1> SUFFICES ASSUME ConfigInit PROVE AnswersDue /\ UnitLoaded /\ InBudget
    BY ConfigStarts, FileStarts DEF ConfigInit, ConfigTypesInv
  <1>1. AnswersDue
    <2>1. /\ saves = <<>> /\ Len(saves) = 0 /\ IdleEditor.save = 0 /\ IdleEditor.read = 0
          /\ \A c \in Editors : call[c] = IdleEditor
      BY DEF ConfigInit, IdleEditor
    <2> QED BY <2>1 DEF AnswersDue
  <1>2. UnitLoaded
    <2>1. CASE unit = NoUnit
      BY <2>1 DEF NoUnit, UnitLoaded
    <2>2. ASSUME NEW f, unit = [state |-> "active", loaded |-> f] PROVE UnitLoaded
      BY <2>2 DEF UnitLoaded
    <2> QED BY <2>1, <2>2 DEF ConfigInit
  <1>3. InBudget
    <2>1. Here.edits \in Nat
      BY WorldsAssumption DEF ConfigInit, Here
    <2>2. budget = Here.edits
      BY DEF ConfigInit
    <2> QED BY <2>1, <2>2, UpToItself DEF InBudget
  <1> QED BY <1>1, <1>2, <1>3

LEMMA ConfigTypesStep == ConfigTypesInv /\ [ConfigNext]_configVars => ConfigTypesInv'
  <1> SUFFICES ASSUME ConfigTypesInv, [ConfigNext]_configVars PROVE ConfigTypesInv'
    OBVIOUS
  <1>0. /\ ConfigInv /\ world \in DOMAIN Worlds /\ FileInv
        /\ AnswersDue /\ UnitLoaded /\ InBudget
    BY DEF ConfigTypesInv
  <1>1. ConfigInv' /\ (world \in DOMAIN Worlds)' /\ FileInv'
    BY <1>0, ConfigStep, FileStep
  <1>2. AnswersDue' /\ UnitLoaded' /\ InBudget'
    BY <1>0, AnswersDueStep, UnitSteps
  <1> QED BY <1>1, <1>2 DEF ConfigTypesInv

LEMMA ConfigTypesOK == ConfigTypesInv => ConfigTypeOK
  <1> SUFFICES ASSUME ConfigTypesInv PROVE ConfigTypeOK
    OBVIOUS
  <1>0. /\ ConfigInv /\ world \in DOMAIN Worlds /\ FileInv
        /\ AnswersDue /\ UnitLoaded /\ InBudget
    BY DEF ConfigTypesInv
  <1>1. IF Here.path = "" THEN file = NoFile ELSE IsFile(file) /\ IsFile(durable) /\ IsFile(base)
    BY <1>0 DEF FileInv, Whole
  <1>2. soft \in BOOLEAN
    BY <1>0 DEF FileInv
  <1>3. ASSUME NEW c \in Editors
        PROVE  /\ call[c].pc \in EditorPcs
               /\ call[c].read \in 0..Len(saves)
               /\ call[c].save \in 0..Len(saves)
               /\ call[c].save > 0 <=> call[c].pc \in {"check", "restart", "restarting"}
               /\ call[c].save > 0 => saves[call[c].save].told = "pending"
    <2>1. call[c] \in CallRecord(call[c]) /\ call[c].save \in 0..Len(saves)
      BY <1>0, ConfigTypes
    <2> QED BY <1>0, <2>1, ConfigTypes DEF AnswersDue, CallRecord
  <1>4. unit.state \in {"inactive", "queued", "starting", "active"}
    BY <1>0 DEF ConfigInv, UnitRecord
  <1>5. \A s \in DOMAIN saves : saves[s].told \in Told /\ saves[s].read < s
    BY <1>0 DEF ConfigInv, SavesTyped, SaveRecord, AnswersDue
  <1> QED BY <1>0, <1>1, <1>2, <1>3, <1>4, <1>5 DEF ConfigTypeOK, UnitLoaded, InBudget

\* Whichever way it is started, the server's state is as described: every request
\* that replaced a file is the only one to answer for it, and has not yet.
THEOREM ControlTyped == MCSpec => []TypesOK
  <1> DEFINE Inv == RecorderInv /\ ConfigTypesInv
  <1>1. MCInit => Inv
    BY RecorderStarts, ConfigTypesStart DEF MCInit
  <1>2. Inv /\ [MCNext]_allVars => Inv'
    <2>1. [MCNext]_allVars => [Next]_vars /\ [ConfigNext]_configVars
      BY DEF MCNext, Quiet, allVars
    <2> QED BY <2>1, RecorderStep, ConfigTypesStep
  <1>3. Inv => TypesOK
    BY ConfigTypesOK DEF RecorderInv, TypesOK
  <1> HIDE DEF Inv
  <1>4. MCSpec => MCInit /\ [][MCNext]_allVars
    BY DEF MCSpec
  <1> QED BY <1>1, <1>2, <1>3, <1>4, PTL
=============================================================================
