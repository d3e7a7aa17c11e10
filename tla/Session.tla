------------------------------- MODULE Session -------------------------------
(***************************************************************************)
(* The session with EdgeFirst Studio: UploadManager::client, the signed-in *)
(* client behind a tokio RwLock, and all that take it (src/src/upload.rs,  *)
(* auth.rs, studio.rs).  The lock is fair: it is granted in the order in   *)
(* which it is asked for, so a reader waits behind a writer that waits.    *)
(* Projects and user names are asked of Studio with the lock held; a login *)
(* is asked without it.  A request is dropped when its caller hangs up, an *)
(* upload's when the upload is aborted, at any of its awaits.              *)
(*                                                                         *)
(* Studio is external.  The client library gives each call a time limit:   *)
(* an error is an answer.                                                  *)
(***************************************************************************)
EXTENDS SequencesExt

CONSTANTS
    Callers,   \* the requests and uploads that run at a time
    Accounts,
    Nobody

ASSUME SessionAssumption == Nobody \notin Accounts

VARIABLES
    signedIn,  \* the account of UploadManager::client
    guards,    \* callers that hold a guard of its lock
    waiting,   \* callers that wait for one, in the order they asked
    request    \* what each caller does, and for which account

sessionVars == <<signedIn, guards, waiting, request>>

NoRequest == [op |-> "none", pc |-> "idle", account |-> Nobody]

Writes == {"login", "logout"}
Ops == Writes \cup {"status", "projects", "labels", "upload"}
Request ==
    [op : Ops \cup {"none"}, account : Accounts \cup {Nobody},
     pc : {"idle", "signing in", "lock", "again", "lock again", "asking"}]

SessionTypeOK ==
    /\ signedIn \in Accounts \cup {Nobody}
    /\ guards \subseteq Callers
    /\ waiting \in Seq(Callers) /\ IsInjective(waiting)
    /\ request \in [Callers -> Request]
    \* What the lock guarantees: a writer is alone, and nobody is forgotten.
    /\ \A c, d \in guards : request[c].op \in Writes => c = d
    /\ \A c \in Callers : request[c].pc \in {"lock", "lock again"}
                             => c \in Range(waiting) \cup guards

SessionInit ==
    /\ signedIn = Nobody
    /\ guards = {} /\ waiting = <<>>
    /\ request = [c \in Callers |-> NoRequest]

-----------------------------------------------------------------------------
RequestGoes(c, pc) == request' = [request EXCEPT ![c].pc = pc]
Finishes(c) ==
    /\ request' = [request EXCEPT ![c] = NoRequest]
    /\ guards' = guards \ {c}

\* read() and write(): join the queue, which an idle lock grants at once.
Asks(c) == waiting' = Append(waiting, c)

Arrives(c, op) ==
    /\ request[c] = NoRequest
    /\ IF op = "login"
       THEN /\ \E a \in Accounts :
                  request' = [request EXCEPT ![c] = [op |-> op, pc |-> "signing in", account |-> a]]
            /\ UNCHANGED waiting
       ELSE /\ request' = [request EXCEPT ![c] = [op |-> op, pc |-> "lock", account |-> Nobody]]
            /\ Asks(c)
    /\ UNCHANGED <<signedIn, guards>>

\* authenticate: Studio lets the user in, or the login has failed.
SignsIn(c) ==
    /\ request[c].pc = "signing in"
    /\ \/ RequestGoes(c, "lock") /\ Asks(c) /\ UNCHANGED guards
       \/ Finishes(c) /\ UNCHANGED waiting
    /\ UNCHANGED signedIn

Writer(c) == request[c].op \in Writes
Grantable(c) == IF Writer(c) THEN guards = {} ELSE \A g \in guards : ~Writer(g)

Granted(c) ==
    /\ waiting # <<>> /\ Head(waiting) = c
    /\ Grantable(c)
    /\ waiting' = Tail(waiting)
    /\ guards' = guards \cup {c}
    /\ UNCHANGED <<signedIn, request>>

Holds(c, pc, ops) ==
    /\ c \in guards /\ c \notin Range(waiting)
    /\ request[c].pc = pc /\ request[c].op \in ops

\* The session is replaced or ended, and the lock released.
Stores(c) ==
    /\ Holds(c, "lock", Writes)
    /\ signedIn' = request[c].account
    /\ Finishes(c)
    /\ UNCHANGED waiting

Looks(c, op) ==
    /\ Holds(c, "lock", {op})
    /\ Finishes(c)
    /\ UNCHANGED <<signedIn, waiting>>

\* The labels are the same for all who are signed in; an upload goes on with a
\* clone of the client.
ListsLabels(c) == Looks(c, "labels")
ClonesClient(c) == Looks(c, "upload")

\* Variant: what is asked of Studio is asked without the lock.
Unlocked(c) == guards \ {c}

\* The guard lives as long as the client is borrowed from it.
Kept(c) == guards

\* list_studio_projects, and get_username in the second half of a status: with
\* nobody signed in they are done, else they ask Studio.
Borrows(c) ==
    /\ Holds(c, "lock", {"projects"}) \/ Holds(c, "lock again", {"status"})
    /\ IF signedIn = Nobody THEN Finishes(c)
       ELSE /\ request' = [request EXCEPT ![c].pc = "asking", ![c].account = signedIn]
            /\ guards' = Kept(c)
    /\ UNCHANGED <<signedIn, waiting>>

\* Variant: auth_status keeps the guard it looked with.
GuardKept(c) == guards

\* is_authenticated returns, and its guard is gone.
GuardDropped(c) == guards \ {c}

\* The first half of a status.
ChecksSignedIn(c) ==
    /\ Holds(c, "lock", {"status"})
    /\ RequestGoes(c, "again")
    /\ guards' = GuardDropped(c)
    /\ UNCHANGED <<signedIn, waiting>>

AsksAgain(c) ==
    /\ request[c].pc = "again"
    /\ RequestGoes(c, "lock again") /\ Asks(c)
    /\ UNCHANGED <<signedIn, guards>>

StudioAnswers(c) ==
    /\ request[c].pc = "asking"
    /\ Finishes(c)
    /\ UNCHANGED <<signedIn, waiting>>

\* The future is dropped: its place in the queue and its guard go with it.
Dropped(c) ==
    /\ request[c] # NoRequest
    /\ Finishes(c)
    /\ \/ c \notin Range(waiting) /\ UNCHANGED waiting
       \/ \E i \in DOMAIN waiting : waiting[i] = c /\ waiting' = RemoveAt(waiting, i)
    /\ UNCHANGED signedIn

-----------------------------------------------------------------------------
Steps(c) ==
    \/ Granted(c) \/ Stores(c) \/ ListsLabels(c) \/ ClonesClient(c) \/ Borrows(c)
    \/ ChecksSignedIn(c) \/ AsksAgain(c)

SessionNext ==
    \E c \in Callers :
        \/ \E op \in Ops : Arrives(c, op)
        \/ Steps(c) \/ SignsIn(c) \/ StudioAnswers(c) \/ Dropped(c)

SessionSpec == SessionInit /\ [][SessionNext]_sessionVars

\* The runtime polls what is ready, and Studio answers or the client gives up.
\* Nobody has to ask for anything or to hang up.
SessionFairness ==
    \A c \in Callers :
        WF_sessionVars(Steps(c)) /\ WF_sessionVars(SignsIn(c)) /\ WF_sessionVars(StudioAnswers(c))

-----------------------------------------------------------------------------
(* Properties.                                                             *)

\* Every request that takes the lock ends, whatever else is signed in, signed
\* out or asked of Studio meanwhile, and whoever hangs up in between: a status,
\* which takes the lock twice, does not wait for a login that waits for it.
RequestsEnd == \A c \in Callers : request[c].pc # "idle" ~> request[c].pc = "idle"

\* Projects and user names are given out for the session they were asked in:
\* nobody is signed in or out while Studio is asked for them.
AnsweredInSession ==
    \A c \in Callers : request[c].pc = "asking" => signedIn = request[c].account
=============================================================================
