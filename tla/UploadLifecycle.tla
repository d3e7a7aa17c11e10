------------------------- MODULE UploadLifecycle -------------------------
(***************************************************************************)
(* What an upload promises its user: the state diagram of the upload       *)
(* manager, one independent automaton per upload.  "absent" is an upload   *)
(* the server does not know (not accepted yet, or forgotten by a restart). *)
(* MCUpload shows that the detailed model of src/src/upload.rs             *)
(* implements it when nobody cancels and Studio accepts the file.          *)
(***************************************************************************)
CONSTANT Uploads     \* the uploads a user may ask for

VARIABLES mode,      \* "basic", or "extended": restored to a dataset
          state      \* what GET /api/uploads answers for each upload

Life == {"absent", "queued", "uploading", "processing", "completed", "failed"}
Working == {"queued", "uploading", "processing"}

LifeInit ==
    /\ mode \in [Uploads -> {"basic", "extended"}]
    /\ state = [u \in Uploads |-> "absent"]

Move(u, from, to) ==
    /\ state[u] \in from
    /\ state' = [state EXCEPT ![u] = to]
    /\ UNCHANGED mode

Accept(u)  == Move(u, {"absent"}, "queued")
Begin(u)   == Move(u, {"queued"}, "uploading")
Process(u) == mode[u] = "extended" /\ Move(u, {"uploading"}, "processing")
Complete(u) == Move(u, IF mode[u] = "basic" THEN {"uploading"} ELSE {"processing"}, "completed")
Fail(u)    == Move(u, Working, "failed")

\* A restart forgets everything at once; recovery brings back, one by one,
\* what the status files tell, and never as work in progress.
Restart == state' = [u \in Uploads |-> "absent"] /\ UNCHANGED mode
Recover(u) == \E to \in {"completed", "failed"} : Move(u, {"absent"}, to)

LifeNext ==
    \/ Restart
    \/ \E u \in Uploads : \/ Accept(u) \/ Begin(u) \/ Process(u)
                          \/ Complete(u) \/ Fail(u) \/ Recover(u)

\* Work in progress does not stay in progress.
Progress == \A u \in Uploads : state[u] \in Working ~> state[u] \notin Working

LifeSafe == LifeInit /\ [][LifeNext]_<<mode, state>>
LifeSpec == LifeSafe /\ Progress
=============================================================================
