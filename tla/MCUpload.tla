----------------------------- MODULE MCUpload -----------------------------
(* Instances of Upload for TLC: uploads and recordings are interchangeable. *)
EXTENDS Upload, TLC

UploadSymmetry == Permutations(Uploads) \cup Permutations(Paths)

\* Bound: a behaviour with a kill or a power loss has at most two of the other
\* disturbances.
FewOthers == cancels + shutdowns + faults <= 2
UploadBound == crashes = 0 \/ FewOthers

\* What a status file has held is looked at by a power loss only: within the
\* bounds, states from which none can come differ in nothing that matters.
UploadView ==
    <<server, toScan, toVisit, req, task, start, worker, aborted, prog, chan, job, file,
      IF crashes < MaxCrashes /\ FewOthers THEN held ELSE {}, studio, told, counters>>
=============================================================================
