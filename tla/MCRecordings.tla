---------------------------- MODULE MCRecordings ----------------------------
(***************************************************************************)
(* The recordings, for TLC: the timeline of a file, fed any spans and      *)
(* records (Timeline), or the data of a recording by either of the two     *)
(* readers (McapRead); and the listing of files that are read in the       *)
(* background (McapScan).  The first two have only operators in common,    *)
(* and for the listing what is read in a file is its version: each         *)
(* behaviour follows one of the three.                                     *)
(***************************************************************************)
EXTENDS Timeline, McapRead, McapScan

VARIABLE part  \* what is followed: a timeline "fed", or "recorded", or the "listing"

allVars == <<vars, recordingVars, scanVars, part>>

\* Messages around a gap of 4, and a chunk that is longer than the gap, clear
\* of both ends of time; the records may match a jump, be the smaller part of
\* one, or contradict it.
MCSpans == {[start_ns |-> t, end_ns |-> t] : t \in {80, 88, 92, 104}}
               \cup {[start_ns |-> 96, end_ns |-> 104]}
MCSteps == {-8, 8}

\* Steps far beyond the gap, either way, and one within it; pauses beyond it.
Wide == {-40, 40}
Wide3 == Wide \cup {3}
MCStyles ==
    {Style(TRUE, TRUE, TRUE, TRUE, FullSummary, {1, 12}, Wide3, 1, 4, 1),
     Style(TRUE, TRUE, TRUE, TRUE, FullSummary, {1}, Wide, 1, 4, 2),
     Style(TRUE, TRUE, TRUE, TRUE, FullSummary, {1}, {40}, 2, 4, 1),
     Style(FALSE, TRUE, TRUE, TRUE, FullSummary \ {"metadata indexes"}, {1}, Wide3, 1, 4, 1),
     Style(FALSE, FALSE, TRUE, TRUE, FullSummary \ {"statistics"}, {1}, Wide, 1, 4, 2),
     Style(TRUE, TRUE, FALSE, FALSE, FullSummary, {1, 12}, Wide3, 1, 5, 1)}

NoRecorder == CHOOSE s \in MCStyles : TRUE

MCInit ==
    /\ part \in {"fed", "recorded", "listing"}
    /\ Init /\ RecordingInit /\ ScanInit
    /\ part # "fed" => acc = NewAccumulator(TRUE)
    /\ part # "recorded" => style = NoRecorder
    /\ part # "listing" => thread /\ \A f \in Files : ~Present(f)

MCNext ==
    /\ UNCHANGED part
    /\ \/ part = "fed" /\ Next /\ UNCHANGED <<recordingVars, scanVars>>
       \/ part = "recorded" /\ RecordingNext /\ UNCHANGED <<vars, scanVars>>
       \/ part = "listing" /\ ScanNext /\ UNCHANGED <<vars, recordingVars>>

\* Nothing of the listing is enabled before a file is asked for.
MCSpec == MCInit /\ [][MCNext]_allVars /\ ScanFairness

TypesOK == TypeOK /\ ScanTypeOK
=============================================================================
