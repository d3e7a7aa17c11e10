---------------------------- MODULE TopicLiveness ----------------------------
(***************************************************************************)
(* Topic liveliness (src/src/topics.rs): the set of sampled topics, which  *)
(* status requests extend and time shrinks, the sampling task with its     *)
(* cycle and its extra batches, and the bridges of /api/rt, which report   *)
(* what they forward and keep their topic from being sampled.              *)
(*                                                                         *)
(* Time is discrete and every instant is kept as its age.  Time does not   *)
(* pass a deadline that the task is to meet: a late task is what           *)
(* AVAILABILITY_MARGIN is for.  The topics in Steady publish at least once *)
(* per SAMPLE_WINDOW, the others when they like.                           *)
(*                                                                         *)
(* An observer that is no longer in the set is written to by its bridges   *)
(* and samplers and read by no one: it is kept as "orphan", or not held.   *)
(***************************************************************************)
EXTENDS Integers, FiniteSets

CONSTANTS
    Topics,
    Builtin,    \* sampled from start-up
    Steady,     \* topics that publish at least once per Window
    Bridges,    \* connections of /api/rt/<topic>
    NoTopic,
    Refresh, Window, Margin, Expiry,   \* the durations of LivenessConfig
    MaxTopics

ASSUME LivenessAssumption ==
    /\ Builtin \subseteq Topics /\ IsFiniteSet(Builtin) /\ Steady \subseteq Topics /\ NoTopic \notin Topics
    /\ Window \in Nat \ {0} /\ Margin \in Nat /\ Expiry \in Nat
    /\ Refresh \in Nat /\ Refresh > Window
    /\ Window <= Margin
    /\ MaxTopics \in Nat /\ Cardinality(Builtin) <= MaxTopics

VARIABLES
    entry,    \* the set: an entry of each topic
    clock,    \* time until the next cycle is due
    batch,    \* what the task samples: a "cycle", an "extra" batch, "none"
    left,     \* what is left of the batch's window
    sampler,  \* of each topic: a subscriber that writes to the entry's observer,
              \* to an orphan, or none
    permit,   \* the stored permit of wake
    bridge    \* the topic of each bridge, its handle and its silence

vars == <<entry, clock, batch, left, sampler, permit, bridge>>

\* Variant: no time for a bridge to fall silent.
Unmargined == Refresh + Window

AvailabilityWindow == Refresh + Window + Margin

Never == AvailabilityWindow + 2   \* the age of no sighting; one less is any older
Patience == 3 * Window            \* longest wait that is told apart

\* Observations: missed, the last cycle did not look at the topic although no
\* bridge did; wait, since when it is unsampled; excused, for a reason.
Absent == [in |-> FALSE, seen |-> Never, sampled |-> FALSE, requested |-> 0,
           missed |-> FALSE, wait |-> 0, excused |-> FALSE]
Fresh == [Absent EXCEPT !.in = TRUE]
Entry == [in : BOOLEAN, seen : 0..Never, sampled : BOOLEAN, requested : 0..Expiry + 1,
          missed : BOOLEAN, wait : 0..Patience, excused : BOOLEAN]

Unbridged == [topic |-> NoTopic, holds |-> FALSE, quiet |-> 0, forwarded |-> FALSE]
Bridge == [topic : Topics \cup {NoTopic}, holds : BOOLEAN, quiet : 0..Window, forwarded : BOOLEAN]

Sampled == {t \in Topics : entry[t].in}
Running == {t \in Topics : sampler[t] # "none"}

TypeOK ==
    /\ entry \in [Topics -> Entry]
    /\ Builtin \subseteq Sampled /\ Cardinality(Sampled) <= MaxTopics
    /\ clock \in 0..Refresh
    /\ batch \in {"none", "cycle", "extra"}
    /\ left \in 0..Window
    /\ sampler \in [Topics -> {"none", "current", "orphan"}]
    /\ batch = "none" <=> Running = {}
    /\ permit \in BOOLEAN
    /\ bridge \in [Bridges -> Bridge]

Init ==
    /\ entry = [t \in Topics |-> IF t \in Builtin THEN Fresh ELSE Absent]
    /\ clock = 0 /\ batch = "none" /\ left = 0
    /\ sampler = [t \in Topics |-> "none"]
    /\ permit = FALSE
    /\ bridge = [b \in Bridges |-> Unbridged]

-----------------------------------------------------------------------------
(* The set.                                                                *)

Expired == {t \in Sampled \ Builtin : entry[t].requested > Expiry}

Unheld(br) == [Unbridged EXCEPT !.topic = br.topic]

\* Samplers and bridges of removed topics are left with an orphan.
Orphaned(gone) ==
    /\ sampler' = [t \in Topics |->
                     IF t \in gone /\ sampler[t] # "none" THEN "orphan" ELSE sampler[t]]
    /\ bridge' = [b \in Bridges |->
                     IF bridge[b].topic \in gone THEN Unheld(bridge[b]) ELSE bridge[b]]

\* Variant: evict only when the set is over its limit.
OverLimit(kept) == Cardinality(kept) > MaxTopics

Full(kept) == Cardinality(kept) >= MaxTopics

\* The least recently requested.
Oldest(ts) == {t \in ts : \A u \in ts : entry[u].requested <= entry[t].requested}

\* Variant: only a task that is waiting is woken (notify_waiters).
WakesWaiting == permit \/ batch = "none"

\* notify_one stores a permit for a task that is busy.
Wakes == TRUE

\* status without topics: it expires and reports.
StatusAll ==
    /\ Expired # {}
    /\ entry' = [t \in Topics |-> IF t \in Expired THEN Absent ELSE entry[t]]
    /\ Orphaned(Expired)
    /\ UNCHANGED <<clock, batch, left, permit>>

\* status of a topic that is in the set.  One of several topics is several
\* such steps at one instant.
StatusKnown(t) ==
    /\ t \in Sampled \ Expired
    /\ entry' = [u \in Topics |->
                   IF u \in Expired THEN Absent
                   ELSE IF u = t /\ t \notin Builtin THEN [entry[t] EXCEPT !.requested = 0]
                   ELSE entry[u]]
    /\ Orphaned(Expired)
    /\ UNCHANGED <<clock, batch, left, permit>>

\* A new topic is added, in the place of another if need be and if there is one
\* to replace, and the task woken.
StatusNew(t) ==
    LET kept == Sampled \ Expired
        choices == IF Full(kept) THEN {{u} : u \in Oldest(kept \ Builtin)} ELSE {{}}
    IN  /\ t \notin kept
        /\ \E evicted \in choices :
              /\ entry' = [u \in Topics |->
                             IF u = t THEN Fresh
                             ELSE IF u \in Expired \cup evicted THEN Absent
                             ELSE entry[u]]
              /\ Orphaned(Expired \cup evicted)
        /\ permit' = Wakes
        /\ UNCHANGED <<clock, batch, left>>

-----------------------------------------------------------------------------
(* The sampling task.                                                      *)

Holding(t) == {b \in Bridges : bridge[b].topic = t /\ bridge[b].holds}
Pending(t) == ~entry[t].sampled

\* All due topics get a subscriber, but those whose declaration fails.
Batch(what, due, gone, refused) ==
    /\ refused \subseteq due
    /\ sampler' = [t \in Topics |-> IF t \in due \ refused THEN "current" ELSE "none"]
    /\ entry' = [t \in Topics |->
          IF t \in gone THEN Absent
          ELSE [entry[t] EXCEPT
                  !.excused = Pending(t) /\ (@ \/ t \in refused),
                  !.missed = @ \/ /\ what = "cycle" /\ t \in Steady
                                  /\ \/ t \in refused
                                     \/ /\ Holding(t) # {}
                                        /\ \A b \in Holding(t) : ~bridge[b].forwarded]]
    /\ IF due = refused THEN batch' = "none" /\ left' = 0
       ELSE batch' = what /\ left' = Window

Cycle ==
    LET due == {t \in Sampled \ Expired : Holding(t) = {}}
    IN  /\ batch = "none" /\ clock = 0
        /\ \E refused \in SUBSET due : Batch("cycle", due, Expired, refused)
        /\ bridge' = [b \in Bridges |->
                        IF bridge[b].topic \in Expired THEN Unheld(bridge[b]) ELSE bridge[b]]
        /\ clock' = Refresh
        /\ UNCHANGED permit

\* An extra batch must be over when the next cycle is due.
ExtraSamplingFits == clock >= Window

\* A permit that comes too late in the cycle is used up all the same.
Woken ==
    LET due == {t \in Sampled : Holding(t) = {} /\ Pending(t)}
    IN  /\ batch = "none" /\ permit /\ clock > 0
        /\ permit' = FALSE
        /\ IF ExtraSamplingFits
           THEN \E refused \in SUBSET due : Batch("extra", due, {}, refused)
           ELSE UNCHANGED <<entry, batch, left, sampler>>
        /\ UNCHANGED <<clock, bridge>>

\* The task is back when the last of its samplers is.
SamplerEnds(t, e) ==
    /\ sampler' = [sampler EXCEPT ![t] = "none"]
    /\ entry' = IF sampler[t] = "current"
                THEN [entry EXCEPT ![t] = [e EXCEPT !.sampled = TRUE, !.wait = 0, !.excused = FALSE]]
                ELSE entry
    /\ IF Running = {t} THEN batch' = "none" /\ left' = 0 ELSE UNCHANGED <<batch, left>>
    /\ UNCHANGED <<clock, permit, bridge>>

Seen(e) == [e EXCEPT !.seen = 0, !.missed = FALSE]

FirstSample(t) == t \in Running /\ SamplerEnds(t, Seen(entry[t]))

WindowEnds(t) == t \in Running /\ left = 0 /\ t \notin Steady /\ SamplerEnds(t, entry[t])

-----------------------------------------------------------------------------
(* The bridges.                                                            *)

\* A handle is given for a topic that is in the set.
Open(b, t) ==
    /\ bridge[b] = Unbridged
    /\ bridge' = [bridge EXCEPT ![b] = [Unbridged EXCEPT !.topic = t, !.holds = t \in Sampled]]
    /\ entry' = IF t \in Sampled THEN [entry EXCEPT ![t].excused = Pending(t)] ELSE entry
    /\ UNCHANGED <<clock, batch, left, sampler, permit>>

Forwards(b) ==
    LET t == bridge[b].topic
    IN  /\ t # NoTopic
        /\ bridge' = [bridge EXCEPT ![b].quiet = 0, ![b].forwarded = bridge[b].holds]
        /\ entry' = IF bridge[b].holds THEN [entry EXCEPT ![t] = Seen(@)] ELSE entry
        /\ UNCHANGED <<clock, batch, left, sampler, permit>>

Closes(b) ==
    /\ bridge[b] # Unbridged
    /\ bridge' = [bridge EXCEPT ![b] = Unbridged]
    /\ UNCHANGED <<entry, clock, batch, left, sampler, permit>>

-----------------------------------------------------------------------------
(* Time.                                                                   *)

Older(age, cap) == IF age < cap THEN age + 1 ELSE age

\* A steady topic is not silent on a bridge for longer than a window.
SteadilyHeld(b) == bridge[b].topic \in Steady /\ bridge[b].holds

Tick ==
    /\ IF batch = "none" THEN clock > 0 /\ ~permit ELSE left > 0
    /\ \A b \in Bridges : SteadilyHeld(b) => bridge[b].quiet < Window
    /\ clock' = IF clock > 0 THEN clock - 1 ELSE 0
    /\ left' = IF batch = "none" THEN 0 ELSE left - 1
    /\ entry' = [t \in Topics |->
          IF t \notin Sampled THEN entry[t]
          ELSE [entry[t] EXCEPT
                  !.seen = IF @ = Never THEN Never ELSE Older(@, Never - 1),
                  !.requested = IF t \in Builtin THEN 0 ELSE Older(@, Expiry + 1),
                  !.wait = IF Pending(t) /\ ~entry[t].excused THEN Older(@, Patience) ELSE @]]
    /\ bridge' = [b \in Bridges |->
                    IF SteadilyHeld(b) THEN [bridge[b] EXCEPT !.quiet = @ + 1] ELSE bridge[b]]
    /\ UNCHANGED <<batch, sampler, permit>>

Next ==
    \/ StatusAll
    \/ \E t \in Topics : StatusKnown(t) \/ StatusNew(t) \/ FirstSample(t) \/ WindowEnds(t)
    \/ Cycle \/ Woken
    \/ \E b \in Bridges : Forwards(b) \/ Closes(b) \/ \E t \in Topics : Open(b, t)
    \/ Tick

Spec == Init /\ [][Next]_vars

-----------------------------------------------------------------------------
(* Properties.                                                             *)

FromLastSeen(age) == age <= AvailabilityWindow
Available(t) == FromLastSeen(entry[t].seen)

\* A topic that goes on publishing is available from its first sighting on,
\* while it is in the set: a cycle it is left out of is made up for by what its
\* bridge forwarded, even if the bridge closes right after.  Excepted are cycles
\* that could not declare, or that met a bridge too young to have forwarded.
StaysAvailable ==
    \A t \in Steady \cap Sampled :
        entry[t].seen # Never /\ ~entry[t].missed => Available(t)

\* A topic a client asked for is sampled within three windows, whatever the task
\* is doing meanwhile, unless declaring fails or a bridge observes it.
CoveredSoon == \A t \in Sampled : entry[t].wait < 3 * Window

\* The module's comment: "a topic with a live bridge is not sampled".
BridgedNotSampled ==
    [][\A t \in Topics :
          sampler[t] = "none" /\ sampler'[t] = "current" => \A b \in Bridges : bridge[b].topic # t]_vars
=============================================================================
