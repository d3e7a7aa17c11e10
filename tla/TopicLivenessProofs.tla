------------------------- MODULE TopicLivenessProofs -------------------------
(***************************************************************************)
(* Proofs about TopicLiveness: for any topics, connections and durations   *)
(* that LivenessAssumption allows, a topic that goes on publishing stays   *)
(* available, a requested one is sampled in time, and the set of sampled   *)
(* topics keeps its limit.                                                 *)
(***************************************************************************)
EXTENDS TopicLiveness, FiniteSetTheorems, TLAPS

-----------------------------------------------------------------------------
(* The inductive invariant.                                                *)

\* The types, and the set with its limit.
Typed ==
    /\ entry \in [Topics -> Entry]
    /\ clock \in 0..Refresh /\ left \in 0..Window
    /\ sampler \in [Topics -> {"none", "current", "orphan"}]
    /\ bridge \in [Bridges -> Bridge]
Control ==
    /\ batch \in {"none", "cycle", "extra"}
    /\ batch = "none" <=> Running = {}
    /\ permit \in BOOLEAN
Limited ==
    /\ IsFiniteSet(Sampled)
    /\ Builtin \subseteq Sampled /\ Cardinality(Sampled) <= MaxTopics

\* A bridge holds an observer that is in the set, and what it forwarded was seen.
BridgesHold ==
    \A b \in Bridges :
        /\ bridge[b].holds => bridge[b].topic \in Sampled
        /\ bridge[b].forwarded => bridge[b].holds
        /\ bridge[b].forwarded /\ bridge[b].topic \in Steady
              => entry[bridge[b].topic].seen <= bridge[b].quiet

\* A topic that a bridge holds and nobody sampled is excused.
HeldExcused ==
    \A b \in Bridges :
        bridge[b].holds /\ Pending(bridge[b].topic) => entry[bridge[b].topic].excused

\* A sampler that is no orphan writes to the set, and a batch ends in its cycle.
SamplersWrite == \A t \in Topics : sampler[t] = "current" => t \in Sampled
BatchFits == batch # "none" => left <= clock

\* Since the last cycle a topic was seen by its sampler, or at most a window
\* before by its bridge, unless the cycle still samples it.
SeenInTime(t) ==
    entry[t].seen # Never /\ ~entry[t].missed =>
        IF batch = "cycle" /\ sampler[t] = "current"
        THEN entry[t].seen + left <= Refresh + 2 * Window
        ELSE entry[t].seen + clock <= Refresh + Window

\* A topic that waits is being sampled; or it came in the batch under way, or in
\* none, and the task will be woken; or the cycle comes within a window.
WaitsInTime(t) ==
    /\ entry[t].wait < 3 * Window
    /\ Pending(t) /\ ~entry[t].excused =>
          \/ sampler[t] = "current" /\ entry[t].wait + left < 3 * Window
          \/ batch # "none" /\ permit /\ entry[t].wait + left <= Window
          \/ batch = "none" /\ permit /\ entry[t].wait <= Window
          \/ batch = "none" /\ clock < Window /\ entry[t].wait + clock < 2 * Window

LivenessInv ==
    /\ Typed /\ Control /\ Limited
    /\ BridgesHold /\ HeldExcused /\ SamplersWrite /\ BatchFits
    /\ \A t \in Steady \cap Sampled : SeenInTime(t)
    /\ \A t \in Sampled : WaitsInTime(t)

-----------------------------------------------------------------------------
(* Durations and records.                                                  *)

LEMMA Durations ==
    /\ Window \in Nat /\ Window > 0 /\ Margin \in Nat /\ Refresh \in Nat /\ Expiry \in Nat
    /\ Refresh > Window /\ Window <= Margin /\ MaxTopics \in Nat
    /\ Never \in Nat /\ Never = Refresh + Window + Margin + 2
    /\ Patience \in Nat /\ Patience = 3 * Window
  BY LivenessAssumption DEF Never, AvailabilityWindow, Patience

LEMMA Fields ==
    ASSUME NEW e \in Entry
    PROVE  /\ e.in \in BOOLEAN /\ e.seen \in 0..Never /\ e.seen \in Nat /\ e.sampled \in BOOLEAN
           /\ e.requested \in 0..Expiry + 1 /\ e.missed \in BOOLEAN
           /\ e.wait \in 0..Patience /\ e.wait \in Nat /\ e.excused \in BOOLEAN
  BY Durations DEF Entry

LEMMA Constants ==
    /\ Absent \in Entry /\ Absent.in = FALSE
    /\ Fresh \in Entry /\ Fresh.in = TRUE /\ Fresh.seen = Never /\ Fresh.sampled = FALSE
    /\ Fresh.wait = 0 /\ Fresh.excused = FALSE
    /\ Unbridged \in Bridge /\ Unbridged.holds = FALSE /\ Unbridged.forwarded = FALSE
    /\ Unbridged.topic = NoTopic
  <1>1. 0 \in 0..Expiry + 1 /\ 0 \in 0..Patience /\ Never \in 0..Never /\ 0 \in 0..Window
    BY Durations
  <1>2. Absent \in Entry /\ Absent.in = FALSE
    BY <1>1 DEF Absent, Entry
  <1>3. /\ Fresh \in Entry /\ Fresh.in = TRUE /\ Fresh.seen = Never /\ Fresh.sampled = FALSE
        /\ Fresh.wait = 0 /\ Fresh.excused = FALSE
    BY <1>1 DEF Fresh, Absent, Entry
  <1>4. /\ Unbridged \in Bridge /\ Unbridged.holds = FALSE /\ Unbridged.forwarded = FALSE
        /\ Unbridged.topic = NoTopic
    BY <1>1 DEF Unbridged, Bridge
  <1> QED BY <1>2, <1>3, <1>4

LEMMA UnheldBridge ==
    ASSUME NEW br \in Bridge
    PROVE  /\ Unheld(br) \in Bridge /\ Unheld(br).topic = br.topic
           /\ Unheld(br).holds = FALSE /\ Unheld(br).forwarded = FALSE
  <1> DEFINE x == br.topic
             u == Unbridged
  <1>1. x \in Topics \cup {NoTopic}
    BY DEF Bridge
  <1>2. u \in Bridge /\ u.holds = FALSE /\ u.forwarded = FALSE
    BY Constants
  <1>3. Unheld(br) = [u EXCEPT !.topic = x]
    BY DEF Unheld
  <1> HIDE DEF x, u
  <1>4. /\ [u EXCEPT !.topic = x] \in Bridge /\ [u EXCEPT !.topic = x].topic = x
        /\ [u EXCEPT !.topic = x].holds = u.holds /\ [u EXCEPT !.topic = x].forwarded = u.forwarded
    BY <1>1, <1>2 DEF Bridge
  <1> QED BY <1>2, <1>3, <1>4 DEF x

LEMMA LivenessStarts == Init => LivenessInv
  <1> SUFFICES ASSUME Init PROVE LivenessInv
    OBVIOUS
  <1>1. /\ entry = [t \in Topics |-> IF t \in Builtin THEN Fresh ELSE Absent]
        /\ clock = 0 /\ batch = "none" /\ left = 0 /\ permit = FALSE
        /\ sampler = [t \in Topics |-> "none"] /\ bridge = [b \in Bridges |-> Unbridged]
    BY DEF Init
  <1>2. Typed
    BY <1>1, Constants, Durations DEF Typed
  <1>3. Control
    BY <1>1 DEF Control, Running
  <1>4. Sampled = Builtin
    BY <1>1, Constants, LivenessAssumption DEF Sampled
  <1>5. Limited
    BY <1>4, LivenessAssumption DEF Limited
  <1>6. BridgesHold /\ HeldExcused /\ SamplersWrite /\ BatchFits
    BY <1>1, Constants DEF BridgesHold, HeldExcused, SamplersWrite, BatchFits
  <1>7. ASSUME NEW t \in Sampled PROVE SeenInTime(t) /\ WaitsInTime(t)
    <2>1. entry[t] = Fresh
      BY <1>1, <1>4, LivenessAssumption
    <2> QED BY <1>1, <2>1, Constants, Durations DEF SeenInTime, WaitsInTime
  <1> QED BY <1>2, <1>3, <1>5, <1>6, <1>7 DEF LivenessInv

LEMMA Types ==
    ASSUME LivenessInv
    PROVE  /\ entry \in [Topics -> Entry] /\ \A t \in Topics : entry[t] \in Entry
           /\ clock \in 0..Refresh /\ clock \in Nat /\ left \in 0..Window /\ left \in Nat
           /\ sampler \in [Topics -> {"none", "current", "orphan"}]
           /\ bridge \in [Bridges -> Bridge] /\ \A b \in Bridges : bridge[b] \in Bridge
           /\ Sampled \subseteq Topics /\ \A t \in Topics : t \in Sampled <=> entry[t].in
           /\ permit \in BOOLEAN /\ batch \in {"none", "cycle", "extra"}
  BY Durations DEF LivenessInv, Typed, Control, Sampled

LEMMA BridgeFields ==
    ASSUME NEW br \in Bridge
    PROVE  /\ br.topic \in Topics \cup {NoTopic} /\ br.holds \in BOOLEAN
           /\ br.quiet \in 0..Window /\ br.quiet \in Nat /\ br.forwarded \in BOOLEAN
  BY Durations DEF Bridge

-----------------------------------------------------------------------------
(* The set changes: some topics go, and one may come.                      *)

\* What the time of a topic depends on, apart from its last request.
SameTimes(e, f) ==
    /\ f.in = e.in /\ f.seen = e.seen /\ f.sampled = e.sampled
    /\ f.missed = e.missed /\ f.wait = e.wait /\ f.excused = e.excused

LEMMA SetChanges ==
    ASSUME LivenessInv, NEW gone \in SUBSET Topics, NEW added \in SUBSET Topics,
           entry' \in [Topics -> Entry],
           \A t \in added : entry'[t] = Fresh /\ (t \in Sampled => t \in gone),
           \A t \in gone \ added : entry'[t] = Absent,
           \A t \in Topics \ (gone \cup added) : SameTimes(entry[t], entry'[t]),
           Orphaned(gone), clock' = clock, left' = left, batch' = batch,
           permit' \in BOOLEAN, permit => permit', added # {} => permit',
           Limited'
    PROVE  LivenessInv'
  <1>1. /\ sampler' = [t \in Topics |->
                          IF t \in gone /\ sampler[t] # "none" THEN "orphan" ELSE sampler[t]]
        /\ bridge' = [b \in Bridges |->
                         IF bridge[b].topic \in gone THEN Unheld(bridge[b]) ELSE bridge[b]]
    BY DEF Orphaned
  <1>2. Typed'
    <2>1. sampler' \in [Topics -> {"none", "current", "orphan"}]
      BY <1>1, Types
    <2>2. bridge' \in [Bridges -> Bridge]
      BY <1>1, Types, UnheldBridge
    <2> QED BY <2>1, <2>2, Types DEF Typed
  <1>3. Control'
    <2>1. \A t \in Topics : sampler'[t] # "none" <=> sampler[t] # "none"
      BY <1>1
    <2>2. Running' = Running
      BY <2>1 DEF Running
    <2> QED BY <2>2 DEF LivenessInv, Control
  <1>4. ASSUME NEW t \in Sampled, t \notin gone
        PROVE  t \in Sampled' /\ SameTimes(entry[t], entry'[t])
    BY <1>4, Types DEF Sampled, SameTimes
  <1>5. ASSUME NEW t \in Sampled'
        PROVE  \/ t \in added /\ entry'[t] = Fresh
               \/ t \in Sampled \ gone /\ SameTimes(entry[t], entry'[t])
    BY <1>5, Types, Constants DEF Sampled, SameTimes
  <1>6. ASSUME NEW b \in Bridges, bridge'[b].holds \/ bridge'[b].forwarded
        PROVE  /\ bridge'[b] = bridge[b] /\ bridge[b].topic \in Sampled \ gone
               /\ SameTimes(entry[bridge[b].topic], entry'[bridge[b].topic])
    <2>1. bridge'[b] = bridge[b] /\ bridge[b].topic \notin gone
      BY <1>1, <1>6, Types, UnheldBridge
    <2>2. bridge[b].topic \in Sampled
      BY <1>6, <2>1 DEF LivenessInv, BridgesHold
    <2> QED BY <1>4, <2>1, <2>2
  <1>7. BridgesHold'
    <2> SUFFICES ASSUME NEW b \in Bridges
                 PROVE  /\ bridge'[b].holds => bridge'[b].topic \in Sampled'
                        /\ bridge'[b].forwarded => bridge'[b].holds
                        /\ bridge'[b].forwarded /\ bridge'[b].topic \in Steady
                              => entry'[bridge'[b].topic].seen <= bridge'[b].quiet
      BY DEF BridgesHold
    <2> QED BY <1>4, <1>6 DEF LivenessInv, BridgesHold, SameTimes
  <1>8. HeldExcused'
    BY <1>6 DEF LivenessInv, HeldExcused, SameTimes, Pending
  <1>9. SamplersWrite'
    BY <1>1, <1>4 DEF LivenessInv, SamplersWrite
  <1>10. BatchFits'
    BY DEF LivenessInv, BatchFits
  <1>11. ASSUME NEW t \in Sampled', t \in Steady PROVE SeenInTime(t)'
    <2>1. CASE entry'[t] = Fresh
      BY <2>1, Constants DEF SeenInTime
    <2>2. CASE t \in Sampled \ gone /\ SameTimes(entry[t], entry'[t])
      <3>1. SeenInTime(t) /\ t \in Topics
        BY <1>11, <2>2, Types DEF LivenessInv
      <3>2. sampler'[t] = sampler[t]
        BY <1>1, <2>2, <3>1
      <3> QED BY <2>2, <3>1, <3>2 DEF SeenInTime, SameTimes
    <2> QED BY <1>5, <2>1, <2>2
  <1>12. ASSUME NEW t \in Sampled' PROVE WaitsInTime(t)'
    <2>1. CASE entry'[t] = Fresh /\ t \in added
      <3>1. /\ permit' /\ entry'[t].wait = 0 /\ entry'[t].wait < 3 * Window
            /\ left' \in Nat /\ left' <= Window
        BY <2>1, Constants, Durations, Types
      <3>2. entry'[t].wait + left' <= Window /\ entry'[t].wait <= Window
        BY <3>1, Durations
      <3> QED BY <3>1, <3>2 DEF WaitsInTime
    <2>2. CASE t \in Sampled \ gone /\ SameTimes(entry[t], entry'[t])
      <3>1. WaitsInTime(t) /\ t \in Topics
        BY <2>2, Types DEF LivenessInv
      <3>2. sampler'[t] = sampler[t]
        BY <1>1, <2>2, <3>1
      <3> QED BY <2>2, <3>1, <3>2 DEF WaitsInTime, SameTimes, Pending
    <2> QED BY <1>5, <2>1, <2>2
  <1> QED BY <1>2, <1>3, <1>7, <1>8, <1>9, <1>10, <1>11, <1>12 DEF LivenessInv

LEMMA RequestedAgain ==
    ASSUME NEW e \in Entry, NEW n \in 0..Expiry + 1
    PROVE  /\ [e EXCEPT !.requested = n] \in Entry
           /\ SameTimes(e, [e EXCEPT !.requested = n])
  <1> DEFINE f == [e EXCEPT !.requested = n]
  <1>1. f \in Entry /\ SameTimes(e, f)
    BY DEF Entry, SameTimes
  <1> QED BY <1>1

LEMMA Subset ==
    ASSUME LivenessInv, NEW s \in SUBSET Sampled
    PROVE  IsFiniteSet(s) /\ Cardinality(s) \in Nat /\ Cardinality(s) <= MaxTopics
  <1>1. IsFiniteSet(Sampled) /\ Cardinality(Sampled) <= MaxTopics
    BY DEF LivenessInv, Limited
  <1>2. IsFiniteSet(s) /\ Cardinality(s) <= Cardinality(Sampled)
    BY <1>1, FS_Subset
  <1>3. Cardinality(s) \in Nat /\ Cardinality(Sampled) \in Nat
    BY <1>1, <1>2, FS_CardinalityType
  <1> QED BY <1>1, <1>2, <1>3, Durations

LEMMA StatusAllKeeps ==
    ASSUME LivenessInv, StatusAll
    PROVE  LivenessInv'
  <1>1. /\ entry' = [t \in Topics |-> IF t \in Expired THEN Absent ELSE entry[t]]
        /\ Orphaned(Expired)
        /\ clock' = clock /\ batch' = batch /\ left' = left /\ permit' = permit
    BY DEF StatusAll
  <1>2. Expired \in SUBSET Topics /\ Expired \cap Builtin = {}
    BY Types DEF Expired
  <1>3. entry' \in [Topics -> Entry]
    BY <1>1, Types, Constants
  <1>4. Limited'
    <2>1. Sampled' \subseteq Sampled
      BY <1>1, Constants DEF Sampled
    <2>2. Builtin \subseteq Sampled'
      BY <1>1, <1>2, LivenessAssumption DEF LivenessInv, Limited, Sampled
    <2> QED BY <2>1, <2>2, Subset DEF Limited
  <1>5. \A t \in Topics \ Expired : SameTimes(entry[t], entry'[t])
    BY <1>1 DEF SameTimes
  <1>6. permit' \in BOOLEAN
    BY <1>1, Types
  <1>7. \A t \in Expired : entry'[t] = Absent
    BY <1>1, <1>2
  <1> DEFINE none == {}
  <1>8. none \in SUBSET Topics
    OBVIOUS
  <1> QED BY <1>1, <1>2, <1>3, <1>4, <1>5, <1>6, <1>7, <1>8, SetChanges

LEMMA StatusKnownKeeps ==
    ASSUME LivenessInv, NEW t \in Topics, StatusKnown(t)
    PROVE  LivenessInv'
  <1>1. /\ t \in Sampled \ Expired
        /\ entry' = [u \in Topics |->
                        IF u \in Expired THEN Absent
                        ELSE IF u = t /\ t \notin Builtin THEN [entry[t] EXCEPT !.requested = 0]
                        ELSE entry[u]]
        /\ Orphaned(Expired)
        /\ clock' = clock /\ batch' = batch /\ left' = left /\ permit' = permit
    BY DEF StatusKnown
  <1>2. Expired \in SUBSET Topics /\ Expired \cap Builtin = {}
    BY Types DEF Expired
  <1>3. \A u \in Topics \ Expired : entry'[u] \in Entry /\ SameTimes(entry[u], entry'[u])
    <2>1. /\ [entry[t] EXCEPT !.requested = 0] \in Entry
          /\ SameTimes(entry[t], [entry[t] EXCEPT !.requested = 0])
      <3>1. entry[t] \in Entry /\ 0 \in 0..Expiry + 1
        BY Types, Durations
      <3> QED BY <3>1, RequestedAgain
    <2>2. \A u \in Topics : SameTimes(entry[u], entry[u])
      BY DEF SameTimes
    <2> QED BY <1>1, <2>1, <2>2, Types
  <1>4. entry' \in [Topics -> Entry]
    BY <1>1, <1>2, <1>3, Constants
  <1>5. Limited'
    <2>1. Sampled' \subseteq Sampled
      BY <1>1, <1>3, Constants DEF Sampled, SameTimes
    <2>2. Builtin \subseteq Sampled'
      BY <1>2, <1>3, LivenessAssumption DEF LivenessInv, Limited, Sampled, SameTimes
    <2> QED BY <2>1, <2>2, Subset DEF Limited
  <1>6. permit' \in BOOLEAN
    BY <1>1, Types
  <1>7. \A u \in Expired : entry'[u] = Absent
    BY <1>1, <1>2
  <1> DEFINE none == {}
  <1>8. none \in SUBSET Topics
    OBVIOUS
  <1> QED BY <1>1, <1>2, <1>3, <1>4, <1>5, <1>6, <1>7, <1>8, SetChanges

\* A topic takes the place of another when the set is full.
LEMMA StatusNewKeeps ==
    ASSUME LivenessInv, NEW t \in Topics, StatusNew(t)
    PROVE  LivenessInv'
  <1> DEFINE kept == Sampled \ Expired
             choices == IF Full(kept) THEN {{u} : u \in Oldest(kept \ Builtin)} ELSE {{}}
  <1>1. /\ t \notin kept /\ permit' = TRUE
        /\ clock' = clock /\ batch' = batch /\ left' = left
    BY DEF StatusNew, Wakes
  <1>2. PICK evicted \in choices :
              /\ entry' = [u \in Topics |->
                             IF u = t THEN Fresh
                             ELSE IF u \in Expired \cup evicted THEN Absent
                             ELSE entry[u]]
              /\ Orphaned(Expired \cup evicted)
    BY DEF StatusNew
  <1>3. /\ evicted \subseteq kept \ Builtin
        /\ Full(kept) => \E u \in kept : evicted = {u}
    BY <1>2 DEF Oldest
  <1> DEFINE gone == Expired \cup evicted
             added == {t}
  <1>4. gone \in SUBSET Topics /\ added \in SUBSET Topics /\ gone \cap Builtin = {}
    BY <1>3, Types DEF Expired
  <1>5. entry' \in [Topics -> Entry]
    BY <1>2, Types, Constants
  <1>6. /\ \A u \in added : entry'[u] = Fresh /\ (u \in Sampled => u \in gone)
        /\ \A u \in gone \ added : entry'[u] = Absent
        /\ \A u \in Topics \ (gone \cup added) : entry'[u] = entry[u]
    BY <1>1, <1>2, <1>4
  <1>7. Sampled' = (kept \ evicted) \cup {t}
    BY <1>2, <1>3, <1>6, Constants, Types DEF Sampled
  <1>8. Limited'
    <2>1. Builtin \subseteq Sampled'
      BY <1>4, <1>7, LivenessAssumption DEF LivenessInv, Limited
    <2> DEFINE rest == kept \ evicted
    <2>2. kept \in SUBSET Sampled /\ rest \in SUBSET Sampled
      OBVIOUS
    <2>3. /\ IsFiniteSet(kept) /\ Cardinality(kept) \in Nat /\ Cardinality(kept) <= MaxTopics
          /\ IsFiniteSet(rest) /\ Cardinality(rest) \in Nat /\ Cardinality(rest) <= MaxTopics
      BY <2>2, Subset
    <2>4. t \notin rest
      BY <1>1
    <2>5. IsFiniteSet(rest \cup {t}) /\ Cardinality(rest \cup {t}) = Cardinality(rest) + 1
      BY <2>3, <2>4, FS_AddElement
    <2>6. Cardinality(rest) < MaxTopics
      <3>1. CASE Full(kept)
        <4>1. PICK u \in kept : evicted = {u}
          BY <1>3, <3>1
        <4>2. rest = kept \ {u}
          BY <4>1
        <4>3. Cardinality(kept \ {u}) = Cardinality(kept) - 1
          BY <2>3, FS_RemoveElement
        <4> HIDE DEF kept, rest
        <4> QED BY <2>3, <4>2, <4>3, Durations
      <3>2. CASE ~Full(kept)
        <4>1. rest \subseteq kept
          OBVIOUS
        <4>2. Cardinality(rest) <= Cardinality(kept)
          BY <2>3, <4>1, FS_Subset
        <4>3. Cardinality(kept) < MaxTopics
          BY <2>3, <3>2, Durations DEF Full
        <4> HIDE DEF kept, rest
        <4> QED BY <2>3, <4>2, <4>3, Durations
      <3> QED BY <3>1, <3>2
    <2>7. Cardinality(rest) + 1 <= MaxTopics
      <3> HIDE DEF rest
      <3> QED BY <2>3, <2>6, Durations
    <2> QED BY <1>7, <2>1, <2>5, <2>7 DEF Limited
  <1>9. \A u \in Topics \ (gone \cup added) : SameTimes(entry[u], entry'[u])
    BY <1>6 DEF SameTimes
  <1>10. Orphaned(gone) /\ permit' \in BOOLEAN
    BY <1>1, <1>2
  <1> HIDE DEF gone, added
  <1> QED BY <1>1, <1>4, <1>5, <1>6, <1>8, <1>9, <1>10, SetChanges

-----------------------------------------------------------------------------
(* A batch starts.                                                         *)

\* What a batch leaves of an entry, with the two observations.
BatchOf(e, f, excused, missed) ==
    /\ f.in = e.in /\ f.seen = e.seen /\ f.sampled = e.sampled /\ f.wait = e.wait
    /\ f.excused = excused /\ f.missed = missed

LEMMA BatchEntry ==
    ASSUME NEW e \in Entry, NEW x \in BOOLEAN, NEW y \in BOOLEAN
    PROVE  /\ [e EXCEPT !.excused = x, !.missed = y] \in Entry
           /\ BatchOf(e, [e EXCEPT !.excused = x, !.missed = y], x, y)
  <1>1. [e EXCEPT !.excused = x, !.missed = y] \in Entry
    BY DEF Entry
  <1>2. BatchOf(e, [e EXCEPT !.excused = x, !.missed = y], x, y)
    BY DEF Entry, BatchOf
  <1> QED BY <1>1, <1>2

\* The bridges of a topic saw nothing of it.
Overlooked(t) == Holding(t) # {} /\ \A b \in Holding(t) : ~bridge[b].forwarded

LEMMA BatchEntries ==
    ASSUME LivenessInv, NEW what, NEW due, NEW gone, NEW refused,
           Batch(what, due, gone, refused)
    PROVE  /\ \A t \in Topics \ gone :
                 /\ entry'[t] \in Entry
                 /\ BatchOf(entry[t], entry'[t],
                            Pending(t) /\ (entry[t].excused \/ t \in refused),
                            entry[t].missed \/ (/\ what = "cycle" /\ t \in Steady
                                                /\ (t \in refused \/ Overlooked(t))))
           /\ \A t \in gone \cap Topics : entry'[t] = Absent
           /\ entry' \in [Topics -> Entry]
           /\ sampler' = [t \in Topics |-> IF t \in due \ refused THEN "current" ELSE "none"]
           /\ refused \subseteq due
           /\ due = refused => batch' = "none" /\ left' = 0
           /\ due # refused => batch' = what /\ left' = Window
  <1>1. ASSUME NEW t \in Topics, t \notin gone
        PROVE  /\ entry'[t] \in Entry
               /\ BatchOf(entry[t], entry'[t],
                          Pending(t) /\ (entry[t].excused \/ t \in refused),
                          entry[t].missed \/ (/\ what = "cycle" /\ t \in Steady
                                              /\ (t \in refused \/ Overlooked(t))))
    <2> DEFINE x == Pending(t) /\ (entry[t].excused \/ t \in refused)
               y == entry[t].missed \/ (/\ what = "cycle" /\ t \in Steady
                                        /\ (t \in refused \/ Overlooked(t)))
    <2>1. entry'[t] = [entry[t] EXCEPT !.excused = x, !.missed = y]
      BY <1>1, Zenon DEF Batch, Overlooked
    <2>2. entry[t] \in Entry
      BY Types
    <2>3. x \in BOOLEAN /\ y \in BOOLEAN
      OBVIOUS
    <2> HIDE DEF x, y
    <2>4. entry'[t] \in Entry /\ BatchOf(entry[t], entry'[t], x, y)
      BY <2>1, <2>2, <2>3, BatchEntry
    <2> QED BY <2>4 DEF x, y
  <1>2. \A t \in gone \cap Topics : entry'[t] = Absent
    BY DEF Batch
  <1>3. entry' = [t \in Topics |-> entry'[t]]
    BY Zenon DEF Batch
  <1>4. entry' \in [Topics -> Entry]
    BY <1>1, <1>2, <1>3, Constants
  <1>5. /\ sampler' = [t \in Topics |-> IF t \in due \ refused THEN "current" ELSE "none"]
        /\ refused \subseteq due
        /\ due = refused => batch' = "none" /\ left' = 0
        /\ due # refused => batch' = what /\ left' = Window
    BY DEF Batch
  <1> QED BY <1>1, <1>2, <1>4, <1>5

\* What a batch keeps, whatever made it start, but for the times.
LEMMA BatchKeeps ==
    ASSUME LivenessInv, batch = "none", NEW what \in {"cycle", "extra"}, NEW due, NEW gone, NEW refused,
           Batch(what, due, gone, refused),
           gone \subseteq Sampled \ Builtin, due \subseteq Sampled \ gone,
           bridge' = [b \in Bridges |->
                         IF bridge[b].topic \in gone THEN Unheld(bridge[b]) ELSE bridge[b]],
           clock' \in 0..Refresh, Window <= clock', permit' \in BOOLEAN
    PROVE  /\ Typed' /\ Control' /\ Limited'
           /\ BridgesHold' /\ HeldExcused' /\ SamplersWrite' /\ BatchFits'
           /\ \A t \in Topics : t \in Sampled' <=> t \in Sampled \ gone
  <1>1. /\ gone \subseteq Topics /\ due \subseteq Topics /\ gone \cap Topics = gone
        /\ refused \subseteq due
    BY Types, BatchEntries
  <1>2. /\ sampler' = [t \in Topics |-> IF t \in due \ refused THEN "current" ELSE "none"]
        /\ due = refused => batch' = "none" /\ left' = 0
        /\ due # refused => batch' = what /\ left' = Window
    BY BatchEntries
  <1>3. \A t \in Topics : t \in Sampled' <=> t \in Sampled \ gone
    <2>1. ASSUME NEW t \in Topics, t \in gone PROVE t \notin Sampled'
      <3>1. entry'[t] = Absent
        BY <2>1, BatchEntries
      <3> QED BY <3>1, Constants DEF Sampled
    <2>2. ASSUME NEW t \in Topics, t \notin gone PROVE t \in Sampled' <=> t \in Sampled
      <3>1. entry'[t].in = entry[t].in
        BY <2>2, BatchEntries DEF BatchOf
      <3> QED BY <3>1 DEF Sampled
    <2> QED BY <2>1, <2>2
  <1>4. Typed'
    <2>1. bridge' \in [Bridges -> Bridge]
      BY Types, UnheldBridge
    <2>2. left' \in 0..Window
      BY <1>2, Durations
    <2>3. entry' \in [Topics -> Entry]
      BY BatchEntries
    <2>4. sampler' \in [Topics -> {"none", "current", "orphan"}]
      BY <1>2
    <2> QED BY <2>1, <2>2, <2>3, <2>4 DEF Typed
  <1>5. Control'
    <2>1. Running' = due \ refused
      BY <1>1, <1>2 DEF Running
    <2>2. batch' = "none" <=> Running' = {}
      BY <1>1, <1>2, <2>1
    <2> QED BY <1>2, <2>2 DEF Control
  <1>6. Limited'
    <2>1. Sampled' = Sampled \ gone
      BY <1>3 DEF Sampled
    <2>2. Builtin \subseteq Sampled'
      BY <2>1 DEF LivenessInv, Limited
    <2>3. Sampled' \in SUBSET Sampled
      BY <2>1
    <2> QED BY <2>2, <2>3, Subset DEF Limited
  <1>7. ASSUME NEW b \in Bridges, bridge'[b].holds \/ bridge'[b].forwarded
        PROVE  /\ bridge'[b] = bridge[b] /\ bridge[b].topic \in Sampled \ gone
               /\ bridge[b].holds
    <2>1. bridge'[b] = bridge[b] /\ bridge[b].topic \notin gone
      BY <1>7, Types, UnheldBridge
    <2>2. bridge[b].holds /\ bridge[b].topic \in Sampled
      BY <1>7, <2>1 DEF LivenessInv, BridgesHold
    <2> QED BY <2>1, <2>2
  <1>8. BridgesHold'
    <2> SUFFICES ASSUME NEW b \in Bridges
                 PROVE  /\ bridge'[b].holds => bridge'[b].topic \in Sampled'
                        /\ bridge'[b].forwarded => bridge'[b].holds
                        /\ bridge'[b].forwarded /\ bridge'[b].topic \in Steady
                              => entry'[bridge'[b].topic].seen <= bridge'[b].quiet
      BY DEF BridgesHold
    <2>1. bridge'[b].holds => bridge'[b].topic \in Sampled'
      BY <1>3, <1>7, Types
    <2>2. bridge'[b].forwarded => bridge'[b].holds
      BY <1>7
    <2>3. ASSUME bridge'[b].forwarded, bridge'[b].topic \in Steady
          PROVE  entry'[bridge'[b].topic].seen <= bridge'[b].quiet
      <3>1. bridge'[b] = bridge[b] /\ bridge[b].topic \in Topics \ gone
        BY <1>7, <2>3, Types
      <3>2. entry'[bridge[b].topic].seen = entry[bridge[b].topic].seen
        BY <3>1, BatchEntries DEF BatchOf
      <3> QED BY <2>3, <3>1, <3>2 DEF LivenessInv, BridgesHold
    <2> QED BY <2>1, <2>2, <2>3
  <1>9. HeldExcused'
    <2> SUFFICES ASSUME NEW b \in Bridges, bridge'[b].holds, ~entry'[bridge'[b].topic].sampled
                 PROVE  entry'[bridge'[b].topic].excused
      BY DEF HeldExcused, Pending
    <2> DEFINE t == bridge[b].topic
    <2>1. bridge'[b] = bridge[b] /\ bridge[b].holds /\ t \in Topics \ gone
      BY <1>7, Types
    <2>2. /\ entry'[t].sampled = entry[t].sampled
          /\ entry'[t].excused = (Pending(t) /\ (entry[t].excused \/ t \in refused))
      BY <2>1, BatchEntries DEF BatchOf
    <2>3. ~entry[t].sampled
      BY <2>1, <2>2
    <2>4. entry[t].excused
      BY <2>1, <2>3 DEF LivenessInv, HeldExcused, Pending
    <2> QED BY <2>1, <2>2, <2>3, <2>4 DEF Pending
  <1>10. SamplersWrite'
    BY <1>1, <1>2, <1>3 DEF SamplersWrite
  <1>11. BatchFits'
    BY <1>2, Durations DEF BatchFits
  <1> QED BY <1>3, <1>4, <1>5, <1>6, <1>8, <1>9, <1>10, <1>11

\* A topic that is sampled or not by the task: the task is idle.
LEMMA IdleTask ==
    ASSUME LivenessInv, batch = "none", NEW t \in Sampled
    PROVE  /\ t \in Topics /\ sampler[t] = "none"
           /\ t \in Steady /\ entry[t].seen # Never /\ ~entry[t].missed
                 => entry[t].seen + clock <= Refresh + Window
           /\ entry[t].wait < 3 * Window
           /\ Pending(t) /\ ~entry[t].excused =>
                 \/ permit /\ entry[t].wait <= Window
                 \/ clock < Window /\ entry[t].wait + clock < 2 * Window
  <1>1. t \in Topics
    BY Types
  <1>2. sampler[t] = "none"
    BY <1>1 DEF LivenessInv, Control, Running
  <1>3. WaitsInTime(t) /\ (t \in Steady => SeenInTime(t))
    BY DEF LivenessInv
  <1> QED BY <1>1, <1>2, <1>3 DEF WaitsInTime, SeenInTime

LEMMA CycleKeeps ==
    ASSUME LivenessInv, Cycle
    PROVE  LivenessInv'
  <1> DEFINE gone == Expired
             due == {t \in Sampled \ Expired : Holding(t) = {}}
  <1>1. /\ batch = "none" /\ clock = 0
        /\ bridge' = [b \in Bridges |->
                         IF bridge[b].topic \in gone THEN Unheld(bridge[b]) ELSE bridge[b]]
        /\ clock' = Refresh /\ permit' = permit
    BY DEF Cycle
  <1>2. PICK refused \in SUBSET due : Batch("cycle", due, gone, refused)
    BY DEF Cycle
  <1>3. /\ gone \subseteq Sampled \ Builtin /\ due \subseteq Sampled \ gone
        /\ clock' \in 0..Refresh /\ Window <= clock' /\ permit' \in BOOLEAN
    BY <1>1, Types, Durations DEF Expired
  <1>4. \A t \in Sampled \ gone : t \in due <=> Holding(t) = {}
    OBVIOUS
  <1> HIDE DEF gone, due
  <1> DEFINE what == "cycle"
  <1>5. what \in {"cycle", "extra"} /\ what = "cycle" /\ Batch(what, due, gone, refused)
    BY <1>2
  <1> HIDE DEF what
  <1>6. /\ Typed' /\ Control' /\ Limited'
        /\ BridgesHold' /\ HeldExcused' /\ SamplersWrite' /\ BatchFits'
        /\ \A t \in Topics : t \in Sampled' <=> t \in Sampled \ gone
    BY <1>1, <1>3, <1>5, BatchKeeps
  <1>7. ASSUME NEW t \in Sampled'
        PROVE  /\ t \in Sampled \ gone /\ t \in Topics
               /\ BatchOf(entry[t], entry'[t],
                          Pending(t) /\ (entry[t].excused \/ t \in refused),
                          entry[t].missed \/ (/\ what = "cycle" /\ t \in Steady
                                              /\ (t \in refused \/ Overlooked(t))))
               /\ t \in due \ refused =>
                     sampler'[t] = "current" /\ batch' = "cycle" /\ left' = Window
               /\ t \notin due \ refused => sampler'[t] = "none"
    <2>1. t \in Topics
      BY DEF Sampled
    <2>2. t \in Sampled \ gone
      BY <1>6, <2>1
    <2> QED BY <1>5, <2>1, <2>2, BatchEntries
  <1>8. ASSUME NEW t \in Sampled', t \in Steady PROVE SeenInTime(t)'
    <2> SUFFICES ASSUME entry'[t].seen # Never, ~entry'[t].missed
                 PROVE  IF batch' = "cycle" /\ sampler'[t] = "current"
                        THEN entry'[t].seen + left' <= Refresh + 2 * Window
                        ELSE entry'[t].seen + clock' <= Refresh + Window
      BY DEF SeenInTime
    <2>1. /\ entry'[t].seen = entry[t].seen /\ ~entry[t].missed
          /\ t \notin refused /\ ~Overlooked(t)
      BY <1>5, <1>7, <1>8 DEF BatchOf
    <2>2. entry[t].seen \in Nat
      BY <1>7, Types, Fields
    <2>3. CASE t \in due
      <3>1. entry[t].seen + clock <= Refresh + Window
        BY <1>1, <1>7, <1>8, <2>1, IdleTask
      <3>2. entry'[t].seen + Window <= Refresh + 2 * Window
        BY <1>1, <2>1, <2>2, <3>1, Durations
      <3> QED BY <1>7, <2>1, <2>3, <3>2
    <2>4. CASE t \notin due
      <3>1. PICK b \in Holding(t) : bridge[b].forwarded
        BY <1>4, <1>7, <2>1, <2>4 DEF Overlooked
      <3>2. b \in Bridges /\ bridge[b].topic = t
        BY DEF Holding
      <3>3. entry[t].seen <= bridge[b].quiet
        BY <1>8, <3>1, <3>2 DEF LivenessInv, BridgesHold
      <3>4. bridge[b].quiet \in 0..Window
        BY <3>2, Types, BridgeFields
      <3>5. entry'[t].seen + Refresh <= Refresh + Window
        BY <2>1, <2>2, <3>3, <3>4, Durations
      <3>6. sampler'[t] = "none"
        BY <1>7, <2>4
      <3> QED BY <1>1, <3>5, <3>6
    <2> QED BY <2>3, <2>4
  <1>9. ASSUME NEW t \in Sampled' PROVE WaitsInTime(t)'
    <2>1. entry'[t].wait = entry[t].wait /\ entry[t].wait < 3 * Window /\ entry[t].wait \in Nat
      BY <1>1, <1>7, IdleTask, Types, Fields DEF BatchOf
    <2>2. ASSUME ~entry'[t].sampled, ~entry'[t].excused
          PROVE  sampler'[t] = "current" /\ entry'[t].wait + left' < 3 * Window
      <3>1. Pending(t) /\ ~entry[t].excused /\ t \notin refused
        BY <1>7, <2>2 DEF BatchOf, Pending
      <3>2. Holding(t) = {}
        BY <3>1 DEF LivenessInv, HeldExcused, Holding
      <3>3. t \in due \ refused
        BY <1>4, <1>7, <3>1, <3>2
      <3>4. sampler'[t] = "current" /\ left' = Window
        BY <1>7, <3>3
      <3>5. entry[t].wait <= Window \/ entry[t].wait + clock < 2 * Window
        BY <1>1, <1>7, <3>1, IdleTask
      <3>6. entry[t].wait + Window < 3 * Window
        BY <1>1, <2>1, <3>5, Durations
      <3> QED BY <2>1, <3>4, <3>6
    <2> QED BY <2>1, <2>2 DEF WaitsInTime, Pending
  <1> QED BY <1>6, <1>8, <1>9 DEF LivenessInv

\* A late permit is used up, and the cycle is less than a window away.
LEMMA LatePermit ==
    ASSUME LivenessInv, batch = "none", permit, ~ExtraSamplingFits, permit' = FALSE,
           UNCHANGED <<entry, batch, left, sampler, clock, bridge>>
    PROVE  LivenessInv'
  <1>1. Typed' /\ Control' /\ Limited'
    BY DEF LivenessInv, Typed, Control, Limited, Running, Sampled
  <1>2. BridgesHold' /\ HeldExcused' /\ SamplersWrite' /\ BatchFits'
    BY DEF LivenessInv, BridgesHold, HeldExcused, SamplersWrite, BatchFits, Pending, Sampled
  <1>3. Sampled' = Sampled
    BY DEF Sampled
  <1>4. ASSUME NEW t \in Sampled, t \in Steady PROVE SeenInTime(t)'
    BY <1>4 DEF LivenessInv, SeenInTime
  <1>5. ASSUME NEW t \in Sampled PROVE WaitsInTime(t)'
    <2>1. entry[t].wait \in Nat /\ entry[t].wait < 3 * Window
      BY IdleTask, Types, Fields
    <2>2. clock < Window /\ clock \in Nat
      BY Types, Durations DEF ExtraSamplingFits
    <2>3. ASSUME ~entry[t].sampled, ~entry[t].excused
          PROVE  entry[t].wait + clock < 2 * Window
      <3>1. entry[t].wait <= Window \/ entry[t].wait + clock < 2 * Window
        BY <2>3, IdleTask DEF Pending
      <3> QED BY <2>1, <2>2, <3>1, Durations
    <2> QED BY <2>1, <2>2, <2>3 DEF WaitsInTime, Pending
  <1> QED BY <1>1, <1>2, <1>3, <1>4, <1>5 DEF LivenessInv

LEMMA WokenKeeps ==
    ASSUME LivenessInv, Woken
    PROVE  LivenessInv'
  <1> DEFINE due == {t \in Sampled : Holding(t) = {} /\ Pending(t)}
  <1>1. /\ batch = "none" /\ permit /\ permit' = FALSE
        /\ clock' = clock /\ bridge' = bridge
    BY DEF Woken
  <1>2. CASE ~ExtraSamplingFits
    <2>1. UNCHANGED <<entry, batch, left, sampler, clock, bridge>>
      BY <1>2 DEF Woken
    <2> QED BY <1>1, <1>2, <2>1, LatePermit
  <1>3. CASE ExtraSamplingFits
    <2>1. PICK refused \in SUBSET due : Batch("extra", due, {}, refused)
      BY <1>3 DEF Woken
    <2> DEFINE gone == {}
               what == "extra"
    <2>2. /\ gone \subseteq Sampled \ Builtin /\ due \subseteq Sampled \ gone
          /\ clock' \in 0..Refresh /\ Window <= clock' /\ permit' \in BOOLEAN
      BY <1>1, <1>3, Types, Durations DEF ExtraSamplingFits
    <2>3. bridge' = [b \in Bridges |->
                        IF bridge[b].topic \in gone THEN Unheld(bridge[b]) ELSE bridge[b]]
      BY <1>1, Types
    <2>4. what \in {"cycle", "extra"} /\ what = "extra" /\ Batch(what, due, gone, refused)
      BY <2>1
    <2>5. \A t \in Sampled : t \in due <=> Holding(t) = {} /\ Pending(t)
      OBVIOUS
    <2>6. Sampled \ gone = Sampled /\ \A t : t \notin gone
      OBVIOUS
    <2> HIDE DEF due, gone, what
    <2>7. /\ Typed' /\ Control' /\ Limited'
          /\ BridgesHold' /\ HeldExcused' /\ SamplersWrite' /\ BatchFits'
          /\ \A t \in Topics : t \in Sampled' <=> t \in Sampled \ gone
      BY <1>1, <2>2, <2>3, <2>4, BatchKeeps
    <2>8. ASSUME NEW t \in Sampled'
          PROVE  /\ t \in Sampled /\ t \in Topics
                 /\ BatchOf(entry[t], entry'[t],
                            Pending(t) /\ (entry[t].excused \/ t \in refused),
                            entry[t].missed)
                 /\ t \in due \ refused => sampler'[t] = "current" /\ left' = Window
                 /\ batch' # "cycle"
      <3>1. t \in Topics
        BY DEF Sampled
      <3>2. t \in Sampled
        BY <2>6, <2>7, <3>1
      <3>3. BatchOf(entry[t], entry'[t],
                    Pending(t) /\ (entry[t].excused \/ t \in refused),
                    entry[t].missed \/ (/\ what = "cycle" /\ t \in Steady
                                        /\ (t \in refused \/ Overlooked(t))))
        BY <2>4, <2>6, <3>1, BatchEntries
      <3>4. /\ t \in due \ refused => sampler'[t] = "current" /\ left' = Window
            /\ batch' # "cycle"
        BY <2>4, <3>1, BatchEntries
      <3>5. entry[t].missed \in BOOLEAN
        BY <3>1, Types, Fields
      <3> QED BY <2>4, <3>1, <3>2, <3>3, <3>4, <3>5 DEF BatchOf
    <2>9. ASSUME NEW t \in Sampled', t \in Steady PROVE SeenInTime(t)'
      BY <1>1, <2>8, <2>9, IdleTask DEF SeenInTime, BatchOf
    <2>10. ASSUME NEW t \in Sampled' PROVE WaitsInTime(t)'
      <3>1. entry'[t].wait = entry[t].wait /\ entry[t].wait < 3 * Window /\ entry[t].wait \in Nat
        BY <1>1, <2>8, IdleTask, Types, Fields DEF BatchOf
      <3>2. ASSUME ~entry'[t].sampled, ~entry'[t].excused
            PROVE  sampler'[t] = "current" /\ entry'[t].wait + left' < 3 * Window
        <4>1. Pending(t) /\ ~entry[t].excused /\ t \notin refused
          BY <2>8, <3>2 DEF BatchOf, Pending
        <4>2. Holding(t) = {}
          BY <4>1 DEF LivenessInv, HeldExcused, Holding
        <4>3. sampler'[t] = "current" /\ left' = Window
          BY <2>5, <2>8, <4>1, <4>2
        <4>4. clock >= Window /\ clock \in Nat
          BY <1>3, Types, Durations DEF ExtraSamplingFits
        <4>5. entry[t].wait <= Window
          BY <1>1, <2>8, <4>1, <4>4, IdleTask, Durations
        <4> QED BY <3>1, <4>3, <4>5, Durations
      <3> QED BY <3>1, <3>2 DEF WaitsInTime, Pending
    <2> QED BY <2>7, <2>9, <2>10 DEF LivenessInv
  <1> QED BY <1>2, <1>3

-----------------------------------------------------------------------------
(* Samplers end.                                                           *)

LEMMA SampledEntry ==
    ASSUME NEW e \in Entry
    PROVE  /\ [e EXCEPT !.sampled = TRUE, !.wait = 0, !.excused = FALSE] \in Entry
           /\ [e EXCEPT !.sampled = TRUE, !.wait = 0, !.excused = FALSE].in = e.in
           /\ [e EXCEPT !.sampled = TRUE, !.wait = 0, !.excused = FALSE].seen = e.seen
           /\ [e EXCEPT !.sampled = TRUE, !.wait = 0, !.excused = FALSE].missed = e.missed
           /\ [e EXCEPT !.sampled = TRUE, !.wait = 0, !.excused = FALSE].wait = 0
           /\ [e EXCEPT !.sampled = TRUE, !.wait = 0, !.excused = FALSE].sampled = TRUE
  <1> DEFINE f == [e EXCEPT !.sampled = TRUE, !.wait = 0, !.excused = FALSE]
  <1>1. 0 \in 0..Patience
    BY Durations
  <1>2. f \in Entry
    BY <1>1 DEF Entry
  <1>3. f.in = e.in /\ f.seen = e.seen /\ f.missed = e.missed /\ f.wait = 0 /\ f.sampled = TRUE
    BY DEF Entry
  <1> QED BY <1>2, <1>3

LEMMA SeenEntry ==
    ASSUME NEW e \in Entry
    PROVE  /\ Seen(e) \in Entry /\ Seen(e).in = e.in /\ Seen(e).seen = 0
           /\ Seen(e).sampled = e.sampled /\ Seen(e).wait = e.wait /\ Seen(e).excused = e.excused
  <1>1. 0 \in 0..Never
    BY Durations
  <1>2. Seen(e) \in Entry
    BY <1>1 DEF Entry, Seen
  <1>3. /\ Seen(e).in = e.in /\ Seen(e).seen = 0
        /\ Seen(e).sampled = e.sampled /\ Seen(e).wait = e.wait /\ Seen(e).excused = e.excused
    BY DEF Entry, Seen
  <1> QED BY <1>2, <1>3

LEMMA SamplerEndsKeeps ==
    ASSUME LivenessInv, NEW t \in Topics, t \in Running, NEW e \in Entry, SamplerEnds(t, e),
           e.in = entry[t].in, e.seen <= entry[t].seen,
           t \in Steady => e.seen = 0
    PROVE  LivenessInv'
  <1>1. /\ sampler' = [sampler EXCEPT ![t] = "none"]
        /\ clock' = clock /\ permit' = permit /\ bridge' = bridge
        /\ Running = {t} => batch' = "none" /\ left' = 0
        /\ Running # {t} => batch' = batch /\ left' = left
    BY DEF SamplerEnds
  <1>2. batch # "none" /\ sampler[t] # "none"
    BY DEF LivenessInv, Control, Running
  <1>3. sampler' \in [Topics -> {"none", "current", "orphan"}] /\ sampler'[t] = "none"
        /\ \A u \in Topics : u # t => sampler'[u] = sampler[u]
    BY <1>1, Types
  <1>4. sampler[t] = "current" =>
           /\ t \in Sampled /\ entry'[t] \in Entry
           /\ entry'[t].in = entry[t].in /\ entry'[t].seen = e.seen
           /\ entry'[t].wait = 0 /\ entry'[t].sampled
           /\ \A u \in Topics : u # t => entry'[u] = entry[u]
           /\ entry' \in [Topics -> Entry]
    <2> SUFFICES ASSUME sampler[t] = "current"
                 PROVE  /\ t \in Sampled /\ entry'[t] \in Entry
                        /\ entry'[t].in = entry[t].in /\ entry'[t].seen = e.seen
                        /\ entry'[t].wait = 0 /\ entry'[t].sampled
                        /\ \A u \in Topics : u # t => entry'[u] = entry[u]
                        /\ entry' \in [Topics -> Entry]
      OBVIOUS
    <2> DEFINE f == [e EXCEPT !.sampled = TRUE, !.wait = 0, !.excused = FALSE]
    <2>1. t \in Sampled
      BY DEF LivenessInv, SamplersWrite
    <2>2. f \in Entry /\ f.in = e.in /\ f.seen = e.seen /\ f.wait = 0 /\ f.sampled = TRUE
      BY SampledEntry
    <2>3. entry' = [entry EXCEPT ![t] = f]
      BY DEF SamplerEnds
    <2> HIDE DEF f
    <2> QED BY <2>1, <2>2, <2>3, Types
  <1>5. sampler[t] # "current" => entry' = entry
    BY DEF SamplerEnds
  <1>6. /\ entry' \in [Topics -> Entry]
        /\ \A u \in Topics : entry'[u].in = entry[u].in
        /\ \A u \in Topics : u # t => entry'[u] = entry[u]
    BY <1>4, <1>5, Types
  <1>7. \A u \in Topics : entry'[u].seen \in Nat /\ entry'[u].seen <= entry[u].seen
    <2>1. \A u \in Topics : entry[u].seen \in Nat
      BY Types, Fields
    <2>2. e.seen \in Nat
      BY Fields
    <2> QED BY <1>4, <1>5, <1>6, <2>1, <2>2
  <1>8. Sampled' = Sampled
    BY <1>6 DEF Sampled
  <1>9. Typed'
    BY <1>1, <1>3, <1>6, Types, Durations DEF Typed
  <1>10. Control'
    <2>1. Running' = Running \ {t}
      BY <1>3 DEF Running
    <2> QED BY <1>1, <1>2, <2>1, Types DEF Control
  <1>11. Limited'
    BY <1>8 DEF LivenessInv, Limited
  <1>12. BridgesHold'
    <2> SUFFICES ASSUME NEW b \in Bridges
                 PROVE  /\ bridge[b].holds => bridge[b].topic \in Sampled'
                        /\ bridge[b].forwarded => bridge[b].holds
                        /\ bridge[b].forwarded /\ bridge[b].topic \in Steady
                              => entry'[bridge[b].topic].seen <= bridge[b].quiet
      BY <1>1 DEF BridgesHold
    <2>1. /\ bridge[b].holds => bridge[b].topic \in Sampled'
          /\ bridge[b].forwarded => bridge[b].holds
      BY <1>8 DEF LivenessInv, BridgesHold
    <2>2. ASSUME bridge[b].forwarded, bridge[b].topic \in Steady
          PROVE  entry'[bridge[b].topic].seen <= bridge[b].quiet
      <3> DEFINE u == bridge[b].topic
      <3>1. u \in Topics /\ entry[u].seen <= bridge[b].quiet
        BY <2>2, LivenessAssumption DEF LivenessInv, BridgesHold
      <3>2. bridge[b].quiet \in Nat
        BY Types, BridgeFields
      <3>3. entry[u].seen \in Nat
        BY <3>1, Types, Fields
      <3> HIDE DEF u
      <3>4. entry'[u].seen <= bridge[b].quiet
        BY <1>7, <3>1, <3>2, <3>3
      <3> QED BY <3>4 DEF u
    <2> QED BY <2>1, <2>2
  <1>13. HeldExcused'
    <2> SUFFICES ASSUME NEW b \in Bridges, bridge[b].holds, ~entry'[bridge[b].topic].sampled
                 PROVE  entry'[bridge[b].topic].excused
      BY <1>1 DEF HeldExcused, Pending
    <2>1. bridge[b].topic \in Topics
      BY Types DEF LivenessInv, BridgesHold
    <2>2. entry'[bridge[b].topic] = entry[bridge[b].topic]
      BY <1>4, <1>5, <1>6, <2>1
    <2> QED BY <2>2 DEF LivenessInv, HeldExcused, Pending
  <1>14. SamplersWrite'
    BY <1>3, <1>8 DEF LivenessInv, SamplersWrite
  <1>15. BatchFits'
    BY <1>1 DEF LivenessInv, BatchFits
  <1>16. ASSUME NEW u \in Sampled, u \in Steady PROVE SeenInTime(u)'
    <2>1. u \in Topics /\ SeenInTime(u)
      BY <1>16, Types DEF LivenessInv
    <2>2. CASE u = t /\ sampler[t] = "current"
      <3>1. entry'[u].seen = 0 /\ sampler'[u] = "none"
        BY <1>3, <1>4, <1>16, <2>2
      <3>2. entry'[u].seen + clock' <= Refresh + Window
        BY <1>1, <3>1, Types, Durations
      <3> QED BY <3>1, <3>2 DEF SeenInTime
    <2>3. CASE ~(u = t /\ sampler[t] = "current")
      <3>1. entry'[u] = entry[u] /\ (sampler'[u] = "current" <=> sampler[u] = "current")
        BY <1>3, <1>5, <1>6, <2>1, <2>3
      <3>2. CASE Running = {t}
        <4>1. sampler[u] # "current"
          BY <2>1, <2>3, <3>2 DEF Running
        <4> QED BY <1>1, <2>1, <3>1, <4>1 DEF SeenInTime
      <3>3. CASE Running # {t}
        BY <1>1, <2>1, <3>1, <3>3 DEF SeenInTime
      <3> QED BY <3>2, <3>3
    <2> QED BY <2>2, <2>3
  <1>17. ASSUME NEW u \in Sampled PROVE WaitsInTime(u)'
    <2>1. u \in Topics /\ WaitsInTime(u)
      BY Types DEF LivenessInv
    <2>2. CASE u = t /\ sampler[t] = "current"
      BY <1>4, <2>2, Durations DEF WaitsInTime, Pending
    <2>3. CASE ~(u = t /\ sampler[t] = "current")
      <3>1. entry'[u] = entry[u] /\ (sampler'[u] = "current" <=> sampler[u] = "current")
        BY <1>3, <1>5, <1>6, <2>1, <2>3
      <3>2. CASE Running = {t}
        <4>1. sampler[u] # "current"
          BY <2>1, <2>3, <3>2 DEF Running
        <4>2. entry[u].wait \in Nat /\ left \in Nat
          BY <2>1, Types, Fields
        <4>3. Pending(u) /\ ~entry[u].excused => permit /\ entry[u].wait <= Window
          BY <1>2, <2>1, <4>1, <4>2, Durations DEF WaitsInTime
        <4> QED BY <1>1, <2>1, <3>1, <3>2, <4>3 DEF WaitsInTime, Pending
      <3>3. CASE Running # {t}
        BY <1>1, <2>1, <3>1, <3>3 DEF WaitsInTime, Pending
      <3> QED BY <3>2, <3>3
    <2> QED BY <2>2, <2>3
  <1> QED BY <1>8, <1>9, <1>10, <1>11, <1>12, <1>13, <1>14, <1>15, <1>16, <1>17 DEF LivenessInv

LEMMA SampleKeeps ==
    ASSUME LivenessInv, NEW t \in Topics, FirstSample(t) \/ WindowEnds(t)
    PROVE  LivenessInv'
  <1>1. entry[t] \in Entry /\ entry[t].seen \in Nat
    BY Types, Fields
  <1>2. CASE FirstSample(t)
    <2>1. t \in Running /\ SamplerEnds(t, Seen(entry[t]))
      BY <1>2 DEF FirstSample
    <2> DEFINE e == Seen(entry[t])
    <2>2. e \in Entry /\ e.in = entry[t].in /\ e.seen = 0
      BY <1>1, SeenEntry
    <2>3. e.seen <= entry[t].seen
      BY <1>1, <2>2
    <2> HIDE DEF e
    <2>4. SamplerEnds(t, e)
      BY <2>1 DEF e
    <2> QED BY <2>1, <2>2, <2>3, <2>4, SamplerEndsKeeps
  <1>3. CASE WindowEnds(t)
    <2>1. t \in Running /\ t \notin Steady /\ SamplerEnds(t, entry[t])
      BY <1>3 DEF WindowEnds
    <2>2. entry[t].seen <= entry[t].seen
      BY <1>1
    <2> QED BY <1>1, <2>1, <2>2, SamplerEndsKeeps
  <1> QED BY <1>2, <1>3

-----------------------------------------------------------------------------
(* The bridges.                                                            *)

LEMMA OpenKeeps ==
    ASSUME LivenessInv, NEW b \in Bridges, NEW t \in Topics, Open(b, t)
    PROVE  LivenessInv'
  <1> DEFINE held == t \in Sampled
             new == [Unbridged EXCEPT !.topic = t, !.holds = held]
             pending == Pending(t)
  <1>1. /\ bridge' = [bridge EXCEPT ![b] = new]
        /\ ~held => entry' = entry
        /\ held => entry' = [entry EXCEPT ![t].excused = pending]
        /\ clock' = clock /\ batch' = batch /\ left' = left
        /\ sampler' = sampler /\ permit' = permit
    BY DEF Open
  <1>2. /\ new \in Bridge /\ new.topic = t /\ new.holds = held /\ new.forwarded = FALSE
    <2>1. held \in BOOLEAN
      OBVIOUS
    <2> DEFINE u == Unbridged
    <2>2. u \in Bridge /\ u.forwarded = FALSE
      BY Constants
    <2>3. new = [u EXCEPT !.topic = t, !.holds = held]
      OBVIOUS
    <2> HIDE DEF u, held
    <2>4. /\ [u EXCEPT !.topic = t, !.holds = held] \in Bridge
          /\ [u EXCEPT !.topic = t, !.holds = held].topic = t
          /\ [u EXCEPT !.topic = t, !.holds = held].holds = held
          /\ [u EXCEPT !.topic = t, !.holds = held].forwarded = u.forwarded
      BY <2>1, <2>2 DEF Bridge
    <2> QED BY <2>2, <2>3, <2>4
  <1>3. /\ entry' \in [Topics -> Entry]
        /\ \A u \in Topics : /\ entry'[u].in = entry[u].in /\ entry'[u].seen = entry[u].seen
                             /\ entry'[u].sampled = entry[u].sampled /\ entry'[u].wait = entry[u].wait
                             /\ entry'[u].missed = entry[u].missed
        /\ held => entry'[t].excused = pending
        /\ \A u \in Topics : (u = t /\ held) \/ entry'[u].excused = entry[u].excused
    <2>1. CASE ~held
      BY <1>1, <2>1, Types
    <2>2. CASE held
      <3>1. pending \in BOOLEAN /\ entry[t] \in Entry
        BY Types DEF Pending
      <3> DEFINE f == [entry[t] EXCEPT !.excused = pending]
      <3>2. entry' = [entry EXCEPT ![t] = f]
        BY <1>1, <2>2
      <3> HIDE DEF pending
      <3>3. /\ f \in Entry /\ f.in = entry[t].in /\ f.seen = entry[t].seen
            /\ f.sampled = entry[t].sampled /\ f.wait = entry[t].wait
            /\ f.missed = entry[t].missed /\ f.excused = pending
        BY <3>1 DEF Entry
      <3> HIDE DEF f, held
      <3>4. entry'[t] = f /\ \A u \in Topics : u # t => entry'[u] = entry[u]
        BY <3>2, Types
      <3>5. entry' \in [Topics -> Entry]
        BY <3>2, <3>3, Types
      <3> QED BY <2>2, <3>3, <3>4, <3>5
    <2> QED BY <2>1, <2>2
  <1> HIDE DEF new
  <1>4. Sampled' = Sampled
    BY <1>3 DEF Sampled
  <1>5. bridge' \in [Bridges -> Bridge] /\ bridge'[b] = new
        /\ \A c \in Bridges : c # b => bridge'[c] = bridge[c]
    BY <1>1, <1>2, Types
  <1>6. Typed'
    BY <1>1, <1>3, <1>5, Types DEF Typed
  <1>7. Control' /\ Limited' /\ SamplersWrite' /\ BatchFits'
    BY <1>1, <1>4 DEF LivenessInv, Control, Limited, SamplersWrite, BatchFits, Running
  <1>8. BridgesHold'
    <2> SUFFICES ASSUME NEW c \in Bridges
                 PROVE  /\ bridge'[c].holds => bridge'[c].topic \in Sampled'
                        /\ bridge'[c].forwarded => bridge'[c].holds
                        /\ bridge'[c].forwarded /\ bridge'[c].topic \in Steady
                              => entry'[bridge'[c].topic].seen <= bridge'[c].quiet
      BY DEF BridgesHold
    <2>1. CASE c = b
      BY <1>2, <1>4, <1>5, <2>1
    <2>2. CASE c # b
      BY <1>3, <1>4, <1>5, <2>2, LivenessAssumption DEF LivenessInv, BridgesHold
    <2> QED BY <2>1, <2>2
  <1>9. HeldExcused'
    <2> SUFFICES ASSUME NEW c \in Bridges, bridge'[c].holds, ~entry'[bridge'[c].topic].sampled
                 PROVE  entry'[bridge'[c].topic].excused
      BY DEF HeldExcused, Pending
    <2> DEFINE u == bridge'[c].topic
    <2>1. u \in Sampled /\ u \in Topics
      BY <1>4, <1>8, Types DEF BridgesHold
    <2>2. CASE u = t
      BY <1>3, <2>1, <2>2 DEF Pending
    <2>3. CASE u # t
      <3>1. c # b
        BY <1>2, <1>5, <2>3
      <3>2. bridge[c].holds /\ u = bridge[c].topic /\ ~entry[u].sampled
        BY <1>3, <1>5, <2>1, <3>1
      <3>3. entry[u].excused
        BY <3>2 DEF LivenessInv, HeldExcused, Pending
      <3> QED BY <1>3, <2>1, <2>3, <3>3
    <2> QED BY <2>2, <2>3
  <1>10. ASSUME NEW u \in Sampled, u \in Steady PROVE SeenInTime(u)'
    <2>1. u \in Topics /\ SeenInTime(u)
      BY <1>10, Types DEF LivenessInv
    <2> QED BY <1>1, <1>3, <2>1 DEF SeenInTime
  <1>11. ASSUME NEW u \in Sampled PROVE WaitsInTime(u)'
    <2>1. u \in Topics /\ WaitsInTime(u)
      BY Types DEF LivenessInv
    <2>2. ~entry'[u].sampled /\ ~entry'[u].excused => ~entry[u].sampled /\ ~entry[u].excused
      BY <1>3, <2>1 DEF Pending
    <2> QED BY <1>1, <1>3, <2>1, <2>2 DEF WaitsInTime, Pending
  <1> QED BY <1>4, <1>6, <1>7, <1>8, <1>9, <1>10, <1>11 DEF LivenessInv

LEMMA ForwardsKeeps ==
    ASSUME LivenessInv, NEW b \in Bridges, Forwards(b)
    PROVE  LivenessInv'
  <1> DEFINE t == bridge[b].topic
             held == bridge[b].holds
             new == [bridge[b] EXCEPT !.quiet = 0, !.forwarded = held]
  <1>1. /\ t # NoTopic
        /\ bridge' = [bridge EXCEPT ![b] = new]
        /\ ~held => entry' = entry
        /\ held => entry' = [entry EXCEPT ![t] = Seen(entry[t])]
        /\ clock' = clock /\ batch' = batch /\ left' = left
        /\ sampler' = sampler /\ permit' = permit
    BY Types DEF Forwards
  <1>2. /\ new \in Bridge /\ new.topic = t /\ new.holds = held
        /\ new.forwarded = held /\ new.quiet = 0
    <2>1. held \in BOOLEAN /\ bridge[b] \in Bridge /\ 0 \in 0..Window
      BY Types, BridgeFields, Durations
    <2> QED BY <2>1 DEF Bridge
  <1>3. t \in Topics /\ (held => t \in Sampled)
    BY <1>1, Types, BridgeFields DEF LivenessInv, BridgesHold
  <1> HIDE DEF new, t, held
  <1>4. /\ entry' \in [Topics -> Entry]
        /\ held => entry'[t].seen = 0
        /\ \A u \in Topics :
              /\ entry'[u].in = entry[u].in /\ entry'[u].sampled = entry[u].sampled
              /\ entry'[u].wait = entry[u].wait /\ entry'[u].excused = entry[u].excused
              /\ (u = t /\ held) \/ entry'[u] = entry[u]
    <2>1. CASE ~held
      BY <1>1, <2>1, Types
    <2>2. CASE held
      <3> DEFINE f == Seen(entry[t])
      <3>1. /\ f \in Entry /\ f.in = entry[t].in /\ f.seen = 0
            /\ f.sampled = entry[t].sampled /\ f.wait = entry[t].wait
            /\ f.excused = entry[t].excused
        BY <1>3, Types, SeenEntry
      <3>2. entry' = [entry EXCEPT ![t] = f]
        BY <1>1, <2>2
      <3> HIDE DEF f
      <3>3. entry'[t] = f /\ \A u \in Topics : u # t => entry'[u] = entry[u]
        BY <1>3, <3>2, Types
      <3>4. entry' \in [Topics -> Entry]
        BY <3>1, <3>2, Types
      <3> QED BY <2>2, <3>1, <3>3, <3>4
    <2> QED BY <2>1, <2>2
  <1>5. \A u \in Topics : entry'[u].seen <= entry[u].seen /\ entry'[u].seen \in Nat
    <2>1. \A u \in Topics : entry[u].seen \in Nat
      BY Types, Fields
    <2> QED BY <1>4, <2>1
  <1>6. Sampled' = Sampled
    BY <1>4 DEF Sampled
  <1>7. bridge' \in [Bridges -> Bridge] /\ bridge'[b] = new
        /\ \A c \in Bridges : c # b => bridge'[c] = bridge[c]
    BY <1>1, <1>2, Types
  <1>8. Typed'
    BY <1>1, <1>4, <1>7, Types DEF Typed
  <1>9. Control' /\ Limited' /\ SamplersWrite' /\ BatchFits'
    BY <1>1, <1>6 DEF LivenessInv, Control, Limited, SamplersWrite, BatchFits, Running
  <1>10. BridgesHold'
    <2> SUFFICES ASSUME NEW c \in Bridges
                 PROVE  /\ bridge'[c].holds => bridge'[c].topic \in Sampled'
                        /\ bridge'[c].forwarded => bridge'[c].holds
                        /\ bridge'[c].forwarded /\ bridge'[c].topic \in Steady
                              => entry'[bridge'[c].topic].seen <= bridge'[c].quiet
      BY DEF BridgesHold
    <2>1. CASE c = b
      BY <1>2, <1>3, <1>4, <1>6, <1>7, <2>1
    <2>2. CASE c # b
      <3>1. bridge'[c] = bridge[c]
        BY <1>7, <2>2
      <3>2. /\ bridge[c].holds => bridge[c].topic \in Sampled'
            /\ bridge[c].forwarded => bridge[c].holds
        BY <1>6 DEF LivenessInv, BridgesHold
      <3>3. ASSUME bridge[c].forwarded, bridge[c].topic \in Steady
            PROVE  entry'[bridge[c].topic].seen <= bridge[c].quiet
        <4> DEFINE u == bridge[c].topic
                   q == bridge[c].quiet
        <4>1. u \in Topics /\ entry[u].seen <= q /\ q \in Nat
          BY <3>3, LivenessAssumption, Types, BridgeFields DEF LivenessInv, BridgesHold
        <4>2. entry[u].seen \in Nat
          BY <4>1, Types, Fields
        <4> HIDE DEF u, q
        <4>3. entry'[u].seen <= q
          BY <1>5, <4>1, <4>2
        <4> QED BY <4>3 DEF u, q
      <3> QED BY <3>1, <3>2, <3>3
    <2> QED BY <2>1, <2>2
  <1>11. HeldExcused'
    <2> SUFFICES ASSUME NEW c \in Bridges, bridge'[c].holds, ~entry'[bridge'[c].topic].sampled
                 PROVE  entry'[bridge'[c].topic].excused
      BY DEF HeldExcused, Pending
    <2>1. bridge[c].holds /\ bridge'[c].topic = bridge[c].topic
      BY <1>2, <1>7 DEF t, held
    <2>2. bridge[c].topic \in Topics
      BY <2>1, Types DEF LivenessInv, BridgesHold
    <2> QED BY <1>4, <2>1, <2>2 DEF LivenessInv, HeldExcused, Pending
  <1>12. ASSUME NEW u \in Sampled, u \in Steady PROVE SeenInTime(u)'
    <2>1. u \in Topics /\ SeenInTime(u)
      BY <1>12, Types DEF LivenessInv
    <2>2. CASE u = t /\ held
      <3>1. entry'[u].seen = 0
        BY <1>4, <2>2
      <3>2. entry'[u].seen + left' <= Refresh + 2 * Window /\ entry'[u].seen + clock' <= Refresh + Window
        BY <1>1, <3>1, Types, Durations
      <3> QED BY <3>2 DEF SeenInTime
    <2>3. CASE ~(u = t /\ held)
      BY <1>1, <1>4, <2>1, <2>3 DEF SeenInTime
    <2> QED BY <2>2, <2>3
  <1>13. ASSUME NEW u \in Sampled PROVE WaitsInTime(u)'
    <2>1. u \in Topics /\ WaitsInTime(u)
      BY Types DEF LivenessInv
    <2> QED BY <1>1, <1>4, <2>1 DEF WaitsInTime, Pending
  <1> QED BY <1>6, <1>8, <1>9, <1>10, <1>11, <1>12, <1>13 DEF LivenessInv

LEMMA ClosesKeeps ==
    ASSUME LivenessInv, NEW b \in Bridges, Closes(b)
    PROVE  LivenessInv'
  <1>1. /\ bridge' = [bridge EXCEPT ![b] = Unbridged]
        /\ UNCHANGED <<entry, clock, batch, left, sampler, permit>>
    BY DEF Closes
  <1>2. bridge' \in [Bridges -> Bridge]
    BY <1>1, Types, Constants
  <1>3. Sampled' = Sampled
    BY <1>1 DEF Sampled
  <1>4. \A c \in Bridges : bridge'[c] = bridge[c] \/ (~bridge'[c].holds /\ ~bridge'[c].forwarded)
    <2>1. bridge'[b] = Unbridged /\ \A c \in Bridges : c # b => bridge'[c] = bridge[c]
      BY <1>1, Types
    <2> QED BY <2>1, Constants
  <1>5. Typed' /\ Control' /\ Limited' /\ SamplersWrite' /\ BatchFits'
    BY <1>1, <1>2, <1>3
    DEF LivenessInv, Typed, Control, Limited, SamplersWrite, BatchFits, Running
  <1>6. BridgesHold' /\ HeldExcused'
    BY <1>1, <1>3, <1>4 DEF LivenessInv, BridgesHold, HeldExcused, Pending
  <1>7. ASSUME NEW u \in Sampled, u \in Steady PROVE SeenInTime(u)'
    BY <1>1, <1>7 DEF LivenessInv, SeenInTime
  <1>8. ASSUME NEW u \in Sampled PROVE WaitsInTime(u)'
    BY <1>1 DEF LivenessInv, WaitsInTime, Pending
  <1> QED BY <1>3, <1>5, <1>6, <1>7, <1>8 DEF LivenessInv

-----------------------------------------------------------------------------
(* Time passes.                                                            *)

LEMMA OlderAge ==
    ASSUME NEW cap \in Nat, NEW age \in 0..cap
    PROVE  /\ Older(age, cap) \in 0..cap /\ Older(age, cap) <= age + 1 /\ age <= Older(age, cap)
  BY DEF Older

\* What a tick does to a topic of the set.
LEMMA TickEntry ==
    ASSUME LivenessInv, Tick, NEW t \in Topics
    PROVE  /\ entry'[t] \in Entry /\ entry'[t].in = entry[t].in
           /\ entry'[t].sampled = entry[t].sampled /\ entry'[t].missed = entry[t].missed
           /\ entry'[t].excused = entry[t].excused
           /\ entry'[t].seen # Never =>
                 entry[t].seen # Never /\ entry'[t].seen <= entry[t].seen + 1
           /\ entry[t].seen # Never => entry'[t].seen <= entry[t].seen + 1
           /\ entry'[t].wait <= entry[t].wait + 1
           /\ entry[t].sampled \/ entry[t].excused => entry'[t].wait = entry[t].wait
  <1> DEFINE s == IF entry[t].seen = Never THEN Never ELSE Older(entry[t].seen, Never - 1)
             r == IF t \in Builtin THEN 0 ELSE Older(entry[t].requested, Expiry + 1)
             w == IF Pending(t) /\ ~entry[t].excused THEN Older(entry[t].wait, Patience)
                  ELSE entry[t].wait
             f == [entry[t] EXCEPT !.seen = s, !.requested = r, !.wait = w]
  <1>1. entry'[t] = IF t \in Sampled THEN f ELSE entry[t]
    BY Types, Zenon DEF Tick
  <1>2. /\ entry[t] \in Entry /\ entry[t].seen \in 0..Never /\ entry[t].requested \in 0..Expiry + 1
        /\ entry[t].wait \in 0..Patience
    BY Types, Fields
  <1>3. /\ s \in 0..Never /\ (s # Never => entry[t].seen # Never)
        /\ entry[t].seen # Never => s <= entry[t].seen + 1
    <2>1. CASE entry[t].seen = Never
      BY <2>1, <1>2
    <2>2. CASE entry[t].seen # Never
      <3>1. Never - 1 \in Nat /\ entry[t].seen \in 0..Never - 1
        BY <1>2, <2>2, Durations
      <3>2. s = Older(entry[t].seen, Never - 1)
        BY <2>2
      <3>3. s \in 0..Never - 1 /\ s <= entry[t].seen + 1
        BY <3>1, <3>2, OlderAge
      <3> HIDE DEF s
      <3> QED BY <2>2, <3>3, Durations
    <2> QED BY <2>1, <2>2
  <1>4. r \in 0..Expiry + 1
    <2>1. Expiry + 1 \in Nat /\ 0 \in 0..Expiry + 1
      BY Durations
    <2> QED BY <1>2, <2>1, OlderAge
  <1>5. /\ w \in 0..Patience /\ w <= entry[t].wait + 1
        /\ entry[t].sampled \/ entry[t].excused => w = entry[t].wait
    <2>1. CASE Pending(t) /\ ~entry[t].excused
      <3>1. Patience \in Nat
        BY Durations
      <3>2. w = Older(entry[t].wait, Patience)
        BY <2>1
      <3>3. w \in 0..Patience /\ w <= entry[t].wait + 1
        BY <1>2, <3>1, <3>2, OlderAge
      <3> QED BY <2>1, <3>3 DEF Pending
    <2>2. CASE ~(Pending(t) /\ ~entry[t].excused)
      <3>1. w = entry[t].wait
        BY <2>2
      <3>2. entry[t].wait <= entry[t].wait + 1
        BY <1>2
      <3> QED BY <1>2, <3>1, <3>2
    <2> QED BY <2>1, <2>2
  <1> HIDE DEF s, r, w
  <1>6. /\ f \in Entry /\ f.in = entry[t].in /\ f.sampled = entry[t].sampled
        /\ f.missed = entry[t].missed /\ f.excused = entry[t].excused
        /\ f.seen = s /\ f.wait = w
    BY <1>2, <1>3, <1>4, <1>5 DEF Entry
  <1> HIDE DEF f
  <1>7. CASE t \in Sampled
    BY <1>1, <1>3, <1>5, <1>6, <1>7
  <1>8. CASE t \notin Sampled
    <2>1. entry'[t] = entry[t]
      BY <1>1, <1>8
    <2>2. entry[t].seen \in Nat /\ entry[t].wait \in Nat
      BY <1>2, Fields
    <2>3. entry[t].seen <= entry[t].seen + 1 /\ entry[t].wait <= entry[t].wait + 1
      BY <2>2
    <2> QED BY <1>2, <2>1, <2>3
  <1> QED BY <1>7, <1>8

LEMMA TickKeeps ==
    ASSUME LivenessInv, Tick
    PROVE  LivenessInv'
  <1>1. /\ batch' = batch /\ sampler' = sampler /\ permit' = permit
        /\ batch = "none" => clock > 0 /\ ~permit /\ left' = 0
        /\ batch # "none" => left > 0 /\ left' = left - 1
        /\ clock > 0 => clock' = clock - 1
        /\ bridge' = [b \in Bridges |->
                         IF SteadilyHeld(b) THEN [bridge[b] EXCEPT !.quiet = bridge[b].quiet + 1]
                         ELSE bridge[b]]
        /\ \A b \in Bridges : SteadilyHeld(b) => bridge[b].quiet < Window
    BY DEF Tick
  <1>2. clock > 0 /\ clock' = clock - 1 /\ left \in Nat /\ clock \in Nat /\ left' \in Nat
    <2>1. left \in Nat /\ clock \in Nat
      BY Types
    <2>2. clock > 0
      BY <1>1, <2>1 DEF LivenessInv, BatchFits
    <2>3. left' \in Nat
      BY <1>1, <2>1
    <2> QED BY <1>1, <2>1, <2>2, <2>3
  <1>3. entry' \in [Topics -> Entry]
    <2>1. entry' = [t \in Topics |-> entry'[t]]
      BY Zenon DEF Tick
    <2> QED BY <2>1, TickEntry
  <1>4. ASSUME NEW b \in Bridges
        PROVE  /\ bridge'[b] \in Bridge /\ bridge'[b].topic = bridge[b].topic
               /\ bridge'[b].holds = bridge[b].holds /\ bridge'[b].forwarded = bridge[b].forwarded
               /\ SteadilyHeld(b) => bridge'[b].quiet = bridge[b].quiet + 1
    <2>1. bridge[b] \in Bridge /\ bridge[b].quiet \in 0..Window
      BY Types, BridgeFields
    <2>2. CASE SteadilyHeld(b)
      <3> DEFINE q == bridge[b].quiet + 1
      <3>1. q \in 0..Window
        BY <1>1, <2>1, <2>2, Durations
      <3>2. bridge'[b] = [bridge[b] EXCEPT !.quiet = q]
        BY <1>1, <2>2
      <3> HIDE DEF q
      <3>3. /\ bridge'[b] \in Bridge /\ bridge'[b].topic = bridge[b].topic
            /\ bridge'[b].holds = bridge[b].holds /\ bridge'[b].forwarded = bridge[b].forwarded
            /\ bridge'[b].quiet = q
        BY <2>1, <3>1, <3>2 DEF Bridge
      <3> QED BY <3>3 DEF q
    <2>3. CASE ~SteadilyHeld(b)
      BY <1>1, <2>1, <2>3
    <2> QED BY <2>2, <2>3
  <1>5. bridge' \in [Bridges -> Bridge]
    BY <1>1, <1>4
  <1>6. Sampled' = Sampled
    BY TickEntry DEF Sampled
  <1>7. Typed'
    <2>1. clock' \in 0..Refresh /\ left' \in 0..Window
      <3>1. clock \in 0..Refresh /\ left \in 0..Window
        BY Types
      <3>2. left' = 0 \/ left' = left - 1
        BY <1>1
      <3> QED BY <1>2, <3>1, <3>2, Durations
    <2> QED BY <1>1, <1>3, <1>5, <2>1, Types DEF Typed
  <1>8. Control' /\ Limited' /\ SamplersWrite'
    BY <1>1, <1>6 DEF LivenessInv, Control, Limited, SamplersWrite, Running
  <1>9. BatchFits'
    BY <1>1, <1>2 DEF LivenessInv, BatchFits
  <1>10. BridgesHold'
    <2> SUFFICES ASSUME NEW b \in Bridges
                 PROVE  /\ bridge[b].holds => bridge[b].topic \in Sampled
                        /\ bridge[b].forwarded => bridge[b].holds
                        /\ bridge[b].forwarded /\ bridge[b].topic \in Steady
                              => entry'[bridge[b].topic].seen <= bridge'[b].quiet
      BY <1>4, <1>6 DEF BridgesHold
    <2>1. /\ bridge[b].holds => bridge[b].topic \in Sampled
          /\ bridge[b].forwarded => bridge[b].holds
      BY DEF LivenessInv, BridgesHold
    <2>2. ASSUME bridge[b].forwarded, bridge[b].topic \in Steady
          PROVE  entry'[bridge[b].topic].seen <= bridge'[b].quiet
      <3> DEFINE t == bridge[b].topic
                 q == bridge[b].quiet
      <3>1. SteadilyHeld(b) /\ t \in Topics
        BY <2>1, <2>2, LivenessAssumption DEF SteadilyHeld
      <3>2. q \in 0..Window /\ entry[t].seen <= q
        BY <2>2, Types, BridgeFields DEF LivenessInv, BridgesHold
      <3>3. bridge'[b].quiet = q + 1
        BY <1>4, <3>1
      <3> HIDE DEF q
      <3>4. entry[t].seen \in Nat /\ entry'[t].seen \in Nat
        BY <1>3, <3>1, Types, Fields
      <3>5. entry[t].seen # Never
        BY <3>2, <3>4, Durations
      <3>6. entry'[t].seen <= entry[t].seen + 1
        BY <3>1, <3>5, TickEntry
      <3> HIDE DEF t
      <3>7. entry'[t].seen <= bridge'[b].quiet
        BY <3>2, <3>3, <3>4, <3>6, Durations
      <3> QED BY <3>7 DEF t
    <2> QED BY <2>1, <2>2
  <1>11. HeldExcused'
    <2> SUFFICES ASSUME NEW b \in Bridges, bridge[b].holds, ~entry'[bridge[b].topic].sampled
                 PROVE  entry'[bridge[b].topic].excused
      BY <1>4 DEF HeldExcused, Pending
    <2>1. bridge[b].topic \in Topics
      BY Types DEF LivenessInv, BridgesHold
    <2> QED BY <2>1, TickEntry DEF LivenessInv, HeldExcused, Pending
  <1>12. ASSUME NEW t \in Sampled, t \in Steady PROVE SeenInTime(t)'
    <2>1. t \in Topics /\ SeenInTime(t)
      BY <1>12, Types DEF LivenessInv
    <2>2. entry[t].seen \in Nat /\ entry'[t].seen \in Nat
      BY <1>3, <2>1, Types, Fields
    <2> SUFFICES ASSUME entry'[t].seen # Never, ~entry'[t].missed
                 PROVE  IF batch' = "cycle" /\ sampler'[t] = "current"
                        THEN entry'[t].seen + left' <= Refresh + 2 * Window
                        ELSE entry'[t].seen + clock' <= Refresh + Window
      BY DEF SeenInTime
    <2>3. entry[t].seen # Never /\ ~entry[t].missed /\ entry'[t].seen <= entry[t].seen + 1
      BY <2>1, TickEntry
    <2>4. CASE batch = "cycle" /\ sampler[t] = "current"
      <3>1. entry[t].seen + left <= Refresh + 2 * Window /\ left' = left - 1
        BY <1>1, <2>1, <2>3, <2>4 DEF SeenInTime
      <3>2. entry'[t].seen + left' <= Refresh + 2 * Window
        BY <1>2, <2>2, <2>3, <3>1, Durations
      <3> QED BY <1>1, <2>4, <3>2
    <2>5. CASE ~(batch = "cycle" /\ sampler[t] = "current")
      <3>1. entry[t].seen + clock <= Refresh + Window
        BY <2>1, <2>3, <2>5 DEF SeenInTime
      <3>2. entry'[t].seen + clock' <= Refresh + Window
        BY <1>2, <2>2, <2>3, <3>1, Durations
      <3> QED BY <1>1, <2>5, <3>2
    <2> QED BY <2>4, <2>5
  <1>13. ASSUME NEW t \in Sampled PROVE WaitsInTime(t)'
    <2>1. t \in Topics /\ WaitsInTime(t)
      BY Types DEF LivenessInv
    <2>2. entry[t].wait \in Nat /\ entry'[t].wait \in Nat
      BY <1>3, <2>1, Types, Fields
    <2>3. /\ entry'[t].sampled = entry[t].sampled /\ entry'[t].excused = entry[t].excused
          /\ entry'[t].wait <= entry[t].wait + 1
          /\ entry[t].sampled \/ entry[t].excused => entry'[t].wait = entry[t].wait
      BY <2>1, TickEntry
    <2>4. CASE entry[t].sampled \/ entry[t].excused
      BY <2>1, <2>3, <2>4 DEF WaitsInTime, Pending
    <2>5. CASE ~entry[t].sampled /\ ~entry[t].excused
      <3>1. \/ sampler[t] = "current" /\ entry[t].wait + left < 3 * Window
            \/ batch # "none" /\ permit /\ entry[t].wait + left <= Window
            \/ batch = "none" /\ permit /\ entry[t].wait <= Window
            \/ batch = "none" /\ clock < Window /\ entry[t].wait + clock < 2 * Window
        BY <2>1, <2>5 DEF WaitsInTime, Pending
      <3>2. CASE sampler[t] = "current" /\ entry[t].wait + left < 3 * Window
        <4>1. batch # "none"
          BY <2>1, <3>2 DEF LivenessInv, Control, Running
        <4>2. left > 0 /\ left' = left - 1
          BY <1>1, <4>1
        <4>3. entry'[t].wait + left' < 3 * Window /\ entry'[t].wait < 3 * Window
          BY <1>2, <2>2, <2>3, <3>2, <4>2, Durations
        <4> QED BY <1>1, <3>2, <4>3 DEF WaitsInTime
      <3>3. CASE batch # "none" /\ permit /\ entry[t].wait + left <= Window
        <4>1. left > 0 /\ left' = left - 1
          BY <1>1, <3>3
        <4>2. entry'[t].wait + left' <= Window /\ entry'[t].wait < 3 * Window
          BY <1>2, <2>2, <2>3, <3>3, <4>1, Durations
        <4> QED BY <1>1, <3>3, <4>2 DEF WaitsInTime
      <3>4. CASE batch = "none" /\ permit /\ entry[t].wait <= Window
        BY <1>1, <3>4
      <3>5. CASE batch = "none" /\ clock < Window /\ entry[t].wait + clock < 2 * Window
        <4>1. /\ clock' < Window /\ entry'[t].wait + clock' < 2 * Window
              /\ entry'[t].wait < 3 * Window
          BY <1>2, <2>2, <2>3, <3>5, Durations
        <4> QED BY <1>1, <3>5, <4>1 DEF WaitsInTime
      <3> QED BY <3>1, <3>2, <3>3, <3>4, <3>5
    <2> QED BY <2>4, <2>5
  <1> QED BY <1>6, <1>7, <1>8, <1>9, <1>10, <1>11, <1>12, <1>13 DEF LivenessInv

-----------------------------------------------------------------------------
(* The theorems.                                                           *)

LEMMA LivenessStep == LivenessInv /\ [Next]_vars => LivenessInv'
  <1> SUFFICES ASSUME LivenessInv, [Next]_vars PROVE LivenessInv'
    OBVIOUS
  <1>1. CASE StatusAll
    BY <1>1, StatusAllKeeps
  <1>2. ASSUME NEW t \in Topics, StatusKnown(t) \/ StatusNew(t) \/ FirstSample(t) \/ WindowEnds(t)
        PROVE  LivenessInv'
    BY <1>2, StatusKnownKeeps, StatusNewKeeps, SampleKeeps
  <1>3. CASE Cycle
    BY <1>3, CycleKeeps
  <1>4. CASE Woken
    BY <1>4, WokenKeeps
  <1>5. ASSUME NEW b \in Bridges, Forwards(b) \/ Closes(b) \/ \E t \in Topics : Open(b, t)
        PROVE  LivenessInv'
    BY <1>5, ForwardsKeeps, ClosesKeeps, OpenKeeps
  <1>6. CASE Tick
    BY <1>6, TickKeeps
  <1>7. CASE UNCHANGED vars
    BY <1>7 DEF vars, LivenessInv, Typed, Control, Limited, BridgesHold, HeldExcused,
                SamplersWrite, BatchFits, SeenInTime, WaitsInTime, Sampled, Running, Pending
  <1> QED BY <1>1, <1>2, <1>3, <1>4, <1>5, <1>6, <1>7 DEF Next

LEMMA LivenessInvariant == Spec => []LivenessInv
  <1>1. Init => LivenessInv
    BY LivenessStarts
  <1>2. LivenessInv /\ [Next]_vars => LivenessInv'
    BY LivenessStep
  <1> QED BY <1>1, <1>2, PTL DEF Spec

\* The set of sampled topics keeps its limit and the built-in topics, and the
\* task samples exactly while a batch is under way, whatever clients request.
THEOREM SetKeepsItsLimit == Spec => []TypeOK
  <1>1. LivenessInv => TypeOK
    BY DEF LivenessInv, Typed, Control, Limited, TypeOK
  <1> QED BY <1>1, LivenessInvariant, PTL

\* With AVAILABILITY_MARGIN no shorter than SAMPLE_WINDOW, a topic that goes on
\* publishing does not become unavailable by being moved between the cycle, the
\* extra batches and a bridge, for any durations and any number of clients.
THEOREM PublishingStaysAvailable == Spec => []StaysAvailable
  <1>1. LivenessInv => StaysAvailable
    <2> SUFFICES ASSUME LivenessInv, NEW t \in Steady \cap Sampled,
                        entry[t].seen # Never, ~entry[t].missed
                 PROVE  entry[t].seen <= AvailabilityWindow
      BY DEF StaysAvailable, Available, FromLastSeen
    <2>1. t \in Topics /\ SeenInTime(t)
      BY Types DEF LivenessInv
    <2>2. entry[t].seen \in Nat
      BY <2>1, Types, Fields
    <2>3. \/ entry[t].seen + left <= Refresh + 2 * Window
          \/ entry[t].seen + clock <= Refresh + Window
      BY <2>1 DEF SeenInTime
    <2> QED BY <2>2, <2>3, Types, Durations DEF AvailabilityWindow
  <1> QED BY <1>1, LivenessInvariant, PTL

\* A topic a client asked for waits less than three sampling windows for its
\* sampler, however the request falls into the cycle and the batches.
THEOREM RequestedIsCovered == Spec => []CoveredSoon
  <1>1. LivenessInv => CoveredSoon
    BY DEF LivenessInv, WaitsInTime, CoveredSoon
  <1> QED BY <1>1, LivenessInvariant, PTL
=============================================================================
