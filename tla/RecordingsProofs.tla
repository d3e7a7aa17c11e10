-------------------------- MODULE RecordingsProofs --------------------------
(***************************************************************************)
(* Proofs about the recordings.                                            *)
(*                                                                         *)
(* McapRead: for any recorders and any length of a recording, and wherever *)
(* it is cut short, a listing counts every message that is left; and where *)
(* the summary is taken for enough it says just what the data say.         *)
(*                                                                         *)
(* McapScan: for any files, any number of concurrent listings and any      *)
(* number of versions, the set of files in flight is exact, what is cached *)
(* for a file as it is now is of its present content, a version is scanned *)
(* once, and the channel to the thread is no longer than the directory.    *)
(*                                                                         *)
(* With TimelineProofs, the same of the composition of the three.          *)
(***************************************************************************)
EXTENDS MCRecordings, TimelineProofs


-----------------------------------------------------------------------------
(* The records of a file and the items within its chunks.                  *)

Item == [kind : {"channel"}, channel : Channels]
            \cup [kind : {"message"}, channel : Channels, time : Int]
Plain == Item \cup {IndexRecord(c, IndexOf(s, c)) : c \in Channels, s \in Seq(Item)}
              \cup {StepRecord(n) : n \in Int} \cup {SyncRecord, DataEnd, SummarySection}
Record == Plain \cup {ChunkRecord(s) : s \in Seq(Item)}

\* What a record adds to the items of a file.
RecItems(r) == IF r.kind = "chunk" THEN r.items ELSE <<r>>

LEMMA RecordKinds ==
    ASSUME NEW r \in Record
    PROVE  /\ r.kind = "chunk" => r.items \in Seq(Item) /\ r = ChunkRecord(r.items)
           /\ r.kind # "chunk" => r \in Plain
           /\ r.kind = "channel" => r = ChannelRecord(r.channel) /\ r.channel \in Channels
           /\ r.kind = "message" => r = MessageRecord(r.channel, r.time) /\ r.channel \in Channels
           /\ r.kind = "index" => r = IndexRecord(r.channel, r.times)
           /\ r.kind = "end" => r = DataEnd
  <1>1. CASE \E s \in Seq(Item) : r = ChunkRecord(s)
    BY <1>1 DEF ChunkRecord
  <1>2. CASE r \in Plain
    BY <1>2 DEF Plain, Item, IndexRecord, StepRecord, SyncRecord, DataEnd, SummarySection,
                ChannelRecord, MessageRecord
  <1> QED BY <1>1, <1>2 DEF Record

LEMMA RecItemsType ==
    ASSUME NEW r \in Record PROVE RecItems(r) \in Seq(Plain)
  <1>1. CASE r.kind = "chunk"
    <2>1. r.items \in Seq(Item)
      BY <1>1, RecordKinds
    <2>2. Item \subseteq Plain
      BY DEF Plain
    <2> HIDE DEF Item
    <2>3. r.items \in Seq(Plain)
      BY <2>1, <2>2
    <2> QED BY <1>1, <2>3 DEF RecItems
  <1>2. CASE r.kind # "chunk"
    BY <1>2, RecordKinds DEF RecItems
  <1> QED BY <1>1, <1>2

LEMMA ItemsAppend ==
    ASSUME NEW f \in Seq(Record), NEW r \in Record
    PROVE  /\ ItemsOf(f) \in Seq(Plain)
           /\ ItemsOf(Append(f, r)) = ItemsOf(f) \o RecItems(r)
  <1> DEFINE p == [i \in DOMAIN f |-> RecItems(f[i])]
             F == Append(f, r)
             P == [i \in DOMAIN F |-> RecItems(F[i])]
             n == Len(f)
  <1>0. n \in Nat
    OBVIOUS
  <1>1. F \in Seq(Record) /\ Len(F) = n + 1 /\ DOMAIN F = 1..n + 1 /\ DOMAIN f = 1..n
        /\ F[n + 1] = r /\ \A i \in 1..n : F[i] = f[i]
    OBVIOUS
  <1>2. \A i \in DOMAIN f : RecItems(f[i]) \in Seq(Plain)
    BY RecItemsType, <1>1
  <1>3. \A i \in DOMAIN F : RecItems(F[i]) \in Seq(Plain)
    BY RecItemsType, <1>1
  <1>4. p \in Seq(Seq(Plain)) /\ Len(p) = n /\ ItemsOf(f) = FlattenSeq(p)
        /\ \A i \in 1..n : p[i] = RecItems(f[i])
    BY <1>0, <1>1, <1>2 DEF ItemsOf, RecItems
  <1> HIDE DEF F
  <1>5. P \in Seq(Seq(Plain)) /\ Len(P) = n + 1 /\ ItemsOf(F) = FlattenSeq(P)
        /\ \A i \in 1..n + 1 : P[i] = RecItems(F[i])
    BY <1>0, <1>1, <1>3 DEF ItemsOf, RecItems
  <1> HIDE DEF p, P, n
  <1>6. P[n + 1] = RecItems(r) /\ RecItems(r) \in Seq(Plain)
    BY <1>0, <1>1, <1>5, RecItemsType
  <1>7. P = Append(p, RecItems(r))
    <2>1. \A i \in 1..n : P[i] = p[i]
      BY <1>0, <1>1, <1>4, <1>5
    <2>2. Append(p, RecItems(r)) \in Seq(Seq(Plain)) /\ Len(Append(p, RecItems(r))) = n + 1
          /\ Append(p, RecItems(r))[n + 1] = RecItems(r)
          /\ \A i \in 1..n : Append(p, RecItems(r))[i] = p[i]
      BY <1>4, <1>6
    <2> DEFINE A == Append(p, RecItems(r))
    <2> HIDE DEF A
    <2>3. \A i \in 1..n + 1 : P[i] = A[i]
      BY <1>0, <1>6, <2>1, <2>2 DEF A
    <2> QED BY <1>5, <2>2, <2>3, SeqEqual DEF A
  <1>8. FlattenSeq(p) \in Seq(Plain) /\ FlattenSeq(P) = FlattenSeq(p) \o RecItems(r)
    BY <1>4, <1>6, <1>7, FlattenAppended
  <1> QED BY <1>4, <1>5, <1>8 DEF F

LEMMA NoItems == ItemsOf(<<>>) = <<>>
  <1> DEFINE p == [i \in DOMAIN <<>> |-> RecItems(<<>>[i])]
  <1>1. p = <<>>
    OBVIOUS
  <1>2. ItemsOf(<<>>) = FlattenSeq(p)
    BY DEF ItemsOf, RecItems
  <1> QED BY <1>1, <1>2, NothingFlattened

-----------------------------------------------------------------------------
(* What is counted in the items of a file.                                 *)

\* Where the messages of a channel are.
PlacesOf(items, c) == {i \in DOMAIN items : items[i].kind = "message" /\ items[i].channel = c}

LEMMA CountsAre ==
    ASSUME NEW items
    PROVE  /\ DOMAIN CountsOf(items) = ChannelsWithMessages(items)
           /\ CountsOf(items) = [c \in ChannelsWithMessages(items) |-> Cardinality(PlacesOf(items, c))]
           /\ \A c : DOMAIN IndexOf(items, c) = PlacesOf(items, c)
  <1>1. \A c : DOMAIN IndexOf(items, c) = PlacesOf(items, c)
    BY DEF IndexOf, PlacesOf
  <1> QED BY <1>1 DEF CountsOf

LEMMA PlacesFinite ==
    ASSUME NEW S, NEW items \in Seq(S), NEW c
    PROVE  /\ IsFiniteSet(PlacesOf(items, c)) /\ Cardinality(PlacesOf(items, c)) \in Nat
           /\ c \notin ChannelsWithMessages(items) => Cardinality(PlacesOf(items, c)) = 0
  <1>1. PlacesOf(items, c) \subseteq 1..Len(items) /\ Len(items) \in Nat
    BY DEF PlacesOf
  <1>2. IsFiniteSet(1..Len(items))
    BY <1>1, FS_Interval
  <1>3. IsFiniteSet(PlacesOf(items, c)) /\ Cardinality(PlacesOf(items, c)) \in Nat
    BY <1>1, <1>2, FS_Subset, FS_CardinalityType
  <1>4. c \notin ChannelsWithMessages(items) => PlacesOf(items, c) = {}
    BY DEF PlacesOf, ChannelsWithMessages
  <1> QED BY <1>3, <1>4, FS_EmptySet

LEMMA PlacesAppended ==
    ASSUME NEW S, NEW a \in Seq(S), NEW b \in Seq(S), NEW c
    PROVE  Cardinality(PlacesOf(a \o b, c)) = Cardinality(PlacesOf(a, c)) + Cardinality(PlacesOf(b, c))
  <1> DEFINE n == Len(a)
             A == PlacesOf(a, c)
             B == PlacesOf(b, c)
             B1 == {i + n : i \in B}
  <1>1. n \in Nat /\ A \subseteq 1..n /\ B \subseteq Nat \ {0} /\ Len(b) \in Nat
        /\ DOMAIN a = 1..n /\ DOMAIN b = 1..Len(b)
    BY DEF PlacesOf
  <1>2. a \o b \in Seq(S) /\ DOMAIN (a \o b) = 1..n + Len(b)
        /\ (\A i \in 1..n : (a \o b)[i] = a[i])
        /\ (\A i \in 1..Len(b) : (a \o b)[i + n] = b[i])
    OBVIOUS
  <1> HIDE DEF n
  <1>3. PlacesOf(a \o b, c) = A \cup B1
    <2>1. ASSUME NEW i \in PlacesOf(a \o b, c) PROVE i \in A \cup B1
      <3>1. i \in 1..n + Len(b) /\ (a \o b)[i].kind = "message" /\ (a \o b)[i].channel = c
        BY <1>2, <2>1 DEF PlacesOf
      <3>2. CASE i <= n
        <4>1. i \in 1..n
          BY <1>1, <3>1, <3>2
        <4> QED BY <1>1, <1>2, <3>1, <4>1 DEF PlacesOf
      <3>3. CASE i > n
        <4>1. i - n \in 1..Len(b) /\ (i - n) + n = i
          BY <1>1, <3>1, <3>3
        <4>2. i - n \in B
          BY <1>1, <1>2, <3>1, <4>1 DEF PlacesOf
        <4> QED BY <4>1, <4>2
      <3> QED BY <1>1, <3>1, <3>2, <3>3
    <2>2. ASSUME NEW i \in A PROVE i \in PlacesOf(a \o b, c)
      <3>1. i \in 1..n /\ i \in 1..n + Len(b)
        BY <1>1, <2>2
      <3> QED BY <1>2, <2>2, <3>1 DEF PlacesOf
    <2>3. ASSUME NEW i \in B PROVE i + n \in PlacesOf(a \o b, c)
      <3>1. i \in 1..Len(b)
        BY <1>1, <2>3 DEF PlacesOf
      <3>2. i + n \in 1..n + Len(b)
        BY <1>1, <3>1
      <3> QED BY <1>2, <2>3, <3>1, <3>2 DEF PlacesOf
    <2> QED BY <2>1, <2>2, <2>3
  <1>4. IsFiniteSet(A) /\ IsFiniteSet(B) /\ Cardinality(A) \in Nat /\ Cardinality(B) \in Nat
    BY PlacesFinite
  <1>5. IsFiniteSet(B1) /\ Cardinality(B1) = Cardinality(B)
    <2> DEFINE f == [i \in B |-> i + n]
    <2>1. f \in [B -> B1] /\ (\A x, y \in B : f[x] = f[y] => x = y) /\ (\A t \in B1 : \E x \in B : f[x] = t)
      BY <1>1
    <2> HIDE DEF f, B, B1
    <2>2. ExistsBijection(B, B1)
      BY <2>1 DEF ExistsBijection, Bijection, Injection, Surjection, IsInjective
    <2> QED BY <1>4, <2>2, FS_Bijection
  <1>6. A \cap B1 = {}
    BY <1>1
  <1> HIDE DEF A, B, B1
  <1>7. Cardinality(A \cup B1) = Cardinality(A) + Cardinality(B1) - Cardinality(A \cap B1)
    BY <1>4, <1>5, FS_Union
  <1>8. Cardinality(A \cap B1) = 0
    BY <1>6, FS_EmptySet
  <1> QED BY <1>3, <1>4, <1>5, <1>7, <1>8 DEF A, B

LEMMA Among ==
    ASSUME NEW items, NEW c
    PROVE  /\ c \in ChannelsIn(items)
                <=> \E i \in DOMAIN items : items[i].kind = "channel" /\ items[i].channel = c
           /\ c \in ChannelsWithMessages(items)
                <=> \E i \in DOMAIN items : items[i].kind = "message" /\ items[i].channel = c
  BY DEF ChannelsIn, ChannelsWithMessages

\* Declared and counted are those of both parts.
LEMMA PartsAppended ==
    ASSUME NEW S, NEW a \in Seq(S), NEW b \in Seq(S)
    PROVE  /\ ChannelsIn(a \o b) = ChannelsIn(a) \cup ChannelsIn(b)
           /\ ChannelsWithMessages(a \o b) = ChannelsWithMessages(a) \cup ChannelsWithMessages(b)
           /\ CountsOf(a \o b) = Added(CountsOf(a), CountsOf(b))
  <1> DEFINE n == Len(a)
             s == a \o b
  <1>1. n \in Nat /\ DOMAIN a = 1..n /\ DOMAIN b = 1..Len(b) /\ Len(b) \in Nat
        /\ DOMAIN s = 1..n + Len(b)
        /\ (\A i \in 1..n : s[i] = a[i])
        /\ (\A i \in 1..Len(b) : s[i + n] = b[i])
    OBVIOUS
  <1> HIDE DEF n, s
  <1>2. ASSUME NEW i \in DOMAIN s
        PROVE  (i \in DOMAIN a /\ s[i] = a[i]) \/ (\E j \in DOMAIN b : s[i] = b[j])
    <2>1. CASE i <= n
      BY <1>1, <2>1
    <2>2. CASE i > n
      <3>1. i - n \in 1..Len(b) /\ (i - n) + n = i
        BY <1>1, <2>2
      <3> QED BY <1>1, <3>1
    <2> QED BY <1>1, <2>1, <2>2
  <1>3. ASSUME NEW i \in DOMAIN a PROVE i \in DOMAIN s /\ s[i] = a[i]
    <2>1. i \in 1..n /\ i \in 1..n + Len(b)
      BY <1>1
    <2> QED BY <1>1, <2>1
  <1>4. ASSUME NEW j \in DOMAIN b PROVE \E i \in DOMAIN s : s[i] = b[j]
    <2>1. j \in 1..Len(b) /\ j + n \in 1..n + Len(b)
      BY <1>1
    <2> QED BY <1>1, <2>1
  <1>5. ChannelsIn(s) = ChannelsIn(a) \cup ChannelsIn(b)
    <2>1. ASSUME NEW c PROVE c \in ChannelsIn(s) <=> c \in ChannelsIn(a) \/ c \in ChannelsIn(b)
      <3>1. ASSUME c \in ChannelsIn(s) PROVE c \in ChannelsIn(a) \/ c \in ChannelsIn(b)
        BY <1>2, <3>1, Among
      <3>2. ASSUME c \in ChannelsIn(a) PROVE c \in ChannelsIn(s)
        BY <1>3, <3>2, Among
      <3>3. ASSUME c \in ChannelsIn(b) PROVE c \in ChannelsIn(s)
        BY <1>4, <3>3, Among
      <3> QED BY <3>1, <3>2, <3>3
    <2> QED BY <2>1
  <1>6. ChannelsWithMessages(s) = ChannelsWithMessages(a) \cup ChannelsWithMessages(b)
    <2>1. ASSUME NEW c PROVE c \in ChannelsWithMessages(s) <=> c \in ChannelsWithMessages(a) \/ c \in ChannelsWithMessages(b)
      <3>1. ASSUME c \in ChannelsWithMessages(s) PROVE c \in ChannelsWithMessages(a) \/ c \in ChannelsWithMessages(b)
        BY <1>2, <3>1, Among
      <3>2. ASSUME c \in ChannelsWithMessages(a) PROVE c \in ChannelsWithMessages(s)
        BY <1>3, <3>2, Among
      <3>3. ASSUME c \in ChannelsWithMessages(b) PROVE c \in ChannelsWithMessages(s)
        BY <1>4, <3>3, Among
      <3> QED BY <3>1, <3>2, <3>3
    <2> QED BY <2>1
  <1>7. CountsOf(s) = Added(CountsOf(a), CountsOf(b))
    <2> DEFINE A == ChannelsWithMessages(a)
               B == ChannelsWithMessages(b)
    <2>1. CountsOf(s) = [c \in A \cup B |-> Cardinality(PlacesOf(s, c))]
      BY <1>6, CountsAre
    <2>2. DOMAIN CountsOf(a) = A /\ DOMAIN CountsOf(b) = B
          /\ (\A c \in A : CountsOf(a)[c] = Cardinality(PlacesOf(a, c)))
          /\ (\A c \in B : CountsOf(b)[c] = Cardinality(PlacesOf(b, c)))
      BY CountsAre
    <2>3. ASSUME NEW c \in A \cup B
          PROVE  Cardinality(PlacesOf(s, c)) = (IF c \in A THEN CountsOf(a)[c] ELSE 0)
                                                 + (IF c \in B THEN CountsOf(b)[c] ELSE 0)
      <3>1. Cardinality(PlacesOf(s, c)) = Cardinality(PlacesOf(a, c)) + Cardinality(PlacesOf(b, c))
        BY PlacesAppended DEF s
      <3>2. c \notin A => Cardinality(PlacesOf(a, c)) = 0
        BY PlacesFinite
      <3>3. c \notin B => Cardinality(PlacesOf(b, c)) = 0
        BY PlacesFinite
      <3> QED BY <2>2, <3>1, <3>2, <3>3
    <2> HIDE DEF A, B
    <2> QED BY <2>1, <2>2, <2>3 DEF Added
  <1> QED BY <1>5, <1>6, <1>7 DEF s

LEMMA CountsType ==
    ASSUME NEW S, NEW items \in Seq(S)
    PROVE  CountsOf(items) \in [ChannelsWithMessages(items) -> Nat]
  <1>1. \A c : Cardinality(PlacesOf(items, c)) \in Nat
    BY PlacesFinite
  <1> QED BY <1>1, CountsAre

LEMMA AddedNothing ==
    ASSUME NEW D, NEW counts \in [D -> Nat], NEW more, DOMAIN more = {}
    PROVE  Added(counts, more) = counts
  BY DEF Added

LEMMA NothingIn ==
    /\ ChannelsIn(<<>>) = {} /\ ChannelsWithMessages(<<>>) = {} /\ DOMAIN CountsOf(<<>>) = {}
    /\ CountsOf(<<>>) = << >>
  <1>1. DOMAIN <<>> = {}
    OBVIOUS
  <1>2. ChannelsIn(<<>>) = {} /\ ChannelsWithMessages(<<>>) = {}
    BY <1>1 DEF ChannelsIn, ChannelsWithMessages
  <1>3. CountsOf(<<>>) = [c \in {} |-> Cardinality(PlacesOf(<<>>, c))]
    BY <1>2, CountsAre
  <1>4. CountsOf(<<>>) = << >>
    BY <1>3
  <1> QED BY <1>2, <1>3, <1>4

LEMMA OneRecord ==
    ASSUME NEW r
    PROVE  /\ ChannelsIn(<<r>>) = IF r.kind = "channel" THEN {r.channel} ELSE {}
           /\ ChannelsWithMessages(<<r>>) = IF r.kind = "message" THEN {r.channel} ELSE {}
           /\ CountsOf(<<r>>) = [c \in ChannelsWithMessages(<<r>>) |-> 1]
  <1>1. DOMAIN <<r>> = {1} /\ <<r>>[1] = r
    OBVIOUS
  <1>2. ChannelsIn(<<r>>) = IF r.kind = "channel" THEN {r.channel} ELSE {}
    BY <1>1 DEF ChannelsIn
  <1>3. ChannelsWithMessages(<<r>>) = IF r.kind = "message" THEN {r.channel} ELSE {}
    BY <1>1 DEF ChannelsWithMessages
  <1>4. ASSUME NEW c \in ChannelsWithMessages(<<r>>) PROVE Cardinality(PlacesOf(<<r>>, c)) = 1
    <2>1. PlacesOf(<<r>>, c) = {1}
      BY <1>1, <1>3 DEF PlacesOf
    <2> QED BY <2>1, FS_Singleton
  <1>5. CountsOf(<<r>>) = [c \in ChannelsWithMessages(<<r>>) |-> 1]
    BY <1>4, CountsAre
  <1> QED BY <1>2, <1>3, <1>5

-----------------------------------------------------------------------------
(* The scan, record by record.                                             *)

\* g[k] is what the first k records of q come to.
Reads(g, q, n) == g[0] = NewScan /\ \A k \in 1..n : g[k] = ScanRecord(g[k - 1], q[k])

LEMMA GreatestOf ==
    ASSUME NEW n \in Nat, NEW T \in SUBSET (1..n), T # {}
    PROVE  /\ Max(T) \in T /\ \A y \in T : y <= Max(T)
           /\ T \ {Max(T)} \subseteq 1..Max(T) - 1
  <1> DEFINE B == {m \in Nat : \A x \in T : x <= m}
  <1>1. B \subseteq Nat /\ n \in B
    OBVIOUS
  <1>2. PICK m \in B : \A b \in B : m <= b
    BY <1>1, LeastOf
  <1>3. m \in T
    <2>1. SUFFICES ASSUME m \notin T PROVE FALSE
      OBVIOUS
    <2>2. PICK x \in T : TRUE
      OBVIOUS
    <2>3. x \in 1..n /\ x <= m /\ x # m
      BY <1>2, <2>1, <2>2
    <2>4. m - 1 \in Nat
      BY <1>2, <2>3
    <2>5. \A y \in T : y <= m - 1
      BY <1>2, <2>1
    <2> QED BY <1>2, <2>4, <2>5
  <1>4. \A y \in T : m >= y
    BY <1>2
  <1> HIDE DEF B
  <1>5. Max(T) \in T /\ \A y \in T : Max(T) >= y
    BY <1>3, <1>4 DEF Max
  <1> DEFINE M == Max(T)
  <1> HIDE DEF M
  <1>6. M \in 1..n /\ M \in T /\ \A y \in T : y \in 1..n /\ y <= M
    BY <1>5 DEF M
  <1>7. T \ {M} \subseteq 1..M - 1
    BY <1>6
  <1> QED BY <1>6, <1>7 DEF M

\* What is scanned of the records at some places, by a function of sets of places.
ScansAt(h, q, n) ==
    h = [T \in SUBSET (1..n) |-> IF T = {} THEN NewScan
                                 ELSE ScanRecord(h[T \ {Max(T)}], q[Max(T)])]

LEMMA ScansAtExists ==
    ASSUME NEW n \in Nat, NEW q PROVE \E h : ScansAt(h, q, n)
  <1> DEFINE N == {k \in 0..n : \E h : ScansAt(h, q, k)}
  <1>1. 0 \in N
    <2> DEFINE h == [T \in SUBSET (1..0) |-> NewScan]
    <2>1. SUBSET (1..0) = {{}}
      OBVIOUS
    <2>2. ScansAt(h, q, 0)
      BY <2>1 DEF ScansAt
    <2> HIDE DEF h
    <2> QED BY <2>2
  <1>2. ASSUME NEW k \in 1..n, k - 1 \in N PROVE k \in N
    <2>1. PICK g : ScansAt(g, q, k - 1)
      BY <1>2
    <2> DEFINE h == [T \in SUBSET (1..k) |-> IF T = {} THEN NewScan
                                             ELSE ScanRecord(g[T \ {Max(T)}], q[Max(T)])]
    <2>2. \A T \in SUBSET (1..k - 1) :
            g[T] = IF T = {} THEN NewScan ELSE ScanRecord(g[T \ {Max(T)}], q[Max(T)])
      BY <2>1 DEF ScansAt
    <2>3. \A T \in SUBSET (1..k - 1) : T \in SUBSET (1..k)
      OBVIOUS
    <2>4. \A T \in SUBSET (1..k - 1) : h[T] = g[T]
      BY <2>2, <2>3
    <2>5. ASSUME NEW T \in SUBSET (1..k), T # {} PROVE T \ {Max(T)} \in SUBSET (1..k - 1)
      <3>1. k \in Nat
        OBVIOUS
      <3>2. Max(T) \in T /\ T \ {Max(T)} \subseteq 1..Max(T) - 1
        BY <2>5, <3>1, GreatestOf
      <3>3. Max(T) \in 1..k
        BY <3>2
      <3>4. 1..Max(T) - 1 \subseteq 1..k - 1
        BY <3>1, <3>3
      <3> QED BY <3>2, <3>4
    <2>6. h = [T \in SUBSET (1..k) |-> IF T = {} THEN NewScan
                                       ELSE ScanRecord(h[T \ {Max(T)}], q[Max(T)])]
      <3>1. \A T \in SUBSET (1..k) : T # {} => h[T \ {Max(T)}] = g[T \ {Max(T)}]
        BY <2>4, <2>5
      <3> QED BY <3>1
    <2> HIDE DEF h
    <2>7. ScansAt(h, q, k)
      BY <2>6 DEF ScansAt
    <2> QED BY <2>7
  <1> HIDE DEF N
  <1>3. \A k \in 0..n : k \in N
    BY <1>1, <1>2, StepByStep
  <1> QED BY <1>3 DEF N

LEMMA ScanSteps ==
    ASSUME NEW S, NEW q \in Seq(S)
    PROVE  \E g : /\ Reads(g, q, Len(q))
                  /\ FoldLeft(ScanRecord, NewScan, q) = g[Len(q)]
  <1> DEFINE n == Len(q)
             iter == CHOOSE h : ScansAt(h, q, n)
             g == [k \in 0..n |-> iter[1..k]]
  <1>1. n \in Nat /\ DOMAIN q = 1..n
    OBVIOUS
  <1>2. FoldLeft(ScanRecord, NewScan, q) = iter[1..n]
    <2> DEFINE Is(h) == h = [T \in SUBSET DOMAIN q |->
                               IF T = {} THEN NewScan
                               ELSE ScanRecord(h[T \ {Max(T)}], q[Max(T)])]
    <2>1. FoldLeft(ScanRecord, NewScan, q) = (CHOOSE h : Is(h))[DOMAIN q]
      BY DEF FoldLeft, MapThenFoldSet
    <2>2. \A h : Is(h) = ScansAt(h, q, n)
      BY <1>1 DEF ScansAt
    <2> HIDE DEF Is
    <2>3. (CHOOSE h : Is(h)) = iter
      BY <2>2
    <2> QED BY <1>1, <2>1, <2>3
  <1> HIDE DEF n
  <1>3. ScansAt(iter, q, n)
    <2>1. \E h : ScansAt(h, q, n)
      BY <1>1, ScansAtExists
    <2> QED BY <2>1
  <1> HIDE DEF iter
  <1>4. g[0] = NewScan
    BY <1>1, <1>3 DEF ScansAt
  <1>5. ASSUME NEW k \in 1..n PROVE g[k] = ScanRecord(g[k - 1], q[k])
    <2>1. 1..k \in SUBSET (1..n) /\ 1..k # {} /\ k \in 0..n /\ k - 1 \in 0..n /\ k \in Nat
      BY <1>1
    <2>2. Max(1..k) \in 1..k /\ \A y \in 1..k : y <= Max(1..k)
      BY <2>1, GreatestOf
    <2>3. Max(1..k) = k
      BY <2>1, <2>2
    <2>4. (1..k) \ {k} = 1..k - 1
      BY <2>1
    <2>5. iter[1..k] = ScanRecord(iter[(1..k) \ {Max(1..k)}], q[Max(1..k)])
      BY <1>3, <2>1 DEF ScansAt
    <2> QED BY <2>1, <2>3, <2>4, <2>5
  <1>6. g[n] = iter[1..n]
    BY <1>1
  <1> HIDE DEF g
  <1>7. Reads(g, q, n)
    BY <1>4, <1>5 DEF Reads
  <1> QED BY <1>2, <1>6, <1>7 DEF n

LEMMA ScanAppend ==
    ASSUME NEW S, NEW q \in Seq(S), NEW r \in S
    PROVE  FoldLeft(ScanRecord, NewScan, Append(q, r))
              = ScanRecord(FoldLeft(ScanRecord, NewScan, q), r)
  <1> DEFINE Q == Append(q, r)
             n == Len(q)
  <1>1. Q \in Seq(S) /\ n \in Nat /\ Len(Q) = n + 1 /\ Q[n + 1] = r /\ \A i \in 1..n : Q[i] = q[i]
    OBVIOUS
  <1> HIDE DEF Q
  <1>2. PICK g : Reads(g, q, n) /\ FoldLeft(ScanRecord, NewScan, q) = g[n]
    BY ScanSteps
  <1>3. PICK h : Reads(h, Q, n + 1) /\ FoldLeft(ScanRecord, NewScan, Q) = h[n + 1]
    <2>1. \E h : Reads(h, Q, Len(Q)) /\ FoldLeft(ScanRecord, NewScan, Q) = h[Len(Q)]
      BY <1>1, ScanSteps
    <2> QED BY <1>1, <2>1
  <1> HIDE DEF n
  <1> DEFINE T == {i \in 0..n : g[i] = h[i]}
  <1>4. 0 \in T
    BY <1>1, <1>2, <1>3 DEF Reads
  <1>5. ASSUME NEW i \in 1..n, i - 1 \in T PROVE i \in T
    <2>1. i \in 1..n + 1 /\ i \in 0..n /\ g[i - 1] = h[i - 1]
      BY <1>1, <1>5
    <2>2. g[i] = ScanRecord(g[i - 1], q[i]) /\ h[i] = ScanRecord(h[i - 1], Q[i])
      BY <1>2, <1>3, <2>1 DEF Reads
    <2> QED BY <1>1, <2>1, <2>2
  <1> HIDE DEF T
  <1>6. \A i \in 0..n : i \in T
    BY <1>1, <1>4, <1>5, StepByStep
  <1>7. g[n] = h[n]
    BY <1>1, <1>6 DEF T
  <1>8. h[n + 1] = ScanRecord(h[n], r)
    <2>1. n + 1 \in 1..n + 1 /\ (n + 1) - 1 = n
      BY <1>1
    <2>2. h[n + 1] = ScanRecord(h[(n + 1) - 1], Q[n + 1])
      BY <1>3, <2>1 DEF Reads
    <2> QED BY <1>1, <2>1, <2>2
  <1> QED BY <1>2, <1>3, <1>7, <1>8 DEF Q

LEMMA NothingScanned == FoldLeft(ScanRecord, NewScan, <<>>) = NewScan
  <1>1. <<>> \in Seq({}) /\ Len(<<>>) = 0
    OBVIOUS
  <1>2. PICK g : Reads(g, <<>>, 0) /\ FoldLeft(ScanRecord, NewScan, <<>>) = g[0]
    BY <1>1, ScanSteps
  <1> QED BY <1>2 DEF Reads

-----------------------------------------------------------------------------
(* What the scan holds of the items so far.                                *)

\* Every channel that a chunk declares has a message in it.
Uses(items) == ChannelsIn(items) \subseteq ChannelsWithMessages(items)

ScanShape(s) ==
    \E e, t, n, y, k, z : s = [entries |-> e, topics |-> t, counts |-> n, sync |-> y,
                               chunk |-> k, skipped |-> z]

\* A chunk that is read, with indexes of some of its channels.
Pending(k) ==
    /\ \E s, x : k = [kind |-> "chunk", items |-> s, indexes |-> x]
    /\ k.items \in Seq(Item) /\ Uses(k.items)
    /\ DOMAIN k.indexes \subseteq ChannelsWithMessages(k.items)
    /\ k.indexes = [c \in DOMAIN k.indexes |-> IndexOf(k.items, c)]

\* With the messages and channels of the chunk that is read, those of all items.
Accounts(s, all) ==
    /\ ScanShape(s)
    /\ s.chunk = NoChunk => s.counts = CountsOf(all) /\ ChannelsIn(all) \subseteq s.topics
    /\ s.chunk # NoChunk =>
          /\ Pending(s.chunk)
          /\ Added(s.counts, CountsOf(s.chunk.items)) = CountsOf(all)
          /\ ChannelsIn(all) \subseteq s.topics \cup ChannelsIn(s.chunk.items)

\* It has all indexes, or none.
AllOrNoIndexes(k) == k.indexes = << >> \/ DOMAIN k.indexes = ChannelsWithMessages(k.items)

LEMMA ExpandedHolds ==
    ASSUME NEW s, NEW all, Accounts(s, all), s.chunk # NoChunk
    PROVE  Accounts(Expanded(s, s.chunk.items), all) /\ Expanded(s, s.chunk.items).chunk = NoChunk
  <1> DEFINE t == Expanded(s, s.chunk.items)
  <1>1. PICK e, p, n, y, k, z : s = [entries |-> e, topics |-> p, counts |-> n, sync |-> y,
                                     chunk |-> k, skipped |-> z]
    BY DEF Accounts, ScanShape
  <1>2. t = [entries |-> Append(e, MessagesEntry(TimesOf(k.items))), topics |-> p \cup ChannelsIn(k.items),
             counts |-> Added(n, CountsOf(k.items)), sync |-> y, chunk |-> NoChunk, skipped |-> z]
    <2>1. t = [s EXCEPT !.entries = Append(@, MessagesEntry(TimesOf(k.items))),
                        !.topics = @ \cup ChannelsIn(k.items),
                        !.counts = Added(@, CountsOf(k.items)),
                        !.chunk = NoChunk]
      BY <1>1 DEF Expanded
    <2> DEFINE m == MessagesEntry(TimesOf(k.items))
               d == ChannelsIn(k.items)
               q == CountsOf(k.items)
    <2> HIDE DEF t, m, d, q
    <2>2. t = [s EXCEPT !.entries = Append(@, m), !.topics = @ \cup d,
                        !.counts = Added(@, q), !.chunk = NoChunk]
      BY <2>1 DEF m, d, q
    <2>3. t = [entries |-> Append(e, m), topics |-> p \cup d,
             counts |-> Added(n, q), sync |-> y, chunk |-> NoChunk, skipped |-> z]
      BY <1>1, <2>2
    <2> QED BY <2>3 DEF m, d, q
  <1> HIDE DEF t
  <1>3. ScanShape(t)
    BY <1>2 DEF ScanShape
  <1>4. t.chunk = NoChunk /\ t.counts = Added(s.counts, CountsOf(s.chunk.items))
        /\ t.topics = s.topics \cup ChannelsIn(s.chunk.items)
    BY <1>1, <1>2
  <1> QED BY <1>3, <1>4 DEF Accounts, t

\* What the search for channels leaves.
LEMMA SeekChannelsKeeps ==
    ASSUME NEW s, ScanShape(s), NEW items, Uses(items)
    PROVE  LET t == SeekChannels(s, items, ChannelsWithMessages(items))
           IN  /\ ScanShape(t) /\ t.counts = s.counts
               /\ s.topics \cup ChannelsIn(items) \subseteq t.topics
  <1>1. PICK e, p, n, y, k, z : s = [entries |-> e, topics |-> p, counts |-> n, sync |-> y,
                                     chunk |-> k, skipped |-> z]
    BY DEF ScanShape
  <1> DEFINE named == ChannelsWithMessages(items)
             t == SeekChannels(s, items, named)
  <1>2. CASE named \subseteq s.topics
    <2>1. t = [entries |-> e, topics |-> p, counts |-> n, sync |-> y, chunk |-> k,
               skipped |-> Append(z, items)]
      BY <1>1, <1>2 DEF SeekChannels
    <2> HIDE DEF t
    <2>2. ScanShape(t)
      BY <2>1 DEF ScanShape
    <2>3. ChannelsIn(items) \subseteq p
      BY <1>1, <1>2 DEF Uses
    <2> QED BY <1>1, <2>1, <2>2, <2>3 DEF t
  <1>3. CASE ~(named \subseteq s.topics)
    <2>1. PICK m : t = ReadBack(s, items, m)
      BY <1>3 DEF SeekChannels
    <2>2. t = [entries |-> e, topics |-> KnownAfter(s, items, m), counts |-> n, sync |-> y,
               chunk |-> k, skipped |-> SubSeq(z, 1, Len(z) - m)]
      BY <1>1, <2>1 DEF ReadBack
    <2> HIDE DEF t
    <2>3. ScanShape(t)
      BY <2>2 DEF ScanShape
    <2>4. s.topics \cup ChannelsIn(items) \subseteq KnownAfter(s, items, m)
      BY DEF KnownAfter
    <2> QED BY <1>1, <2>2, <2>3, <2>4 DEF t
  <1> QED BY <1>2, <1>3

LEMMA IndexedHolds ==
    ASSUME NEW s, NEW all, Accounts(s, all), s.chunk # NoChunk,
           DOMAIN s.chunk.indexes = ChannelsWithMessages(s.chunk.items)
    PROVE  LET t == Indexed(s, s.chunk.items, s.chunk.indexes)
           IN  Accounts(t, all) /\ t.chunk = NoChunk
  <1> DEFINE items == s.chunk.items
             indexes == s.chunk.indexes
             u == SeekChannels(s, items, ChannelsWithMessages(items))
             t == Indexed(s, items, indexes)
  <1>1. ScanShape(s) /\ Uses(items)
    BY DEF Accounts, Pending
  <1>2. ScanShape(u) /\ u.counts = s.counts /\ s.topics \cup ChannelsIn(items) \subseteq u.topics
    <2> HIDE DEF items
    <2> QED BY <1>1, SeekChannelsKeeps
  <1>3. t = [u EXCEPT !.entries = Append(@, ChunkEntry(items, indexes)),
                      !.counts = Added(@, [c \in DOMAIN indexes |-> Cardinality(DOMAIN indexes[c])]),
                      !.chunk = NoChunk]
    BY DEF Indexed
  <1>4. [c \in DOMAIN indexes |-> Cardinality(DOMAIN indexes[c])] = CountsOf(items)
    BY DEF Accounts, Pending, CountsOf
  <1> HIDE DEF u, t, items, indexes
  <1>5. PICK e, p, n, y, k, z : u = [entries |-> e, topics |-> p, counts |-> n, sync |-> y,
                                     chunk |-> k, skipped |-> z]
    BY <1>2 DEF ScanShape
  <1>6. t = [entries |-> Append(e, ChunkEntry(items, indexes)), topics |-> p,
             counts |-> Added(n, CountsOf(items)), sync |-> y, chunk |-> NoChunk, skipped |-> z]
    BY <1>3, <1>4, <1>5
  <1>7. ScanShape(t)
    BY <1>6 DEF ScanShape
  <1>8. t.chunk = NoChunk /\ t.counts = Added(s.counts, CountsOf(items)) /\ t.topics = u.topics
    BY <1>2, <1>5, <1>6
  <1>9. Accounts(t, all)
    BY <1>2, <1>7, <1>8 DEF Accounts, items
  <1> QED BY <1>8, <1>9 DEF t, items, indexes

\* A chunk that is left behind is accounted for.
LEMMA FlushHolds ==
    ASSUME NEW s, NEW all, Accounts(s, all), NEW expand \in BOOLEAN,
           expand \/ s.chunk = NoChunk \/ AllOrNoIndexes(s.chunk)
    PROVE  Accounts(Flush(s, expand), all) /\ Flush(s, expand).chunk = NoChunk
  <1>1. CASE s.chunk = NoChunk
    BY <1>1 DEF Flush
  <1>2. CASE s.chunk # NoChunk /\ (expand \/ s.chunk.indexes = << >>)
    <2>1. Flush(s, expand) = Expanded(s, s.chunk.items)
      BY <1>2 DEF Flush
    <2> QED BY <1>2, <2>1, ExpandedHolds
  <1>3. CASE s.chunk # NoChunk /\ ~(expand \/ s.chunk.indexes = << >>)
    <2>1. Flush(s, expand) = Indexed(s, s.chunk.items, s.chunk.indexes)
      BY <1>3 DEF Flush
    <2>2. DOMAIN s.chunk.indexes = ChannelsWithMessages(s.chunk.items)
      BY <1>3 DEF AllOrNoIndexes
    <2> QED BY <1>3, <2>1, <2>2, IndexedHolds
  <1> QED BY <1>1, <1>2, <1>3

LEMMA IndexHolds ==
    ASSUME NEW s, NEW all \in Seq(Plain), Accounts(s, all), s.chunk # NoChunk,
           NEW r \in Record, r.kind = "index",
           r.channel \in ChannelsWithMessages(s.chunk.items),
           r.times = IndexOf(s.chunk.items, r.channel)
    PROVE  LET t == ScanIndex(s, r)
           IN  /\ Accounts(t, all \o RecItems(r))
               /\ t.chunk # NoChunk /\ t.chunk.items = s.chunk.items
               /\ DOMAIN t.chunk.indexes = DOMAIN s.chunk.indexes \cup {r.channel}
  <1> DEFINE t == ScanIndex(s, r)
  <1>1. PICK e, p, n, y, k, z : s = [entries |-> e, topics |-> p, counts |-> n, sync |-> y,
                                     chunk |-> k, skipped |-> z]
    BY DEF Accounts, ScanShape
  <1>2. Pending(k) /\ k = s.chunk
    BY <1>1 DEF Accounts
  <1>3. PICK items, x : k = [kind |-> "chunk", items |-> items, indexes |-> x]
    BY <1>2 DEF Pending
  <1> DEFINE x1 == [c \in DOMAIN x \cup {r.channel} |-> IF c = r.channel THEN r.times ELSE x[c]]
             k1 == [kind |-> "chunk", items |-> items, indexes |-> x1]
  <1>4. t = [entries |-> e, topics |-> p, counts |-> n, sync |-> y, chunk |-> k1, skipped |-> z]
    <2> HIDE DEF x1
    <2>1. t = [s EXCEPT !.chunk.indexes = x1]
      BY <1>1, <1>3 DEF ScanIndex, x1
    <2>2. [s EXCEPT !.chunk.indexes = x1] = [s EXCEPT !.chunk = [s.chunk EXCEPT !.indexes = x1]]
      OBVIOUS
    <2> QED BY <1>1, <1>3, <2>1, <2>2
  <1> HIDE DEF t
  <1>5. DOMAIN x1 = DOMAIN x \cup {r.channel}
        /\ \A c \in DOMAIN x1 : x1[c] = IF c = r.channel THEN r.times ELSE x[c]
    OBVIOUS
  <1> HIDE DEF x1
  <1>6. Pending(k1)
    <2>1. k1.items = items /\ k1.indexes = x1
      OBVIOUS
    <2>2. items \in Seq(Item) /\ Uses(items) /\ DOMAIN x1 \subseteq ChannelsWithMessages(items)
      BY <1>2, <1>3, <1>5 DEF Pending
    <2>3. x1 = [c \in DOMAIN x1 |-> IndexOf(items, c)]
      <3>1. x = [c \in DOMAIN x |-> IndexOf(items, c)]
        BY <1>2, <1>3 DEF Pending
      <3>2. r.times = IndexOf(items, r.channel)
        BY <1>2, <1>3
      <3>3. \A c \in DOMAIN x \cup {r.channel} : x1[c] = IndexOf(items, c)
        BY <1>5, <3>1, <3>2
      <3> QED BY <1>5, <3>3 DEF x1
    <2>4. \E i, w : k1 = [kind |-> "chunk", items |-> i, indexes |-> w]
      OBVIOUS
    <2> HIDE DEF k1
    <2> QED BY <2>1, <2>2, <2>3, <2>4 DEF Pending
  <1>7. k1 # NoChunk /\ k1.items = items /\ k1.indexes = x1
    BY DEF NoChunk
  <1> HIDE DEF k1
  <1>8. t.chunk = k1 /\ t.counts = s.counts /\ t.topics = s.topics /\ ScanShape(t)
    BY <1>1, <1>4 DEF ScanShape
  <1>9. ChannelsIn(all \o RecItems(r)) = ChannelsIn(all) /\ CountsOf(all \o RecItems(r)) = CountsOf(all)
    <2>1. RecItems(r) = <<r>> /\ RecItems(r) \in Seq(Plain)
      BY RecItemsType DEF RecItems
    <2>2. ChannelsIn(<<r>>) = {} /\ ChannelsWithMessages(<<r>>) = {} /\ DOMAIN CountsOf(<<r>>) = {}
      BY OneRecord, CountsAre
    <2>3. CountsOf(all) \in [ChannelsWithMessages(all) -> Nat]
      BY CountsType
    <2>4. Added(CountsOf(all), CountsOf(<<r>>)) = CountsOf(all)
      BY <2>2, <2>3, AddedNothing
    <2>5. ChannelsIn(all \o <<r>>) = ChannelsIn(all) \cup ChannelsIn(<<r>>)
          /\ CountsOf(all \o <<r>>) = Added(CountsOf(all), CountsOf(<<r>>))
      <3> DEFINE more == <<r>>
      <3>1. more \in Seq(Plain)
        BY <2>1
      <3> HIDE DEF more
      <3>2. ChannelsIn(all \o more) = ChannelsIn(all) \cup ChannelsIn(more)
            /\ CountsOf(all \o more) = Added(CountsOf(all), CountsOf(more))
        BY <3>1, PartsAppended
      <3> QED BY <3>2 DEF more
    <2> QED BY <2>1, <2>2, <2>4, <2>5
  <1>10. Accounts(t, all \o RecItems(r))
    BY <1>1, <1>3, <1>6, <1>7, <1>8, <1>9 DEF Accounts
  <1> QED BY <1>1, <1>3, <1>5, <1>7, <1>8, <1>10 DEF t

\* What another record adds, when no chunk is read.
LEMMA OtherHolds ==
    ASSUME NEW s, NEW all \in Seq(Plain), Accounts(s, all), s.chunk = NoChunk,
           NEW r \in Record, r.kind # "index", r.kind = "chunk" => Uses(r.items)
    PROVE  LET t == ScanOther(s, r)
           IN  /\ Accounts(t, all \o RecItems(r))
               /\ r.kind = "chunk" => t.chunk = PendingChunk(r.items)
               /\ r.kind # "chunk" => t.chunk = NoChunk
  <1> DEFINE t == ScanOther(s, r)
             more == RecItems(r)
  <1>1. PICK e, p, n, y, k, z : s = [entries |-> e, topics |-> p, counts |-> n, sync |-> y,
                                     chunk |-> k, skipped |-> z]
    BY DEF Accounts, ScanShape
  <1>2. n = CountsOf(all) /\ ChannelsIn(all) \subseteq p /\ k = NoChunk
    BY <1>1 DEF Accounts
  <1>3. /\ ChannelsIn(all \o more) = ChannelsIn(all) \cup ChannelsIn(more)
        /\ CountsOf(all \o more) = Added(CountsOf(all), CountsOf(more))
    <2>1. more \in Seq(Plain)
      BY RecItemsType
    <2> HIDE DEF more
    <2> QED BY <2>1, PartsAppended
  <1>4. CountsOf(all) \in [ChannelsWithMessages(all) -> Nat]
    BY CountsType
  <1>5. CASE r.kind = "chunk"
    <2> DEFINE c == PendingChunk(r.items)
    <2>1. t = [entries |-> e, topics |-> p, counts |-> n, sync |-> y, chunk |-> c, skipped |-> z]
      <3>1. t = [s EXCEPT !.chunk = c]
        BY <1>5 DEF ScanOther
      <3> HIDE DEF t, c
      <3> QED BY <1>1, <3>1
    <2>2. Pending(c) /\ c # NoChunk /\ c.items = r.items
      <3>1. r.items \in Seq(Item) /\ Uses(r.items)
        BY <1>5, RecordKinds
      <3>2. DOMAIN << >> = {}
        OBVIOUS
      <3>3. c.items = r.items /\ c.indexes = << >> /\ c.kind = "chunk" /\ NoChunk.kind = "none"
        BY DEF PendingChunk, NoChunk
      <3>4. \E i, x : c = [kind |-> "chunk", items |-> i, indexes |-> x]
        BY DEF PendingChunk
      <3>5. c.indexes = [d \in {} |-> IndexOf(r.items, d)]
        BY <3>3
      <3>6. c.indexes = [d \in DOMAIN c.indexes |-> IndexOf(c.items, d)]
        BY <3>2, <3>3, <3>5
      <3> HIDE DEF c
      <3> QED BY <3>1, <3>2, <3>3, <3>4, <3>6 DEF Pending
    <2>3. more = r.items
      BY <1>5 DEF RecItems
    <2> HIDE DEF t, c, more
    <2>4. ScanShape(t) /\ t.chunk = c /\ t.counts = n /\ t.topics = p
      BY <2>1 DEF ScanShape
    <2>5. Accounts(t, all \o more)
      BY <1>2, <1>3, <2>2, <2>3, <2>4 DEF Accounts
    <2> QED BY <1>5, <2>4, <2>5 DEF t, c, more
  <1>6. CASE r.kind # "chunk"
    <2>1. more = <<r>>
      BY <1>6 DEF RecItems
    <2>2. SUFFICES ScanShape(t) /\ t.chunk = NoChunk /\ t.counts = CountsOf(all \o more)
                   /\ ChannelsIn(all \o more) \subseteq t.topics
      BY <1>6 DEF Accounts
    <2>3. CASE r.kind = "message"
      <3>1. PICK e1 : t = [s EXCEPT !.counts = Added(@, [c \in {r.channel} |-> 1]), !.entries = e1]
        BY <2>3 DEF ScanOther, ScanMessage
      <3>2. CountsOf(more) = [c \in {r.channel} |-> 1] /\ ChannelsIn(more) = {}
        BY <2>1, <2>3, OneRecord
      <3> DEFINE n1 == Added(n, [c \in {r.channel} |-> 1])
      <3>3. t = [entries |-> e1, topics |-> p, counts |-> n1, sync |-> y, chunk |-> k, skipped |-> z]
        BY <1>1, <3>1
      <3>4. n1 = CountsOf(all \o more)
        BY <1>2, <1>3, <3>2
      <3> HIDE DEF t, n1
      <3>5. ScanShape(t)
        BY <3>3 DEF ScanShape
      <3> QED BY <1>2, <1>3, <3>2, <3>3, <3>4, <3>5
    <2>4. CASE r.kind # "message"
      <3>1. CountsOf(all \o more) = CountsOf(all)
        <4>1. DOMAIN CountsOf(more) = {}
          BY <2>1, <2>4, OneRecord, CountsAre
        <4> QED BY <1>3, <1>4, <4>1, AddedNothing
      <3>2. ChannelsIn(more) = IF r.kind = "channel" THEN {r.channel} ELSE {}
        BY <2>1, OneRecord
      <3>3. CASE r.kind = "channel"
        <4>1. t = [s EXCEPT !.topics = @ \cup {r.channel}]
          BY <3>3 DEF ScanOther
        <4> HIDE DEF t
        <4>2. t = [entries |-> e, topics |-> p \cup {r.channel}, counts |-> n, sync |-> y,
                   chunk |-> k, skipped |-> z]
          BY <1>1, <4>1
        <4>3. ScanShape(t)
          BY <4>2 DEF ScanShape
        <4> QED BY <1>2, <1>3, <3>1, <3>2, <3>3, <4>2, <4>3
      <3>4. CASE r.kind # "channel"
        <4>1. ScanShape(t) /\ t.topics = p /\ t.counts = n /\ t.chunk = k
          <5>1. CASE r.kind = "clock_sync"
            <6>1. t = [s EXCEPT !.sync = TRUE]
              BY <5>1 DEF ScanOther
            <6> HIDE DEF t
            <6>2. t = [entries |-> e, topics |-> p, counts |-> n, sync |-> TRUE,
                       chunk |-> k, skipped |-> z]
              BY <1>1, <6>1
            <6> QED BY <6>2 DEF ScanShape
          <5>2. CASE r.kind = "clock_step"
            <6>1. t = [s EXCEPT !.entries = Append(@, StepEntry(r.size))]
              BY <5>2 DEF ScanOther
            <6> DEFINE e1 == Append(e, StepEntry(r.size))
            <6> HIDE DEF t
            <6>2. t = [entries |-> e1, topics |-> p, counts |-> n, sync |-> y,
                       chunk |-> k, skipped |-> z]
              BY <1>1, <6>1
            <6> HIDE DEF e1
            <6> QED BY <6>2 DEF ScanShape
          <5>3. CASE r.kind \notin {"clock_sync", "clock_step"}
            <6>1. t = s
              BY <1>6, <2>4, <3>4, <5>3 DEF ScanOther
            <6> HIDE DEF t
            <6> QED BY <1>1, <6>1 DEF ScanShape
          <5> QED BY <5>1, <5>2, <5>3
        <4> QED BY <1>2, <1>3, <3>1, <3>2, <3>4, <4>1
      <3> QED BY <3>3, <3>4
    <2> QED BY <2>3, <2>4
  <1> QED BY <1>5, <1>6

-----------------------------------------------------------------------------
(* What the recorder is writing.                                           *)

\* Each of a finite set is listed.
LEMMA ListedAll ==
    ASSUME NEW S, IsFiniteSet(S)
    PROVE  SetToSeq(S) \in Seq(S) /\ \A x \in S : \E i \in DOMAIN SetToSeq(S) : SetToSeq(S)[i] = x
  <1> DEFINE C == Cardinality(S)
             L == SetToSeq(S)
  <1>1. C \in Nat /\ ExistsBijection(1..C, S)
    BY FS_CardinalityType
  <1>2. IsFiniteSet(1..C) /\ Cardinality(1..C) = C
    BY <1>1, FS_Interval
  <1>3. \E g \in [1..C -> S] : IsInjective(g)
    <2> HIDE DEF C
    <2> QED BY <1>1 DEF ExistsBijection, Bijection, Injection
  <1>4. L \in [1..C -> S] /\ IsInjective(L)
    <2>1. L = CHOOSE f \in [1..C -> S] : IsInjective(f)
      BY DEF SetToSeq
    <2> HIDE DEF L, C
    <2> QED BY <1>3, <2>1
  <1>5. L \in Surjection(1..C, S)
    <2>1. L \in Injection(1..C, S)
      BY <1>4 DEF Injection
    <2> HIDE DEF L
    <2> QED BY <1>2, <2>1, FS_Injection
  <1> HIDE DEF L, C
  <1>6. L \in Seq(S) /\ \A x \in S : \E i \in DOMAIN L : L[i] = x
    BY <1>1, <1>4, <1>5 DEF Surjection
  <1> QED BY <1>6 DEF L

LEMMA WithMessagesFinite ==
    ASSUME NEW items \in Seq(Item)
    PROVE  /\ IsFiniteSet(ChannelsWithMessages(items))
           /\ ChannelsWithMessages(items) \subseteq Channels
  <1> DEFINE M == {j \in DOMAIN items : items[j].kind = "message"}
             W == ChannelsWithMessages(items)
             f == [i \in M |-> items[i].channel]
  <1>1. M \subseteq 1..Len(items) /\ Len(items) \in Nat
    <2> HIDE DEF Item
    <2> QED OBVIOUS
  <1>2. IsFiniteSet(M)
    BY <1>1, FS_Interval, FS_Subset
  <1>3. f \in Surjection(M, W)
    <2>1. W = {items[i].channel : i \in M}
      BY DEF ChannelsWithMessages
    <2>2. f \in [M -> W] /\ \A t \in W : \E x \in M : f[x] = t
      BY <2>1
    <2> QED BY <2>2 DEF Surjection
  <1>4. IsFiniteSet(W)
    <2> HIDE DEF M, W, f
    <2> QED BY <1>2, <1>3, FS_Surjection
  <1>5. ASSUME NEW i \in M PROVE items[i].channel \in Channels
    <2>1. items[i] \in Item
      OBVIOUS
    <2> HIDE DEF M
    <2> QED BY <2>1 DEF Item
  <1>6. W \subseteq Channels
    BY <1>5 DEF ChannelsWithMessages
  <1> QED BY <1>4, <1>6

LEMMA Joined ==
    ASSUME NEW S, NEW a \in Seq(S), NEW b \in Seq(S)
    PROVE  /\ a \o b \in Seq(S) /\ Len(a \o b) = Len(a) + Len(b)
           /\ \A j \in 1..Len(a) : (a \o b)[j] = a[j]
           /\ \A j \in 1..Len(b) : (a \o b)[j + Len(a)] = b[j]
  OBVIOUS

\* A chunk, and behind it the indexes of all its channels.
LEMMA ClosingIs ==
    ASSUME NEW items \in Seq(Item)
    PROVE  LET q == Closing(items)
               W == ChannelsWithMessages(items)
           IN  /\ q \in Seq(Record)
               /\ items = <<>> => q = <<>>
               /\ items # <<>> =>
                    /\ Len(q) > 0 /\ q[1] = ChunkRecord(items)
                    /\ \A j \in 2..Len(q) : /\ q[j].kind = "index" /\ q[j].channel \in W
                                            /\ q[j].times = IndexOf(items, q[j].channel)
                    /\ Len(q) > 1 \/ style.indexed => \A c \in W : \E j \in 2..Len(q) : q[j].channel = c
  <1> DEFINE q == Closing(items)
             W == ChannelsWithMessages(items)
             L == SetToSeq(W)
             X1 == [i \in DOMAIN L |-> IndexRecord(L[i], IndexOf(items, L[i]))]
             begun == <<ChunkRecord(items)>>
  <1>1. IsFiniteSet(W) /\ W \subseteq Channels
    BY WithMessagesFinite
  <1>2. L \in Seq(W) /\ \A c \in W : \E i \in DOMAIN L : L[i] = c
    <2> HIDE DEF W
    <2> QED BY <1>1, ListedAll
  <1>3. q = IF items = <<>> THEN <<>> ELSE begun \o (IF style.indexed THEN X1 ELSE <<>>)
    BY DEF Closing
  <1>4. ChunkRecord(items) \in Record
    BY DEF Record
  <1> HIDE DEF q, L, W
  <1>5. ASSUME NEW i \in DOMAIN L
        PROVE  /\ IndexRecord(L[i], IndexOf(items, L[i])) \in Record
               /\ X1[i].kind = "index" /\ X1[i].channel = L[i] /\ X1[i].channel \in W
               /\ X1[i].times = IndexOf(items, X1[i].channel)
    <2>1. L[i] \in W /\ L[i] \in Channels
      BY <1>1, <1>2
    <2>2. IndexRecord(L[i], IndexOf(items, L[i])) \in Record
      BY <2>1 DEF Record, Plain
    <2>3. X1[i] = IndexRecord(L[i], IndexOf(items, L[i]))
      OBVIOUS
    <2> HIDE DEF X1
    <2>4. X1[i].kind = "index" /\ X1[i].channel = L[i] /\ X1[i].times = IndexOf(items, L[i])
      BY <2>3 DEF IndexRecord
    <2> QED BY <2>1, <2>2, <2>4
  <1>6. X1 \in Seq(Record) /\ Len(X1) = Len(L) /\ DOMAIN X1 = DOMAIN L
    BY <1>2, <1>5
  <1> HIDE DEF X1
  <1>7. begun \in Seq(Record) /\ Len(begun) = 1 /\ begun[1] = ChunkRecord(items)
    BY <1>4
  <1> HIDE DEF begun
  <1>8. CASE items = <<>>
    <2>1. q = <<>>
      BY <1>3, <1>8
    <2>2. q \in Seq(Record)
      BY <2>1
    <2> QED BY <1>8, <2>1, <2>2 DEF q
  <1>9. CASE items # <<>> /\ ~style.indexed
    <2>1. q = begun
      BY <1>3, <1>7, <1>9
    <2>2. Len(q) = 1 /\ q[1] = ChunkRecord(items) /\ q \in Seq(Record) /\ 2..1 = {}
      BY <1>7, <2>1
    <2> QED BY <1>9, <2>2 DEF q
  <1>10. CASE items # <<>> /\ style.indexed
    <2>1. q = begun \o X1
      BY <1>3, <1>10
    <2>2. q \in Seq(Record) /\ Len(q) = 1 + Len(X1) /\ q[1] = begun[1] /\ Len(X1) \in Nat
          /\ DOMAIN X1 = 1..Len(X1)
          /\ \A j \in 1..Len(X1) : q[j + 1] = X1[j]
      <3>1. X1 \in Seq(Record) /\ begun \in Seq(Record) /\ Len(begun) = 1
        BY <1>6, <1>7
      <3>2. Len(X1) \in Nat /\ DOMAIN X1 = 1..Len(X1)
        BY <3>1
      <3> DEFINE r == begun \o X1
      <3>3. /\ r \in Seq(Record) /\ Len(r) = Len(begun) + Len(X1)
            /\ \A j \in 1..Len(begun) : r[j] = begun[j]
            /\ \A j \in 1..Len(X1) : r[j + Len(begun)] = X1[j]
        BY <3>1, Joined
      <3>4. q = r
        BY <2>1
      <3> HIDE DEF r
      <3> QED BY <3>1, <3>2, <3>3, <3>4
    <2>3. ASSUME NEW j \in 2..Len(q) PROVE j - 1 \in DOMAIN X1 /\ q[j] = X1[j - 1]
      <3>1. j - 1 \in 1..Len(X1) /\ (j - 1) + 1 = j
        BY <2>2
      <3> QED BY <2>2, <3>1
    <2>4. ASSUME NEW j \in 2..Len(q)
          PROVE  q[j].kind = "index" /\ q[j].channel \in W
                 /\ q[j].times = IndexOf(items, q[j].channel)
      BY <1>5, <1>6, <2>3
    <2>5. ASSUME NEW c \in W PROVE \E j \in 2..Len(q) : q[j].channel = c
      <3>1. PICK i \in DOMAIN L : L[i] = c
        BY <1>2
      <3>2. i \in 1..Len(X1) /\ i + 1 \in 2..Len(q)
        BY <1>6, <2>2
      <3>3. q[i + 1].channel = c
        BY <1>5, <2>2, <3>1, <3>2
      <3> QED BY <3>2, <3>3
    <2>6. Len(q) > 0 /\ q[1] = ChunkRecord(items)
      BY <1>7, <2>2
    <2> QED BY <1>10, <2>2, <2>4, <2>5, <2>6 DEF q, W
  <1> QED BY <1>8, <1>9, <1>10

-----------------------------------------------------------------------------
(* The records that are still to be written.                               *)

Indexing(q) == {j \in DOMAIN q : q[j].kind = "index"}
StartsWith(q, sort) == q # <<>> /\ q[1].kind = sort

\* With the indexes to come, a chunk has those of all its channels.
Rest(items, have, q) ==
    /\ \A j \in Indexing(q) : /\ q[j].channel \in ChannelsWithMessages(items)
                              /\ q[j].times = IndexOf(items, q[j].channel)
    /\ \A c \in ChannelsWithMessages(items) : c \in have \/ \E j \in Indexing(q) : q[j].channel = c

\* A channel is declared in the file, or before its messages.
DeclaredBefore(q, all) ==
    \A j \in DOMAIN q : \A c \in ChannelsWithMessages(RecItems(q[j])) :
        c \in ChannelsIn(all) \/ \E i \in 1..j : c \in ChannelsIn(RecItems(q[i]))

\* Indexes come first, but for their chunk; chunks come before the end of the data.
InOrder(q) ==
    /\ \A j \in DOMAIN q : q[j].kind = "chunk" => Uses(q[j].items)
    /\ \A j \in Indexing(q) : q[1].kind \in {"chunk", "index"} /\ \A k \in 2..j : q[k].kind = "index"
    /\ \A i, j \in DOMAIN q : q[i].kind = "end" /\ i < j => q[j].kind # "chunk"
    /\ StartsWith(q, "chunk") => Indexing(q) = {} \/ Rest(q[1].items, {}, q)

\* The chunk that is read awaits the indexes to come, and no others.
Continues(q, s) ==
    IF StartsWith(q, "index")
    THEN s.chunk # NoChunk /\ Rest(s.chunk.items, DOMAIN s.chunk.indexes, q)
    ELSE s.chunk = NoChunk \/ AllOrNoIndexes(s.chunk)

QueueOK(q, all, s) ==
    q \in Seq(Record) /\ DeclaredBefore(q, all) /\ InOrder(q) /\ Continues(q, s)

LEMMA HeadAndTail ==
    ASSUME NEW S, NEW q \in Seq(S), q # <<>>
    PROVE  /\ q[1] \in S /\ Head(q) = q[1] /\ Tail(q) \in Seq(S) /\ Len(q) \in Nat \ {0}
           /\ DOMAIN q = 1..Len(q) /\ DOMAIN Tail(q) = 1..Len(q) - 1
           /\ \A j \in DOMAIN Tail(q) : j + 1 \in DOMAIN q /\ Tail(q)[j] = q[j + 1]
           /\ \A j \in DOMAIN q : j # 1 => j - 1 \in DOMAIN Tail(q) /\ Tail(q)[j - 1] = q[j]
           /\ Tail(q) # <<>> => 1 \in DOMAIN Tail(q)
  <1>1. q[1] \in S /\ Head(q) = q[1] /\ Tail(q) \in Seq(S) /\ Len(q) \in Nat \ {0}
        /\ DOMAIN q = 1..Len(q) /\ DOMAIN Tail(q) = 1..Len(q) - 1 /\ Len(Tail(q)) = Len(q) - 1
    OBVIOUS
  <1>2. \A j \in 1..Len(q) - 1 : Tail(q)[j] = q[j + 1]
    OBVIOUS
  <1>3. \A j \in DOMAIN Tail(q) : j + 1 \in DOMAIN q /\ Tail(q)[j] = q[j + 1]
    BY <1>1, <1>2
  <1>4. ASSUME NEW j \in DOMAIN q, j # 1 PROVE j - 1 \in DOMAIN Tail(q) /\ Tail(q)[j - 1] = q[j]
    <2>1. j - 1 \in 1..Len(q) - 1 /\ (j - 1) + 1 = j
      BY <1>1, <1>4
    <2> QED BY <1>1, <1>2, <2>1
  <1>5. Tail(q) # <<>> => 1 \in DOMAIN Tail(q)
    BY <1>1
  <1> QED BY <1>1, <1>3, <1>4, <1>5

LEMMA DeclaredAfter ==
    ASSUME NEW q \in Seq(Record), q # <<>>, NEW all \in Seq(Plain), DeclaredBefore(q, all)
    PROVE  /\ DeclaredBefore(Tail(q), all \o RecItems(q[1]))
           /\ ChannelsWithMessages(all) \subseteq ChannelsIn(all)
                => ChannelsWithMessages(all \o RecItems(q[1])) \subseteq ChannelsIn(all \o RecItems(q[1]))
  <1> DEFINE p == Tail(q)
             more == RecItems(q[1])
  <1>1. /\ q[1] \in Record /\ p \in Seq(Record) /\ Len(q) \in Nat \ {0}
        /\ DOMAIN q = 1..Len(q) /\ DOMAIN p = 1..Len(q) - 1
        /\ \A j \in DOMAIN p : j + 1 \in DOMAIN q /\ p[j] = q[j + 1]
    BY HeadAndTail
  <1> HIDE DEF p
  <1>2. more \in Seq(Plain)
    BY <1>1, RecItemsType
  <1> HIDE DEF more
  <1>3. /\ ChannelsIn(all \o more) = ChannelsIn(all) \cup ChannelsIn(more)
        /\ ChannelsWithMessages(all \o more)
              = ChannelsWithMessages(all) \cup ChannelsWithMessages(more)
    BY <1>2, PartsAppended
  <1>4. ASSUME NEW j \in DOMAIN p, NEW c \in ChannelsWithMessages(RecItems(p[j]))
        PROVE  c \in ChannelsIn(all \o more) \/ \E i \in 1..j : c \in ChannelsIn(RecItems(p[i]))
    <2>1. j + 1 \in DOMAIN q /\ c \in ChannelsWithMessages(RecItems(q[j + 1]))
      BY <1>1, <1>4
    <2>2. c \in ChannelsIn(all) \/ \E i \in 1..j + 1 : c \in ChannelsIn(RecItems(q[i]))
      BY <2>1 DEF DeclaredBefore
    <2>3. ASSUME NEW i \in 1..j + 1, c \in ChannelsIn(RecItems(q[i]))
          PROVE  c \in ChannelsIn(all \o more) \/ \E k \in 1..j : c \in ChannelsIn(RecItems(p[k]))
      <3>1. CASE i = 1
        BY <1>3, <2>3, <3>1 DEF more
      <3>2. CASE i # 1
        <4>1. i - 1 \in 1..j /\ i - 1 \in DOMAIN p /\ (i - 1) + 1 = i
          BY <1>1, <3>2
        <4>2. p[i - 1] = q[i]
          BY <1>1, <4>1
        <4> QED BY <2>3, <4>1, <4>2
      <3> QED BY <3>1, <3>2
    <2> QED BY <1>3, <2>2, <2>3
  <1>5. ChannelsWithMessages(more) \subseteq ChannelsIn(all) \cup ChannelsIn(more)
    <2>1. 1 \in DOMAIN q /\ 1..1 = {1}
      BY <1>1
    <2>2. \A c \in ChannelsWithMessages(more) :
             c \in ChannelsIn(all) \/ \E i \in 1..1 : c \in ChannelsIn(RecItems(q[i]))
      BY <2>1 DEF DeclaredBefore, more
    <2> QED BY <2>1, <2>2 DEF more
  <1>6. DeclaredBefore(p, all \o more)
    BY <1>4 DEF DeclaredBefore
  <1> QED BY <1>3, <1>5, <1>6 DEF p, more

LEMMA InOrderAfter ==
    ASSUME NEW q \in Seq(Record), q # <<>>, InOrder(q)
    PROVE  /\ InOrder(Tail(q))
           /\ StartsWith(Tail(q), "index") <=> Indexing(Tail(q)) # {}
           /\ q[1].kind \notin {"chunk", "index"} => Indexing(Tail(q)) = {}
           /\ q[1].kind = "end" => \A j \in DOMAIN Tail(q) : Tail(q)[j].kind # "chunk"
  <1> DEFINE p == Tail(q)
  <1>1. /\ q[1] \in Record /\ p \in Seq(Record) /\ Len(q) \in Nat \ {0}
        /\ DOMAIN q = 1..Len(q) /\ DOMAIN p = 1..Len(q) - 1
        /\ \A j \in DOMAIN p : j + 1 \in DOMAIN q /\ p[j] = q[j + 1]
        /\ p # <<>> => 1 \in DOMAIN p
    BY HeadAndTail
  <1> HIDE DEF p
  <1>2. ASSUME NEW j \in Indexing(p)
        PROVE  /\ j + 1 \in Indexing(q) /\ q[1].kind \in {"chunk", "index"}
               /\ \A k \in 1..j : p[k].kind = "index"
    <2>1. j \in DOMAIN p /\ j + 1 \in Indexing(q)
      BY <1>1 DEF Indexing
    <2>2. q[1].kind \in {"chunk", "index"} /\ \A k \in 2..j + 1 : q[k].kind = "index"
      BY <2>1 DEF InOrder
    <2>3. ASSUME NEW k \in 1..j PROVE p[k].kind = "index"
      <3>1. k + 1 \in 2..j + 1 /\ k \in DOMAIN p
        BY <1>1, <2>1
      <3> QED BY <1>1, <2>2, <3>1
    <2> QED BY <2>1, <2>2, <2>3
  <1>3. StartsWith(p, "index") <=> Indexing(p) # {}
    <2>1. ASSUME NEW j \in Indexing(p) PROVE StartsWith(p, "index")
      <3>1. j \in 1..Len(q) - 1 /\ 1 \in 1..j
        BY <1>1 DEF Indexing
      <3>2. p[1].kind = "index"
        BY <1>2, <3>1
      <3>3. p # <<>>
        BY <1>1, <3>1
      <3> QED BY <3>2, <3>3 DEF StartsWith
    <2>2. ASSUME StartsWith(p, "index") PROVE 1 \in Indexing(p)
      BY <1>1, <2>2 DEF StartsWith, Indexing
    <2> QED BY <2>1, <2>2
  <1>4. InOrder(p)
    <2>1. \A j \in DOMAIN p : p[j].kind = "chunk" => Uses(p[j].items)
      BY <1>1 DEF InOrder
    <2>2. ASSUME NEW j \in Indexing(p)
          PROVE  p[1].kind \in {"chunk", "index"} /\ \A k \in 2..j : p[k].kind = "index"
      <3>1. StartsWith(p, "index")
        BY <1>3
      <3>2. \A k \in 2..j : k \in 1..j
        BY <1>1 DEF Indexing
      <3> QED BY <1>2, <3>1, <3>2 DEF StartsWith
    <2>3. ASSUME NEW i \in DOMAIN p, NEW j \in DOMAIN p, p[i].kind = "end", i < j
          PROVE  p[j].kind # "chunk"
      <3>1. i + 1 \in DOMAIN q /\ j + 1 \in DOMAIN q /\ i + 1 < j + 1
        BY <1>1, <2>3
      <3>2. q[i + 1].kind = "end"
        BY <1>1, <2>3
      <3> QED BY <1>1, <3>1, <3>2 DEF InOrder
    <2>4. StartsWith(p, "chunk") => Indexing(p) = {}
      BY <1>3 DEF StartsWith
    <2> QED BY <2>1, <2>2, <2>3, <2>4 DEF InOrder
  <1>5. q[1].kind \notin {"chunk", "index"} => Indexing(p) = {}
    BY <1>2
  <1>6. ASSUME q[1].kind = "end", NEW j \in DOMAIN p PROVE p[j].kind # "chunk"
    <2>1. 1 \in DOMAIN q /\ j + 1 \in DOMAIN q /\ 1 < j + 1
      BY <1>1
    <2>2. q[j + 1].kind # "chunk"
      BY <1>6, <2>1 DEF InOrder
    <2> QED BY <1>1, <2>2
  <1> QED BY <1>3, <1>4, <1>5, <1>6 DEF p

LEMMA HoldsAfter ==
    ASSUME NEW all \in Seq(Plain), NEW s, Accounts(s, all), NEW q, q # <<>>, QueueOK(q, all, s)
    PROVE  LET r == q[1]
               t == ScanRecord(s, r)
           IN  /\ Accounts(t, all \o RecItems(r))
               /\ r.kind = "index" =>
                     /\ t.chunk # NoChunk /\ t.chunk.items = s.chunk.items /\ s.chunk # NoChunk
                     /\ DOMAIN t.chunk.indexes = DOMAIN s.chunk.indexes \cup {r.channel}
               /\ r.kind = "chunk" => t.chunk = PendingChunk(r.items)
               /\ r.kind \notin {"chunk", "index"} => t.chunk = NoChunk
  <1> DEFINE r == q[1]
             t == ScanRecord(s, r)
  <1>1. q \in Seq(Record) /\ r \in Record /\ 1 \in DOMAIN q
    BY HeadAndTail DEF QueueOK
  <1>2. CASE r.kind = "index"
    <2>1. StartsWith(q, "index") /\ 1 \in Indexing(q)
      BY <1>1, <1>2 DEF StartsWith, Indexing
    <2>2. s.chunk # NoChunk /\ r.channel \in ChannelsWithMessages(s.chunk.items)
          /\ r.times = IndexOf(s.chunk.items, r.channel)
      BY <2>1 DEF QueueOK, Continues, Rest
    <2>3. t = ScanIndex(s, r)
      BY <1>2 DEF ScanRecord
    <2> HIDE DEF r, t
    <2>4. /\ Accounts(t, all \o RecItems(r))
          /\ t.chunk # NoChunk /\ t.chunk.items = s.chunk.items
          /\ DOMAIN t.chunk.indexes = DOMAIN s.chunk.indexes \cup {r.channel}
      BY <1>1, <1>2, <2>2, <2>3, IndexHolds
    <2> QED BY <1>2, <2>2, <2>4 DEF r, t
  <1>3. CASE r.kind # "index"
    <2> DEFINE u == Flush(s, FALSE)
    <2>1. s.chunk = NoChunk \/ AllOrNoIndexes(s.chunk)
      BY <1>3 DEF QueueOK, Continues, StartsWith
    <2>2. Accounts(u, all) /\ u.chunk = NoChunk
      BY <2>1, FlushHolds
    <2>3. r.kind = "chunk" => Uses(r.items)
      BY <1>1 DEF QueueOK, InOrder
    <2>4. t = ScanOther(u, r)
      BY <1>3 DEF ScanRecord
    <2> HIDE DEF r, t, u
    <2>5. /\ Accounts(t, all \o RecItems(r))
          /\ r.kind = "chunk" => t.chunk = PendingChunk(r.items)
          /\ r.kind # "chunk" => t.chunk = NoChunk
      BY <1>1, <1>3, <2>2, <2>3, <2>4, OtherHolds
    <2> QED BY <1>3, <2>5 DEF r, t
  <1> QED BY <1>2, <1>3

\* What is left of the indexes covers the chunk with the one that was read.
LEMMA RestAfter ==
    ASSUME NEW q \in Seq(Record), q # <<>>, NEW items, NEW have, Rest(items, have, q)
    PROVE  LET r == q[1]
           IN  Rest(items, have \cup (IF r.kind = "index" THEN {r.channel} ELSE {}), Tail(q))
  <1> DEFINE r == q[1]
             p == Tail(q)
             more == IF r.kind = "index" THEN {r.channel} ELSE {}
  <1>1. /\ \A j \in DOMAIN p : j + 1 \in DOMAIN q /\ p[j] = q[j + 1]
        /\ \A j \in DOMAIN q : j # 1 => j - 1 \in DOMAIN p /\ p[j - 1] = q[j]
    BY HeadAndTail
  <1> HIDE DEF p
  <1>2. ASSUME NEW j \in Indexing(p)
        PROVE  p[j].channel \in ChannelsWithMessages(items)
               /\ p[j].times = IndexOf(items, p[j].channel)
    <2>1. j + 1 \in Indexing(q) /\ p[j] = q[j + 1]
      BY <1>1 DEF Indexing
    <2> QED BY <2>1 DEF Rest
  <1>3. ASSUME NEW c \in ChannelsWithMessages(items), c \notin have
        PROVE  c \in more \/ \E j \in Indexing(p) : p[j].channel = c
    <2>1. PICK j \in Indexing(q) : q[j].channel = c
      BY <1>3 DEF Rest
    <2>2. CASE j = 1
      BY <2>1, <2>2 DEF Indexing
    <2>3. CASE j # 1
      <3>1. j - 1 \in DOMAIN p /\ p[j - 1] = q[j]
        BY <1>1, <2>3 DEF Indexing
      <3>2. j - 1 \in Indexing(p)
        BY <2>1, <3>1 DEF Indexing
      <3> QED BY <2>1, <3>1, <3>2
    <2> QED BY <2>2, <2>3
  <1> QED BY <1>2, <1>3 DEF Rest, p

LEMMA ContinuesAfter ==
    ASSUME NEW all \in Seq(Plain), NEW s, Accounts(s, all), NEW q, q # <<>>, QueueOK(q, all, s)
    PROVE  Continues(Tail(q), ScanRecord(s, q[1]))
  <1> DEFINE r == q[1]
             t == ScanRecord(s, r)
             p == Tail(q)
  <1>1. /\ q \in Seq(Record) /\ r \in Record /\ 1 \in DOMAIN q
        /\ \A j \in DOMAIN p : j + 1 \in DOMAIN q /\ p[j] = q[j + 1]
        /\ \A j \in DOMAIN q : j # 1 => j - 1 \in DOMAIN p /\ p[j - 1] = q[j]
    BY HeadAndTail DEF QueueOK
  <1>2. /\ StartsWith(p, "index") <=> Indexing(p) # {}
        /\ r.kind \notin {"chunk", "index"} => Indexing(p) = {}
    BY <1>1, InOrderAfter DEF QueueOK
  <1>3. /\ r.kind = "index" =>
              /\ t.chunk # NoChunk /\ t.chunk.items = s.chunk.items /\ s.chunk # NoChunk
              /\ DOMAIN t.chunk.indexes = DOMAIN s.chunk.indexes \cup {r.channel}
        /\ r.kind = "chunk" => t.chunk = PendingChunk(r.items)
        /\ r.kind \notin {"chunk", "index"} => t.chunk = NoChunk
        /\ Accounts(t, all \o RecItems(r))
    BY HoldsAfter
  <1> SUFFICES Continues(p, t)
    OBVIOUS
  <1> HIDE DEF t, p
  <1>4. ASSUME NEW items, NEW have, Rest(items, have, q)
        PROVE  Rest(items, have \cup (IF r.kind = "index" THEN {r.channel} ELSE {}), p)
    BY <1>1, <1>4, RestAfter DEF p
  <1>5. CASE r.kind = "index"
    <2>1. Rest(s.chunk.items, DOMAIN s.chunk.indexes, q)
      BY <1>5 DEF QueueOK, Continues, StartsWith
    <2>2. Rest(t.chunk.items, DOMAIN t.chunk.indexes, p)
      BY <1>3, <1>4, <1>5, <2>1
    <2>3. CASE StartsWith(p, "index")
      BY <1>3, <1>5, <2>2, <2>3 DEF Continues
    <2>4. CASE ~StartsWith(p, "index")
      <3>1. ChannelsWithMessages(t.chunk.items) \subseteq DOMAIN t.chunk.indexes
        BY <1>2, <2>2, <2>4 DEF Rest
      <3>2. DOMAIN t.chunk.indexes \subseteq ChannelsWithMessages(t.chunk.items)
        BY <1>3, <1>5 DEF Accounts, Pending
      <3>3. AllOrNoIndexes(t.chunk)
        BY <3>1, <3>2 DEF AllOrNoIndexes
      <3> QED BY <2>4, <3>3 DEF Continues
    <2> QED BY <2>3, <2>4
  <1>6. CASE r.kind = "chunk"
    <2>1. t.chunk.items = r.items /\ t.chunk.indexes = << >> /\ t.chunk # NoChunk
      BY <1>3, <1>6 DEF PendingChunk, NoChunk
    <2>2. CASE StartsWith(p, "index")
      <3>1. PICK j : j \in Indexing(p)
        BY <1>2, <2>2
      <3>2. j + 1 \in Indexing(q)
        BY <1>1, <3>1 DEF Indexing
      <3>3. Rest(r.items, {}, q)
        BY <1>6, <3>2 DEF QueueOK, InOrder, StartsWith
      <3>4. Rest(r.items, {}, p)
        <4>1. {} \cup {} = {} /\ r.kind # "index"
          BY <1>6
        <4> QED BY <1>4, <3>3, <4>1
      <3>5. DOMAIN << >> = {}
        OBVIOUS
      <3> QED BY <2>1, <2>2, <3>4, <3>5 DEF Continues
    <2>3. CASE ~StartsWith(p, "index")
      BY <2>1, <2>3 DEF Continues, AllOrNoIndexes
    <2> QED BY <2>2, <2>3
  <1>7. CASE r.kind \notin {"chunk", "index"}
    BY <1>2, <1>3, <1>7 DEF Continues
  <1> QED BY <1>5, <1>6, <1>7

\* The queue of records that follow a chunk which is closed.
LEMMA ClosedQueue ==
    ASSUME NEW all, NEW s, s.chunk = NoChunk \/ AllOrNoIndexes(s.chunk),
           NEW items \in Seq(Item), Uses(items),
           ChannelsWithMessages(items) \subseteq ChannelsIn(all) \cup ChannelsIn(items),
           NEW tail \in Seq(Record),
           \A j \in DOMAIN tail : tail[j].kind \notin {"chunk", "index", "message"}
    PROVE  QueueOK(Closing(items) \o tail, all, s)
  <1> DEFINE b == Closing(items)
             q == b \o tail
             n == Len(b)
  <1>1. /\ b \in Seq(Record)
        /\ items = <<>> => b = <<>>
        /\ items # <<>> =>
              /\ n > 0 /\ b[1] = ChunkRecord(items)
              /\ \A j \in 2..n : /\ b[j].kind = "index" /\ b[j].channel \in ChannelsWithMessages(items)
                                 /\ b[j].times = IndexOf(items, b[j].channel)
              /\ n > 1 => \A c \in ChannelsWithMessages(items) : \E j \in 2..n : b[j].channel = c
    BY ClosingIs
  <1> HIDE DEF b
  <1>2. /\ q \in Seq(Record) /\ n \in Nat /\ Len(tail) \in Nat
        /\ DOMAIN q = 1..n + Len(tail) /\ DOMAIN tail = 1..Len(tail)
        /\ \A j \in 1..n : q[j] = b[j]
        /\ \A j \in 1..Len(tail) : q[j + n] = tail[j]
    <2>1. /\ q \in Seq(Record) /\ Len(q) = n + Len(tail)
          /\ \A j \in 1..n : q[j] = b[j]
          /\ \A j \in 1..Len(tail) : q[j + n] = tail[j]
      <3>1. b \in Seq(Record)
        BY <1>1
      <3> QED BY <3>1, Joined DEF n
    <2>2. n \in Nat /\ Len(tail) \in Nat /\ DOMAIN tail = 1..Len(tail)
      BY <1>1
    <2> HIDE DEF q, n
    <2> QED BY <2>1, <2>2
  <1> HIDE DEF q, n
  <1>3. ASSUME NEW j \in DOMAIN q, j > n PROVE q[j].kind \notin {"chunk", "index", "message"}
    <2>1. j - n \in DOMAIN tail /\ (j - n) + n = j
      BY <1>2, <1>3
    <2> QED BY <1>2, <2>1
  <1>4. CASE items = <<>>
    <2>1. n = 0
      BY <1>1, <1>4 DEF n
    <2>2. \A j \in DOMAIN q : q[j].kind \notin {"chunk", "index", "message"}
      BY <1>2, <1>3, <2>1
    <2>3. Indexing(q) = {}
      BY <2>2 DEF Indexing
    <2>4. q # <<>> => 1 \in DOMAIN q
      BY <1>2
    <2>5. InOrder(q) /\ ~StartsWith(q, "index")
      BY <2>2, <2>3, <2>4 DEF InOrder, StartsWith
    <2>6. \A j \in DOMAIN q : ChannelsWithMessages(RecItems(q[j])) = {}
      BY <2>2, OneRecord DEF RecItems
    <2> QED BY <1>2, <2>5, <2>6 DEF QueueOK, DeclaredBefore, Continues, q, b
  <1>5. CASE items # <<>>
    <2>1. q[1] = ChunkRecord(items) /\ 1 \in DOMAIN q /\ n > 0
      BY <1>1, <1>2, <1>5
    <2>2. ASSUME NEW j \in 2..n
          PROVE  j \in DOMAIN q /\ q[j].kind = "index" /\ q[j].channel \in ChannelsWithMessages(items)
                 /\ q[j].times = IndexOf(items, q[j].channel)
      <3>1. j \in 1..n /\ j \in DOMAIN q
        BY <1>2
      <3>2. q[j] = b[j]
        BY <1>2, <3>1
      <3> QED BY <1>1, <1>5, <3>1, <3>2
    <2>3. q[1].kind = "chunk" /\ q[1].items = items
      BY <2>1 DEF ChunkRecord
    <2>4. Indexing(q) = 2..n
      <3>1. ASSUME NEW j \in Indexing(q) PROVE j \in 2..n
        BY <1>2, <1>3, <2>1, <2>3 DEF Indexing
      <3> QED BY <2>2, <3>1 DEF Indexing
    <2>5. \A j \in DOMAIN q : q[j].kind = "chunk" => j = 1
      BY <1>2, <1>3, <2>2
    <2>6. Indexing(q) = {} \/ Rest(items, {}, q)
      <3>1. CASE n > 1
        <4>1. \A c \in ChannelsWithMessages(items) : \E j \in 2..n : q[j].channel = c
          BY <1>1, <1>2, <1>5, <3>1
        <4> QED BY <2>2, <2>4, <4>1 DEF Rest
      <3>2. CASE ~(n > 1)
        BY <1>2, <2>4, <3>2
      <3> QED BY <3>1, <3>2
    <2>7. InOrder(q)
      <3>1. \A j \in DOMAIN q : q[j].kind = "chunk" => Uses(q[j].items)
        BY <2>3, <2>5
      <3>2. \A j \in Indexing(q) : q[1].kind \in {"chunk", "index"} /\ \A k \in 2..j : q[k].kind = "index"
        <4>1. ASSUME NEW j \in Indexing(q), NEW k \in 2..j PROVE k \in 2..n
          BY <1>2, <2>4
        <4> QED BY <2>2, <2>3, <4>1
      <3>3. \A i, j \in DOMAIN q : q[i].kind = "end" /\ i < j => q[j].kind # "chunk"
        BY <1>2, <2>5
      <3> QED BY <2>3, <2>6, <3>1, <3>2, <3>3 DEF InOrder, StartsWith
    <2>8. DeclaredBefore(q, all)
      <3>1. ASSUME NEW j \in DOMAIN q, NEW c \in ChannelsWithMessages(RecItems(q[j]))
            PROVE  c \in ChannelsIn(all) \/ \E i \in 1..j : c \in ChannelsIn(RecItems(q[i]))
        <4>1. CASE q[j].kind = "chunk"
          <5>1. j = 1 /\ RecItems(q[1]) = items /\ 1 \in 1..1
            BY <2>3, <2>5, <4>1 DEF RecItems
          <5> QED BY <3>1, <5>1
        <4>2. CASE q[j].kind # "chunk"
          <5>1. q[j].kind = "message"
            BY <3>1, <4>2, OneRecord DEF RecItems
          <5>2. j \in 2..n \/ j > n
            BY <1>2, <2>1, <2>3, <5>1
          <5> QED BY <1>3, <2>2, <5>1, <5>2
        <4> QED BY <4>1, <4>2
      <3> QED BY <3>1 DEF DeclaredBefore
    <2>9. Continues(q, s)
      BY <2>3 DEF Continues, StartsWith
    <2> QED BY <1>2, <2>7, <2>8, <2>9 DEF QueueOK, q, b
  <1> QED BY <1>4, <1>5

\* The queue of a recorder that writes its messages as they come.
LEMMA PlainQueue ==
    ASSUME NEW all, NEW s, s.chunk = NoChunk \/ AllOrNoIndexes(s.chunk),
           NEW q \in Seq(Record),
           \A j \in DOMAIN q : q[j].kind \notin {"chunk", "index", "end"},
           DeclaredBefore(q, all)
    PROVE  QueueOK(q, all, s)
  <1>1. Indexing(q) = {}
    BY DEF Indexing
  <1>2. q # <<>> => 1 \in DOMAIN q
    OBVIOUS
  <1>3. ~StartsWith(q, "chunk") /\ ~StartsWith(q, "index")
    BY <1>2 DEF StartsWith
  <1> QED BY <1>1, <1>3 DEF QueueOK, InOrder, Continues

-----------------------------------------------------------------------------
(* The invariant of a recording.                                           *)

\* What the scan has made of the records so far.
SoFar == FoldLeft(ScanRecord, NewScan, file)
AllItems == ItemsOf(file)

RecordingTyped ==
    /\ file \in Seq(Record) /\ chunk \in Seq(Item) /\ style \in Styles
    /\ clock \in [now : Int, off : Int]
    /\ due # None => due.size \in Int

\* Every channel with a message was declared: in the file, or in the open chunk.
ChannelsDeclared ==
    /\ ChannelsWithMessages(AllItems) \subseteq ChannelsIn(AllItems)
    /\ ChannelsWithMessages(chunk) \subseteq ChannelsIn(AllItems) \cup ChannelsIn(chunk)
    /\ Uses(chunk)
    /\ ~style.chunked => chunk = <<>>

\* No chunk is read at the end of the data, nor comes after it.
EndsWhole ==
    DataEnd \in ToSet(file) =>
        SoFar.chunk = NoChunk /\ \A j \in DOMAIN queue : queue[j].kind # "chunk"

ReadInv ==
    /\ RecordingTyped /\ ChannelsDeclared /\ EndsWhole
    /\ Accounts(SoFar, AllItems) /\ QueueOK(queue, AllItems, SoFar)

LEMMA ItemsTyped == ASSUME file \in Seq(Record) PROVE AllItems \in Seq(Plain)
  <1>1. SyncRecord \in Record
    BY DEF Record, Plain
  <1> QED BY <1>1, ItemsAppend DEF AllItems

\* At its end, the scan has all messages, and their channels.
LEMMA ScannedHolds ==
    ASSUME ReadInv
    PROVE  LET s == Scanned(file)
           IN  /\ s.counts = CountsOf(AllItems)
               /\ ChannelsWithMessages(AllItems) \subseteq s.topics
  <1> DEFINE s == Scanned(file)
             expand == ~Complete(file)
  <1>1. expand \in BOOLEAN /\ s = Flush(SoFar, expand)
    BY DEF Scanned, SoFar, Complete
  <1>2. expand \/ SoFar.chunk = NoChunk \/ AllOrNoIndexes(SoFar.chunk)
    BY DEF ReadInv, EndsWhole, Complete
  <1>3. Accounts(SoFar, AllItems)
    BY DEF ReadInv
  <1> HIDE DEF s, expand
  <1>4. Accounts(s, AllItems) /\ s.chunk = NoChunk
    BY <1>1, <1>2, <1>3, FlushHolds
  <1> QED BY <1>4 DEF Accounts, ReadInv, ChannelsDeclared, s

LEMMA CountsAreExact == ReadInv => CountsExact
  <1> SUFFICES ASSUME ReadInv PROVE CountsExact
    OBVIOUS
  <1> DEFINE s == Scanned(file)
             left == CountsOf(AllItems)
             W == ChannelsWithMessages(AllItems)
             D == ChannelsIn(AllItems)
             declared == Declared(file)
             without == IF Summarised(file) THEN D ELSE {}
  <1>1. AllItems \in Seq(Plain)
    BY ItemsTyped DEF ReadInv, RecordingTyped
  <1>2. s.counts = left /\ W \subseteq s.topics
    BY ScannedHolds
  <1>3. left \in [W -> Nat] /\ DOMAIN left = W
    BY <1>1, CountsType
  <1>4. W \subseteq D
    BY DEF ReadInv, ChannelsDeclared
  <1>5. /\ DOMAIN declared = without
        /\ \A c \in without : declared[c] = IF c \in DOMAIN left THEN left[c] ELSE 0
    <2>1. CASE Summarised(file)
      <3>1. declared = Added([c \in D |-> 0], left)
        BY <2>1 DEF Declared, SummaryCounts, AllItems
      <3> HIDE DEF left, D, W, declared
      <3>2. DOMAIN declared = D \cup W
        BY <1>3, <3>1 DEF Added
      <3>3. ASSUME NEW c \in D PROVE declared[c] = IF c \in W THEN left[c] ELSE 0
        <4>1. declared[c] = 0 + (IF c \in DOMAIN left THEN left[c] ELSE 0)
          BY <3>1 DEF Added
        <4> QED BY <1>3, <4>1
      <3> QED BY <1>3, <1>4, <2>1, <3>2, <3>3
    <2>2. CASE ~Summarised(file)
      <3>1. declared = << >>
        BY <2>2 DEF Declared
      <3>2. DOMAIN << >> = {}
        OBVIOUS
      <3> QED BY <2>2, <3>1, <3>2
    <2> QED BY <2>1, <2>2
  <1>6. LinearCounts(file)
          = [c \in DOMAIN declared \cup (DOMAIN s.counts \cap s.topics) |->
                IF c \in DOMAIN declared /\ "statistics" \in style.summary THEN declared[c]
                ELSE IF c \in DOMAIN s.counts THEN s.counts[c] ELSE 0]
    BY DEF LinearCounts, CountsScanned
  <1> HIDE DEF s, left, W, D, declared, without
  <1>7. LinearCounts(file) = [c \in DOMAIN left \cup without |-> IF c \in DOMAIN left THEN left[c] ELSE 0]
    BY <1>2, <1>3, <1>5, <1>6
  <1> QED BY <1>7 DEF CountsExact, left, without, D, AllItems

LEMMA ReadInitially == RecordingInit => ReadInv
  <1> SUFFICES ASSUME RecordingInit PROVE ReadInv
    OBVIOUS
  <1>1. SoFar = NewScan /\ AllItems = <<>> /\ chunk = <<>> /\ due = None /\ style \in Styles
    BY NothingScanned, NoItems DEF RecordingInit, SoFar, AllItems
  <1>2. RecordingTyped
    <2>1. file \in Seq(Record) /\ chunk \in Seq(Item)
      BY DEF RecordingInit
    <2> QED BY <1>1, <2>1, RecordingAssumption DEF RecordingInit, RecordingTyped
  <1>3. ChannelsDeclared
    BY <1>1, NothingIn DEF ChannelsDeclared, Uses
  <1>4. EndsWhole
    BY DEF EndsWhole, RecordingInit, ToSet
  <1>5. Accounts(SoFar, AllItems)
    <2>1. NewScan.chunk = NoChunk /\ NewScan.counts = << >> /\ ScanShape(NewScan)
      BY DEF NewScan, ScanShape
    <2> QED BY <1>1, <2>1, NothingIn DEF Accounts
  <1>6. QueueOK(queue, AllItems, SoFar)
    <2>1. queue \in Seq(Record) /\ \A j \in DOMAIN queue : queue[j].kind = "clock_sync"
      <3>1. SyncRecord \in Record /\ SyncRecord.kind = "clock_sync"
        BY DEF SyncRecord, Record, Plain
      <3>2. queue = <<>> \/ queue = <<SyncRecord>>
        BY DEF RecordingInit
      <3>3. CASE queue = <<>>
        BY <3>3
      <3>4. CASE queue = <<SyncRecord>>
        BY <3>1, <3>4
      <3> QED BY <3>2, <3>3, <3>4
    <2>2. DeclaredBefore(queue, AllItems)
      <3>1. \A j \in DOMAIN queue : ChannelsWithMessages(RecItems(queue[j])) = {}
        BY <2>1, OneRecord DEF RecItems
      <3> QED BY <3>1 DEF DeclaredBefore
    <2>3. SoFar.chunk = NoChunk
      BY <1>1 DEF NewScan
    <2> QED BY <2>1, <2>2, <2>3, PlainQueue
  <1> QED BY <1>2, <1>3, <1>4, <1>5, <1>6 DEF ReadInv

\* A message, behind the record of its channel if that is new.
LEMMA NewItems ==
    ASSUME NEW c \in Channels, NEW t \in Int, NEW known
    PROVE  LET q == (IF c \in known THEN <<>> ELSE <<ChannelRecord(c)>>) \o <<MessageRecord(c, t)>>
           IN  /\ q \in Seq(Item) /\ ChannelsWithMessages(q) = {c}
               /\ ChannelsIn(q) = IF c \in known THEN {} ELSE {c}
               /\ \A j \in DOMAIN q : q[j].kind \in {"channel", "message"}
               /\ \A j \in DOMAIN q : q[j].kind = "message" => q[j].channel = c
               /\ c \notin known => q[1] = ChannelRecord(c) /\ 1 \in DOMAIN q
  <1> DEFINE a == IF c \in known THEN <<>> ELSE <<ChannelRecord(c)>>
             m == <<MessageRecord(c, t)>>
             q == a \o m
  <1>1. ChannelRecord(c) \in Item /\ MessageRecord(c, t) \in Item
    BY DEF Item, ChannelRecord, MessageRecord
  <1>2. a \in Seq(Item) /\ m \in Seq(Item) /\ Len(m) = 1 /\ m[1] = MessageRecord(c, t)
        /\ (c \in known => Len(a) = 0) /\ (c \notin known => Len(a) = 1 /\ a[1] = ChannelRecord(c))
    BY <1>1
  <1>3. ChannelsWithMessages(m) = {c} /\ ChannelsIn(m) = {}
    <2> DEFINE x == MessageRecord(c, t)
    <2>1. x.kind = "message" /\ x.channel = c
      BY DEF MessageRecord
    <2>2. m = <<x>>
      OBVIOUS
    <2> HIDE DEF x, m
    <2>3. /\ ChannelsWithMessages(<<x>>) = IF x.kind = "message" THEN {x.channel} ELSE {}
          /\ ChannelsIn(<<x>>) = IF x.kind = "channel" THEN {x.channel} ELSE {}
      BY OneRecord
    <2> QED BY <2>1, <2>2, <2>3
  <1>4. ChannelsWithMessages(a) = {} /\ ChannelsIn(a) = IF c \in known THEN {} ELSE {c}
    <2>1. CASE c \in known
      BY <2>1, NothingIn
    <2>2. CASE c \notin known
      BY <2>2, OneRecord DEF ChannelRecord
    <2> QED BY <2>1, <2>2
  <1> HIDE DEF a, m
  <1>5. /\ q \in Seq(Item) /\ Len(q) = Len(a) + 1
        /\ \A j \in 1..Len(a) : q[j] = a[j]
        /\ \A j \in 1..1 : q[j + Len(a)] = m[j]
    <2>1. /\ a \o m \in Seq(Item) /\ Len(a \o m) = Len(a) + Len(m)
          /\ \A j \in 1..Len(a) : (a \o m)[j] = a[j]
          /\ \A j \in 1..Len(m) : (a \o m)[j + Len(a)] = m[j]
      <3>1. a \in Seq(Item) /\ m \in Seq(Item)
        BY <1>2
      <3> QED BY <3>1, Joined
    <2> QED BY <1>2, <2>1
  <1>6. ChannelsWithMessages(q) = {c} /\ ChannelsIn(q) = IF c \in known THEN {} ELSE {c}
    BY <1>2, <1>3, <1>4, PartsAppended
  <1> HIDE DEF q
  <1>7. q[1 + Len(a)] = MessageRecord(c, t)
    BY <1>2, <1>5
  <1>8. c \in known => DOMAIN q = {1} /\ q[1] = MessageRecord(c, t)
    BY <1>2, <1>5, <1>7
  <1>9. c \notin known => DOMAIN q = {1, 2} /\ q[1] = ChannelRecord(c) /\ q[2] = MessageRecord(c, t)
    <2> SUFFICES ASSUME c \notin known
                 PROVE  DOMAIN q = {1, 2} /\ q[1] = ChannelRecord(c) /\ q[2] = MessageRecord(c, t)
      OBVIOUS
    <2>1. Len(a) = 1 /\ a[1] = ChannelRecord(c)
      BY <1>2
    <2>2. DOMAIN q = 1..2
      <3>1. Len(q) = 2
        BY <1>5, <2>1
      <3>2. q \in Seq(Item)
        BY <1>5
      <3> QED BY <3>1, <3>2
    <2>3. q[1] = a[1]
      BY <1>5, <2>1
    <2>4. q[2] = MessageRecord(c, t)
      BY <1>7, <2>1
    <2> QED BY <2>1, <2>2, <2>3, <2>4
  <1>10. /\ \A j \in DOMAIN q : q[j].kind \in {"channel", "message"}
         /\ \A j \in DOMAIN q : q[j].kind = "message" => q[j].channel = c
         /\ c \notin known => q[1] = ChannelRecord(c) /\ 1 \in DOMAIN q
    BY <1>8, <1>9 DEF ChannelRecord, MessageRecord
  <1> QED BY <1>5, <1>6, <1>10 DEF q, a, m

\* Nothing is known of the file but what was.
LEMMA SameFile ==
    ASSUME file' = file PROVE SoFar' = SoFar /\ AllItems' = AllItems
  BY DEF SoFar, AllItems

\* A queue that is empty has no index to come.
LEMMA QueueWasEmpty ==
    ASSUME ReadInv, Recording
    PROVE  /\ SoFar.chunk = NoChunk \/ AllOrNoIndexes(SoFar.chunk)
           /\ ~(DataEnd \in ToSet(file))
  BY DEF ReadInv, QueueOK, Continues, StartsWith, Recording

LEMMA TakeMessageKeeps ==
    ASSUME ReadInv, NEW c \in Channels, NEW wait \in style.waits, TakeMessage(c, wait)
    PROVE  ReadInv'
  <1> DEFINE now == clock.now + wait
             known == ChannelsIn(ItemsOf(file) \o chunk)
             items == (IF c \in known THEN <<>> ELSE <<ChannelRecord(c)>>)
                        \o <<MessageRecord(c, now + clock.off)>>
  <1>1. /\ clock.now \in Int /\ clock.off \in Int /\ wait \in Int
        /\ file \in Seq(Record) /\ chunk \in Seq(Item) /\ style \in Styles
    BY RecordingAssumption DEF ReadInv, RecordingTyped
  <1>2. /\ Recording /\ clock' = [clock EXCEPT !.now = now]
        /\ chunk' = IF style.chunked THEN chunk \o items ELSE chunk
        /\ queue' = IF style.chunked THEN queue ELSE items
        /\ style' = style /\ file' = file /\ due' = due
    BY DEF TakeMessage
  <1>3. now \in Int /\ now + clock.off \in Int
    BY <1>1
  <1>4. /\ items \in Seq(Item) /\ ChannelsWithMessages(items) = {c}
        /\ ChannelsIn(items) = IF c \in known THEN {} ELSE {c}
        /\ \A j \in DOMAIN items : items[j].kind \in {"channel", "message"}
        /\ \A j \in DOMAIN items : items[j].kind = "message" => items[j].channel = c
        /\ c \notin known => items[1] = ChannelRecord(c) /\ 1 \in DOMAIN items
    <2> HIDE DEF now, known
    <2> QED BY <1>3, NewItems
  <1>5. AllItems \in Seq(Plain) /\ Item \subseteq Plain
    BY <1>1, ItemsTyped DEF Plain
  <1>6. known = ChannelsIn(AllItems) \cup ChannelsIn(chunk)
    <2>1. chunk \in Seq(Plain)
      <3> HIDE DEF Item
      <3> QED BY <1>1, <1>5
    <2> QED BY <1>5, <2>1, PartsAppended DEF AllItems
  <1>7. SoFar' = SoFar /\ AllItems' = AllItems
    BY <1>2, SameFile
  <1>8. /\ SoFar.chunk = NoChunk \/ AllOrNoIndexes(SoFar.chunk)
        /\ ~(DataEnd \in ToSet(file))
    BY <1>2, QueueWasEmpty
  <1> HIDE DEF items, known, now
  <1>9. clock' \in [now : Int, off : Int]
    BY <1>2, <1>3 DEF ReadInv, RecordingTyped
  <1>10. EndsWhole' /\ Accounts(SoFar, AllItems)'
    BY <1>2, <1>7, <1>8 DEF EndsWhole, ReadInv
  <1>11. CASE style.chunked
    <2>1. chunk' = chunk \o items /\ queue' = queue
      BY <1>2, <1>11
    <2>2. /\ chunk \o items \in Seq(Item)
          /\ ChannelsIn(chunk \o items) = ChannelsIn(chunk) \cup ChannelsIn(items)
          /\ ChannelsWithMessages(chunk \o items)
               = ChannelsWithMessages(chunk) \cup ChannelsWithMessages(items)
      <3>1. chunk \in Seq(Item) /\ items \in Seq(Item)
        BY <1>1, <1>4
      <3> QED BY <3>1, PartsAppended, Joined
    <2>3. ChannelsDeclared'
      <3>1. c \in known \/ c \in ChannelsIn(items)
        BY <1>4
      <3>2. Uses(chunk \o items)
        BY <1>4, <2>2 DEF Uses, ReadInv, ChannelsDeclared
      <3>3. ChannelsWithMessages(chunk \o items) \subseteq ChannelsIn(AllItems) \cup ChannelsIn(chunk \o items)
        BY <1>4, <1>6, <2>2, <3>1 DEF ReadInv, ChannelsDeclared
      <3> QED BY <1>2, <1>7, <1>11, <2>1, <3>2, <3>3 DEF ChannelsDeclared, ReadInv
    <2>4. QueueOK(queue, AllItems, SoFar)'
      BY <1>7, <2>1 DEF ReadInv
    <2>5. RecordingTyped'
      BY <1>1, <1>2, <1>9, <2>1, <2>2 DEF RecordingTyped, ReadInv
    <2> QED BY <1>10, <2>3, <2>4, <2>5 DEF ReadInv
  <1>12. CASE ~style.chunked
    <2>1. chunk' = chunk /\ queue' = items /\ chunk = <<>>
      BY <1>2, <1>12 DEF ReadInv, ChannelsDeclared
    <2>2. known = ChannelsIn(AllItems)
      BY <1>6, <2>1, NothingIn
    <2>3. DeclaredBefore(items, AllItems)
      <3>1. ASSUME NEW j \in DOMAIN items, NEW d \in ChannelsWithMessages(RecItems(items[j]))
            PROVE  d \in ChannelsIn(AllItems) \/ \E i \in 1..j : d \in ChannelsIn(RecItems(items[i]))
        <4>1. RecItems(items[j]) = <<items[j]>>
          BY <1>4 DEF RecItems
        <4>2. d = c
          <5> DEFINE x == items[j]
          <5>1. d \in ChannelsWithMessages(<<x>>)
            BY <3>1, <4>1
          <5> HIDE DEF x
          <5>2. x.kind = "message" /\ d = x.channel
            BY <5>1, OneRecord
          <5> QED BY <1>4, <3>1, <5>2 DEF x
        <4>3. CASE c \notin known
          <5>1. 1 \in 1..j
            <6> HIDE DEF Item
            <6> QED BY <1>4
          <5>2. RecItems(items[1]) = <<items[1]>> /\ items[1].kind = "channel" /\ items[1].channel = c
            BY <1>4, <4>3 DEF RecItems, ChannelRecord
          <5>3. c \in ChannelsIn(RecItems(items[1]))
            BY <5>2, OneRecord
          <5> QED BY <4>2, <5>1, <5>3
        <4> QED BY <2>2, <4>2, <4>3
      <3> QED BY <3>1 DEF DeclaredBefore
    <2>4. items \in Seq(Record)
      <3>1. Item \subseteq Record
        BY DEF Record, Plain
      <3> HIDE DEF Item, Record
      <3> QED BY <1>4, <3>1
    <2>5. QueueOK(items, AllItems, SoFar)
      BY <1>4, <1>8, <2>3, <2>4, PlainQueue
    <2>6. QueueOK(queue, AllItems, SoFar)'
      BY <1>7, <2>1, <2>5
    <2>7. ChannelsDeclared'
      BY <1>2, <1>7, <2>1 DEF ChannelsDeclared, ReadInv
    <2>8. RecordingTyped'
      BY <1>1, <1>2, <1>9, <2>1 DEF RecordingTyped, ReadInv
    <2> QED BY <1>10, <2>6, <2>7, <2>8 DEF ReadInv
  <1> QED BY <1>11, <1>12

\* The chunk is closed, and what follows it has neither messages nor indexes.
LEMMA ClosingKeeps ==
    ASSUME ReadInv, Recording, NEW tail \in Seq(Record),
           \A j \in DOMAIN tail : tail[j].kind \notin {"chunk", "index", "message"},
           queue' = Closing(chunk) \o tail, chunk' = <<>>,
           file' = file, style' = style, clock' = clock, due' = None \/ due' = due
    PROVE  ReadInv'
  <1>1. SoFar' = SoFar /\ AllItems' = AllItems
    BY SameFile
  <1>2. /\ SoFar.chunk = NoChunk \/ AllOrNoIndexes(SoFar.chunk)
        /\ ~(DataEnd \in ToSet(file))
    BY QueueWasEmpty
  <1>3. QueueOK(Closing(chunk) \o tail, AllItems, SoFar)
    BY <1>2, ClosedQueue DEF ReadInv, RecordingTyped, ChannelsDeclared
  <1>4. QueueOK(queue, AllItems, SoFar)'
    BY <1>1, <1>3
  <1>5. EndsWhole' /\ Accounts(SoFar, AllItems)'
    BY <1>1, <1>2 DEF EndsWhole, ReadInv
  <1>6. ChannelsDeclared'
    BY <1>1, NothingIn DEF ChannelsDeclared, Uses, ReadInv
  <1>7. RecordingTyped'
    BY DEF RecordingTyped, ReadInv
  <1> QED BY <1>4, <1>5, <1>6, <1>7 DEF ReadInv

LEMMA CloseChunkKeeps == ReadInv /\ CloseChunk => ReadInv'
  <1> SUFFICES ASSUME ReadInv, CloseChunk PROVE ReadInv'
    OBVIOUS
  <1>1. Closing(chunk) \in Seq(Record)
    BY ClosingIs DEF ReadInv, RecordingTyped
  <1> DEFINE tail == <<>>
  <1>2. tail \in Seq(Record) /\ DOMAIN tail = {} /\ Closing(chunk) \o tail = Closing(chunk)
    BY <1>1
  <1>3. queue' = Closing(chunk) \o tail
    BY <1>2 DEF CloseChunk
  <1> HIDE DEF tail
  <1> QED BY <1>2, <1>3, ClosingKeeps DEF CloseChunk

LEMMA RecordClockStepKeeps == ReadInv /\ RecordClockStep => ReadInv'
  <1> SUFFICES ASSUME ReadInv, RecordClockStep PROVE ReadInv'
    OBVIOUS
  <1> DEFINE tail == <<StepRecord(due.size)>>
  <1>1. StepRecord(due.size) \in Record
    BY DEF ReadInv, RecordingTyped, RecordClockStep, Record, Plain
  <1>2. tail \in Seq(Record) /\ \A j \in DOMAIN tail : tail[j].kind \notin {"chunk", "index", "message"}
    BY <1>1 DEF StepRecord
  <1>3. queue' = Closing(chunk) \o tail
    BY DEF RecordClockStep
  <1> HIDE DEF tail
  <1> QED BY <1>2, <1>3, ClosingKeeps DEF RecordClockStep

LEMMA FinishRecordingKeeps == ReadInv /\ FinishRecording => ReadInv'
  <1> SUFFICES ASSUME ReadInv, FinishRecording PROVE ReadInv'
    OBVIOUS
  <1> DEFINE tail == <<DataEnd, SummarySection>>
  <1>1. DataEnd \in Record /\ SummarySection \in Record
    BY DEF Record, Plain
  <1>2. tail \in Seq(Record) /\ \A j \in DOMAIN tail : tail[j].kind \notin {"chunk", "index", "message"}
    BY <1>1 DEF DataEnd, SummarySection
  <1>3. queue' = Closing(chunk) \o tail
    BY DEF FinishRecording
  <1> HIDE DEF tail
  <1> QED BY <1>2, <1>3, ClosingKeeps DEF FinishRecording

LEMMA StepClockKeeps ==
    ASSUME ReadInv, NEW size \in style.sizes, NEW wait \in Int, StepClock(size, wait)
    PROVE  ReadInv'
  <1>1. size \in Int /\ clock.now \in Int /\ clock.off \in Int
    BY RecordingAssumption DEF ReadInv, RecordingTyped
  <1>2. /\ clock' = [now |-> clock.now + wait, off |-> clock.off + size]
        /\ due' = IF style.records THEN [size |-> size, at |-> clock'.now] ELSE None
        /\ style' = style /\ file' = file /\ queue' = queue /\ chunk' = chunk
    BY DEF StepClock
  <1>3. SoFar' = SoFar /\ AllItems' = AllItems
    BY <1>2, SameFile
  <1>4. RecordingTyped'
    <2>1. clock' \in [now : Int, off : Int]
      BY <1>1, <1>2
    <2>2. due' # None => due'.size \in Int
      BY <1>1, <1>2
    <2> QED BY <1>2, <2>1, <2>2 DEF RecordingTyped, ReadInv
  <1>5. ChannelsDeclared' /\ EndsWhole'
    BY <1>2, <1>3 DEF ChannelsDeclared, EndsWhole, ReadInv
  <1>6. Accounts(SoFar, AllItems)' /\ QueueOK(queue, AllItems, SoFar)'
    BY <1>2, <1>3 DEF ReadInv
  <1> QED BY <1>4, <1>5, <1>6 DEF ReadInv

LEMMA WriteOutKeeps == ReadInv /\ WriteOut => ReadInv'
  <1> SUFFICES ASSUME ReadInv, WriteOut PROVE ReadInv'
    OBVIOUS
  <1> DEFINE r == queue[1]
             q == Tail(queue)
  <1>1. file \in Seq(Record) /\ queue \in Seq(Record) /\ queue # <<>>
    BY DEF ReadInv, RecordingTyped, QueueOK, WriteOut
  <1>2. /\ r \in Record /\ Head(queue) = r /\ q \in Seq(Record) /\ 1 \in DOMAIN queue
        /\ \A j \in DOMAIN q : j + 1 \in DOMAIN queue /\ q[j] = queue[j + 1]
    BY <1>1, HeadAndTail
  <1>3. file' = Append(file, r) /\ queue' = q /\ style' = style /\ chunk' = chunk
        /\ clock' = clock /\ due' = due
    BY <1>2 DEF WriteOut
  <1> HIDE DEF r, q
  <1>4. SoFar' = ScanRecord(SoFar, r)
    BY <1>1, <1>2, <1>3, ScanAppend DEF SoFar
  <1>5. AllItems \in Seq(Plain) /\ AllItems' = AllItems \o RecItems(r)
    BY <1>1, <1>2, <1>3, ItemsAppend DEF AllItems
  <1>6. Accounts(SoFar, AllItems) /\ QueueOK(queue, AllItems, SoFar)
    BY DEF ReadInv
  <1>7. Accounts(ScanRecord(SoFar, r), AllItems \o RecItems(r))
        /\ (r.kind = "index" => SoFar.chunk # NoChunk)
        /\ (r.kind \notin {"chunk", "index"} => ScanRecord(SoFar, r).chunk = NoChunk)
    BY <1>1, <1>5, <1>6, HoldsAfter DEF r
  <1>8. Accounts(SoFar, AllItems)'
    BY <1>4, <1>5, <1>7
  <1>9. /\ DeclaredBefore(q, AllItems \o RecItems(r))
        /\ ChannelsWithMessages(AllItems) \subseteq ChannelsIn(AllItems)
             => ChannelsWithMessages(AllItems \o RecItems(r)) \subseteq ChannelsIn(AllItems \o RecItems(r))
    BY <1>1, <1>5, <1>6, DeclaredAfter DEF QueueOK, r, q
  <1>10. /\ InOrder(q)
         /\ r.kind = "end" => \A j \in DOMAIN q : q[j].kind # "chunk"
    BY <1>1, <1>6, InOrderAfter DEF QueueOK, r, q
  <1>11. Continues(q, ScanRecord(SoFar, r))
    BY <1>1, <1>5, <1>6, ContinuesAfter DEF r, q
  <1>12. QueueOK(queue, AllItems, SoFar)'
    <2>1. QueueOK(q, AllItems \o RecItems(r), ScanRecord(SoFar, r))
      BY <1>2, <1>9, <1>10, <1>11 DEF QueueOK
    <2> QED BY <1>3, <1>4, <1>5, <2>1
  <1>13. ChannelsDeclared'
    <2>1. ChannelsIn(AllItems) \subseteq ChannelsIn(AllItems \o RecItems(r))
      <3>1. RecItems(r) \in Seq(Plain)
        BY <1>2, RecItemsType
      <3> QED BY <1>5, <3>1, PartsAppended
    <2> QED BY <1>3, <1>5, <1>9, <2>1 DEF ChannelsDeclared, ReadInv
  <1>14. EndsWhole'
    <2> SUFFICES ASSUME DataEnd \in ToSet(Append(file, r))
                 PROVE  ScanRecord(SoFar, r).chunk = NoChunk /\ \A j \in DOMAIN q : q[j].kind # "chunk"
      BY <1>3, <1>4 DEF EndsWhole
    <2>1. DataEnd \in ToSet(file) \/ r = DataEnd
      BY <1>1, <1>2 DEF ToSet
    <2>2. CASE r = DataEnd
      <3>1. r.kind = "end"
        BY <2>2 DEF DataEnd
      <3> QED BY <1>7, <1>10, <3>1
    <2>3. CASE DataEnd \in ToSet(file)
      <3>1. SoFar.chunk = NoChunk /\ \A j \in DOMAIN queue : queue[j].kind # "chunk"
        BY <2>3 DEF ReadInv, EndsWhole
      <3>2. r.kind \notin {"chunk", "index"}
        BY <1>2, <1>7, <3>1 DEF r
      <3> QED BY <1>2, <1>7, <3>1, <3>2
    <2> QED BY <2>1, <2>2, <2>3
  <1>15. RecordingTyped'
    <2>1. file' \in Seq(Record)
      BY <1>1, <1>2, <1>3
    <2> QED BY <1>3, <2>1 DEF RecordingTyped, ReadInv
  <1> QED BY <1>8, <1>12, <1>13, <1>14, <1>15 DEF ReadInv

LEMMA ReadInvStep == ReadInv /\ [RecordingNext]_recordingVars => ReadInv'
  <1> SUFFICES ASSUME ReadInv, [RecordingNext]_recordingVars PROVE ReadInv'
    OBVIOUS
  <1>1. CASE \E c \in Channels, wait \in style.waits : TakeMessage(c, wait)
    BY <1>1, TakeMessageKeeps
  <1>2. CASE \E size \in style.sizes, wait \in ({0} \cup style.waits) \ {Interval} : StepClock(size, wait)
    <2>1. style.waits \subseteq Int
      BY RecordingAssumption DEF ReadInv, RecordingTyped
    <2> QED BY <1>2, <2>1, StepClockKeeps
  <1>3. CASE CloseChunk \/ RecordClockStep \/ FinishRecording \/ WriteOut
    BY <1>3, CloseChunkKeeps, RecordClockStepKeeps, FinishRecordingKeeps, WriteOutKeeps
  <1>4. CASE UNCHANGED recordingVars
    BY <1>4, SameFile DEF recordingVars, ReadInv, RecordingTyped, ChannelsDeclared, EndsWhole
  <1> QED BY <1>1, <1>2, <1>3, <1>4 DEF RecordingNext

-----------------------------------------------------------------------------
(* The entries that a scan finds, and those of the summary.                *)

AllIndexes(items) == [c \in ChannelsWithMessages(items) |-> IndexOf(items, c)]

\* With one record more there is one entry more, or none.
WithEntryOf(entries, r) ==
    CASE r.kind = "chunk" -> Append(entries, ChunkEntry(r.items, AllIndexes(r.items)))
      [] r.kind = "clock_step" -> Append(entries, StepEntry(r.size))
      [] OTHER -> entries

\* The entries so far, with that of the chunk that is read.
Shown(s) ==
    IF s.chunk = NoChunk THEN s.entries
    ELSE Append(s.entries, ChunkEntry(s.chunk.items, AllIndexes(s.chunk.items)))

\* All indexes of a chunk were read, of which there is one.
Read(s) ==
    s.chunk # NoChunk =>
        /\ DOMAIN s.chunk.indexes = ChannelsWithMessages(s.chunk.items)
        /\ ChannelsWithMessages(s.chunk.items) # {}

LEMMA SeekChannelsSame ==
    ASSUME NEW s, ScanShape(s), NEW items, NEW named
    PROVE  LET t == SeekChannels(s, items, named)
           IN  ScanShape(t) /\ t.entries = s.entries /\ t.sync = s.sync
  <1>1. PICK e, p, n, y, k, z : s = [entries |-> e, topics |-> p, counts |-> n, sync |-> y,
                                     chunk |-> k, skipped |-> z]
    BY DEF ScanShape
  <1> DEFINE t == SeekChannels(s, items, named)
  <1>2. CASE named \subseteq s.topics
    <2>1. t = [entries |-> e, topics |-> p, counts |-> n, sync |-> y, chunk |-> k,
               skipped |-> Append(z, items)]
      BY <1>1, <1>2 DEF SeekChannels
    <2> HIDE DEF t
    <2>2. ScanShape(t)
      BY <2>1 DEF ScanShape
    <2> QED BY <1>1, <2>1, <2>2 DEF t
  <1>3. CASE ~(named \subseteq s.topics)
    <2>1. PICK m : t = ReadBack(s, items, m)
      BY <1>3 DEF SeekChannels
    <2>2. t = [entries |-> e, topics |-> KnownAfter(s, items, m), counts |-> n, sync |-> y,
               chunk |-> k, skipped |-> SubSeq(z, 1, Len(z) - m)]
      BY <1>1, <2>1 DEF ReadBack
    <2> HIDE DEF t
    <2>3. ScanShape(t)
      BY <2>2 DEF ScanShape
    <2> QED BY <1>1, <2>2, <2>3 DEF t
  <1> QED BY <1>2, <1>3

\* flush takes a chunk by its indexes, if it has them all.
LEMMA FlushShows ==
    ASSUME NEW s, NEW all, Accounts(s, all), Read(s)
    PROVE  LET t == Flush(s, FALSE)
           IN  ScanShape(t) /\ t.chunk = NoChunk /\ t.entries = Shown(s) /\ t.sync = s.sync
  <1> DEFINE t == Flush(s, FALSE)
  <1>1. CASE s.chunk = NoChunk
    BY <1>1 DEF Flush, Accounts, Shown
  <1>2. CASE s.chunk # NoChunk
    <2> DEFINE items == s.chunk.items
               indexes == s.chunk.indexes
               u == SeekChannels(s, items, DOMAIN indexes)
               added == [c \in DOMAIN indexes |-> Cardinality(DOMAIN indexes[c])]
    <2>1. indexes # << >>
      <3>1. DOMAIN indexes # {} /\ DOMAIN << >> = {}
        BY <1>2 DEF Read
      <3> QED BY <3>1
    <2>2. t = [u EXCEPT !.entries = Append(@, ChunkEntry(items, indexes)),
                        !.counts = Added(@, added), !.chunk = NoChunk]
      BY <1>2, <2>1 DEF Flush, Indexed
    <2>3. ScanShape(u) /\ u.entries = s.entries /\ u.sync = s.sync
      <3> HIDE DEF items, indexes
      <3> QED BY SeekChannelsSame DEF Accounts
    <2>4. indexes = AllIndexes(items)
      <3>1. /\ \E i, x : s.chunk = [kind |-> "chunk", items |-> i, indexes |-> x]
            /\ DOMAIN indexes = ChannelsWithMessages(items)
            /\ indexes = [c \in DOMAIN indexes |-> IndexOf(items, c)]
        BY <1>2 DEF Accounts, Pending, Read
      <3> HIDE DEF items, indexes
      <3> QED BY <3>1 DEF AllIndexes
    <2>5. Shown(s) = Append(s.entries, ChunkEntry(items, indexes))
      BY <1>2, <2>4 DEF Shown
    <2> HIDE DEF t, u, items, indexes, added
    <2>6. PICK e, p, n, y, k, z : u = [entries |-> e, topics |-> p, counts |-> n, sync |-> y,
                                       chunk |-> k, skipped |-> z]
      BY <2>3 DEF ScanShape
    <2>7. t = [entries |-> Append(e, ChunkEntry(items, indexes)), topics |-> p,
               counts |-> Added(n, added), sync |-> y, chunk |-> NoChunk, skipped |-> z]
      BY <2>2, <2>6
    <2>8. ScanShape(t)
      BY <2>7 DEF ScanShape
    <2>9. t.chunk = NoChunk /\ t.entries = Append(s.entries, ChunkEntry(items, indexes)) /\ t.sync = s.sync
      BY <2>3, <2>6, <2>7
    <2> QED BY <2>5, <2>8, <2>9 DEF t
  <1> QED BY <1>1, <1>2

LEMMA SyncIs == ASSUME NEW r \in Record PROVE r = SyncRecord <=> r.kind = "clock_sync"
  <1>1. CASE \E s \in Seq(Item) : r = ChunkRecord(s)
    BY <1>1 DEF ChunkRecord, SyncRecord
  <1>2. CASE r \in Plain
    BY <1>2 DEF Plain, Item, IndexRecord, StepRecord, SyncRecord, DataEnd, SummarySection
  <1> QED BY <1>1, <1>2 DEF Record

LEMMA ShownAfter ==
    ASSUME NEW s, NEW all, Accounts(s, all), NEW r \in Record, r.kind # "message",
           IF r.kind = "index" THEN s.chunk # NoChunk ELSE Read(s)
    PROVE  LET t == ScanRecord(s, r)
           IN  /\ Shown(t) = WithEntryOf(Shown(s), r)
               /\ t.sync = IF r = SyncRecord THEN TRUE ELSE s.sync
  <1> DEFINE t == ScanRecord(s, r)
  <1>1. CASE r.kind = "index"
    <2>1. PICK e, p, n, y, k, z : s = [entries |-> e, topics |-> p, counts |-> n, sync |-> y,
                                       chunk |-> k, skipped |-> z]
      BY DEF Accounts, ScanShape
    <2>2. s.chunk # NoChunk
      BY <1>1
    <2>3. PICK items, x : k = [kind |-> "chunk", items |-> items, indexes |-> x]
      BY <2>1, <2>2 DEF Accounts, Pending
    <2> DEFINE x1 == [c \in DOMAIN x \cup {r.channel} |-> IF c = r.channel THEN r.times ELSE x[c]]
               k1 == [kind |-> "chunk", items |-> items, indexes |-> x1]
    <2>4. t = [entries |-> e, topics |-> p, counts |-> n, sync |-> y, chunk |-> k1, skipped |-> z]
      <3> HIDE DEF x1
      <3>1. t = [s EXCEPT !.chunk.indexes = x1]
        BY <1>1, <2>1, <2>2, <2>3 DEF ScanRecord, ScanIndex, x1
      <3>2. [s EXCEPT !.chunk.indexes = x1] = [s EXCEPT !.chunk = [s.chunk EXCEPT !.indexes = x1]]
        OBVIOUS
      <3> QED BY <2>1, <2>3, <3>1, <3>2
    <2> HIDE DEF t, x1
    <2>5. k1 # NoChunk /\ k1.items = items
      BY DEF NoChunk
    <2> HIDE DEF k1
    <2>6. t.chunk = k1 /\ t.entries = e /\ t.sync = y
      BY <2>4
    <2>7. Shown(t) = Shown(s)
      BY <2>1, <2>2, <2>3, <2>5, <2>6 DEF Shown
    <2> QED BY <1>1, <2>1, <2>6, <2>7, SyncIs DEF WithEntryOf, t
  <1>2. CASE r.kind # "index"
    <2> DEFINE u == Flush(s, FALSE)
    <2>1. ScanShape(u) /\ u.chunk = NoChunk /\ u.entries = Shown(s) /\ u.sync = s.sync
      BY <1>2, FlushShows
    <2>2. t = ScanOther(u, r)
      BY <1>2 DEF ScanRecord
    <2> HIDE DEF t, u
    <2>3. PICK e, p, n, y, k, z : u = [entries |-> e, topics |-> p, counts |-> n, sync |-> y,
                                       chunk |-> k, skipped |-> z]
      BY <2>1 DEF ScanShape
    <2>4. e = Shown(s) /\ k = NoChunk /\ y = s.sync
      BY <2>1, <2>3
    <2>5. CASE r.kind = "chunk"
      <3> DEFINE c == PendingChunk(r.items)
      <3>1. t = [u EXCEPT !.chunk = c]
        BY <2>2, <2>5 DEF ScanOther
      <3>2. c # NoChunk /\ c.items = r.items
        BY DEF PendingChunk, NoChunk
      <3> HIDE DEF c
      <3>3. t.entries = e /\ t.chunk = c /\ t.sync = y
        BY <2>3, <3>1
      <3>4. Shown(t) = WithEntryOf(Shown(s), r)
        BY <2>4, <2>5, <3>2, <3>3 DEF Shown, WithEntryOf
      <3> QED BY <2>4, <2>5, <3>3, <3>4, SyncIs DEF t
    <2>6. CASE r.kind = "clock_step"
      <3> DEFINE c == StepEntry(r.size)
      <3>1. t = [u EXCEPT !.entries = Append(@, c)]
        BY <2>2, <2>6 DEF ScanOther
      <3> HIDE DEF c
      <3>2. t.entries = Append(e, c) /\ t.chunk = NoChunk /\ t.sync = y
        BY <2>3, <2>4, <3>1
      <3>3. Shown(t) = WithEntryOf(Shown(s), r)
        BY <2>4, <2>6, <3>2 DEF Shown, WithEntryOf, c
      <3> QED BY <2>4, <2>6, <3>2, <3>3, SyncIs DEF t
    <2>7. CASE r.kind \notin {"chunk", "clock_step"}
      <3>1. t.entries = e /\ t.chunk = NoChunk /\ t.sync = (IF r.kind = "clock_sync" THEN TRUE ELSE y)
        <4>1. CASE r.kind = "channel"
          <5>1. t = [u EXCEPT !.topics = @ \cup {r.channel}]
            BY <2>2, <4>1 DEF ScanOther
          <5> QED BY <2>3, <2>4, <4>1, <5>1
        <4>2. CASE r.kind = "clock_sync"
          <5>1. t = [u EXCEPT !.sync = TRUE]
            BY <2>2, <4>2 DEF ScanOther
          <5> QED BY <2>3, <2>4, <4>2, <5>1
        <4>3. CASE r.kind \notin {"channel", "clock_sync"}
          <5>1. t = u
            BY <2>2, <2>7, <4>3 DEF ScanOther
          <5> QED BY <2>3, <2>4, <4>3, <5>1
        <4> QED BY <4>1, <4>2, <4>3
      <3>2. Shown(t) = WithEntryOf(Shown(s), r)
        BY <2>4, <2>7, <3>1 DEF Shown, WithEntryOf
      <3> QED BY <2>4, <3>1, <3>2, SyncIs DEF t
    <2> QED BY <2>5, <2>6, <2>7
  <1> QED BY <1>1, <1>2

\* The entries of some records, if every chunk had all its indexes.
PieceOf(r) ==
    CASE r.kind = "chunk" -> <<ChunkEntry(r.items, AllIndexes(r.items))>>
      [] r.kind = "clock_step" -> <<StepEntry(r.size)>>
      [] OTHER -> <<>>
PiecesOf(f) == [i \in DOMAIN f |-> PieceOf(f[i])]
EntriesOfAll(f) == FlattenSeq(PiecesOf(f))

LEMMA EntriesAppend ==
    ASSUME NEW f \in Seq(Record), NEW r \in Record
    PROVE  EntriesOfAll(Append(f, r)) = WithEntryOf(EntriesOfAll(f), r)
  <1> DEFINE S == {ChunkEntry(x.items, AllIndexes(x.items)) : x \in Record} \cup {StepEntry(x.size) : x \in Record}
             n == Len(f)
             F == Append(f, r)
  <1>1. ASSUME NEW x \in Record PROVE PieceOf(x) \in Seq(S)
    <2> DEFINE a == ChunkEntry(x.items, AllIndexes(x.items))
               b == StepEntry(x.size)
    <2>1. a \in S /\ b \in S
      OBVIOUS
    <2>2. PieceOf(x) = <<a>> \/ PieceOf(x) = <<b>> \/ PieceOf(x) = <<>>
      BY DEF PieceOf
    <2> HIDE DEF a, b, S
    <2>3. <<a>> \in Seq(S) /\ <<b>> \in Seq(S) /\ <<>> \in Seq(S)
      BY <2>1
    <2> QED BY <2>2, <2>3
  <1> HIDE DEF S
  <1>2. n \in Nat /\ DOMAIN f = 1..n /\ DOMAIN F = 1..n + 1 /\ F[n + 1] = r
        /\ \A i \in 1..n : F[i] = f[i] /\ f[i] \in Record
    OBVIOUS
  <1> HIDE DEF F, n
  <1> DEFINE p == PiecesOf(f)
             q == PiecesOf(F)
             e == PieceOf(r)
  <1>3. p \in Seq(Seq(S)) /\ Len(p) = n /\ e \in Seq(S) /\ \A i \in 1..n : p[i] = PieceOf(f[i])
    BY <1>1, <1>2 DEF PiecesOf
  <1>4. q \in Seq(Seq(S)) /\ Len(q) = n + 1 /\ \A i \in 1..n + 1 : q[i] = IF i = n + 1 THEN e ELSE p[i]
    <2>1. q = [i \in 1..n + 1 |-> PieceOf(F[i])]
      BY <1>2 DEF PiecesOf
    <2>2. ASSUME NEW i \in 1..n + 1 PROVE PieceOf(F[i]) = (IF i = n + 1 THEN e ELSE p[i]) /\ PieceOf(F[i]) \in Seq(S)
      <3>1. CASE i = n + 1
        BY <1>2, <1>3, <3>1
      <3>2. CASE i # n + 1
        <4>1. i \in 1..n
          BY <1>2, <3>2
        <4>2. PieceOf(F[i]) = PieceOf(f[i]) /\ f[i] \in Record
          BY <1>2, <4>1
        <4> QED BY <1>1, <1>3, <3>2, <4>1, <4>2
      <3> QED BY <3>1, <3>2
    <2> HIDE DEF p, q, e
    <2> QED BY <1>2, <2>1, <2>2
  <1> HIDE DEF p, q, e
  <1>5. q = Append(p, e)
    <2>1. /\ Append(p, e) \in Seq(Seq(S)) /\ Len(Append(p, e)) = n + 1
          /\ \A i \in 1..n + 1 : Append(p, e)[i] = IF i = n + 1 THEN e ELSE p[i]
      BY <1>2, <1>3
    <2> DEFINE w == Append(p, e)
    <2> HIDE DEF w
    <2>2. w \in Seq(Seq(S)) /\ Len(w) = Len(q) /\ \A i \in 1..Len(q) : w[i] = q[i]
      BY <1>4, <2>1 DEF w
    <2>3. w = q
      BY <1>4, <2>2, SeqEqual
    <2> QED BY <2>3 DEF w
  <1>6. FlattenSeq(p) \in Seq(S) /\ FlattenSeq(Append(p, e)) = FlattenSeq(p) \o e
    BY <1>3, FlattenAppended
  <1> DEFINE g == FlattenSeq(p)
             a == ChunkEntry(r.items, AllIndexes(r.items))
             b == StepEntry(r.size)
  <1>7. e = (CASE r.kind = "chunk" -> <<a>> [] r.kind = "clock_step" -> <<b>> [] OTHER -> <<>>)
    BY DEF e, PieceOf
  <1>8. WithEntryOf(g, r) = CASE r.kind = "chunk" -> Append(g, a) [] r.kind = "clock_step" -> Append(g, b)
                              [] OTHER -> g
    BY DEF WithEntryOf
  <1>9. g \in Seq(S) /\ FlattenSeq(q) = g \o e
    BY <1>5, <1>6
  <1> HIDE DEF g, a, b
  <1>10. g \o <<a>> = Append(g, a) /\ g \o <<b>> = Append(g, b) /\ g \o <<>> = g
    BY <1>9
  <1>11. FlattenSeq(q) = WithEntryOf(g, r)
    BY <1>7, <1>8, <1>9, <1>10
  <1> QED BY <1>11 DEF EntriesOfAll, g, p, q, F

LEMMA NoEntries == EntriesOfAll(<<>>) = <<>>
  <1>1. PiecesOf(<<>>) = <<>>
    BY DEF PiecesOf
  <1> QED BY <1>1, NothingFlattened DEF EntriesOfAll

\* The message indexes behind a record, up to one of another kind.
Follow(f, i) == {j \in i + 1..Len(f) : \A k \in i + 1..j : f[k].kind = "index"}
Trailing(f, i) == \A k \in i + 1..Len(f) : f[k].kind = "index"
Followers(f, i) == {f[j].channel : j \in Follow(f, i)}

\* Every chunk is followed by the indexes of its channels; the last one, which the
\* scan still reads, by those that the scan has found.
Followed(f, s) ==
    \A i \in DOMAIN f : f[i].kind = "chunk" =>
        /\ \A j \in Follow(f, i) : f[j].times = IndexOf(f[i].items, f[j].channel)
        /\ IF Trailing(f, i)
           THEN s.chunk # NoChunk /\ s.chunk.items = f[i].items /\ Followers(f, i) = DOMAIN s.chunk.indexes
           ELSE Followers(f, i) = ChannelsWithMessages(f[i].items)

LEMMA FollowAfter ==
    ASSUME NEW S, NEW f \in Seq(S), NEW r \in S, NEW i \in 1..Len(f) + 1
    PROVE  LET F == Append(f, r)
           IN  /\ i = Len(f) + 1 => Follow(F, i) = {} /\ Trailing(F, i)
               /\ i \in DOMAIN f =>
                     /\ Trailing(F, i) <=> Trailing(f, i) /\ r.kind = "index"
                     /\ Follow(F, i) = IF Trailing(F, i) THEN Follow(f, i) \cup {Len(f) + 1} ELSE Follow(f, i)
  <1> DEFINE F == Append(f, r)
             n == Len(f)
  <1>1. n \in Nat /\ Len(F) = n + 1 /\ F[n + 1] = r /\ DOMAIN f = 1..n /\ \A k \in 1..n : F[k] = f[k]
    OBVIOUS
  <1> HIDE DEF F, n
  <1>2. CASE i = n + 1
    <2>1. i + 1..Len(F) = {}
      BY <1>1, <1>2
    <2> QED BY <1>1, <1>2, <2>1 DEF Follow, Trailing, F, n
  <1>3. CASE i \in 1..n
    <2>1. \A k : k \in i + 1..n + 1 <=> k \in i + 1..n \/ k = n + 1
      BY <1>1, <1>3
    <2>2. \A k \in i + 1..n : F[k] = f[k]
      BY <1>1, <1>3
    <2>3. Trailing(F, i) <=> Trailing(f, i) /\ r.kind = "index"
      BY <1>1, <2>1, <2>2 DEF Trailing, n
    <2>4. ASSUME NEW j PROVE j \in Follow(F, i) <=> j \in Follow(f, i) \/ (j = n + 1 /\ Trailing(F, i))
      <3>1. CASE j \in i + 1..n
        <4>1. j # n + 1 /\ j \in i + 1..n + 1 /\ \A k \in i + 1..j : k \in i + 1..n
          BY <1>1, <1>3, <3>1
        <4> QED BY <1>1, <2>2, <3>1, <4>1 DEF Follow, n
      <3>2. CASE j = n + 1
        <4>1. j \notin i + 1..n /\ j \in i + 1..n + 1
          BY <1>1, <1>3, <3>2
        <4> QED BY <1>1, <3>2, <4>1 DEF Follow, Trailing, n
      <3>3. CASE j \notin i + 1..n + 1
        <4>1. j # n + 1 /\ j \notin i + 1..n
          BY <1>1, <1>3, <3>3
        <4> QED BY <1>1, <3>3, <4>1 DEF Follow, n
      <3> QED BY <2>1, <3>1, <3>2, <3>3
    <2>5. Follow(F, i) = IF Trailing(F, i) THEN Follow(f, i) \cup {n + 1} ELSE Follow(f, i)
      BY <2>4
    <2>6. i # n + 1
      BY <1>1, <1>3
    <2> QED BY <2>3, <2>5, <2>6 DEF F, n
  <1> QED BY <1>1, <1>2, <1>3 DEF n

LEMMA FollowWithin ==
    ASSUME NEW S, NEW f \in Seq(S), NEW i \in DOMAIN f, NEW j \in Follow(f, i)
    PROVE  j \in DOMAIN f
  <1>1. j \in i + 1..Len(f) /\ i \in 1..Len(f) /\ Len(f) \in Nat
    BY DEF Follow
  <1> QED BY <1>1

LEMMA FollowedAfter ==
    ASSUME NEW f \in Seq(Record), NEW r \in Record, NEW s, NEW t, Followed(f, s),
           r.kind = "index" =>
              /\ s.chunk # NoChunk /\ r.times = IndexOf(s.chunk.items, r.channel)
              /\ t.chunk # NoChunk /\ t.chunk.items = s.chunk.items
              /\ DOMAIN t.chunk.indexes = DOMAIN s.chunk.indexes \cup {r.channel},
           r.kind # "index" => Read(s),
           r.kind = "chunk" => t.chunk # NoChunk /\ t.chunk.items = r.items /\ DOMAIN t.chunk.indexes = {}
    PROVE  Followed(Append(f, r), t)
  <1> DEFINE F == Append(f, r)
             n == Len(f)
  <1>1. n \in Nat /\ DOMAIN F = 1..n + 1 /\ F[n + 1] = r /\ DOMAIN f = 1..n /\ \A k \in 1..n : F[k] = f[k]
    OBVIOUS
  <1> SUFFICES ASSUME NEW i \in DOMAIN F, F[i].kind = "chunk"
               PROVE  /\ \A j \in Follow(F, i) : F[j].times = IndexOf(F[i].items, F[j].channel)
                      /\ IF Trailing(F, i)
                         THEN /\ t.chunk # NoChunk /\ t.chunk.items = F[i].items
                              /\ Followers(F, i) = DOMAIN t.chunk.indexes
                         ELSE Followers(F, i) = ChannelsWithMessages(F[i].items)
    BY DEF Followed
  <1>2. /\ i = n + 1 => Follow(F, i) = {} /\ Trailing(F, i)
        /\ i \in DOMAIN f =>
              /\ Trailing(F, i) <=> Trailing(f, i) /\ r.kind = "index"
              /\ Follow(F, i) = IF Trailing(F, i) THEN Follow(f, i) \cup {n + 1} ELSE Follow(f, i)
    <2>1. i \in 1..n + 1
      BY <1>1
    <2> QED BY <2>1, FollowAfter
  <1> HIDE DEF F, n
  <1>3. CASE i = n + 1
    <2>1. F[i] = r /\ Followers(F, i) = {}
      BY <1>1, <1>2, <1>3 DEF Followers
    <2> QED BY <1>2, <1>3, <2>1
  <1>4. CASE i \in 1..n
    <2>1. F[i] = f[i] /\ f[i].kind = "chunk" /\ i \in DOMAIN f
      BY <1>1, <1>4
    <2>2. \A j \in Follow(f, i) : F[j] = f[j]
      BY <1>1, <2>1, FollowWithin
    <2>3. /\ \A j \in Follow(f, i) : f[j].times = IndexOf(f[i].items, f[j].channel)
          /\ IF Trailing(f, i)
             THEN s.chunk # NoChunk /\ s.chunk.items = f[i].items /\ Followers(f, i) = DOMAIN s.chunk.indexes
             ELSE Followers(f, i) = ChannelsWithMessages(f[i].items)
      BY <2>1 DEF Followed
    <2>4. CASE Trailing(F, i)
      <3>1. r.kind = "index" /\ Trailing(f, i) /\ Follow(F, i) = Follow(f, i) \cup {n + 1}
        BY <1>2, <2>1, <2>4
      <3>2. Followers(F, i) = Followers(f, i) \cup {r.channel}
        BY <1>1, <2>2, <3>1 DEF Followers
      <3>3. \A j \in Follow(F, i) : F[j].times = IndexOf(F[i].items, F[j].channel)
        BY <1>1, <2>1, <2>2, <2>3, <3>1
      <3> QED BY <2>1, <2>3, <2>4, <3>1, <3>2, <3>3
    <2>5. CASE ~Trailing(F, i)
      <3>1. Follow(F, i) = Follow(f, i) /\ (Trailing(f, i) => r.kind # "index")
        BY <1>2, <2>1, <2>5
      <3>2. Followers(F, i) = Followers(f, i)
        BY <2>2, <3>1 DEF Followers
      <3>3. Followers(f, i) = ChannelsWithMessages(f[i].items)
        BY <2>3, <3>1 DEF Read
      <3> QED BY <2>1, <2>2, <2>3, <2>5, <3>1, <3>2, <3>3
    <2> QED BY <2>4, <2>5
  <1> QED BY <1>1, <1>3, <1>4

\* What the summary has of the chunk is what its messages are.
LEMMA IndexesAfterAre ==
    ASSUME NEW f, NEW i, \A j \in Follow(f, i) : f[j].times = IndexOf(f[i].items, f[j].channel),
           Followers(f, i) = ChannelsWithMessages(f[i].items)
    PROVE  IndexesAfter(f, i) = AllIndexes(f[i].items)
  <1> DEFINE F == Follow(f, i)
             items == f[i].items
             first(c) == CHOOSE j \in F : f[j].channel = c
  <1>1. IndexesAfter(f, i) = [c \in Followers(f, i) |-> f[first(c)].times]
    BY DEF IndexesAfter, Follow, Followers
  <1>2. ASSUME NEW c \in Followers(f, i) PROVE f[first(c)].times = IndexOf(items, c)
    <2>1. \E j \in F : f[j].channel = c
      BY DEF Followers
    <2>2. first(c) \in F /\ f[first(c)].channel = c
      BY <2>1
    <2> HIDE DEF first
    <2> QED BY <2>2
  <1> HIDE DEF first
  <1> QED BY <1>1, <1>2 DEF AllIndexes

-----------------------------------------------------------------------------
(* A recorder that writes indexed chunks.                                  *)

\* Messages are in chunks, one at a time is written, and its indexes come next.
QueueFull(q, s) ==
    /\ \A j \in DOMAIN q :
          /\ q[j].kind # "message"
          /\ q[j].kind = "chunk" => j = 1 /\ ChannelsWithMessages(q[j].items) # {}
    /\ StartsWith(q, "chunk") => Rest(q[1].items, {}, q)
    /\ s.chunk # NoChunk => ChannelsWithMessages(s.chunk.items) # {}
    /\ ~StartsWith(q, "index") => Read(s)

LEMMA FullAfter ==
    ASSUME NEW all \in Seq(Plain), NEW s, Accounts(s, all),
           NEW q, q # <<>>, QueueOK(q, all, s), QueueFull(q, s)
    PROVE  QueueFull(Tail(q), ScanRecord(s, q[1]))
  <1> DEFINE r == q[1]
             p == Tail(q)
             t == ScanRecord(s, r)
  <1>1. /\ q \in Seq(Record) /\ r \in Record /\ 1 \in DOMAIN q
        /\ \A j \in DOMAIN p : j + 1 \in DOMAIN q /\ p[j] = q[j + 1] /\ j # 0
        /\ p # <<>> => 1 \in DOMAIN p
    BY HeadAndTail DEF QueueOK
  <1>2. /\ StartsWith(p, "index") <=> Indexing(p) # {}
        /\ r.kind \notin {"chunk", "index"} => Indexing(p) = {}
    BY <1>1, InOrderAfter DEF QueueOK
  <1>3. /\ r.kind = "index" =>
              /\ t.chunk # NoChunk /\ t.chunk.items = s.chunk.items /\ s.chunk # NoChunk
              /\ DOMAIN t.chunk.indexes = DOMAIN s.chunk.indexes \cup {r.channel}
        /\ r.kind = "chunk" => t.chunk = PendingChunk(r.items)
        /\ r.kind \notin {"chunk", "index"} => t.chunk = NoChunk
        /\ Accounts(t, all \o RecItems(r))
    BY HoldsAfter
  <1>4. ASSUME NEW items, NEW have, Rest(items, have, q)
        PROVE  Rest(items, have \cup (IF r.kind = "index" THEN {r.channel} ELSE {}), p)
    BY <1>1, <1>4, RestAfter
  <1> SUFFICES QueueFull(p, t)
    OBVIOUS
  <1> HIDE DEF p, t
  <1>5. \A j \in DOMAIN p : p[j].kind \notin {"message", "chunk"}
    <2>1. ASSUME NEW j \in DOMAIN p PROVE p[j].kind \notin {"message", "chunk"}
      <3>1. j + 1 \in DOMAIN q /\ p[j] = q[j + 1] /\ j + 1 # 1
        BY <1>1
      <3> QED BY <3>1 DEF QueueFull
    <2> QED BY <2>1
  <1>6. ~StartsWith(p, "chunk")
    BY <1>1, <1>5 DEF StartsWith
  <1>7. CASE r.kind = "index"
    <2>1. ChannelsWithMessages(t.chunk.items) # {}
      BY <1>3, <1>7 DEF QueueFull
    <2>2. ASSUME ~StartsWith(p, "index") PROVE Read(t)
      <3>1. Rest(s.chunk.items, DOMAIN s.chunk.indexes, q)
        BY <1>7 DEF QueueOK, Continues, StartsWith
      <3>2. Rest(t.chunk.items, DOMAIN t.chunk.indexes, p)
        BY <1>3, <1>4, <1>7, <3>1
      <3>3. ChannelsWithMessages(t.chunk.items) \subseteq DOMAIN t.chunk.indexes
        BY <1>2, <2>2, <3>2 DEF Rest
      <3>4. DOMAIN t.chunk.indexes \subseteq ChannelsWithMessages(t.chunk.items)
        BY <1>3, <1>7 DEF Accounts, Pending
      <3> QED BY <2>1, <3>3, <3>4 DEF Read
    <2> QED BY <1>5, <1>6, <2>1, <2>2 DEF QueueFull
  <1>8. CASE r.kind = "chunk"
    <2>1. t.chunk.items = r.items
      BY <1>3, <1>8 DEF PendingChunk
    <2>2. ChannelsWithMessages(r.items) # {} /\ Rest(r.items, {}, q)
      BY <1>1, <1>8 DEF QueueFull, StartsWith
    <2>3. Rest(r.items, {}, p)
      <3>1. {} \cup {} = {} /\ r.kind # "index"
        BY <1>8
      <3> QED BY <1>4, <2>2, <3>1
    <2>4. StartsWith(p, "index")
      BY <1>2, <2>2, <2>3 DEF Rest
    <2> QED BY <1>5, <1>6, <2>1, <2>2, <2>4 DEF QueueFull
  <1>9. CASE r.kind \notin {"chunk", "index"}
    BY <1>3, <1>5, <1>6, <1>9 DEF QueueFull, Read
  <1> QED BY <1>7, <1>8, <1>9

LEMMA ClosedFull ==
    ASSUME style.indexed, NEW s, Read(s),
           NEW items \in Seq(Item), items # <<>> => ChannelsWithMessages(items) # {},
           NEW tail \in Seq(Record),
           \A j \in DOMAIN tail : tail[j].kind \notin {"chunk", "index", "message"}
    PROVE  QueueFull(Closing(items) \o tail, s)
  <1> DEFINE b == Closing(items)
             q == b \o tail
             n == Len(b)
             W == ChannelsWithMessages(items)
  <1>1. /\ b \in Seq(Record)
        /\ items = <<>> => b = <<>>
        /\ items # <<>> =>
              /\ n > 0 /\ b[1] = ChunkRecord(items)
              /\ \A j \in 2..n : b[j].kind = "index" /\ b[j].channel \in W
                                 /\ b[j].times = IndexOf(items, b[j].channel)
              /\ \A c \in W : \E j \in 2..n : b[j].channel = c
    BY ClosingIs
  <1> HIDE DEF b
  <1>2. /\ q \in Seq(Record) /\ n \in Nat /\ Len(tail) \in Nat
        /\ DOMAIN q = 1..n + Len(tail) /\ DOMAIN tail = 1..Len(tail)
        /\ \A j \in 1..n : q[j] = b[j]
        /\ \A j \in 1..Len(tail) : q[j + n] = tail[j]
    <2>1. /\ q \in Seq(Record) /\ Len(q) = n + Len(tail)
          /\ \A j \in 1..n : q[j] = b[j]
          /\ \A j \in 1..Len(tail) : q[j + n] = tail[j]
      <3>1. b \in Seq(Record)
        BY <1>1
      <3> QED BY <3>1, Joined DEF n
    <2>2. n \in Nat /\ Len(tail) \in Nat /\ DOMAIN tail = 1..Len(tail)
      BY <1>1
    <2> HIDE DEF q, n
    <2> QED BY <2>1, <2>2
  <1> HIDE DEF q, n, W
  <1>3. ASSUME NEW j \in DOMAIN q, j > n PROVE q[j].kind \notin {"chunk", "index", "message"}
    <2>1. j - n \in DOMAIN tail /\ (j - n) + n = j
      BY <1>2, <1>3
    <2> QED BY <1>2, <2>1
  <1>4. s.chunk # NoChunk => ChannelsWithMessages(s.chunk.items) # {}
    BY DEF Read
  <1>5. CASE items = <<>>
    <2>1. n = 0
      BY <1>1, <1>5 DEF n
    <2>2. \A j \in DOMAIN q : q[j].kind \notin {"chunk", "index", "message"}
      BY <1>2, <1>3, <2>1
    <2>3. q # <<>> => 1 \in DOMAIN q
      BY <1>2
    <2> QED BY <1>4, <2>2, <2>3 DEF QueueFull, StartsWith, q, b
  <1>6. CASE items # <<>>
    <2>1. q[1] = ChunkRecord(items) /\ 1 \in DOMAIN q /\ n > 0
      BY <1>1, <1>2, <1>6
    <2>2. q[1].kind = "chunk" /\ q[1].items = items
      BY <2>1 DEF ChunkRecord
    <2>3. ASSUME NEW j \in 2..n
          PROVE  j \in DOMAIN q /\ q[j] = b[j] /\ q[j].kind = "index" /\ q[j].channel \in W
                 /\ q[j].times = IndexOf(items, q[j].channel)
      <3>1. j \in 1..n /\ j \in DOMAIN q
        BY <1>2
      <3>2. q[j] = b[j]
        BY <1>2, <3>1
      <3> QED BY <1>1, <1>6, <3>1, <3>2
    <2>4. \A j \in DOMAIN q : q[j].kind # "message" /\ (q[j].kind = "chunk" => j = 1)
      <3>1. ASSUME NEW j \in DOMAIN q PROVE j = 1 \/ j \in 2..n \/ j > n
        BY <1>2
      <3> QED BY <1>3, <2>2, <2>3, <3>1
    <2>5. Rest(items, {}, q)
      <3>1. ASSUME NEW j \in Indexing(q) PROVE j \in 2..n
        <4>1. j \in DOMAIN q /\ q[j].kind = "index"
          BY DEF Indexing
        <4>2. j # 1 /\ ~(j > n)
          BY <1>3, <2>2, <4>1
        <4> QED BY <1>2, <4>1, <4>2
      <3>2. \A j \in 2..n : j \in Indexing(q)
        BY <2>3 DEF Indexing
      <3>3. \A c \in W : \E j \in 2..n : q[j].channel = c
        BY <1>1, <1>6, <2>3
      <3> QED BY <2>3, <3>1, <3>2, <3>3 DEF Rest, W
    <2>6. QueueFull(q, s)
      BY <1>4, <1>6, <2>2, <2>4, <2>5 DEF QueueFull, StartsWith
    <2> QED BY <2>6 DEF q, b
  <1> QED BY <1>5, <1>6

\* The end of the data is written before the summary.
SummaryLast(q, f) ==
    /\ SummarySection \in ToSet(f) => DataEnd \in ToSet(f)
    /\ \A j \in DOMAIN q : q[j].kind = "summary" =>
          DataEnd \in ToSet(f) \/ \E i \in DOMAIN q : i < j /\ q[i] = DataEnd

\* The scan has found the entries of all records so far, and the summary will.
ExactInv ==
    style.chunked /\ style.indexed =>
        /\ chunk # <<>> => ChannelsWithMessages(chunk) # {}
        /\ QueueFull(queue, SoFar)
        /\ Shown(SoFar) = EntriesOfAll(file)
        /\ Followed(file, SoFar)
        /\ SoFar.sync = (SyncRecord \in ToSet(file))
        /\ SummaryLast(queue, file)

LEMMA SectionIs == ASSUME NEW r \in Record PROVE r = SummarySection <=> r.kind = "summary"
  <1>1. CASE \E s \in Seq(Item) : r = ChunkRecord(s)
    BY <1>1 DEF ChunkRecord, SummarySection
  <1>2. CASE r \in Plain
    BY <1>2 DEF Plain, Item, IndexRecord, StepRecord, SyncRecord, DataEnd, SummarySection
  <1> QED BY <1>1, <1>2 DEF Record

LEMMA SetAppended ==
    ASSUME NEW S, NEW f \in Seq(S), NEW r \in S
    PROVE  ToSet(Append(f, r)) = ToSet(f) \cup {r}
  <1> DEFINE F == Append(f, r)
             n == Len(f)
  <1>1. n \in Nat /\ DOMAIN F = 1..n + 1 /\ F[n + 1] = r /\ DOMAIN f = 1..n /\ \A k \in 1..n : F[k] = f[k]
    OBVIOUS
  <1> HIDE DEF F, n
  <1>2. \A k \in 1..n + 1 : k \in 1..n \/ k = n + 1
    BY <1>1
  <1>3. n + 1 \in 1..n + 1 /\ \A k \in 1..n : k \in 1..n + 1
    BY <1>1
  <1>4. ToSet(F) = ToSet(f) \cup {r}
    BY <1>1, <1>2, <1>3 DEF ToSet
  <1> QED BY <1>4 DEF F

LEMMA ExactInitially == RecordingInit => ExactInv
  <1> SUFFICES ASSUME RecordingInit, style.chunked, style.indexed PROVE ExactInv
    BY DEF ExactInv
  <1>1. SoFar = NewScan /\ file = <<>> /\ chunk = <<>>
    BY NothingScanned DEF RecordingInit, SoFar
  <1>2. SoFar.chunk = NoChunk /\ SoFar.entries = <<>> /\ SoFar.sync = FALSE
    BY <1>1 DEF NewScan
  <1>3. Shown(SoFar) = EntriesOfAll(file)
    BY <1>1, <1>2, NoEntries DEF Shown
  <1>4. DOMAIN file = {} /\ ToSet(file) = {}
    BY <1>1 DEF ToSet
  <1>5. Followed(file, SoFar)
    BY <1>4 DEF Followed
  <1>6. \A j \in DOMAIN queue : queue[j].kind = "clock_sync"
    <2>1. CASE queue = <<>>
      BY <2>1
    <2>2. CASE queue = <<SyncRecord>>
      <3>1. DOMAIN queue = {1} /\ queue[1] = SyncRecord
        BY <2>2
      <3> QED BY <3>1 DEF SyncRecord
    <2> QED BY <2>1, <2>2 DEF RecordingInit
  <1>7. queue # <<>> => 1 \in DOMAIN queue
    <2>1. queue = <<>> \/ queue = <<SyncRecord>>
      BY DEF RecordingInit
    <2> QED BY <2>1
  <1>8. QueueFull(queue, SoFar)
    BY <1>2, <1>6, <1>7 DEF QueueFull, StartsWith, Read
  <1>9. SummaryLast(queue, file)
    BY <1>4, <1>6 DEF SummaryLast
  <1>10. SoFar.sync = (SyncRecord \in ToSet(file))
    <2>1. (SyncRecord \in ToSet(file)) = FALSE
      BY <1>4
    <2>2. SoFar.sync = FALSE
      BY <1>2
    <2> QED BY <2>1, <2>2, Zenon
  <1> QED BY <1>1, <1>3, <1>5, <1>8, <1>9, <1>10 DEF ExactInv

\* While nothing is written, only the chunk and the queue are to be looked at.
LEMMA ExactUnwritten ==
    ASSUME ExactInv, file' = file, style' = style,
           style.chunked /\ style.indexed =>
              /\ chunk' # <<>> => ChannelsWithMessages(chunk') # {}
              /\ QueueFull(queue', SoFar) /\ SummaryLast(queue', file)
    PROVE  ExactInv'
  <1>1. SoFar' = SoFar
    BY SameFile
  <1> SUFFICES ASSUME style.chunked, style.indexed
               PROVE  /\ chunk' # <<>> => ChannelsWithMessages(chunk') # {}
                      /\ QueueFull(queue', SoFar)
                      /\ Shown(SoFar) = EntriesOfAll(file)
                      /\ Followed(file, SoFar)
                      /\ SoFar.sync = (SyncRecord \in ToSet(file))
                      /\ SummaryLast(queue', file)
    BY <1>1 DEF ExactInv
  <1> QED BY DEF ExactInv

LEMMA ClosingExact ==
    ASSUME ReadInv, ExactInv, Recording, NEW tail \in Seq(Record),
           \A j \in DOMAIN tail : tail[j].kind \notin {"chunk", "index", "message"},
           \A j \in DOMAIN tail : tail[j].kind = "summary" =>
               \E i \in DOMAIN tail : i < j /\ tail[i] = DataEnd,
           queue' = Closing(chunk) \o tail, chunk' = <<>>, file' = file, style' = style
    PROVE  ExactInv'
  <1> SUFFICES ASSUME style.chunked, style.indexed
               PROVE  QueueFull(queue', SoFar) /\ SummaryLast(queue', file)
    BY ExactUnwritten
  <1>1. chunk \in Seq(Item) /\ (chunk # <<>> => ChannelsWithMessages(chunk) # {})
    BY DEF ReadInv, RecordingTyped, ExactInv
  <1>2. Read(SoFar)
    <2>1. ~StartsWith(queue, "index")
      BY DEF Recording, StartsWith
    <2> QED BY <2>1 DEF ExactInv, QueueFull
  <1>3. QueueFull(queue', SoFar)
    BY <1>1, <1>2, ClosedFull
  <1>4. SummarySection \in ToSet(file) => DataEnd \in ToSet(file)
    BY DEF ExactInv, SummaryLast
  <1> DEFINE b == Closing(chunk)
             n == Len(b)
             q == b \o tail
  <1>5. b \in Seq(Record) /\ \A j \in 1..n : b[j].kind # "summary"
    <2>1. /\ b \in Seq(Record)
          /\ chunk = <<>> => b = <<>>
          /\ chunk # <<>> => n > 0 /\ b[1] = ChunkRecord(chunk) /\ \A j \in 2..n : b[j].kind = "index"
      BY <1>1, ClosingIs
    <2>2. n \in Nat
      BY <2>1
    <2>3. CASE chunk = <<>>
      <3>1. 1..n = {}
        BY <2>1, <2>3
      <3> QED BY <2>1, <3>1
    <2>4. CASE chunk # <<>>
      <3> HIDE DEF b, n
      <3>1. \A j \in 1..n : j = 1 \/ j \in 2..n
        BY <2>2
      <3> QED BY <2>1, <2>4, <3>1 DEF ChunkRecord
    <2> QED BY <2>3, <2>4
  <1>6. /\ DOMAIN q = 1..n + Len(tail) /\ n \in Nat /\ Len(tail) \in Nat /\ DOMAIN tail = 1..Len(tail)
        /\ \A j \in 1..n : q[j] = b[j]
        /\ \A j \in 1..Len(tail) : q[j + n] = tail[j]
    <2> HIDE DEF b
    <2>1. b \in Seq(Record)
      BY <1>5
    <2>2. /\ q \in Seq(Record) /\ Len(q) = n + Len(tail)
          /\ \A j \in 1..n : q[j] = b[j]
          /\ \A j \in 1..Len(tail) : q[j + n] = tail[j]
      BY <2>1, Joined
    <2>3. n \in Nat /\ Len(tail) \in Nat /\ DOMAIN tail = 1..Len(tail)
      BY <2>1
    <2> HIDE DEF q, n
    <2>4. DOMAIN q = 1..Len(q)
      BY <2>2
    <2>5. DOMAIN q = 1..n + Len(tail)
      BY <2>2, <2>4
    <2> QED BY <2>2, <2>3, <2>5
  <1>7. queue' = q
    OBVIOUS
  <1> HIDE DEF b, n, q
  <1>8. ASSUME NEW j \in DOMAIN q, q[j].kind = "summary"
        PROVE  \E i \in DOMAIN q : i < j /\ q[i] = DataEnd
    <2>1. j - n \in 1..Len(tail) /\ (j - n) + n = j
      <3>1. j \notin 1..n
        BY <1>5, <1>6, <1>8
      <3> QED BY <1>6, <3>1
    <2>2. tail[j - n].kind = "summary"
      BY <1>6, <1>8, <2>1
    <2>3. PICK i \in DOMAIN tail : i < j - n /\ tail[i] = DataEnd
      BY <1>6, <2>1, <2>2
    <2>4. i + n \in DOMAIN q /\ i + n < j
      BY <1>6, <2>1, <2>3
    <2>5. q[i + n] = DataEnd
      BY <1>6, <2>3
    <2> QED BY <2>4, <2>5
  <1>9. SummaryLast(q, file)
    BY <1>4, <1>8 DEF SummaryLast
  <1> QED BY <1>3, <1>7, <1>9

LEMMA WriteOutExact == ReadInv /\ ExactInv /\ WriteOut => ExactInv'
  <1> SUFFICES ASSUME ReadInv, ExactInv, WriteOut, style.chunked, style.indexed PROVE ExactInv'
    BY DEF ExactInv, WriteOut
  <1> DEFINE r == queue[1]
             q == Tail(queue)
             s == SoFar
             t == ScanRecord(s, r)
  <1>1. file \in Seq(Record) /\ queue \in Seq(Record) /\ queue # <<>>
    BY DEF ReadInv, RecordingTyped, QueueOK, WriteOut
  <1>2. /\ r \in Record /\ Head(queue) = r /\ 1 \in DOMAIN queue
        /\ \A j \in DOMAIN q : j + 1 \in DOMAIN queue /\ q[j] = queue[j + 1]
        /\ \A j \in DOMAIN queue : j # 1 => j - 1 \in DOMAIN q /\ q[j - 1] = queue[j]
    BY <1>1, HeadAndTail
  <1>3. file' = Append(file, r) /\ queue' = q /\ style' = style /\ chunk' = chunk
    BY <1>2 DEF WriteOut
  <1>4. Accounts(s, AllItems) /\ QueueOK(queue, AllItems, s) /\ AllItems \in Seq(Plain)
    BY <1>1, ItemsTyped DEF ReadInv
  <1>5. /\ chunk # <<>> => ChannelsWithMessages(chunk) # {}
        /\ QueueFull(queue, s) /\ Shown(s) = EntriesOfAll(file) /\ Followed(file, s)
        /\ s.sync = (SyncRecord \in ToSet(file))
        /\ SummaryLast(queue, file)
    BY DEF ExactInv
  <1>6. SoFar' = t
    <2> HIDE DEF r
    <2>1. SoFar' = ScanRecord(SoFar, r)
      BY <1>1, <1>2, <1>3, ScanAppend DEF SoFar
    <2> QED BY <2>1
  <1>7. QueueFull(q, t)
    BY <1>1, <1>4, <1>5, FullAfter
  <1>8. /\ r.kind = "index" =>
              /\ t.chunk # NoChunk /\ t.chunk.items = s.chunk.items /\ s.chunk # NoChunk
              /\ DOMAIN t.chunk.indexes = DOMAIN s.chunk.indexes \cup {r.channel}
        /\ r.kind = "chunk" => t.chunk = PendingChunk(r.items)
    BY <1>1, <1>4, HoldsAfter
  <1>9. /\ r.kind # "message"
        /\ r.kind # "index" => Read(s)
        /\ r.kind = "index" => r.times = IndexOf(s.chunk.items, r.channel)
    <2>1. r.kind # "message" /\ (r.kind # "index" => Read(s))
      BY <1>1, <1>2, <1>5 DEF QueueFull, StartsWith
    <2>2. ASSUME r.kind = "index" PROVE r.times = IndexOf(s.chunk.items, r.channel)
      <3>1. 1 \in Indexing(queue) /\ StartsWith(queue, "index")
        BY <1>1, <1>2, <2>2 DEF Indexing, StartsWith
      <3>2. Rest(s.chunk.items, DOMAIN s.chunk.indexes, queue)
        BY <1>4, <3>1 DEF QueueOK, Continues
      <3> QED BY <3>1, <3>2 DEF Rest
    <2> QED BY <2>1, <2>2
  <1> HIDE DEF r, q, s, t
  <1>10. Shown(t) = WithEntryOf(Shown(s), r) /\ t.sync = IF r = SyncRecord THEN TRUE ELSE s.sync
    BY <1>2, <1>4, <1>8, <1>9, ShownAfter DEF t
  <1>11. Shown(t) = EntriesOfAll(Append(file, r))
    BY <1>1, <1>2, <1>5, <1>10, EntriesAppend
  <1>12. Followed(Append(file, r), t)
    <2>1. r.kind = "chunk" => t.chunk # NoChunk /\ t.chunk.items = r.items /\ DOMAIN t.chunk.indexes = {}
      <3>1. DOMAIN << >> = {}
        OBVIOUS
      <3> QED BY <1>8, <3>1 DEF PendingChunk, NoChunk
    <2> QED BY <1>1, <1>2, <1>5, <1>8, <1>9, <2>1, FollowedAfter
  <1>13. ToSet(Append(file, r)) = ToSet(file) \cup {r}
    BY <1>1, <1>2, SetAppended
  <1>14. t.sync = (SyncRecord \in ToSet(Append(file, r)))
    <2>1. CASE r = SyncRecord
      BY <1>10, <1>13, <2>1
    <2>2. CASE r # SyncRecord
      BY <1>5, <1>10, <1>13, <2>2
    <2> QED BY <2>1, <2>2
  <1>15. SummaryLast(q, Append(file, r))
    <2>1. ASSUME SummarySection \in ToSet(Append(file, r)) PROVE DataEnd \in ToSet(file)
      <3>1. CASE r = SummarySection
        <4>1. queue[1].kind = "summary" /\ 1 \in DOMAIN queue
          BY <1>2, <3>1 DEF SummarySection, r
        <4>2. \A i \in DOMAIN queue : ~(i < 1)
          BY <1>1
        <4> QED BY <1>5, <4>1, <4>2 DEF SummaryLast
      <3> QED BY <1>5, <1>13, <2>1, <3>1 DEF SummaryLast
    <2>2. ASSUME NEW j \in DOMAIN q, q[j].kind = "summary", DataEnd \notin ToSet(Append(file, r))
          PROVE  \E i \in DOMAIN q : i < j /\ q[i] = DataEnd
      <3>1. j + 1 \in DOMAIN queue /\ queue[j + 1].kind = "summary"
        BY <1>2, <2>2
      <3>2. PICK i \in DOMAIN queue : i < j + 1 /\ queue[i] = DataEnd
        BY <1>5, <1>13, <2>2, <3>1 DEF SummaryLast
      <3>3. i # 1
        BY <1>13, <2>2, <3>2 DEF r
      <3>4. i - 1 \in DOMAIN q /\ q[i - 1] = DataEnd
        BY <1>2, <3>2, <3>3
      <3>5. i - 1 < j
        <4>1. i \in Int /\ j \in Int
          BY <1>1 DEF q
        <4> QED BY <3>2, <4>1
      <3> QED BY <3>4, <3>5
    <2> QED BY <1>13, <2>1, <2>2 DEF SummaryLast
  <1> QED BY <1>3, <1>5, <1>6, <1>7, <1>11, <1>12, <1>14, <1>15 DEF ExactInv

LEMMA TakeMessageExact ==
    ASSUME ReadInv, ExactInv, NEW c \in Channels, NEW wait \in style.waits, TakeMessage(c, wait)
    PROVE  ExactInv'
  <1> DEFINE now == clock.now + wait
             known == ChannelsIn(ItemsOf(file) \o chunk)
             items == (IF c \in known THEN <<>> ELSE <<ChannelRecord(c)>>)
                        \o <<MessageRecord(c, now + clock.off)>>
  <1>1. clock.now \in Int /\ clock.off \in Int /\ wait \in Int /\ chunk \in Seq(Item)
    BY RecordingAssumption DEF ReadInv, RecordingTyped
  <1>2. /\ chunk' = IF style.chunked THEN chunk \o items ELSE chunk
        /\ queue' = IF style.chunked THEN queue ELSE items
        /\ style' = style /\ file' = file
    BY DEF TakeMessage
  <1>3. now + clock.off \in Int
    BY <1>1
  <1>4. items \in Seq(Item) /\ ChannelsWithMessages(items) = {c}
    <2> HIDE DEF now, known
    <2> QED BY <1>3, NewItems
  <1> HIDE DEF items
  <1>5. c \in ChannelsWithMessages(chunk \o items)
    <2>1. chunk \in Seq(Item) /\ items \in Seq(Item)
      BY <1>1, <1>4
    <2>2. ChannelsWithMessages(chunk \o items)
            = ChannelsWithMessages(chunk) \cup ChannelsWithMessages(items)
      BY <2>1, PartsAppended
    <2> QED BY <1>4, <2>2
  <1> QED BY <1>2, <1>5, ExactUnwritten DEF ExactInv

LEMMA CloseChunkExact == ReadInv /\ ExactInv /\ CloseChunk => ExactInv'
  <1> SUFFICES ASSUME ReadInv, ExactInv, CloseChunk PROVE ExactInv'
    OBVIOUS
  <1>1. Closing(chunk) \in Seq(Record)
    BY ClosingIs DEF ReadInv, RecordingTyped
  <1> DEFINE tail == <<>>
  <1>2. tail \in Seq(Record) /\ DOMAIN tail = {} /\ Closing(chunk) \o tail = Closing(chunk)
    BY <1>1
  <1>3. queue' = Closing(chunk) \o tail
    BY <1>2 DEF CloseChunk
  <1> HIDE DEF tail
  <1> QED BY <1>2, <1>3, ClosingExact DEF CloseChunk

LEMMA RecordClockStepExact == ReadInv /\ ExactInv /\ RecordClockStep => ExactInv'
  <1> SUFFICES ASSUME ReadInv, ExactInv, RecordClockStep PROVE ExactInv'
    OBVIOUS
  <1> DEFINE tail == <<StepRecord(due.size)>>
  <1>1. StepRecord(due.size) \in Record
    BY DEF ReadInv, RecordingTyped, RecordClockStep, Record, Plain
  <1>2. tail \in Seq(Record) /\ \A j \in DOMAIN tail : tail[j].kind = "clock_step"
    BY <1>1 DEF StepRecord
  <1>3. queue' = Closing(chunk) \o tail
    BY DEF RecordClockStep
  <1> HIDE DEF tail
  <1> QED BY <1>2, <1>3, ClosingExact DEF RecordClockStep

LEMMA FinishRecordingExact == ReadInv /\ ExactInv /\ FinishRecording => ExactInv'
  <1> SUFFICES ASSUME ReadInv, ExactInv, FinishRecording PROVE ExactInv'
    OBVIOUS
  <1> DEFINE tail == <<DataEnd, SummarySection>>
  <1>1. DataEnd \in Record /\ SummarySection \in Record
    BY DEF Record, Plain
  <1>2. tail \in Seq(Record) /\ DOMAIN tail = {1, 2} /\ tail[1] = DataEnd /\ tail[2] = SummarySection
    BY <1>1
  <1>3. queue' = Closing(chunk) \o tail
    BY DEF FinishRecording
  <1> HIDE DEF tail
  <1>4. \A j \in DOMAIN tail : tail[j].kind \notin {"chunk", "index", "message"}
    BY <1>2 DEF DataEnd, SummarySection
  <1>5. \A j \in DOMAIN tail : tail[j].kind = "summary" => \E i \in DOMAIN tail : i < j /\ tail[i] = DataEnd
    BY <1>2 DEF DataEnd
  <1> QED BY <1>2, <1>3, <1>4, <1>5, ClosingExact DEF FinishRecording

LEMMA ExactStep == ReadInv /\ ExactInv /\ [RecordingNext]_recordingVars => ExactInv'
  <1> SUFFICES ASSUME ReadInv, ExactInv, [RecordingNext]_recordingVars PROVE ExactInv'
    OBVIOUS
  <1>1. CASE \E c \in Channels, wait \in style.waits : TakeMessage(c, wait)
    BY <1>1, TakeMessageExact
  <1>2. CASE \E size \in style.sizes, wait \in ({0} \cup style.waits) \ {Interval} : StepClock(size, wait)
    <2>1. file' = file /\ style' = style /\ chunk' = chunk /\ queue' = queue
      BY <1>2 DEF StepClock
    <2> QED BY <2>1, ExactUnwritten DEF ExactInv
  <1>3. CASE CloseChunk \/ RecordClockStep \/ FinishRecording \/ WriteOut
    BY <1>3, CloseChunkExact, RecordClockStepExact, FinishRecordingExact, WriteOutExact
  <1>4. CASE UNCHANGED recordingVars
    <2>1. file' = file /\ style' = style /\ chunk' = chunk /\ queue' = queue
      BY <1>4 DEF recordingVars
    <2> QED BY <2>1, ExactUnwritten DEF ExactInv
  <1> QED BY <1>1, <1>2, <1>3, <1>4 DEF RecordingNext

\* A finished file has the summary's entries, counts and flag.
LEMMA ExactSaysAll == ReadInv /\ ExactInv => SummarySaysAll
  <1> SUFFICES ASSUME ReadInv, ExactInv, style.chunked, style.indexed, SummarySuffices(file)
               PROVE  InfoFromSummary(file) = ReadLinear(file)
    BY DEF SummarySaysAll
  <1> DEFINE s == SoFar
             left == CountsOf(AllItems)
             W == ChannelsWithMessages(AllItems)
             D == ChannelsIn(AllItems)
             declared == Declared(file)
  <1>1. /\ Summarised(file) /\ "statistics" \in style.summary
        /\ \/ MetadataIndexed
           \/ \A i \in DOMAIN file : file[i].kind \notin {"clock_step", "clock_sync"}
    BY DEF SummarySuffices
  <1>2. file \in Seq(Record) /\ AllItems \in Seq(Plain)
    BY ItemsTyped DEF ReadInv, RecordingTyped
  <1>3. /\ Shown(s) = EntriesOfAll(file) /\ Followed(file, s)
        /\ s.sync = (SyncRecord \in ToSet(file))
        /\ Complete(file)
    BY <1>1 DEF ExactInv, SummaryLast, Summarised, Complete
  <1>4. s.chunk = NoChunk /\ Scanned(file) = s
    <2>1. s.chunk = NoChunk
      BY <1>3 DEF ReadInv, EndsWhole, Complete
    <2> QED BY <1>3, <2>1 DEF Scanned, Flush, SoFar
  <1>5. SummaryEntries(file) = s.entries
    <2>1. s.entries = FlattenSeq(PiecesOf(file))
      BY <1>3, <1>4 DEF Shown, EntriesOfAll
    <2> DEFINE EntriesOf(i) ==
                   CASE file[i].kind = "chunk" ->
                            <<ChunkEntry(file[i].items, IndexesAfter(file, i))>>
                     [] file[i].kind = "clock_step" /\ MetadataIndexed -> <<StepEntry(file[i].size)>>
                     [] OTHER -> <<>>
    <2>2. SummaryEntries(file) = FlattenSeq([i \in DOMAIN file |-> EntriesOf(i)])
      BY DEF SummaryEntries
    <2>3. ASSUME NEW i \in DOMAIN file PROVE EntriesOf(i) = PieceOf(file[i])
      <3>1. CASE file[i].kind = "chunk"
        <4>1. ~Trailing(file, i)
          BY <1>3, <1>4, <3>1 DEF Followed
        <4>2. IndexesAfter(file, i) = AllIndexes(file[i].items)
          BY <1>3, <3>1, <4>1, IndexesAfterAre DEF Followed
        <4> QED BY <3>1, <4>2 DEF PieceOf
      <3>2. CASE file[i].kind # "chunk"
        BY <1>1, <3>2 DEF PieceOf
      <3> QED BY <3>1, <3>2
    <2> HIDE DEF EntriesOf
    <2>4. [i \in DOMAIN file |-> EntriesOf(i)] = PiecesOf(file)
      BY <2>3 DEF PiecesOf
    <2> QED BY <2>1, <2>2, <2>4
  <1>6. (MetadataIndexed /\ SyncRecord \in ToSet(file)) = s.sync
    <2>1. SyncRecord \in ToSet(file) => MetadataIndexed
      <3>1. SyncRecord.kind = "clock_sync"
        BY DEF SyncRecord
      <3> QED BY <1>1, <3>1 DEF ToSet
    <2>2. CASE SyncRecord \in ToSet(file)
      BY <1>3, <2>1, <2>2
    <2>3. CASE SyncRecord \notin ToSet(file)
      BY <1>3, <2>3
    <2> QED BY <2>2, <2>3
  <1>7. CountsScanned(s, declared) = SummaryCounts(file)
    <2>1. declared = SummaryCounts(file) /\ declared = Added([c \in D |-> 0], left)
      BY <1>1 DEF Declared, SummaryCounts, AllItems
    <2>2. s.counts = left
      BY <1>4, ScannedHolds
    <2>3. left \in [W -> Nat]
      BY <1>2, CountsType
    <2> HIDE DEF s, left, W, D, declared
    <2>4. DOMAIN declared = D \cup W /\ declared = [c \in DOMAIN declared |-> declared[c]]
      BY <2>1, <2>3 DEF Added
    <2>5. DOMAIN declared \cup (DOMAIN s.counts \cap s.topics) = DOMAIN declared
      BY <2>2, <2>3, <2>4
    <2>6. CountsScanned(s, declared)
            = [c \in DOMAIN declared \cup (DOMAIN s.counts \cap s.topics) |->
                  IF c \in DOMAIN declared /\ "statistics" \in style.summary THEN declared[c]
                  ELSE IF c \in DOMAIN s.counts THEN s.counts[c] ELSE 0]
      BY DEF CountsScanned
    <2>7. CountsScanned(s, declared) = [c \in DOMAIN declared |-> declared[c]]
      BY <1>1, <2>5, <2>6
    <2> QED BY <2>1, <2>4, <2>7
  <1>8. InfoFromSummary(file) = BuildInfo(SummaryCounts(file), FeedEntries(s.entries, s.sync))
    BY <1>5, <1>6 DEF InfoFromSummary
  <1>9. ReadLinear(file) = BuildInfo(CountsScanned(s, declared), FeedEntries(s.entries, s.sync))
    BY <1>4 DEF ReadLinear, LinearInfo
  <1> QED BY <1>7, <1>8, <1>9

-----------------------------------------------------------------------------
(* The listing: the strengthening.                                         *)

Entry == [meta : Infos, info : Infos]

CallsTyped ==
    /\ call \in [Listers -> Call]
    /\ \A c \in Listers : call[c].pc # "idle" => call[c].file \in Files

\* An executor without a file has nothing to do.
JobsTyped ==
    /\ job \in [Executors -> Job]
    /\ \A e \in Executors : IF job[e].pc = "none" THEN job[e].file = NoFile
                                                  ELSE job[e].file \in Files

\* A lister scans while its call waits for the end of the scan.
InPlace == \A c \in Listers : job[c].pc # "none" => call[c].pc = "inplace"

DataTyped ==
    /\ ver \in [Files -> Versions]
    /\ cache \in [Files -> Entry]
    /\ scans \in [Files -> [Versions -> 0..2]]
    /\ toScan \in Seq(Files)

Waits(f) == \E i \in 1..Len(toScan) : toScan[i] = f
Sends(c, f) == call[c].pc = "send" /\ call[c].file = f
Scans(e, f) == job[e].file = f

\* A file is in flight exactly while it has a holder, of one sort only and
\* only one of that sort.
HeldOnce(f) ==
    /\ f \in inFlight <=> \/ Waits(f)
                          \/ \E c \in Listers : Sends(c, f)
                          \/ \E e \in Executors : Scans(e, f)
    /\ \A c \in Listers : Sends(c, f) => ~Waits(f)
    /\ \A e \in Executors : Scans(e, f) => ~Waits(f)
    /\ \A c \in Listers, e \in Executors : ~(Sends(c, f) /\ Scans(e, f))
    /\ \A i, j \in 1..Len(toScan) : toScan[i] = f /\ toScan[j] = f => i = j
    /\ \A c, d \in Listers : Sends(c, f) /\ Sends(d, f) => c = d
    /\ \A d, e \in Executors : Scans(d, f) /\ Scans(e, f) => d = e

\* The key of a scan is no newer than the content it maps, and newer than what
\* the cache has: it was compared with it, and no other scan of the file runs.
Keyed(e) ==
    LET j == job[e]
    IN  /\ j.pc \in {"check", "map", "run"} => j.meta \in Versions /\ j.meta <= ver[j.file]
        /\ j.pc = "run" => j.meta <= j.content /\ j.content <= ver[j.file]
        /\ j.pc = "check" => cache[j.file].meta <= j.meta
        /\ j.pc \in {"map", "run"} => cache[j.file].meta < j.meta

\* An entry is of the past or of the present, and what is newer was not scanned.
Behind(f) ==
    /\ cache[f].meta <= ver[f]
    /\ cache[f].meta = ver[f] => cache[f].info \in {ver[f], 0}
    /\ \A v \in Versions : scans[f][v] < 2
    /\ \A v \in Versions : cache[f].meta < v => scans[f][v] = 0

Typed == DataTyped /\ CallsTyped /\ JobsTyped /\ InPlace
Held == \A f \in Files : HeldOnce(f)
KeyedAll == \A e \in Executors : Keyed(e)
BehindAll == \A f \in Files : Behind(f)

ScanInv == Typed /\ Held /\ KeyedAll /\ BehindAll

-----------------------------------------------------------------------------
(* What the three properties are of it.                                    *)

LEMMA HeldIsExact == Held => InFlightIsExact
  <1> SUFFICES ASSUME Held, NEW f \in Files
               PROVE  LET holders == (Waiting(f) \X {"toScan"}) \cup (Sending(f) \X {"send"})
                                         \cup (Scanning(f) \X {"scan"})
                      IN  IF f \in inFlight THEN \E h \in holders : holders = {h}
                                            ELSE holders = {}
    BY DEF InFlightIsExact
  <1> DEFINE holders == (Waiting(f) \X {"toScan"}) \cup (Sending(f) \X {"send"})
                            \cup (Scanning(f) \X {"scan"})
  <1>1. HeldOnce(f)
    BY DEF Held
  <1>2. ASSUME NEW i \in 1..Len(toScan), toScan[i] = f
        PROVE  f \in inFlight /\ holders = {<<i, "toScan">>}
    <2>1. Waiting(f) = {i} /\ Sending(f) = {} /\ Scanning(f) = {}
      BY <1>1, <1>2 DEF HeldOnce, Waits, Sends, Scans, Waiting, Sending, Scanning
    <2> QED BY <1>1, <1>2, <2>1 DEF HeldOnce, Waits
  <1>3. ASSUME NEW c \in Listers, Sends(c, f)
        PROVE  f \in inFlight /\ holders = {<<c, "send">>}
    <2>1. Waiting(f) = {} /\ Sending(f) = {c} /\ Scanning(f) = {}
      BY <1>1, <1>3 DEF HeldOnce, Waits, Sends, Scans, Waiting, Sending, Scanning
    <2> QED BY <1>1, <1>3, <2>1 DEF HeldOnce
  <1>4. ASSUME NEW e \in Executors, Scans(e, f)
        PROVE  f \in inFlight /\ holders = {<<e, "scan">>}
    <2>1. Waiting(f) = {} /\ Sending(f) = {} /\ Scanning(f) = {e}
      BY <1>1, <1>4 DEF HeldOnce, Waits, Sends, Scans, Waiting, Sending, Scanning
    <2> QED BY <1>1, <1>4, <2>1 DEF HeldOnce
  <1>5. ASSUME ~Waits(f), \A c \in Listers : ~Sends(c, f), \A e \in Executors : ~Scans(e, f)
        PROVE  f \notin inFlight /\ holders = {}
    <2>1. Waiting(f) = {} /\ Sending(f) = {} /\ Scanning(f) = {}
      BY <1>5 DEF Waits, Sends, Scans, Waiting, Sending, Scanning
    <2> QED BY <1>1, <1>5, <2>1 DEF HeldOnce
  <1> QED BY <1>2, <1>3, <1>4, <1>5 DEF Waits

LEMMA InvImplies == ScanInv => InFlightIsExact /\ CacheIsCurrent /\ ScannedOnce
  <1> SUFFICES ASSUME ScanInv PROVE InFlightIsExact /\ CacheIsCurrent /\ ScannedOnce
    OBVIOUS
  <1>1. InFlightIsExact
    BY HeldIsExact DEF ScanInv
  <1>2. CacheIsCurrent
    BY DEF ScanInv, BehindAll, Behind, CacheIsCurrent, Cached, ScanResults
  <1>3. ScannedOnce
    BY DEF ScanInv, BehindAll, Behind, ScannedOnce
  <1> QED BY <1>1, <1>2, <1>3

LEMMA ScanInitially == ScanInit => ScanInv
  <1> SUFFICES ASSUME ScanInit PROVE ScanInv
    OBVIOUS
  <1> USE ScanAssumption
  <1>1. DataTyped
    BY DEF ScanInit, DataTyped, Entry, Versions, Infos
  <1>2. IdleCall \in Call /\ NoJob \in Job
    BY DEF IdleCall, NoJob, Call, Job, CallPcs, JobPcs, Infos
  <1>3. CallsTyped /\ JobsTyped /\ InPlace
    BY <1>2 DEF ScanInit, CallsTyped, JobsTyped, InPlace, IdleCall, NoJob, Executors
  <1>4. Held
    BY DEF ScanInit, Held, HeldOnce, Waits, Sends, Scans, IdleCall, NoJob, Executors
  <1>5. KeyedAll
    BY DEF ScanInit, KeyedAll, Keyed, NoJob, Executors
  <1>6. BehindAll
    BY DEF ScanInit, BehindAll, Behind, Versions
  <1> QED BY <1>1, <1>3, <1>4, <1>5, <1>6 DEF ScanInv, Typed

-----------------------------------------------------------------------------
(* What steps have in common.                                              *)

LEMMA HeldStays ==
    ASSUME Held, inFlight' = inFlight, toScan' = toScan,
           \A c \in Listers, f \in Files : Sends(c, f)' <=> Sends(c, f),
           \A e \in Executors, f \in Files : Scans(e, f)' <=> Scans(e, f)
    PROVE  Held'
  <1> SUFFICES ASSUME NEW f \in Files PROVE HeldOnce(f)'
    BY DEF Held
  <1>1. HeldOnce(f)
    BY DEF Held
  <1>2. Waits(f)' <=> Waits(f)
    BY DEF Waits
  <1>3. (\A i, j \in 1..Len(toScan) : toScan[i] = f /\ toScan[j] = f => i = j)'
    BY <1>1 DEF HeldOnce
  <1> HIDE DEF Waits, Sends, Scans
  <1> QED BY <1>1, <1>2, <1>3 DEF HeldOnce

\* Nobody but who scans a file is disturbed by what is written of another.
LEMMA KeyedStays ==
    ASSUME Typed, NEW e \in Executors, Keyed(e), job'[e] = job[e],
           \A f \in Files : ver'[f] \in Versions /\ ver[f] <= ver'[f],
           \A f \in Files : Scans(e, f) => cache'[f] = cache[f]
    PROVE  Keyed(e)'
  <1>1. CASE job[e].pc = "none"
    BY <1>1 DEF Keyed
  <1>2. CASE job[e].pc # "none"
    <2> DEFINE f == job[e].file
    <2>1. f \in Files /\ job[e] \in Job
      BY <1>2 DEF Typed, JobsTyped
    <2>2. ver[f] \in Nat /\ ver'[f] \in Nat /\ ver[f] <= ver'[f] /\ cache'[f] = cache[f]
      BY <2>1, ScanAssumption DEF Typed, DataTyped, Versions, Scans
    <2>3. job[e].meta \in Nat /\ job[e].content \in Nat
      BY <2>1, ScanAssumption DEF Job, Infos
    <2> QED BY <2>1, <2>2, <2>3 DEF Keyed
  <1> QED BY <1>1, <1>2

\* A call goes on, or answers, and no file changes hands.
LEMMA CallMoves ==
    ASSUME ScanInv, UNCHANGED <<ver, cache, inFlight, toScan, job, scans>>,
           NEW c \in Listers, NEW to \in Call,
           call' = [call EXCEPT ![c] = to],
           to.pc # "idle" => to.file \in Files,
           to.pc # "send", call[c].pc \notin {"send", "inplace"}
    PROVE  ScanInv'
  <1>1. DataTyped' /\ JobsTyped'
    BY DEF ScanInv, Typed, DataTyped, JobsTyped
  <1>2. call \in [Listers -> Call] /\ \A d \in Listers : call[d].pc # "idle" => call[d].file \in Files
    BY DEF ScanInv, Typed, CallsTyped
  <1>3. call'[c] = to /\ \A d \in Listers \ {c} : call'[d] = call[d]
    BY <1>2
  <1>4. CallsTyped'
    BY <1>2, <1>3 DEF CallsTyped
  <1>5. InPlace'
    BY <1>3 DEF ScanInv, Typed, InPlace
  <1>6. Held'
    <2>1. \A d \in Listers, f \in Files : Sends(d, f)' <=> Sends(d, f)
      BY <1>3 DEF Sends
    <2>2. \A e \in Executors, f \in Files : Scans(e, f)' <=> Scans(e, f)
      BY DEF Scans
    <2> QED BY <2>1, <2>2, HeldStays DEF ScanInv
  <1>7. KeyedAll' /\ BehindAll'
    BY DEF ScanInv, KeyedAll, Keyed, BehindAll, Behind
  <1> QED BY <1>1, <1>4, <1>5, <1>6, <1>7 DEF ScanInv, Typed

\* A scan goes on with its file.
LEMMA JobMoves ==
    ASSUME ScanInv, UNCHANGED <<ver, cache, inFlight, toScan, call, scans>>,
           NEW e \in Executors, NEW to \in Job,
           job' = [job EXCEPT ![e] = to],
           job[e].pc # "none", to.pc # "none", to.file = job[e].file,
           to.pc \in {"check", "map", "run"} => to.meta \in Versions /\ to.meta <= ver[to.file],
           to.pc = "run" => to.meta <= to.content /\ to.content <= ver[to.file],
           to.pc = "check" => cache[to.file].meta <= to.meta,
           to.pc \in {"map", "run"} => cache[to.file].meta < to.meta
    PROVE  ScanInv'
  <1>1. DataTyped' /\ CallsTyped'
    BY DEF ScanInv, Typed, DataTyped, CallsTyped
  <1>2. JobsTyped
    BY DEF ScanInv, Typed
  <1>3. job'[e] = to /\ \A d \in Executors \ {e} : job'[d] = job[d]
    BY <1>2 DEF JobsTyped
  <1>4. JobsTyped'
    BY <1>2, <1>3 DEF JobsTyped
  <1>5. InPlace'
    BY <1>3 DEF ScanInv, Typed, InPlace, Executors
  <1>6. Held'
    <2>1. \A c \in Listers, f \in Files : Sends(c, f)' <=> Sends(c, f)
      BY DEF Sends
    <2>2. \A d \in Executors, f \in Files : Scans(d, f)' <=> Scans(d, f)
      BY <1>3 DEF Scans
    <2> QED BY <2>1, <2>2, HeldStays DEF ScanInv
  <1>7. KeyedAll'
    <2>1. \A d \in Executors \ {e} : Keyed(d)'
      BY <1>3 DEF ScanInv, KeyedAll, Keyed
    <2>2. Keyed(e)'
      BY <1>3 DEF Keyed
    <2> QED BY <2>1, <2>2 DEF KeyedAll
  <1>8. BehindAll'
    BY DEF ScanInv, BehindAll, Behind
  <1> QED BY <1>1, <1>4, <1>5, <1>6, <1>7, <1>8 DEF ScanInv, Typed

-----------------------------------------------------------------------------
(* The files.                                                              *)

LEMMA DiskSound ==
    ASSUME ScanInv, NEW f \in Files, Written(f) \/ Removed(f) \/ Ages(f)
    PROVE  ScanInv'
  <1>1. UNCHANGED <<cache, inFlight, toScan, call, job, scans>>
    BY DEF Written, Removed, Ages
  <1>2. ver \in [Files -> Versions]
    BY DEF ScanInv, Typed, DataTyped
  <1>3. ver' = ver \/ (ver[f] < MaxVersion /\ ver' = [ver EXCEPT ![f] = @ + 1])
    BY DEF Written, Removed, Ages
  <1>4. ver' \in [Files -> Versions] /\ \A g \in Files : ver[g] <= ver'[g]
    BY <1>2, <1>3, ScanAssumption DEF Versions
  <1>5. Typed'
    BY <1>1, <1>4 DEF ScanInv, Typed, DataTyped, CallsTyped, JobsTyped, InPlace
  <1>6. Held'
    <2>1. \A c \in Listers, g \in Files : Sends(c, g)' <=> Sends(c, g)
      BY <1>1 DEF Sends
    <2>2. \A e \in Executors, g \in Files : Scans(e, g)' <=> Scans(e, g)
      BY <1>1 DEF Scans
    <2> QED BY <1>1, <2>1, <2>2, HeldStays DEF ScanInv
  <1>7. KeyedAll'
    BY <1>1, <1>4, KeyedStays DEF ScanInv, KeyedAll
  <1>8. BehindAll'
    <2> SUFFICES ASSUME NEW g \in Files PROVE Behind(g)'
      BY DEF BehindAll
    <2>1. Behind(g)
      BY DEF ScanInv, BehindAll
    <2>2. ver[g] \in Nat /\ ver'[g] \in Nat /\ cache[g].meta \in Nat
      BY <1>2, <1>4, ScanAssumption DEF ScanInv, Typed, DataTyped, Entry, Versions, Infos
    <2>3. cache[g].meta = ver'[g] => ver'[g] = ver[g]
      BY <1>4, <2>1, <2>2 DEF Behind
    <2> QED BY <1>1, <1>4, <2>1, <2>2, <2>3 DEF Behind
  <1> QED BY <1>5, <1>6, <1>7, <1>8 DEF ScanInv

-----------------------------------------------------------------------------
(* The calls.                                                              *)

LEMMA IdleIsCall ==
    /\ IdleCall \in Call /\ IdleCall.pc = "idle"
    /\ NoJob \in Job /\ NoJob.pc = "none" /\ NoJob.file = NoFile
  BY ScanAssumption DEF IdleCall, NoJob, Call, Job, CallPcs, JobPcs, Infos

\* What an executor begins with.
LEMMA BegunIsJob ==
    ASSUME NEW f \in Files, NEW begun, begun = [NoJob EXCEPT !.pc = "stat", !.file = f]
    PROVE  begun \in Job /\ begun.pc = "stat" /\ begun.file = f
  <1>1. begun = [pc |-> "stat", file |-> f, meta |-> 0, content |-> 0]
    BY DEF NoJob
  <1>2. 0 \in Infos
    BY ScanAssumption DEF Infos
  <1> QED BY <1>1, <1>2 DEF Job, JobPcs

\* What a listing does next, for a call that does not hold a file.
LEMMA AnswersSound ==
    ASSUME ScanInv, NEW c \in Listers, NEW f, NEW r, Answers(c, f, r),
           UNCHANGED <<ver, cache, inFlight, toScan, job, scans>>,
           call[c].pc \notin {"send", "inplace"}
    PROVE  ScanInv'
  BY CallMoves, IdleIsCall DEF Answers

LEMMA GoesSound ==
    ASSUME ScanInv, NEW c \in Listers, NEW pc \in CallPcs, Goes(c, pc),
           UNCHANGED <<ver, cache, inFlight, toScan, job, scans>>,
           pc # "send", call[c].pc \notin {"idle", "send", "inplace"}
    PROVE  ScanInv'
  <1> DEFINE to == [call[c] EXCEPT !.pc = pc]
  <1>1. call[c] \in Call /\ call[c].file \in Files
    BY DEF ScanInv, Typed, CallsTyped
  <1>2. to \in Call /\ to.pc = pc /\ to.file = call[c].file
    BY <1>1 DEF Call
  <1>3. call' = [call EXCEPT ![c] = to]
    BY DEF Goes
  <1> HIDE DEF to
  <1> QED BY <1>1, <1>2, <1>3, CallMoves

LEMMA AskSound ==
    ASSUME ScanInv, NEW c \in Listers, NEW f \in Files, Ask(c, f)
    PROVE  ScanInv'
  <1>1. CASE Answers(c, f, "ready")
    BY <1>1, AnswersSound DEF Ask, disk
  <1>2. CASE ~Answers(c, f, "ready")
    <2> DEFINE to == [pc |-> "stat", file |-> f, meta |-> 0, complete |-> kind[f] = "linear"]
    <2>1. call' = [call EXCEPT ![c] = to]
      BY <1>2 DEF Ask
    <2>2. to \in Call /\ to.pc = "stat" /\ to.file = f
      BY ScanAssumption DEF Call, CallPcs, Infos
    <2> HIDE DEF to
    <2> QED BY <2>1, <2>2, CallMoves DEF Ask, disk
  <1> QED BY <1>1, <1>2

LEMMA StatSound ==
    ASSUME ScanInv, NEW c \in Listers, Stat(c)
    PROVE  ScanInv'
  <1> DEFINE f == call[c].file
  <1>1. CASE Answers(c, f, "ready")
    BY <1>1, AnswersSound DEF Stat, disk
  <1>2. CASE ~Answers(c, f, "ready")
    <2> DEFINE to == [call[c] EXCEPT !.pc = "look", !.meta = ver[f], !.complete = FALSE]
    <2>1. call' = [call EXCEPT ![c] = to]
      BY <1>2 DEF Stat
    <2>2. call[c] \in Call /\ f \in Files
      BY DEF ScanInv, Typed, CallsTyped, Stat
    <2>3. ver[f] \in Infos
      BY <2>2, ScanAssumption DEF ScanInv, Typed, DataTyped, Versions, Infos
    <2>4. to \in Call /\ to.pc = "look" /\ to.file = f
      BY <2>2, <2>3 DEF Call, CallPcs
    <2> HIDE DEF to
    <2> QED BY <2>1, <2>2, <2>4, CallMoves DEF Stat, disk
  <1> QED BY <1>1, <1>2

LEMMA LookSound ==
    ASSUME ScanInv, NEW c \in Listers, Look(c)
    PROVE  ScanInv'
  BY AnswersSound, GoesSound DEF Look, disk, CallPcs

LEMMA RereadSound ==
    ASSUME ScanInv, NEW c \in Listers, Reread(c)
    PROVE  ScanInv'
  BY AnswersSound DEF Reread, disk

\* The file was not in flight, so nobody held it; now this call does.
LEMMA EnqueueSound ==
    ASSUME ScanInv, NEW c \in Listers, Enqueue(c)
    PROVE  ScanInv'
  <1> DEFINE g == call[c].file
  <1>1. CASE \E r \in {"ready", "scanning"} : Answers(c, g, r) /\ UNCHANGED inFlight
    BY <1>1, AnswersSound DEF Enqueue, disk
  <1>2. CASE /\ g \notin inFlight /\ inFlight' = inFlight \cup {g} /\ Goes(c, "send")
    <2> DEFINE to == [call[c] EXCEPT !.pc = "send"]
    <2>1. call \in [Listers -> Call] /\ call[c].pc = "enqueue" /\ g \in Files
      BY DEF ScanInv, Typed, CallsTyped, Enqueue
    <2>2. to \in Call /\ to.pc = "send" /\ to.file = g
      BY <2>1 DEF Call, CallPcs
    <2>3. call' = [call EXCEPT ![c] = to]
      BY <1>2 DEF Goes
    <2> HIDE DEF to
    <2>4. call'[c] = to /\ \A d \in Listers \ {c} : call'[d] = call[d]
      BY <2>1, <2>3
    <2>5. UNCHANGED <<ver, cache, toScan, job, scans>>
      BY DEF Enqueue, disk
    <2>6. Typed'
      <3>1. DataTyped' /\ JobsTyped'
        BY <2>5 DEF ScanInv, Typed, DataTyped, JobsTyped
      <3>2. CallsTyped'
        BY <2>1, <2>2, <2>3, <2>4 DEF ScanInv, Typed, CallsTyped
      <3>3. InPlace'
        BY <2>1, <2>4, <2>5 DEF ScanInv, Typed, InPlace
      <3> QED BY <3>1, <3>2, <3>3 DEF Typed
    <2>7. Held'
      <3> SUFFICES ASSUME NEW f \in Files PROVE HeldOnce(f)'
        BY DEF Held
      <3>1. HeldOnce(f)
        BY DEF ScanInv, Held
      <3>2. /\ Waits(f)' <=> Waits(f)
            /\ \A e \in Executors : Scans(e, f)' <=> Scans(e, f)
            /\ (\A i, j \in 1..Len(toScan) : toScan[i] = f /\ toScan[j] = f => i = j)'
        BY <2>5, <3>1 DEF Waits, Scans, HeldOnce
      <3>3. \A d \in Listers : Sends(d, f)' <=> Sends(d, f) \/ (d = c /\ f = g)
        BY <2>1, <2>2, <2>4 DEF Sends
      <3> HIDE DEF Waits, Sends, Scans, g
      <3> QED BY <1>2, <3>1, <3>2, <3>3 DEF HeldOnce
    <2>8. KeyedAll' /\ BehindAll'
      BY <2>5 DEF ScanInv, KeyedAll, Keyed, BehindAll, Behind
    <2> QED BY <2>6, <2>7, <2>8 DEF ScanInv
  <1> QED BY <1>1, <1>2 DEF Enqueue

\* From the call to the channel, or to the call's own scan.
LEMMA SendSound ==
    ASSUME ScanInv, NEW c \in Listers, Send(c)
    PROVE  ScanInv'
  <1> DEFINE g == call[c].file
  <1>1. /\ call \in [Listers -> Call] /\ call[c].pc = "send" /\ g \in Files
        /\ \A d \in Listers : call[d].pc # "idle" => call[d].file \in Files
        /\ toScan \in Seq(Files)
    BY DEF ScanInv, Typed, CallsTyped, DataTyped, Send
  <1>2. c \in Executors /\ job[c].pc = "none" /\ job \in [Executors -> Job]
    BY <1>1 DEF ScanInv, Typed, InPlace, JobsTyped, Executors
  <1>3. UNCHANGED <<ver, cache, inFlight, scans>>
    BY DEF Send, disk
  <1>4. CASE /\ toScan' = Append(toScan, g) /\ call' = [call EXCEPT ![c] = IdleCall]
             /\ job' = job
    <2>1. call'[c] = IdleCall /\ \A d \in Listers \ {c} : call'[d] = call[d]
      BY <1>1, <1>4
    <2>2. Typed'
      <3>1. DataTyped' /\ JobsTyped'
        BY <1>1, <1>3, <1>4 DEF ScanInv, Typed, DataTyped, JobsTyped
      <3>2. CallsTyped'
        BY <1>1, <1>4, <2>1, IdleIsCall DEF CallsTyped
      <3>3. InPlace'
        BY <1>2, <1>4, <2>1 DEF ScanInv, Typed, InPlace
      <3> QED BY <3>1, <3>2, <3>3 DEF Typed
    <2>3. Held'
      <3> SUFFICES ASSUME NEW f \in Files PROVE HeldOnce(f)'
        BY DEF Held
      <3>1. HeldOnce(f) /\ HeldOnce(g)
        BY <1>1 DEF ScanInv, Held
      <3>2. /\ Len(toScan') = Len(toScan) + 1 /\ Len(toScan) \in Nat
            /\ toScan'[Len(toScan) + 1] = g
            /\ \A i \in 1..Len(toScan) : toScan'[i] = toScan[i]
        BY <1>1, <1>4
      <3>3. Waits(f)' <=> Waits(f) \/ f = g
        BY <3>2 DEF Waits
      <3>4. Sends(c, g)
        BY <1>1 DEF Sends
      <3>5. f = g => ~Waits(f)
        BY <3>1, <3>4 DEF HeldOnce
      <3>6. (\A i, j \in 1..Len(toScan) : toScan[i] = f /\ toScan[j] = f => i = j)'
        BY <3>1, <3>2, <3>5 DEF HeldOnce, Waits
      <3>7. \A d \in Listers : Sends(d, f)' <=> Sends(d, f) /\ d # c
        BY <2>1, IdleIsCall DEF Sends
      <3>8. \A d \in Listers : Sends(d, f) /\ d = c => f = g
        BY DEF Sends
      <3>9. \A e \in Executors : Scans(e, f)' <=> Scans(e, f)
        BY <1>4 DEF Scans
      <3> HIDE DEF Waits, Sends, Scans, g
      <3> QED BY <1>3, <3>1, <3>3, <3>4, <3>5, <3>6, <3>7, <3>8, <3>9 DEF HeldOnce
    <2>4. KeyedAll' /\ BehindAll'
      BY <1>3, <1>4 DEF ScanInv, KeyedAll, Keyed, BehindAll, Behind
    <2> QED BY <2>2, <2>3, <2>4 DEF ScanInv
  <1>5. CASE /\ job' = [job EXCEPT ![c] = [NoJob EXCEPT !.pc = "stat", !.file = g]]
             /\ Goes(c, "inplace") /\ toScan' = toScan
    <2> DEFINE begun == [NoJob EXCEPT !.pc = "stat", !.file = g]
               to == [call[c] EXCEPT !.pc = "inplace"]
    <2>1. begun \in Job /\ begun.pc = "stat" /\ begun.file = g
      BY <1>1, BegunIsJob
    <2>2. to \in Call /\ to.pc = "inplace" /\ to.file = g
      BY <1>1 DEF Call, CallPcs
    <2>3. job' = [job EXCEPT ![c] = begun] /\ call' = [call EXCEPT ![c] = to]
      BY <1>5 DEF Goes
    <2> HIDE DEF begun, to
    <2>4. /\ job'[c] = begun /\ \A e \in Executors \ {c} : job'[e] = job[e]
          /\ call'[c] = to /\ \A d \in Listers \ {c} : call'[d] = call[d]
      BY <1>1, <1>2, <2>3
    <2>5. Typed'
      <3>1. DataTyped'
        BY <1>3, <1>5 DEF ScanInv, Typed, DataTyped
      <3>2. CallsTyped'
        BY <1>1, <2>2, <2>3, <2>4 DEF CallsTyped
      <3>3. JobsTyped'
        BY <1>1, <1>2, <2>1, <2>3, <2>4 DEF ScanInv, Typed, JobsTyped
      <3>4. InPlace'
        BY <2>2, <2>4 DEF ScanInv, Typed, InPlace, Executors
      <3> QED BY <3>1, <3>2, <3>3, <3>4 DEF Typed
    <2>6. Held'
      <3> SUFFICES ASSUME NEW f \in Files PROVE HeldOnce(f)'
        BY DEF Held
      <3>1. HeldOnce(f)
        BY DEF ScanInv, Held
      <3>2. /\ Waits(f)' <=> Waits(f)
            /\ (\A i, j \in 1..Len(toScan) : toScan[i] = f /\ toScan[j] = f => i = j)'
        BY <1>5, <3>1 DEF Waits, HeldOnce
      <3>3. \A d \in Listers : Sends(d, f)' <=> Sends(d, f) /\ d # c
        BY <2>2, <2>4 DEF Sends
      <3>4. \A e \in Executors : Scans(e, f)' <=> Scans(e, f) \/ (e = c /\ f = g)
        <4>1. ~Scans(c, f)
          BY <1>2, ScanAssumption DEF ScanInv, Typed, JobsTyped, Scans
        <4> QED BY <2>1, <2>4, <4>1 DEF Scans
      <3>5. Sends(c, f) <=> f = g
        BY <1>1 DEF Sends
      <3> HIDE DEF Waits, Sends, Scans, g
      <3> QED BY <1>2, <1>3, <3>1, <3>2, <3>3, <3>4, <3>5 DEF HeldOnce
    <2>7. KeyedAll'
      <3>1. Keyed(c)'
        BY <2>1, <2>4 DEF Keyed
      <3>2. \A e \in Executors \ {c} : Keyed(e)'
        BY <1>3, <2>4 DEF ScanInv, KeyedAll, Keyed
      <3> QED BY <3>1, <3>2 DEF KeyedAll
    <2>8. BehindAll'
      BY <1>3 DEF ScanInv, BehindAll, Behind
    <2> QED BY <2>5, <2>6, <2>7, <2>8 DEF ScanInv
  <1> QED BY <1>4, <1>5 DEF Send, Answers

-----------------------------------------------------------------------------
(* The scans.                                                              *)

\* From the channel to the thread.
LEMMA TakeSound ==
    ASSUME ScanInv, Take
    PROVE  ScanInv'
  <1> DEFINE g == Head(toScan)
             begun == [NoJob EXCEPT !.pc = "stat", !.file = g]
  <1>1. /\ toScan \in Seq(Files) /\ toScan # <<>> /\ toScan' = Tail(toScan)
        /\ job[Thread] = NoJob /\ job' = [job EXCEPT ![Thread] = begun]
        /\ UNCHANGED <<ver, cache, inFlight, call, scans>>
    BY DEF ScanInv, Typed, DataTyped, Take, disk
  <1>2. /\ g \in Files /\ Len(toScan) \in Nat /\ Len(toScan) > 0 /\ g = toScan[1]
        /\ Len(toScan') = Len(toScan) - 1 /\ toScan' \in Seq(Files)
        /\ \A i \in 1..Len(toScan') : toScan'[i] = toScan[i + 1]
    BY <1>1
  <1>3. begun \in Job /\ begun.pc = "stat" /\ begun.file = g
    BY <1>2, BegunIsJob
  <1> HIDE DEF begun
  <1>4. Thread \in Executors /\ Thread \notin Listers /\ job \in [Executors -> Job]
    BY ScanAssumption DEF ScanInv, Typed, JobsTyped, Executors
  <1>5. job'[Thread] = begun /\ \A e \in Executors \ {Thread} : job'[e] = job[e]
    BY <1>1, <1>4
  <1>6. Typed'
    <2>1. DataTyped' /\ CallsTyped'
      BY <1>1, <1>2 DEF ScanInv, Typed, DataTyped, CallsTyped
    <2>2. JobsTyped'
      BY <1>1, <1>2, <1>3, <1>4, <1>5 DEF ScanInv, Typed, JobsTyped
    <2>3. InPlace'
      BY <1>1, <1>4, <1>5 DEF ScanInv, Typed, InPlace, Executors
    <2> QED BY <2>1, <2>2, <2>3 DEF Typed
  <1>7. Held'
    <2> SUFFICES ASSUME NEW f \in Files PROVE HeldOnce(f)'
      BY DEF Held
    <2>1. HeldOnce(f)
      BY DEF ScanInv, Held
    <2>2. \A i, j \in 1..Len(toScan) : toScan[i] = f /\ toScan[j] = f => i = j
      BY <2>1 DEF HeldOnce
    <2>3. (\A i, j \in 1..Len(toScan) : toScan[i] = f /\ toScan[j] = f => i = j)'
      <3> SUFFICES ASSUME NEW i \in 1..Len(toScan'), NEW j \in 1..Len(toScan'),
                          toScan'[i] = f, toScan'[j] = f
                   PROVE  i = j
        OBVIOUS
      <3>1. i + 1 \in 1..Len(toScan) /\ j + 1 \in 1..Len(toScan)
        BY <1>2
      <3>2. toScan[i + 1] = f /\ toScan[j + 1] = f
        BY <1>2
      <3>3. i + 1 = j + 1
        BY <2>2, <3>1, <3>2
      <3> QED BY <1>2, <3>3
    <2>4. Waits(f)' <=> Waits(f) /\ f # g
      <3>1. ASSUME Waits(f)' PROVE Waits(f) /\ f # g
        <4>1. PICK i \in 1..Len(toScan') : toScan'[i] = f
          BY <3>1 DEF Waits
        <4>2. i + 1 \in 1..Len(toScan) /\ toScan[i + 1] = f /\ i + 1 # 1 /\ 1 \in 1..Len(toScan)
          BY <1>2, <4>1
        <4>3. f # g
          BY <1>2, <2>2, <4>2
        <4> QED BY <4>2, <4>3 DEF Waits
      <3>2. ASSUME Waits(f), f # g PROVE Waits(f)'
        <4>1. PICK i \in 1..Len(toScan) : toScan[i] = f
          BY <3>2 DEF Waits
        <4>2. i # 1
          BY <1>2, <3>2, <4>1
        <4>3. i - 1 \in 1..Len(toScan') /\ toScan'[i - 1] = toScan[i - 1 + 1]
          BY <1>2, <4>2
        <4>4. i - 1 + 1 = i
          OBVIOUS
        <4>5. toScan'[i - 1] = f
          BY <4>1, <4>3, <4>4
        <4> QED BY <4>3, <4>5 DEF Waits
      <3> QED BY <3>1, <3>2
    <2>5. f = g => Waits(f)
      BY <1>2 DEF Waits
    <2>6. \A c \in Listers : Sends(c, f)' <=> Sends(c, f)
      BY <1>1 DEF Sends
    <2>7. \A e \in Executors : Scans(e, f)' <=> Scans(e, f) \/ (e = Thread /\ f = g)
      <3>1. ~Scans(Thread, f)
        BY <1>1, IdleIsCall, ScanAssumption DEF Scans
      <3> QED BY <1>3, <1>5, <3>1 DEF Scans
    <2> HIDE DEF Waits, Sends, Scans, g
    <2> QED BY <1>1, <1>4, <2>1, <2>3, <2>4, <2>5, <2>6, <2>7 DEF HeldOnce
  <1>8. KeyedAll'
    <2>1. Keyed(Thread)'
      BY <1>3, <1>5 DEF Keyed
    <2>2. \A e \in Executors \ {Thread} : Keyed(e)'
      BY <1>1, <1>5 DEF ScanInv, KeyedAll, Keyed
    <2> QED BY <2>1, <2>2 DEF KeyedAll
  <1>9. BehindAll'
    BY <1>1 DEF ScanInv, BehindAll, Behind
  <1> QED BY <1>6, <1>7, <1>8, <1>9 DEF ScanInv

\* The facts about an executor with a file.
LEMMA BusyExecutor ==
    ASSUME ScanInv, NEW e \in Executors, job[e].pc # "none"
    PROVE  /\ job[e].file \in Files /\ job[e] \in Job /\ job \in [Executors -> Job]
           /\ ver[job[e].file] \in Versions /\ cache[job[e].file] \in Entry
           /\ Keyed(e) /\ Behind(job[e].file)
           /\ Versions \subseteq Infos /\ Infos \subseteq Nat
  BY ScanAssumption
  DEF ScanInv, Typed, JobsTyped, DataTyped, KeyedAll, BehindAll, Versions, Infos

LEMMA JobGoesSound ==
    ASSUME ScanInv, NEW e \in Executors, JobGoes(e, "end"), job[e].pc # "none",
           UNCHANGED <<ver, cache, inFlight, toScan, call, scans>>
    PROVE  ScanInv'
  <1> DEFINE to == [job[e] EXCEPT !.pc = "end"]
  <1>1. to \in Job /\ to.pc = "end" /\ to.file = job[e].file
    BY BusyExecutor DEF Job, JobPcs
  <1>2. job' = [job EXCEPT ![e] = to]
    BY DEF JobGoes
  <1> HIDE DEF to
  <1> QED BY <1>1, <1>2, JobMoves

LEMMA ScanStatSound ==
    ASSUME ScanInv, NEW e \in Executors, ScanStat(e)
    PROVE  ScanInv'
  <1>1. CASE JobGoes(e, "end")
    BY <1>1, JobGoesSound DEF ScanStat, disk
  <1>2. CASE ~JobGoes(e, "end")
    <2> DEFINE f == job[e].file
               to == [job[e] EXCEPT !.pc = "check", !.meta = ver[f]]
    <2>1. job' = [job EXCEPT ![e] = to]
      BY <1>2 DEF ScanStat
    <2>2. to \in Job /\ to.pc = "check" /\ to.file = f /\ to.meta = ver[f]
      BY BusyExecutor DEF ScanStat, Job, JobPcs
    <2>3. ver[f] \in Versions /\ ver[f] \in Nat /\ cache[f].meta <= ver[f]
      BY BusyExecutor DEF ScanStat, Behind
    <2>4. UNCHANGED <<ver, cache, inFlight, toScan, call, scans>> /\ job[e].pc # "none"
      BY DEF ScanStat, disk
    <2> HIDE DEF to, f
    <2>5. to.pc \in {"check", "map", "run"} => to.meta \in Versions /\ to.meta <= ver[to.file]
      BY <2>2, <2>3
    <2>6. to.pc = "run" => to.meta <= to.content /\ to.content <= ver[to.file]
      BY <2>2, <2>3
    <2>7. to.pc = "check" => cache[to.file].meta <= to.meta
      BY <2>2, <2>3
    <2>8. to.pc \in {"map", "run"} => cache[to.file].meta < to.meta
      BY <2>2, <2>3
    <2>9. to \in Job /\ to.pc # "none" /\ to.file = job[e].file
      BY <2>2 DEF f
    <2> QED BY <2>1, <2>4, <2>5, <2>6, <2>7, <2>8, <2>9, JobMoves
  <1> QED BY <1>1, <1>2

LEMMA ScanCheckSound ==
    ASSUME ScanInv, NEW e \in Executors, ScanCheck(e)
    PROVE  ScanInv'
  <1>1. CASE JobGoes(e, "end")
    BY <1>1, JobGoesSound DEF ScanCheck, disk
  <1>2. CASE ~JobGoes(e, "end")
    <2> DEFINE f == job[e].file
               to == [job[e] EXCEPT !.pc = "map"]
    <2>1. job' = [job EXCEPT ![e] = to] /\ ~Cached(f, job[e].meta) /\ job[e].pc = "check"
      BY <1>2 DEF ScanCheck, JobGoes
    <2>2. /\ to \in Job /\ to.pc = "map" /\ to.file = f /\ to.meta = job[e].meta
      BY <2>1, BusyExecutor DEF Job, JobPcs
    <2>3. /\ job[e].meta \in Versions /\ job[e].meta <= ver[f]
          /\ cache[f].meta <= job[e].meta /\ cache[f].meta # job[e].meta
          /\ cache[f].meta \in Nat /\ job[e].meta \in Nat
      BY <2>1, BusyExecutor DEF Keyed, Cached, Entry
    <2>4. UNCHANGED <<ver, cache, inFlight, toScan, call, scans>> /\ job[e].pc # "none"
      BY DEF ScanCheck, disk
    <2> HIDE DEF to, f
    <2>5. to.pc \in {"check", "map", "run"} => to.meta \in Versions /\ to.meta <= ver[to.file]
      BY <2>2, <2>3
    <2>6. to.pc = "run" => to.meta <= to.content /\ to.content <= ver[to.file]
      BY <2>2, <2>3
    <2>7. to.pc = "check" => cache[to.file].meta <= to.meta
      BY <2>2, <2>3
    <2>8. to.pc \in {"map", "run"} => cache[to.file].meta < to.meta
      BY <2>2, <2>3
    <2>9. to \in Job /\ to.pc # "none" /\ to.file = job[e].file
      BY <2>2 DEF f
    <2> QED BY <2>1, <2>4, <2>5, <2>6, <2>7, <2>8, <2>9, JobMoves
  <1> QED BY <1>1, <1>2

LEMMA ScanMapSound ==
    ASSUME ScanInv, NEW e \in Executors, ScanMap(e)
    PROVE  ScanInv'
  <1>1. CASE JobGoes(e, "end")
    BY <1>1, JobGoesSound DEF ScanMap, disk
  <1>2. CASE ~JobGoes(e, "end")
    <2> DEFINE f == job[e].file
               to == [job[e] EXCEPT !.pc = "run", !.content = ver[f]]
    <2>1. job' = [job EXCEPT ![e] = to] /\ job[e].pc = "map"
      BY <1>2 DEF ScanMap
    <2>2. /\ to \in Job /\ to.pc = "run" /\ to.file = f
          /\ to.meta = job[e].meta /\ to.content = ver[f]
      BY <2>1, BusyExecutor DEF Job, JobPcs
    <2>3. /\ job[e].meta \in Versions /\ job[e].meta <= ver[f] /\ ver[f] \in Nat
          /\ cache[f].meta < job[e].meta
      BY <2>1, BusyExecutor DEF Keyed
    <2>4. UNCHANGED <<ver, cache, inFlight, toScan, call, scans>> /\ job[e].pc # "none"
      BY DEF ScanMap, disk
    <2> HIDE DEF to, f
    <2>5. to.pc \in {"check", "map", "run"} => to.meta \in Versions /\ to.meta <= ver[to.file]
      BY <2>2, <2>3
    <2>6. to.pc = "run" => to.meta <= to.content /\ to.content <= ver[to.file]
      BY <2>2, <2>3
    <2>7. to.pc = "check" => cache[to.file].meta <= to.meta
      BY <2>2, <2>3
    <2>8. to.pc \in {"map", "run"} => cache[to.file].meta < to.meta
      BY <2>2, <2>3
    <2>9. to \in Job /\ to.pc # "none" /\ to.file = job[e].file
      BY <2>2 DEF f
    <2> QED BY <2>1, <2>4, <2>5, <2>6, <2>7, <2>8, <2>9, JobMoves
  <1> QED BY <1>1, <1>2

\* The entry moves on, to a version that was not scanned before.
LEMMA ScanRunSound ==
    ASSUME ScanInv, NEW e \in Executors, ScanRun(e)
    PROVE  ScanInv'
  <1>0. job[e].pc = "run"
    BY DEF ScanRun
  <1>f. PICK f \in Files : f = job[e].file
    BY <1>0, BusyExecutor
  <1>m. PICK m : m = job[e].meta
    OBVIOUS
  <1> DEFINE to == [job[e] EXCEPT !.pc = "end"]
  <1>1. /\ job[e].pc = "run" /\ job' = [job EXCEPT ![e] = to]
        /\ UNCHANGED <<ver, inFlight, toScan, call>>
    BY DEF ScanRun, JobGoes, disk
  <1>2. PICK info \in {job[e].content, 0} :
               cache' = [cache EXCEPT ![f] = [meta |-> m, info |-> info]]
    BY <1>f, <1>m DEF ScanRun, ScanResults, CacheInsert, ScanKey
  <1>3. scans' = [scans EXCEPT ![f][m] = IF @ = 2 THEN 2 ELSE @ + 1]
    BY <1>f, <1>m DEF ScanRun
  <1>4. /\ f \in Files /\ job[e] \in Job /\ job \in [Executors -> Job]
        /\ ver[f] \in Versions /\ cache[f] \in Entry /\ Behind(f)
        /\ Versions \subseteq Infos /\ Infos \subseteq Nat
    BY <1>1, <1>f, BusyExecutor
  <1>5. /\ m \in Versions /\ job[e].content \in Infos
        /\ m <= job[e].content /\ job[e].content <= ver[f] /\ cache[f].meta < m
    BY <1>1, <1>f, <1>m, <1>4, BusyExecutor DEF Keyed, Job
  <1>a. m \in Nat /\ job[e].content \in Nat /\ ver[f] \in Nat /\ cache[f].meta \in Nat
    BY <1>4, <1>5 DEF Entry
  <1>6. info \in Infos
    BY <1>2, <1>5, ScanAssumption DEF Infos
  <1>7. /\ cache \in [Files -> Entry] /\ scans \in [Files -> [Versions -> 0..2]]
        /\ ver \in [Files -> Versions]
    BY DEF ScanInv, Typed, DataTyped
  <1>8. /\ cache'[f].meta = m /\ cache'[f].info = info
        /\ \A g \in Files \ {f} : cache'[g] = cache[g]
        /\ cache' \in [Files -> Entry]
    BY <1>2, <1>4, <1>5, <1>6, <1>7 DEF Entry
  <1>9. scans[f][m] = 0
    BY <1>4, <1>5 DEF Behind
  <1>10. scans' = [scans EXCEPT ![f] = [scans[f] EXCEPT ![m] = 1]]
    BY <1>3, <1>9
  <1>11. /\ scans'[f][m] = 1 /\ \A v \in Versions \ {m} : scans'[f][v] = scans[f][v]
         /\ \A g \in Files \ {f} : scans'[g] = scans[g]
         /\ scans' \in [Files -> [Versions -> 0..2]]
    <2>1. scans[f] \in [Versions -> 0..2]
      BY <1>4, <1>7
    <2>2. [scans[f] EXCEPT ![m] = 1] \in [Versions -> 0..2]
      BY <1>5, <2>1
    <2> QED BY <1>4, <1>5, <1>7, <1>10, <2>1, <2>2
  <1>12. to \in Job /\ to.pc = "end" /\ to.file = f
    BY <1>4, <1>f DEF Job, JobPcs
  <1> HIDE DEF to
  <1>13. job'[e] = to /\ \A d \in Executors \ {e} : job'[d] = job[d]
    BY <1>1, <1>4
  <1>14. Typed'
    <2>1. DataTyped' /\ CallsTyped'
      BY <1>1, <1>8, <1>11 DEF ScanInv, Typed, DataTyped, CallsTyped
    <2>2. JobsTyped'
      BY <1>1, <1>4, <1>12, <1>13 DEF ScanInv, Typed, JobsTyped
    <2>3. InPlace'
      BY <1>1, <1>13 DEF ScanInv, Typed, InPlace, Executors
    <2> QED BY <2>1, <2>2, <2>3 DEF Typed
  <1>15. Held'
    <2>1. \A c \in Listers, g \in Files : Sends(c, g)' <=> Sends(c, g)
      BY <1>1 DEF Sends
    <2>2. \A d \in Executors, g \in Files : Scans(d, g)' <=> Scans(d, g)
      BY <1>f, <1>12, <1>13 DEF Scans
    <2> QED BY <1>1, <2>1, <2>2, HeldStays DEF ScanInv
  <1>16. KeyedAll'
    <2>1. Keyed(e)'
      BY <1>12, <1>13 DEF Keyed
    <2>2. ASSUME NEW d \in Executors \ {e} PROVE Keyed(d)'
      <3>1. \A g \in Files : Scans(d, g) => g # f
        BY <1>f DEF ScanInv, Held, HeldOnce, Scans
      <3>2. \A g \in Files : Scans(d, g) => cache'[g] = cache[g]
        BY <1>8, <3>1
      <3>3. \A g \in Files : ver'[g] \in Versions /\ ver[g] <= ver'[g]
        <4>1. ver' = ver
          BY <1>1
        <4>2. \A g \in Files : ver[g] \in Nat
          BY <1>4, <1>7
        <4> QED BY <1>7, <4>1, <4>2
      <3> QED BY <1>13, <3>2, <3>3, KeyedStays DEF ScanInv, KeyedAll
    <2> QED BY <2>1, <2>2 DEF KeyedAll
  <1>17. BehindAll'
    <2>1. Behind(f)'
      <3>0. ver' = ver /\ \A v \in Versions : v \in Nat
        BY <1>1, <1>4
      <3>a. m <= ver[f] /\ (m = ver[f] => job[e].content = m)
        BY <1>5, <1>a
      <3>1. cache'[f].meta <= ver'[f]
        BY <1>8, <3>0, <3>a
      <3>2. cache'[f].meta = ver'[f] => cache'[f].info \in {ver'[f], 0}
        BY <1>2, <1>8, <3>0, <3>a
      <3>b. \A v \in Versions : scans[f][v] < 2
        BY <1>4 DEF Behind
      <3>3. \A v \in Versions : scans'[f][v] < 2
        <4> SUFFICES ASSUME NEW v \in Versions PROVE scans'[f][v] < 2
          OBVIOUS
        <4>1. CASE v = m
          BY <1>11, <4>1
        <4>2. CASE v # m
          BY <1>11, <3>b, <4>2
        <4> QED BY <4>1, <4>2
      <3>4. \A v \in Versions : cache'[f].meta < v => scans'[f][v] = 0
        <4>1. ASSUME NEW v \in Versions, m < v PROVE scans'[f][v] = 0
          <5>1. v \in Nat /\ cache[f].meta < m
            BY <1>5, <3>0
          <5>2. v # m /\ cache[f].meta < v
            BY <1>a, <4>1, <5>1
          <5> QED BY <1>4, <1>11, <5>2 DEF Behind
        <4> QED BY <1>8, <4>1
      <3> QED BY <3>1, <3>2, <3>3, <3>4 DEF Behind
    <2>2. ASSUME NEW g \in Files \ {f} PROVE Behind(g)'
      <3>1. Behind(g)
        BY DEF ScanInv, BehindAll
      <3>2. ver' = ver /\ cache'[g] = cache[g] /\ scans'[g] = scans[g]
        BY <1>1, <1>8, <1>11
      <3> QED BY <3>1, <3>2 DEF Behind
    <2> QED BY <2>1, <2>2 DEF BehindAll
  <1> QED BY <1>14, <1>15, <1>16, <1>17 DEF ScanInv

\* Who held the file lets go of it.
LEMMA ScanEndSound ==
    ASSUME ScanInv, NEW e \in Executors, ScanEnd(e)
    PROVE  ScanInv'
  <1> DEFINE g == job[e].file
  <1>1. /\ job[e].pc = "end" /\ job' = [job EXCEPT ![e] = NoJob] /\ inFlight' = inFlight \ {g}
        /\ UNCHANGED <<ver, cache, toScan, scans>>
    BY DEF ScanEnd, Released, disk
  <1>2. g \in Files /\ job \in [Executors -> Job] /\ Scans(e, g)
    BY <1>1, BusyExecutor DEF Scans
  <1>3. job'[e] = NoJob /\ \A d \in Executors \ {e} : job'[d] = job[d]
    BY <1>1, <1>2
  <1>4. /\ call' \in [Listers -> Call]
        /\ \A c \in Listers : call'[c].file = call[c].file
        /\ \A c \in Listers : IF c = e THEN call[c].pc = "inplace" /\ call'[c].pc = "reread"
                                        ELSE call'[c].pc = call[c].pc
    <2>1. call \in [Listers -> Call] /\ (e \in Listers => call[e].pc = "inplace")
      BY <1>1 DEF ScanInv, Typed, CallsTyped, InPlace
    <2>2. CASE e \in Listers
      <3> DEFINE to == [call[e] EXCEPT !.pc = "reread"]
      <3>1. to \in Call /\ to.pc = "reread" /\ to.file = call[e].file
        BY <2>1, <2>2 DEF Call, CallPcs
      <3>2. call' = [call EXCEPT ![e] = to]
        BY <2>2 DEF ScanEnd, Goes
      <3> HIDE DEF to
      <3> QED BY <2>1, <2>2, <3>1, <3>2
    <2>3. CASE e \notin Listers
      BY <2>1, <2>3 DEF ScanEnd
    <2> QED BY <2>2, <2>3
  <1>5. Typed'
    <2>1. DataTyped'
      BY <1>1 DEF ScanInv, Typed, DataTyped
    <2>2. CallsTyped'
      BY <1>4 DEF ScanInv, Typed, CallsTyped
    <2>3. JobsTyped'
      BY <1>1, <1>2, <1>3, IdleIsCall DEF ScanInv, Typed, JobsTyped
    <2>4. InPlace'
      BY <1>3, <1>4, IdleIsCall DEF ScanInv, Typed, InPlace, Executors
    <2> QED BY <2>1, <2>2, <2>3, <2>4 DEF Typed
  <1>6. Held'
    <2> SUFFICES ASSUME NEW f \in Files PROVE HeldOnce(f)'
      BY DEF Held
    <2>1. HeldOnce(f)
      BY DEF ScanInv, Held
    <2>2. /\ Waits(f)' <=> Waits(f)
          /\ (\A i, j \in 1..Len(toScan) : toScan[i] = f /\ toScan[j] = f => i = j)'
      BY <1>1, <2>1 DEF Waits, HeldOnce
    <2>3. \A c \in Listers : Sends(c, f)' <=> Sends(c, f)
      BY <1>4 DEF Sends
    <2>4. \A d \in Executors : Scans(d, f)' <=> Scans(d, f) /\ d # e
      BY <1>3, IdleIsCall, ScanAssumption DEF Scans
    <2>5. Scans(e, f) <=> f = g
      BY DEF Scans
    <2> HIDE DEF Waits, Sends, Scans, g
    <2> QED BY <1>1, <2>1, <2>2, <2>3, <2>4, <2>5 DEF HeldOnce
  <1>7. KeyedAll'
    <2>1. Keyed(e)'
      BY <1>3, IdleIsCall DEF Keyed
    <2>2. \A d \in Executors \ {e} : Keyed(d)'
      BY <1>1, <1>3 DEF ScanInv, KeyedAll, Keyed
    <2> QED BY <2>1, <2>2 DEF KeyedAll
  <1>8. BehindAll'
    BY <1>1 DEF ScanInv, BehindAll, Behind
  <1> QED BY <1>5, <1>6, <1>7, <1>8 DEF ScanInv

-----------------------------------------------------------------------------
(* The types.                                                              *)

\* What the invariant says nothing of.
Reported ==
    /\ kind \in [Files -> Kinds \cup {"absent"}]
    /\ recent \in [Files -> BOOLEAN]
    /\ inFlight \subseteq Files
    /\ thread \in BOOLEAN
    /\ report \in [Files -> {"none", "scanning", "ready"}]

LEMMA AnswersReported ==
    ASSUME Reported, NEW c, NEW f, NEW r \in {"none", "scanning", "ready"}, Answers(c, f, r)
    PROVE  report' \in [Files -> {"none", "scanning", "ready"}]
  BY DEF Reported, Answers

\* A listing reports "scanning" or "ready"; only a file of the directory is
\* put into the set of files in flight.
LEMMA ReportedStep == Typed /\ Reported /\ [ScanNext]_scanVars => Reported'
  <1> SUFFICES ASSUME Typed, Reported, [ScanNext]_scanVars PROVE Reported'
    OBVIOUS
  <1> DEFINE Reports == {"none", "scanning", "ready"}
  <1>1. ASSUME NEW f \in Files, Written(f) \/ Removed(f) \/ Ages(f) PROVE Reported'
    BY <1>1 DEF Written, Removed, Ages, Reported, Kinds
  <1>2. ASSUME NEW c \in Listers, NEW f \in Files, Ask(c, f) PROVE Reported'
    <2>1. report' \in [Files -> Reports]
      BY <1>2, AnswersReported DEF Ask, Reported
    <2> QED BY <1>2, <2>1 DEF Ask, disk, Reported
  <1>3. ASSUME NEW c \in Listers, CallStep(c) PROVE Reported'
    <2>1. ASSUME Stat(c) \/ Look(c) \/ Reread(c) PROVE Reported'
      <3>1. report' \in [Files -> Reports]
        BY <2>1, AnswersReported DEF Stat, Look, Reread, Reported
      <3> QED BY <2>1, <3>1 DEF Stat, Look, Reread, disk, Reported
    <2>2. ASSUME Enqueue(c) PROVE Reported'
      <3>1. call[c].file \in Files
        BY <2>2 DEF Enqueue, Typed, CallsTyped
      <3>2. report' \in [Files -> Reports]
        BY <2>2, AnswersReported DEF Enqueue, Reported
      <3>3. inFlight' \subseteq Files
        BY <2>2, <3>1 DEF Enqueue, Reported
      <3> QED BY <2>2, <3>2, <3>3 DEF Enqueue, disk, Reported
    <2>3. ASSUME Send(c) PROVE Reported'
      <3>1. report' \in [Files -> Reports]
        BY <2>3, AnswersReported DEF Send, Reported
      <3> QED BY <2>3, <3>1 DEF Send, disk, Reported
    <2> QED BY <1>3, <2>1, <2>2, <2>3 DEF CallStep
  <1>4. CASE Take
    BY <1>4 DEF Take, disk, Reported
  <1>5. ASSUME NEW e \in Executors, ScanStep(e) PROVE Reported'
    BY <1>5 DEF ScanStep, ScanStat, ScanCheck, ScanMap, ScanRun, ScanEnd, Released, disk,
                Reported
  <1>6. CASE UNCHANGED scanVars
    BY <1>6 DEF scanVars, Reported
  <1> QED BY <1>1, <1>2, <1>3, <1>4, <1>5, <1>6 DEF ScanNext, Lists

LEMMA ReportedInitially == ScanInit => Reported
  BY DEF ScanInit, Reported, Kinds

\* A file waits once, so the channel, which has no bound of its own, is never
\* longer than the directory.
LEMMA ChannelIsShort ==
    ASSUME ScanInv
    PROVE  Len(toScan) <= Cardinality(Files)
  <1>1. toScan \in Seq(Files) /\ Held
    BY DEF ScanInv, Typed, DataTyped
  <1>2. Len(toScan) \in Nat /\ DOMAIN toScan = 1..Len(toScan) /\ toScan \in [1..Len(toScan) -> Files]
    BY <1>1
  <1>3. \A i, j \in 1..Len(toScan) : toScan[i] = toScan[j] => i = j
    BY <1>1, <1>2 DEF Held, HeldOnce
  <1>4. toScan \in Injection(1..Len(toScan), Files)
    BY <1>2, <1>3 DEF Injection, IsInjective
  <1>5. Cardinality(1..Len(toScan)) <= Cardinality(Files)
    BY <1>4, FS_Injection, ScanAssumption
  <1>6. Cardinality(1..Len(toScan)) = Len(toScan)
    BY <1>2, FS_Interval
  <1> QED BY <1>5, <1>6

LEMMA TypesImplied == ScanInv /\ Reported => ScanTypeOK
  BY ChannelIsShort DEF ScanInv, Typed, DataTyped, CallsTyped, JobsTyped, Entry, Reported,
                        ScanTypeOK

LEMMA ScanInvStep == ScanInv /\ [ScanNext]_scanVars => ScanInv'
  <1> SUFFICES ASSUME ScanInv, [ScanNext]_scanVars PROVE ScanInv'
    OBVIOUS
  <1>1. CASE \E f \in Files : Written(f) \/ Removed(f) \/ Ages(f)
    BY <1>1, DiskSound
  <1>2. ASSUME NEW c \in Listers, CallStep(c) PROVE ScanInv'
    BY <1>2, StatSound, LookSound, EnqueueSound, SendSound, RereadSound DEF CallStep
  <1>3. ASSUME NEW c \in Listers, Lists(c) PROVE ScanInv'
    BY <1>3, AskSound DEF Lists
  <1>4. CASE Take
    BY <1>4, TakeSound
  <1>5. ASSUME NEW e \in Executors, ScanStep(e) PROVE ScanInv'
    BY <1>5, ScanStatSound, ScanCheckSound, ScanMapSound, ScanRunSound, ScanEndSound
    DEF ScanStep
  <1>6. CASE UNCHANGED scanVars
    <2>1. UNCHANGED <<ver, cache, inFlight, toScan, call, job, scans>>
      BY <1>6 DEF scanVars
    <2>2. Typed'
      BY <2>1 DEF ScanInv, Typed, DataTyped, CallsTyped, JobsTyped, InPlace
    <2>3. Held'
      BY <2>1, HeldStays DEF ScanInv, Sends, Scans
    <2>4. KeyedAll' /\ BehindAll'
      BY <2>1 DEF ScanInv, KeyedAll, Keyed, BehindAll, Behind
    <2> QED BY <2>2, <2>3, <2>4 DEF ScanInv
  <1> QED BY <1>1, <1>2, <1>3, <1>4, <1>5, <1>6 DEF ScanNext

-----------------------------------------------------------------------------
(* The theorems.                                                           *)

\* The strengthening holds of every reachable state: whatever listings, the
\* thread (Scanner::enqueue, scan_into_cache) and those who write the files do,
\* and in which order.
THEOREM ScanInvariant == ScanSpec => []ScanInv
  BY ScanInitially, ScanInvStep, PTL DEF ScanSpec

\* A file is in flight (Scanner::in_flight) exactly while one call sends it, or
\* it waits in the channel once, or one executor scans it: none is lost, and
\* none is scanned by two at a time.
THEOREM InFlightExact == ScanSpec => []InFlightIsExact
  BY ScanInvariant, InvImplies, PTL

\* What linear_cache has for a file as it is now is of its present content, or
\* the empty result of a scan of it, however often the file changes meanwhile.
THEOREM CacheCurrent == ScanSpec => []CacheIsCurrent
  BY ScanInvariant, InvImplies, PTL

\* No version of a file is scanned linearly a second time by the listings
\* (scan_into_cache), even if its scan panics.
THEOREM NoSecondScan == ScanSpec => []ScannedOnce
  BY ScanInvariant, InvImplies, PTL

\* Every variable of the listing keeps its type, and the channel to the thread,
\* which is unbounded, never holds more than one entry for each recording.
THEOREM ScanTyped == ScanSpec => []ScanTypeOK
  <1>1. ScanInv /\ Reported /\ [ScanNext]_scanVars => (ScanInv /\ Reported)'
    BY ScanInvStep, ReportedStep DEF ScanInv
  <1> QED BY ScanInitially, ReportedInitially, <1>1, TypesImplied, PTL DEF ScanSpec

\* However a recording is cut short, the topics that a listing gives are those of
\* which a message is left, each with all that are left: for any recorders, channels
\* and times, and any length of the recording (read_linear, LinearScan::flush).
THEOREM NoMessageIsLost == RecordingSpec => []CountsExact
  BY ReadInitially, ReadInvStep, CountsAreExact, PTL DEF RecordingSpec

\* Where the summary of a finished file is taken for enough (classify), it says what
\* the whole file says, topics, counts, spans, steps and duration: for any recorders
\* that write indexed chunks, any channels and times, and any length.
THEOREM SummaryTellsAll == RecordingSpec => []SummarySaysAll
  <1>1. ReadInv /\ ExactInv /\ [RecordingNext]_recordingVars => (ReadInv /\ ExactInv)'
    BY ReadInvStep, ExactStep
  <1> QED BY ReadInitially, ExactInitially, <1>1, ExactSaysAll, PTL DEF RecordingSpec

-----------------------------------------------------------------------------
(* The composition.                                                        *)

\* Whichever of the three a behaviour follows, the others stand still.
LEMMA EachPart == MCSpec => Spec /\ RecordingSpec /\ ScanSpec
  <1>1. MCInit => Init /\ RecordingInit /\ ScanInit
    BY DEF MCInit
  <1>2. [MCNext]_allVars => [Next]_vars /\ [RecordingNext]_recordingVars /\ [ScanNext]_scanVars
    BY DEF MCNext, allVars
  <1> QED BY <1>1, <1>2, PTL DEF MCSpec, Spec, RecordingSpec, ScanSpec

\* The types hold in the composition that is model-checked: a timeline, the data of
\* a recording or the listing, whichever a behaviour follows.
THEOREM RecordingsTyped == MCSpec => []TypesOK
  BY EachPart, TypeCorrect, ScanTyped, PTL DEF TypesOK

\* And so do the invariants of the three parts.
THEOREM RecordingsSafe ==
    MCSpec => [](/\ TakenBackWasAdded /\ StepsCounted
                 /\ CountsExact /\ SummarySaysAll
                 /\ InFlightIsExact /\ CacheIsCurrent /\ ScannedOnce)
  BY EachPart, NothingSaturates, StepsCountOnce, NoMessageIsLost,
     SummaryTellsAll, InFlightExact, CacheCurrent, NoSecondScan, PTL
=============================================================================
