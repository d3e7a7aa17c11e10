---------------------------- MODULE EnvFileProofs ----------------------------
(***************************************************************************)
(* Proofs about the editor of environment files (EnvFile): whatever the    *)
(* file and whatever the post, the settings of the file that plan_edit     *)
(* makes are those of the file before, overridden by the post; the report  *)
(* is true and a repeated post has nothing to do; the recordings' parser   *)
(* finds the directory that was posted; and what GET answered is taken     *)
(* back.                                                                   *)
(*                                                                         *)
(* The file is made line by line, so the proofs go by induction over its   *)
(* lines (StepByStep of InductionProofs).                                  *)
(***************************************************************************)
EXTENDS EnvFile, InductionProofs

-----------------------------------------------------------------------------
(* Numbers.                                                                *)

\* The greatest of some numbers up to N is what LastOf chooses.
LEMMA LastIs ==
    ASSUME NEW N \in Nat, NEW T, T \subseteq 1..N, T # {}
    PROVE  LastOf(T) \in T /\ \A j \in T : j <= LastOf(T)
  <1> DEFINE D == {N - j : j \in T}
  <1>1. D \subseteq Nat /\ D # {}
    <2>1. \A j \in T : N - j \in Nat
      OBVIOUS
    <2>2. PICK j \in T : N - j \in D
      OBVIOUS
    <2> QED BY <2>1, <2>2
  <1>2. PICK d \in D : \A e \in D : d <= e
    BY <1>1, LeastOf
  <1>3. PICK m \in T : d = N - m
    BY <1>2
  <1>4. ASSUME NEW j \in T PROVE j <= m
    <2>1. N - m <= N - j
      BY <1>2, <1>3
    <2> QED BY <2>1
  <1> QED BY <1>3, <1>4 DEF LastOf

LEMMA LastIsThis ==
    ASSUME NEW T, T \subseteq Nat, NEW m \in T, \A j \in T : j <= m
    PROVE  LastOf(T) = m
  <1> DEFINE L == LastOf(T)
  <1>1. L \in T /\ \A j \in T : j <= L
    BY DEF LastOf
  <1> HIDE DEF L
  <1>2. L <= m /\ m <= L
    BY <1>1
  <1>3. L \in Nat /\ m \in Nat
    BY <1>1
  <1> QED BY <1>2, <1>3 DEF L

LEMMA LastOfOne == \A k \in Nat : LastOf({k}) = k
  BY LastIsThis

-----------------------------------------------------------------------------
(* What lines say of a name.                                               *)

TextOf(line) == IF line.quoted THEN Unescape(line.text) ELSE line.text

\* A line that says something of the name.
Says(line, n) == line.kind = "active" /\ line.name = n

Definitions(q, n) == {i \in 1..Len(q) : Says(q[i], n)}

\* A set of at most one text: the last definition counts.
Said(q, n) == IF Definitions(q, n) = {} THEN {} ELSE {TextOf(q[LastOf(Definitions(q, n))])}

LEMMA SaidOfNone == \A n : Said(<<>>, n) = {}
  BY DEF Said, Definitions

LEMMA SaidOfOne ==
    ASSUME NEW l, NEW n
    PROVE  Said(<<l>>, n) = IF Says(l, n) THEN {TextOf(l)} ELSE {}
  <1>1. Definitions(<<l>>, n) = IF Says(l, n) THEN {1} ELSE {}
    BY DEF Definitions
  <1>2. Says(l, n) => LastOf({1}) = 1
    BY LastIsThis
  <1> QED BY <1>1, <1>2 DEF Said

\* Of two files one after the other, the second counts if it says anything.
LEMMA SaidOfBoth ==
    ASSUME NEW S, NEW q \in Seq(S), NEW r \in Seq(S), NEW n
    PROVE  Said(q \o r, n) = IF Said(r, n) = {} THEN Said(q, n) ELSE Said(r, n)
  <1> DEFINE c == q \o r
  <1>1. /\ Len(q) \in Nat /\ Len(r) \in Nat /\ Len(c) = Len(q) + Len(r)
        /\ \A i \in 1..Len(q) : c[i] = q[i]
        /\ \A i \in 1..Len(r) : c[Len(q) + i] = r[i]
    BY ConcatProperties
  <1> HIDE DEF c
  <1>2. Said(r, n) = {} <=> Definitions(r, n) = {}
    BY DEF Said
  <1>3. CASE Definitions(r, n) = {}
    <2>1. Definitions(c, n) = Definitions(q, n)
      <3>1. ASSUME NEW i \in 1..Len(c), Says(c[i], n) PROVE i \in 1..Len(q) /\ c[i] = q[i]
        <4>1. CASE i <= Len(q)
          BY <1>1, <4>1
        <4>2. CASE i > Len(q)
          <5>1. i - Len(q) \in 1..Len(r) /\ Len(q) + (i - Len(q)) = i
            BY <1>1, <4>2
          <5> QED BY <1>1, <1>3, <3>1, <5>1 DEF Definitions
        <4> QED BY <1>1, <4>1, <4>2
      <3>2. \A i \in 1..Len(q) : i \in 1..Len(c)
        BY <1>1
      <3> QED BY <1>1, <3>1, <3>2 DEF Definitions
    <2>2. Definitions(q, n) # {} => LastOf(Definitions(q, n)) \in 1..Len(q)
      BY <1>1, LastIs DEF Definitions
    <2> QED BY <1>1, <1>2, <1>3, <2>1, <2>2 DEF Said, c
  <1>4. CASE Definitions(r, n) # {}
    <2> DEFINE m == LastOf(Definitions(r, n))
    <2>1. m \in Definitions(r, n) /\ \A j \in Definitions(r, n) : j <= m
      BY <1>1, <1>4, LastIs DEF Definitions
    <2> HIDE DEF m
    <2>2. m \in 1..Len(r) /\ Says(r[m], n)
      BY <2>1 DEF Definitions
    <2>3. Len(q) + m \in Definitions(c, n)
      BY <1>1, <2>2 DEF Definitions
    <2>4. ASSUME NEW i \in Definitions(c, n) PROVE i <= Len(q) + m
      <3>1. i \in 1..Len(c) /\ Says(c[i], n)
        BY <2>4 DEF Definitions
      <3>2. CASE i <= Len(q)
        BY <1>1, <2>2, <3>1, <3>2
      <3>3. CASE i > Len(q)
        <4>1. i - Len(q) \in 1..Len(r) /\ Len(q) + (i - Len(q)) = i
          BY <1>1, <3>1, <3>3
        <4>2. i - Len(q) \in Definitions(r, n)
          BY <1>1, <3>1, <4>1 DEF Definitions
        <4> QED BY <1>1, <2>1, <2>2, <3>1, <4>2
      <3> QED BY <1>1, <3>1, <3>2, <3>3
    <2>5. LastOf(Definitions(c, n)) = Len(q) + m
      <3>1. Definitions(c, n) \subseteq Nat
        BY <1>1 DEF Definitions
      <3> QED BY <2>3, <2>4, <3>1, LastIsThis
    <2>6. Said(c, n) = {TextOf(r[m])}
      BY <1>1, <2>2, <2>3, <2>5 DEF Said
    <2> QED BY <1>2, <1>4, <2>6 DEF Said, m, c
  <1> QED BY <1>3, <1>4

\* Settings is what the lines say.
LEMMA SettingsSaid ==
    ASSUME NEW S, NEW f, f.lines \in Seq(S), NEW n
    PROVE  /\ n \in DOMAIN Settings(f) <=> Said(f.lines, n) # {}
           /\ n \in DOMAIN Settings(f) => Said(f.lines, n) = {Settings(f)[n]}
  <1>1. DOMAIN f.lines = 1..Len(f.lines)
    OBVIOUS
  <1>2. {i \in ActiveLines(f) : f.lines[i].name = n} = Definitions(f.lines, n)
    BY <1>1 DEF ActiveLines, Definitions, Says
  <1>3. n \in DOMAIN Settings(f) <=> Definitions(f.lines, n) # {}
    BY <1>2 DEF Settings
  <1>4. n \in DOMAIN Settings(f) =>
            Settings(f)[n] = TextOf(f.lines[LastOf(Definitions(f.lines, n))])
    BY <1>2 DEF Settings, TextOf
  <1> QED BY <1>3, <1>4 DEF Said

-----------------------------------------------------------------------------
(* What a line becomes.                                                    *)

LEMMA SequenceOfItsOwn ==
    ASSUME NEW S, NEW q \in Seq(S)
    PROVE  q \in Seq(ToSet(q))
  <1>1. q = [i \in 1..Len(q) |-> q[i]] /\ Len(q) \in Nat /\ \A i \in 1..Len(q) : q[i] \in ToSet(q)
    BY DEF ToSet
  <1> QED BY <1>1, IsASeq

LEMMA WordsAreText ==
    ASSUME NEW W, \A w \in W : IsWord(w), NEW text \in Seq(W)
    PROVE  IsText(text)
  <1>1. ToSet(text) \subseteq W
    BY DEF ToSet
  <1> QED BY <1>1, SequenceOfItsOwn DEF IsText

LEMMA NoWordsAreText == IsText(<<>>)
  <1>1. <<>> \in Seq({})
    OBVIOUS
  <1> QED BY <1>1, WordsAreText

\* What escaping and unescaping do to a text, word by word.
LEMMA EscapedIsText ==
    ASSUME NEW text, IsText(text)
    PROVE  IsText(Escape(text)) /\ IsText(Unescape(text))
  <1>1. /\ Len(text) \in Nat /\ DOMAIN text = 1..Len(text)
        /\ \A i \in 1..Len(text) : IsWord(text[i])
    BY DEF IsText, ToSet
  <1> DEFINE more(i) == IF text[i][1] \in Special THEN <<text[i][1], text[i][2] + 1>> ELSE text[i]
             less(i) == IF text[i][2] > 0 THEN <<text[i][1], text[i][2] - 1>> ELSE text[i]
             W == {more(i) : i \in 1..Len(text)} \cup {less(i) : i \in 1..Len(text)}
  <1>2. ASSUME NEW i \in 1..Len(text) PROVE IsWord(more(i)) /\ IsWord(less(i))
    <2>1. text[i] = <<text[i][1], text[i][2]>> /\ text[i][2] \in Nat
          /\ (text[i][2] > 0 => text[i][1] \in Special)
      BY <1>1 DEF IsWord
    <2> DEFINE a == text[i][1]
               k == text[i][2]
    <2>2. k \in Nat /\ k + 1 \in Nat /\ (k > 0 => k - 1 \in Nat)
      BY <2>1
    <2>3. \A m \in Nat : a \in Special => IsWord(<<a, m>>)
      BY DEF IsWord
    <2>4. IsWord(text[i])
      BY <1>1
    <2> QED BY <2>1, <2>2, <2>3, <2>4
  <1>3. /\ Escape(text) = [i \in 1..Len(text) |-> more(i)]
        /\ Unescape(text) = [i \in 1..Len(text) |-> less(i)]
    BY <1>1 DEF Escape, Unescape
  <1>4. \A w \in W : IsWord(w)
    BY <1>2
  <1>5. \A i \in 1..Len(text) : more(i) \in W /\ less(i) \in W
    OBVIOUS
  <1> HIDE DEF more, less, W
  <1>6. Escape(text) \in Seq(W) /\ Unescape(text) \in Seq(W)
    BY <1>1, <1>3, <1>5, IsASeq
  <1> QED BY <1>4, <1>6, WordsAreText

LEMMA EscapedAndBack ==
    ASSUME NEW text, IsText(text)
    PROVE  Unescape(Escape(text)) = text
  <1> DEFINE e == Escape(text)
  <1>1. e = [i \in DOMAIN text |-> IF text[i][1] \in Special
                                   THEN <<text[i][1], text[i][2] + 1>> ELSE text[i]]
    BY DEF Escape
  <1> HIDE DEF e
  <1>2. ASSUME NEW i \in DOMAIN text
        PROVE  (IF e[i][2] > 0 THEN <<e[i][1], e[i][2] - 1>> ELSE e[i]) = text[i]
    <2>1. IsWord(text[i])
      BY DEF IsText, ToSet
    <2>2. CASE text[i][1] \in Special
      <3>1. e[i] = <<text[i][1], text[i][2] + 1>>
        BY <1>1, <2>2
      <3>2. e[i][1] = text[i][1] /\ e[i][2] = text[i][2] + 1
        BY <3>1
      <3>3. text[i][2] \in Nat /\ text[i] = <<text[i][1], text[i][2]>>
        BY <2>1 DEF IsWord
      <3>4. e[i][2] > 0 /\ e[i][2] - 1 = text[i][2]
        BY <3>2, <3>3
      <3> QED BY <3>2, <3>3, <3>4
    <2>3. CASE text[i][1] \notin Special
      <3>1. e[i] = text[i]
        BY <1>1, <2>3
      <3>2. ~(e[i][2] > 0)
        BY <2>1, <2>3, <3>1 DEF IsWord
      <3> QED BY <3>1, <3>2
    <2> QED BY <2>2, <2>3
  <1>3. DOMAIN e = DOMAIN text
    BY <1>1
  <1>4. Unescape(e) = [i \in DOMAIN text |-> text[i]]
    BY <1>2, <1>3 DEF Unescape
  <1>5. text = [i \in DOMAIN text |-> text[i]]
    BY DEF IsText
  <1> QED BY <1>4, <1>5 DEF e

\* The entries of an accepted post: each name once, and texts that can be
\* written and read again.
Proper(E) ==
    /\ E \in Seq({E[j] : j \in DOMAIN E})
    /\ \A i, j \in DOMAIN E : E[i].name = E[j].name => i = j
    /\ \A j \in DOMAIN E : /\ E[j].set \in BOOLEAN
                           /\ E[j].set => IsText(E[j].text)

\* What the post says of the name, if anything.
Names(E) == {E[j].name : j \in DOMAIN E}
Wanted(E, j) == IF E[j].set THEN {E[j].text} ELSE {}

LEMMA SaidOfRendered ==
    ASSUME NEW E, Proper(E), NEW j \in DOMAIN E, NEW n
    PROVE  Said(<<Render(E[j])>>, n) = IF E[j].name = n THEN Wanted(E, j) ELSE {}
  <1>1. Said(<<Render(E[j])>>, n)
            = IF Says(Render(E[j]), n) THEN {TextOf(Render(E[j]))} ELSE {}
    BY SaidOfOne
  <1>2. CASE E[j].set
    <2>1. Says(Render(E[j]), n) <=> E[j].name = n
      BY <1>2 DEF Render, Setting, Says
    <2>2. TextOf(Render(E[j])) = E[j].text
      BY <1>2, EscapedAndBack DEF Render, Setting, TextOf, Proper
    <2> QED BY <1>1, <1>2, <2>1, <2>2 DEF Wanted
  <1>3. CASE ~E[j].set
    <2>1. ~Says(Render(E[j]), n)
      BY <1>3 DEF Render, Comment, Says
    <2> QED BY <1>1, <1>3, <2>1 DEF Wanted
  <1> QED BY <1>2, <1>3

\* A line of the new file is one of the old file or one of the post.
Written(S, E) == S \cup {Render(E[j]) : j \in DOMAIN E}

\* A line is replaced for one entry, and one is inserted below it, at most.
LEMMA OneEntryEach ==
    ASSUME NEW S, NEW f, f.lines \in Seq(S), NEW E, Proper(E),
           NEW i \in 1..Len(f.lines), NEW j \in DOMAIN E
    PROVE  /\ Replaces(f, E[j], i) => /\ Says(f.lines[i], E[j].name)
                                      /\ \A k \in DOMAIN E : Replaces(f, E[k], i) => k = j
           /\ Inserts(f, E[j], i) => /\ E[j].set
                                     /\ f.lines[i].kind \in {"#", ";"}
                                     /\ \A k \in DOMAIN E : Inserts(f, E[k], i) => k = j
           /\ Says(f.lines[i], E[j].name) => Replaces(f, E[j], i)
  <1>1. DOMAIN f.lines = 1..Len(f.lines) /\ Len(f.lines) \in Nat
    OBVIOUS
  <1>2. ASSUME NEW k \in DOMAIN E
        PROVE  Replaces(f, E[k], i) <=> Says(f.lines[i], E[k].name)
    BY <1>1 DEF Replaces, Defines, ActiveLines, Says
  <1>3. ASSUME NEW k \in DOMAIN E, Inserts(f, E[k], i)
        PROVE  E[k].set /\ f.lines[i].kind \in {"#", ";"} /\ f.lines[i].name = E[k].name
    <2> DEFINE M == Mentions(f, E[k])
    <2>1. M \subseteq 1..Len(f.lines) /\ M # {} /\ i = LastOf(M)
      BY <1>1, <1>3 DEF Inserts, Mentions
    <2>2. i \in M
      <3> HIDE DEF M
      <3> QED BY <1>1, <2>1, LastIs
    <2> QED BY <1>3, <2>2 DEF Mentions, Inserts
  <1>4. \A k \in DOMAIN E : E[k].name = E[j].name => k = j
    BY DEF Proper
  <1> QED BY <1>2, <1>3, <1>4 DEF Says

LEMMA EmittedSays ==
    ASSUME NEW S, NEW f, f.lines \in Seq(S), NEW E, Proper(E),
           NEW i \in 1..Len(f.lines), NEW n
    PROVE  /\ Emitted(f, E, i) \in Seq(Written(S, E))
           /\ \A j \in DOMAIN E : E[j].name = n =>
                 Said(Emitted(f, E, i), n) =
                    IF Replaces(f, E[j], i) \/ Inserts(f, E[j], i) THEN Wanted(E, j) ELSE {}
           /\ n \notin Names(E) => Said(Emitted(f, E, i), n) = Said(<<f.lines[i]>>, n)
  <1> DEFINE owner == {k \in DOMAIN E : Replaces(f, E[k], i)}
             below == {k \in DOMAIN E : Inserts(f, E[k], i)}
             line == IF owner = {} THEN <<f.lines[i]>> ELSE <<Render(E[LastOf(owner)])>>
             more == IF below = {} THEN <<>> ELSE <<Render(E[LastOf(below)])>>
             T == Written(S, E)
  <1>0. f.lines[i] \in T /\ \A k \in DOMAIN E : Render(E[k]) \in T /\ k \in Nat
    BY DEF Written, Proper
  <1>1. Emitted(f, E, i) = line \o more
    BY DEF Emitted, Among
  <1>2. ASSUME NEW k \in owner
        PROVE  owner = {k} /\ LastOf(owner) = k
    <2>1. k \in DOMAIN E /\ Replaces(f, E[k], i)
      BY <1>2
    <2>2. owner = {k}
      <3>1. \A h \in owner : h = k
        BY <2>1, OneEntryEach
      <3> QED BY <1>2, <3>1
    <2> QED BY <1>0, <2>1, <2>2, LastOfOne
  <1>3. ASSUME NEW k \in below
        PROVE  below = {k} /\ LastOf(below) = k
    <2>1. k \in DOMAIN E /\ Inserts(f, E[k], i)
      BY <1>3
    <2>2. below = {k}
      <3>1. \A h \in below : h = k
        BY <2>1, OneEntryEach
      <3> QED BY <1>3, <3>1
    <2> QED BY <1>0, <2>1, <2>2, LastOfOne
  <1>4. line \in Seq(T)
    BY <1>0, <1>2
  <1>5. more \in Seq(T)
    BY <1>0, <1>3
  <1>6. Said(line \o more, n) = IF Said(more, n) = {} THEN Said(line, n) ELSE Said(more, n)
    <2> HIDE DEF line, more, T
    <2> QED BY <1>4, <1>5, SaidOfBoth
  <1>7. /\ below = {} => Said(more, n) = {}
        /\ \A k \in below : Said(more, n) = IF E[k].name = n THEN Wanted(E, k) ELSE {}
    <2>1. below = {} => Said(more, n) = {}
      BY SaidOfNone
    <2>2. ASSUME NEW k \in below
          PROVE  Said(more, n) = IF E[k].name = n THEN Wanted(E, k) ELSE {}
      BY <1>3, <2>2, SaidOfRendered
    <2> QED BY <2>1, <2>2
  <1>8. owner = {} => Said(line, n) = Said(<<f.lines[i]>>, n)
    OBVIOUS
  <1>9. ASSUME NEW k \in owner
        PROVE  Said(line, n) = IF E[k].name = n THEN Wanted(E, k) ELSE {}
    BY <1>2, <1>9, SaidOfRendered
  <1>10. line \o more \in Seq(T)
    BY <1>4, <1>5
  <1>11. ASSUME n \notin Names(E)
         PROVE  Said(line \o more, n) = Said(<<f.lines[i]>>, n)
    <2>1. Said(more, n) = {}
      BY <1>7, <1>11 DEF Names
    <2>2. ASSUME NEW k \in owner PROVE Said(line, n) = Said(<<f.lines[i]>>, n)
      <3>1. Said(line, n) = {}
        BY <1>9, <1>11, <2>2 DEF Names
      <3>2. ~Says(f.lines[i], n)
        <4>1. k \in DOMAIN E /\ Replaces(f, E[k], i)
          BY <2>2
        <4>2. Says(f.lines[i], E[k].name)
          BY <4>1, OneEntryEach
        <4> QED BY <1>11, <4>1, <4>2 DEF Names, Says
      <3> QED BY <3>1, <3>2, SaidOfOne
    <2> QED BY <1>6, <1>8, <2>1, <2>2
  <1>12. ASSUME NEW j \in DOMAIN E, E[j].name = n
         PROVE  Said(line \o more, n) =
                    IF Replaces(f, E[j], i) \/ Inserts(f, E[j], i) THEN Wanted(E, j) ELSE {}
    <2>0. \A k \in DOMAIN E : E[k].name = n => k = j
      BY <1>12 DEF Proper
    <2>1. Said(more, n) = IF j \in below THEN Wanted(E, j) ELSE {}
      BY <1>7, <1>12, <2>0
    <2>2. Said(line, n) = IF j \in owner THEN Wanted(E, j) ELSE {}
      <3>1. CASE owner = {}
        <4>1. ~Says(f.lines[i], n)
          BY <1>12, <3>1, OneEntryEach
        <4> QED BY <1>8, <3>1, <4>1, SaidOfOne
      <3>2. ASSUME NEW k \in owner
            PROVE  Said(line, n) = IF j \in owner THEN Wanted(E, j) ELSE {}
        BY <1>2, <1>9, <1>12, <2>0, <3>2
      <3> QED BY <3>1, <3>2
    <2> QED BY <1>6, <2>1, <2>2
  <1> HIDE DEF line, more
  <1> QED BY <1>1, <1>10, <1>11, <1>12

-----------------------------------------------------------------------------
(* What the file becomes.                                                  *)

Prefix(q, k) == [i \in 1..k |-> q[i]]

LEMMA PrefixGrows ==
    ASSUME NEW S, NEW q \in Seq(S), NEW k \in 1..Len(q)
    PROVE  /\ Prefix(q, k - 1) \in Seq(S) /\ <<q[k]>> \in Seq(S)
           /\ Prefix(q, k) = Prefix(q, k - 1) \o <<q[k]>>
  <1>0. Len(q) \in Nat /\ k \in Nat /\ k - 1 \in Nat /\ q[k] \in S
    OBVIOUS
  <1> DEFINE a == Prefix(q, k - 1)
             b == <<q[k]>>
             c == Prefix(q, k)
  <1>1. a \in Seq(S) /\ Len(a) = k - 1 /\ \A i \in 1..k - 1 : a[i] = q[i]
    <2>1. \A i \in 1..k - 1 : q[i] \in S
      BY <1>0
    <2> QED BY <1>0, <2>1, IsASeq DEF Prefix
  <1>2. c \in Seq(S) /\ Len(c) = k /\ \A i \in 1..k : c[i] = q[i]
    <2>1. \A i \in 1..k : q[i] \in S
      BY <1>0
    <2> QED BY <1>0, <2>1, IsASeq DEF Prefix
  <1>3. b \in Seq(S) /\ Len(b) = 1 /\ b[1] = q[k]
    BY <1>0
  <1> HIDE DEF a, b, c
  <1>4. /\ a \o b \in Seq(S) /\ Len(a \o b) = k
        /\ \A i \in 1..k - 1 : (a \o b)[i] = a[i]
        /\ (a \o b)[k] = b[1]
    <2>1. /\ a \o b \in Seq(S) /\ Len(a \o b) = Len(a) + Len(b)
          /\ \A i \in 1..Len(a) : (a \o b)[i] = a[i]
          /\ \A i \in 1..Len(b) : (a \o b)[Len(a) + i] = b[i]
      <3>1. a \in Seq(S) /\ b \in Seq(S)
        BY <1>1, <1>3
      <3> QED BY <3>1, ConcatProperties
    <2>2. (k - 1) + 1 = k /\ 1 \in 1..Len(b)
      BY <1>0, <1>3
    <2>3. (a \o b)[k] = b[1]
      BY <1>1, <2>1, <2>2
    <2> QED BY <1>1, <1>3, <2>1, <2>2, <2>3
  <1>5. ASSUME NEW i \in 1..k PROVE (a \o b)[i] = c[i]
    <2>1. CASE i = k
      BY <1>2, <1>3, <1>4, <2>1
    <2>2. CASE i # k
      BY <1>0, <1>1, <1>2, <1>4, <2>2
    <2> QED BY <2>1, <2>2
  <1>6. a \o b = c
    BY <1>2, <1>4, <1>5, SeqEqual
  <1> QED BY <1>1, <1>3, <1>6 DEF a, b, c

LEMMA BodySays ==
    ASSUME NEW S, NEW f, f.lines \in Seq(S), NEW E, Proper(E), NEW n
    PROVE  /\ Body(f, E) \in Seq(Written(S, E))
           /\ \A j \in DOMAIN E : E[j].name = n =>
                 Said(Body(f, E), n) =
                    IF \E i \in 1..Len(f.lines) : Replaces(f, E[j], i) \/ Inserts(f, E[j], i)
                    THEN Wanted(E, j) ELSE {}
           /\ n \notin Names(E) => Said(Body(f, E), n) = Said(f.lines, n)
  <1> DEFINE N == Len(f.lines)
             T == Written(S, E)
             em == [i \in DOMAIN f.lines |-> Emitted(f, E, i)]
  <1>1. N \in Nat /\ DOMAIN f.lines = 1..N
    OBVIOUS
  <1>2. em \in Seq(Seq(T)) /\ Len(em) = N /\ \A i \in 1..N : em[i] = Emitted(f, E, i)
    <2>1. \A i \in 1..N : Emitted(f, E, i) \in Seq(T)
      BY EmittedSays
    <2> QED BY <1>1, <2>1, IsASeq
  <1>3. Body(f, E) = FlattenSeq(em)
    BY DEF Body
  <1> HIDE DEF N, T, em
  <1>4. PICK g \in [0..N -> Seq(T)] : Flattens(g, em, N) /\ FlattenSeq(em) = g[N]
    BY <1>2, FlattenSteps
  <1>5. /\ g[0] = <<>>
        /\ \A i \in 1..N : g[i] = g[i - 1] \o em[i] /\ g[i - 1] \in Seq(T) /\ em[i] \in Seq(T)
    <2>1. g[0] = <<>> /\ \A i \in 1..N : g[i] = g[i - 1] \o em[i]
      BY <1>4 DEF Flattens
    <2>2. \A i \in 1..N : i - 1 \in 0..N
      BY <1>1
    <2>3. \A i \in 1..N : em[i] \in Seq(T)
      BY <1>2
    <2> QED BY <1>4, <2>1, <2>2, <2>3
  <1>6. ASSUME NEW i \in 1..N
        PROVE  Said(g[i], n) = IF Said(em[i], n) = {} THEN Said(g[i - 1], n) ELSE Said(em[i], n)
    <2> DEFINE q == g[i - 1]
               r == em[i]
    <2>1. q \in Seq(T) /\ r \in Seq(T) /\ g[i] = q \o r
      BY <1>5
    <2> HIDE DEF q, r
    <2>2. Said(q \o r, n) = IF Said(r, n) = {} THEN Said(q, n) ELSE Said(r, n)
      BY <2>1, SaidOfBoth
    <2> QED BY <2>1, <2>2 DEF q, r
  <1>7. ASSUME NEW j \in DOMAIN E, E[j].name = n
        PROVE  Said(g[N], n) =
                    IF \E i \in 1..N : Replaces(f, E[j], i) \/ Inserts(f, E[j], i)
                    THEN Wanted(E, j) ELSE {}
    <2> DEFINE At(i) == Replaces(f, E[j], i) \/ Inserts(f, E[j], i)
               K == {k \in 0..N : Said(g[k], n) =
                                     IF \E i \in 1..k : At(i) THEN Wanted(E, j) ELSE {}}
    <2>1. 0 \in K
      BY <1>1, <1>5, SaidOfNone
    <2>2. ASSUME NEW k \in 1..N, k - 1 \in K PROVE k \in K
      <3>1. Said(em[k], n) = IF At(k) THEN Wanted(E, j) ELSE {}
        <4>1. k \in 1..Len(f.lines)
          BY DEF N
        <4>2. Said(Emitted(f, E, k), n) = IF At(k) THEN Wanted(E, j) ELSE {}
          BY <1>7, <4>1, EmittedSays
        <4> QED BY <1>2, <4>2
      <3>2. Said(g[k - 1], n) = IF \E i \in 1..k - 1 : At(i) THEN Wanted(E, j) ELSE {}
        BY <2>2
      <3> HIDE DEF At
      <3>3. (\E i \in 1..k : At(i)) <=> At(k) \/ \E i \in 1..k - 1 : At(i)
        <4>1. k \in Nat /\ k \in 1..k /\ 1..k = 1..k - 1 \cup {k}
          BY <1>1
        <4> QED BY <4>1
      <3>4. Said(g[k], n) = IF \E i \in 1..k : At(i) THEN Wanted(E, j) ELSE {}
        BY <1>6, <3>1, <3>2, <3>3
      <3> QED BY <1>1, <3>4
    <2> HIDE DEF K
    <2>3. \A k \in 0..N : k \in K
      BY <1>1, <2>1, <2>2, StepByStep
    <2>4. N \in K
      BY <1>1, <2>3
    <2> QED BY <2>4 DEF K
  <1>8. ASSUME n \notin Names(E)
        PROVE  Said(g[N], n) = Said(f.lines, n)
    <2> DEFINE K == {k \in 0..N : Said(g[k], n) = Said(Prefix(f.lines, k), n)}
    <2>1. 0 \in K
      <3>1. Prefix(f.lines, 0) = <<>>
        BY DEF Prefix
      <3> QED BY <1>1, <1>5, <3>1
    <2>2. ASSUME NEW k \in 1..N, k - 1 \in K PROVE k \in K
      <3>1. Said(em[k], n) = Said(<<f.lines[k]>>, n)
        <4>1. k \in 1..Len(f.lines)
          BY DEF N
        <4>2. Said(Emitted(f, E, k), n) = Said(<<f.lines[k]>>, n)
          BY <1>8, <4>1, EmittedSays
        <4> QED BY <1>2, <4>2
      <3>2. Said(g[k - 1], n) = Said(Prefix(f.lines, k - 1), n)
        BY <2>2
      <3>3. /\ Prefix(f.lines, k - 1) \in Seq(S) /\ <<f.lines[k]>> \in Seq(S)
            /\ Prefix(f.lines, k) = Prefix(f.lines, k - 1) \o <<f.lines[k]>>
        BY PrefixGrows DEF N
      <3>4. Said(Prefix(f.lines, k), n) =
                IF Said(<<f.lines[k]>>, n) = {} THEN Said(Prefix(f.lines, k - 1), n)
                ELSE Said(<<f.lines[k]>>, n)
        <4> DEFINE q == Prefix(f.lines, k - 1)
                   r == <<f.lines[k]>>
        <4>1. q \in Seq(S) /\ r \in Seq(S) /\ Prefix(f.lines, k) = q \o r
          BY <3>3
        <4> HIDE DEF q, r
        <4>2. Said(q \o r, n) = IF Said(r, n) = {} THEN Said(q, n) ELSE Said(r, n)
          BY <4>1, SaidOfBoth
        <4> QED BY <4>1, <4>2 DEF q, r
      <3>5. Said(g[k], n) = Said(Prefix(f.lines, k), n)
        BY <1>6, <3>1, <3>2, <3>4
      <3> QED BY <1>1, <3>5
    <2> HIDE DEF K
    <2>3. \A k \in 0..N : k \in K
      BY <1>1, <2>1, <2>2, StepByStep
    <2>4. N \in K
      BY <1>1, <2>3
    <2>5. Prefix(f.lines, N) = f.lines
      BY <1>1 DEF Prefix, N
    <2> QED BY <2>4, <2>5 DEF K
  <1>9. g[N] \in Seq(T)
    BY <1>1, <1>4
  <1> QED BY <1>3, <1>4, <1>7, <1>8, <1>9 DEF N, T

LEMMA AppendedSays ==
    ASSUME NEW S, NEW f, f.lines \in Seq(S), NEW E, Proper(E), NEW n
    PROVE  /\ Appended(f, E) \in Seq(Written(S, E) \cup {Blank, Marker})
           /\ \A j \in DOMAIN E : E[j].name = n =>
                 Said(Appended(f, E), n) = IF Appends(f, E[j]) THEN Wanted(E, j) ELSE {}
           /\ n \notin Names(E) => Said(Appended(f, E), n) = {}
  <1> DEFINE N == Len(E)
             T == Written(S, E) \cup {Blank, Marker}
             one(j) == IF Appends(f, E[j]) THEN <<Render(E[j])>> ELSE <<>>
             em == [j \in DOMAIN E |-> one(j)]
             lead == IF f.lines = <<>> THEN <<>> ELSE <<Blank>>
             mark == IF Marker \in ToSet(f.lines) THEN <<>> ELSE Append(lead, Marker)
  <1>1. N \in Nat /\ DOMAIN E = 1..N
    BY DEF Proper
  <1>2. em \in Seq(Seq(T)) /\ Len(em) = N /\ \A i \in 1..N : em[i] = one(i) /\ one(i) \in Seq(T)
    <2>1. ASSUME NEW i \in 1..N PROVE one(i) \in Seq(T)
      <3>1. Render(E[i]) \in T
        BY <1>1 DEF Written
      <3> HIDE DEF T
      <3> QED BY <3>1
    <2> QED BY <1>1, <2>1, IsASeq
  <1>3. Appended(f, E) = IF FlattenSeq(em) = <<>> THEN <<>> ELSE mark \o FlattenSeq(em)
    BY DEF Appended
  <1>4. ASSUME NEW i \in 1..N
        PROVE  Said(one(i), n) = IF Appends(f, E[i]) /\ E[i].name = n THEN Wanted(E, i) ELSE {}
    BY <1>1, SaidOfNone, SaidOfRendered
  <1>5. mark \in Seq(T) /\ Said(mark, n) = {}
    <2>1. Blank \in T /\ Marker \in T
      OBVIOUS
    <2>2. ~Says(Blank, n) /\ ~Says(Marker, n)
      BY DEF Blank, Marker, Plain, Says
    <2>a. Said(<<Blank>>, n) = {} /\ Said(<<Marker>>, n) = {}
      <3>1. \A l : ~Says(l, n) => Said(<<l>>, n) = {}
        BY SaidOfOne
      <3> QED BY <2>2, <3>1
    <2> HIDE DEF T
    <2>b. <<>> \in Seq(T) /\ <<Blank>> \in Seq(T) /\ <<Marker>> \in Seq(T)
      BY <2>1
    <2>3. lead \in Seq(T) /\ Said(lead, n) = {}
      BY <2>a, <2>b, SaidOfNone
    <2> DEFINE last == <<Marker>>
    <2>4. last \in Seq(T) /\ Said(last, n) = {}
      BY <2>a, <2>b
    <2> HIDE DEF lead
    <2>5. Append(lead, Marker) = lead \o <<Marker>>
      BY <2>1, <2>3, AppendIsConcat
    <2>6. Said(lead \o <<Marker>>, n) = {}
      <3> HIDE DEF last
      <3>1. Said(lead \o last, n) = {}
        BY <2>3, <2>4, SaidOfBoth
      <3> QED BY <3>1 DEF last
    <2>7. Append(lead, Marker) \in Seq(T)
      BY <2>1, <2>3
    <2>8. <<>> \in Seq(T)
      OBVIOUS
    <2> QED BY <2>5, <2>6, <2>7, <2>8, SaidOfNone
  <1> HIDE DEF N, T, em, one, mark
  <1>6. PICK g \in [0..N -> Seq(T)] : Flattens(g, em, N) /\ FlattenSeq(em) = g[N]
    BY <1>2, FlattenSteps
  <1>7. /\ g[0] = <<>>
        /\ \A i \in 1..N : g[i] = g[i - 1] \o one(i) /\ g[i - 1] \in Seq(T) /\ one(i) \in Seq(T)
    <2>1. g[0] = <<>> /\ \A i \in 1..N : g[i] = g[i - 1] \o em[i]
      BY <1>6 DEF Flattens
    <2>2. \A i \in 1..N : i - 1 \in 0..N
      BY <1>1
    <2> QED BY <1>2, <1>6, <2>1, <2>2
  <1>8. ASSUME NEW i \in 1..N
        PROVE  Said(g[i], n) = IF Said(one(i), n) = {} THEN Said(g[i - 1], n) ELSE Said(one(i), n)
    <2> DEFINE q == g[i - 1]
               r == one(i)
    <2>1. q \in Seq(T) /\ r \in Seq(T) /\ g[i] = q \o r
      BY <1>7
    <2> HIDE DEF q, r
    <2>2. Said(q \o r, n) = IF Said(r, n) = {} THEN Said(q, n) ELSE Said(r, n)
      BY <2>1, SaidOfBoth
    <2> QED BY <2>1, <2>2 DEF q, r
  <1>9. g[N] \in Seq(T)
    BY <1>1, <1>6
  <1>10. Appended(f, E) \in Seq(T) /\ Said(Appended(f, E), n) = Said(g[N], n)
    <2>1. Said(mark \o g[N], n) = IF Said(g[N], n) = {} THEN {} ELSE Said(g[N], n)
      <3> DEFINE r == g[N]
      <3>1. r \in Seq(T)
        BY <1>9
      <3> HIDE DEF r
      <3>2. Said(mark \o r, n) = IF Said(r, n) = {} THEN Said(mark, n) ELSE Said(r, n)
        BY <1>5, <3>1, SaidOfBoth
      <3> QED BY <1>5, <3>2 DEF r
    <2>2. mark \o g[N] \in Seq(T)
      BY <1>5, <1>9
    <2>3. CASE g[N] = <<>>
      <3>1. Appended(f, E) = <<>> /\ <<>> \in Seq(T)
        BY <1>3, <1>6, <2>3
      <3> QED BY <2>3, <3>1
    <2>4. CASE g[N] # <<>>
      <3>1. Appended(f, E) = mark \o g[N]
        BY <1>3, <1>6, <2>4
      <3> QED BY <2>1, <2>2, <3>1
    <2> QED BY <2>3, <2>4
  <1>11. ASSUME NEW j \in DOMAIN E, E[j].name = n
         PROVE  Said(g[N], n) = IF Appends(f, E[j]) THEN Wanted(E, j) ELSE {}
    <2> DEFINE K == {k \in 0..N : Said(g[k], n) =
                                     IF j <= k /\ Appends(f, E[j]) THEN Wanted(E, j) ELSE {}}
    <2>0. j \in 1..N /\ \A k \in 1..N : E[k].name = n => k = j
      BY <1>1, <1>11 DEF Proper
    <2>1. 0 \in K
      <3>1. ~(j <= 0) /\ 0 \in 0..N
        BY <1>1, <2>0
      <3>2. Said(g[0], n) = {}
        BY <1>7, SaidOfNone
      <3> QED BY <3>1, <3>2
    <2>2. ASSUME NEW k \in 1..N, k - 1 \in K PROVE k \in K
      <3>1. Said(one(k), n) = IF k = j /\ Appends(f, E[j]) THEN Wanted(E, j) ELSE {}
        BY <1>4, <1>11, <2>0
      <3>2. Said(g[k - 1], n) = IF j <= k - 1 /\ Appends(f, E[j]) THEN Wanted(E, j) ELSE {}
        BY <2>2
      <3>3. j <= k <=> k = j \/ j <= k - 1
        BY <1>1, <2>0
      <3>4. Said(g[k], n) = IF j <= k /\ Appends(f, E[j]) THEN Wanted(E, j) ELSE {}
        BY <1>8, <3>1, <3>2, <3>3
      <3> QED BY <1>1, <3>4
    <2> HIDE DEF K
    <2>3. \A k \in 0..N : k \in K
      BY <1>1, <2>1, <2>2, StepByStep
    <2>4. N \in K /\ j <= N
      BY <1>1, <2>0, <2>3
    <2> QED BY <2>4 DEF K
  <1>12. ASSUME n \notin Names(E)
         PROVE  Said(g[N], n) = {}
    <2> DEFINE K == {k \in 0..N : Said(g[k], n) = {}}
    <2>1. 0 \in K
      BY <1>1, <1>7, SaidOfNone
    <2>2. ASSUME NEW k \in 1..N, k - 1 \in K PROVE k \in K
      <3>1. Said(one(k), n) = {}
        BY <1>1, <1>4, <1>12 DEF Names
      <3> QED BY <1>1, <1>8, <2>2, <3>1
    <2> HIDE DEF K
    <2>3. \A k \in 0..N : k \in K
      BY <1>1, <2>1, <2>2, StepByStep
    <2>4. N \in K
      BY <1>1, <2>3
    <2> QED BY <2>4 DEF K
  <1> QED BY <1>10, <1>11, <1>12 DEF T

\* The new file says what the post says, and of other names what the old one said.
SaysPlanned(S, f, E, n) ==
    /\ Planned(f, E).lines \in Seq(Written(S, E) \cup {Blank, Marker})
    /\ \A j \in DOMAIN E : E[j].name = n => Said(Planned(f, E).lines, n) = Wanted(E, j)
    /\ n \notin Names(E) => Said(Planned(f, E).lines, n) = Said(f.lines, n)

LEMMA PlannedSays ==
    ASSUME NEW S, NEW f, f.lines \in Seq(S), NEW E, Proper(E), NEW n
    PROVE  SaysPlanned(S, f, E, n)
  <1> DEFINE T == Written(S, E) \cup {Blank, Marker}
             body == Body(f, E)
             more == Appended(f, E)
  <1>1. Planned(f, E).lines = body \o more
    BY DEF Planned, File
  <1>2. body \in Seq(T) /\ more \in Seq(T)
    <2>1. body \in Seq(Written(S, E)) /\ more \in Seq(T)
      BY BodySays, AppendedSays
    <2>2. Written(S, E) \subseteq T
      OBVIOUS
    <2> HIDE DEF body, more, T
    <2> QED BY <2>1, <2>2, SeqMonotonic
  <1>3. Said(body \o more, n) = IF Said(more, n) = {} THEN Said(body, n) ELSE Said(more, n)
    <2> HIDE DEF T, body, more
    <2> QED BY <1>2, SaidOfBoth
  <1>4. ASSUME n \notin Names(E)
        PROVE  Said(body, n) = Said(f.lines, n) /\ Said(more, n) = {}
    BY <1>4, BodySays, AppendedSays
  <1>5. ASSUME NEW j \in DOMAIN E, E[j].name = n
        PROVE  Said(body \o more, n) = Wanted(E, j)
    <2> DEFINE At(i) == Replaces(f, E[j], i) \/ Inserts(f, E[j], i)
    <2>1. Said(body, n) = IF \E i \in 1..Len(f.lines) : At(i) THEN Wanted(E, j) ELSE {}
      BY <1>5, BodySays
    <2>2. Said(more, n) = IF Appends(f, E[j]) THEN Wanted(E, j) ELSE {}
      BY <1>5, AppendedSays
    <2>3. CASE Wanted(E, j) = {}
      BY <1>3, <2>1, <2>2, <2>3
    <2>4. CASE Wanted(E, j) # {} /\ ~Appends(f, E[j])
      <3>1. DOMAIN f.lines = 1..Len(f.lines) /\ Len(f.lines) \in Nat /\ E[j].set
        BY <2>4 DEF Wanted
      <3>2. CASE Defines(f, E[j]) # {}
        <4>1. PICK i \in Defines(f, E[j]) : TRUE
          BY <3>2
        <4>2. i \in 1..Len(f.lines) /\ At(i)
          BY <3>1, <4>1 DEF Replaces, Defines, ActiveLines
        <4> QED BY <1>3, <2>1, <2>2, <2>4, <4>2
      <3>3. CASE Defines(f, E[j]) = {}
        <4> DEFINE M == Mentions(f, E[j])
        <4>1. M # {} /\ M \subseteq 1..Len(f.lines)
          BY <2>4, <3>1, <3>3 DEF Appends, Mentions
        <4>2. LastOf(M) \in 1..Len(f.lines)
          <5> HIDE DEF M
          <5> QED BY <3>1, <4>1, LastIs
        <4>3. At(LastOf(M))
          BY <3>1, <3>3, <4>1 DEF Inserts
        <4> HIDE DEF At
        <4> QED BY <1>3, <2>1, <2>2, <2>4, <4>2, <4>3
      <3> QED BY <3>2, <3>3
    <2>5. CASE Wanted(E, j) # {} /\ Appends(f, E[j])
      BY <1>3, <2>2, <2>5
    <2> QED BY <2>3, <2>4, <2>5
  <1>6. body \o more \in Seq(T)
    BY <1>2
  <1> HIDE DEF body, more
  <1> QED BY <1>1, <1>3, <1>4, <1>5, <1>6 DEF SaysPlanned

-----------------------------------------------------------------------------
(* The settings.                                                           *)

\* What a map has for a name: a set of at most one value.
At(settings, n) == IF n \in DOMAIN settings THEN {settings[n]} ELSE {}

LEMMA SettingsAre ==
    ASSUME NEW S, NEW f, f.lines \in Seq(S), NEW n
    PROVE  At(Settings(f), n) = Said(f.lines, n)
  BY SettingsSaid DEF At

LEMMA OverriddenIs ==
    ASSUME NEW m, NEW E, Proper(E), NEW n
    PROVE  /\ Overridden(m, E) = [k \in DOMAIN Overridden(m, E) |-> Overridden(m, E)[k]]
           /\ n \notin Names(E) => At(Overridden(m, E), n) = At(m, n)
           /\ \A j \in DOMAIN E : E[j].name = n => At(Overridden(m, E), n) = Wanted(E, j)
  <1> DEFINE put == {E[j].name : j \in {j \in DOMAIN E : E[j].set}}
             entry(k) == E[CHOOSE j \in DOMAIN E : E[j].name = k]
             o == Overridden(m, E)
  <1>1. o = [k \in (DOMAIN m \ Names(E)) \cup put |->
                IF k \in put THEN entry(k).text ELSE m[k]]
    BY DEF Overridden, Among, Names
  <1>2. DOMAIN o = (DOMAIN m \ Names(E)) \cup put
    BY <1>1
  <1>3. \A k \in DOMAIN o : o[k] = IF k \in put THEN entry(k).text ELSE m[k]
    BY <1>1
  <1> HIDE DEF o
  <1>6. o = [k \in DOMAIN o |-> o[k]]
    BY <1>1
  <1>4. ASSUME n \notin Names(E) PROVE At(o, n) = At(m, n)
    <2>1. n \notin put
      BY <1>4 DEF Names
    <2> QED BY <1>2, <1>3, <1>4, <2>1 DEF At
  <1>5. ASSUME NEW j \in DOMAIN E, E[j].name = n PROVE At(o, n) = Wanted(E, j)
    <2>1. \A k \in DOMAIN E : E[k].name = n => k = j
      BY <1>5 DEF Proper
    <2>2. entry(n) = E[j]
      BY <1>5, <2>1
    <2>3. n \in put <=> E[j].set
      BY <1>5, <2>1
    <2>4. n \in Names(E)
      BY <1>5 DEF Names
    <2> HIDE DEF put, entry
    <2> QED BY <1>2, <1>3, <2>2, <2>3, <2>4 DEF At, Wanted
  <1> QED BY <1>4, <1>5, <1>6 DEF o

\* Maps that have the same for every name are the same.
LEMMA SameMaps ==
    ASSUME NEW m, NEW o, m = [n \in DOMAIN m |-> m[n]], o = [n \in DOMAIN o |-> o[n]],
           \A n : At(m, n) = At(o, n)
    PROVE  m = o
  <1>1. ASSUME NEW n PROVE /\ n \in DOMAIN m <=> n \in DOMAIN o
                           /\ n \in DOMAIN m => m[n] = o[n]
    <2>1. At(m, n) = At(o, n)
      OBVIOUS
    <2> QED BY <2>1 DEF At
  <1>2. DOMAIN m = DOMAIN o
    BY <1>1
  <1> QED BY <1>1, <1>2

\* Whatever the file, with its comments, its other spellings and its repeated
\* keys, and whatever the accepted post: the file that plan_edit makes has the
\* settings of the old one, overridden by the post.
THEOREM EditorEditsTheMap ==
    ASSUME NEW S, NEW f, f.lines \in Seq(S), NEW E, Proper(E)
    PROVE  Settings(Planned(f, E)) = Overridden(Settings(f), E)
  <1>0. ASSUME NEW n PROVE SaysPlanned(S, f, E, n)
    BY PlannedSays
  <1> DEFINE p == Planned(f, E)
             T == Written(S, E) \cup {Blank, Marker}
  <1>1. p.lines \in Seq(T)
    BY <1>0 DEF SaysPlanned
  <1> DEFINE m == Settings(f)
             o == Overridden(m, E)
  <1>2. ASSUME NEW n PROVE At(Settings(p), n) = At(o, n)
    <2>1. At(Settings(p), n) = Said(p.lines, n)
      <3> HIDE DEF T, p
      <3> QED BY <1>1, SettingsAre
    <2>0. /\ \A j \in DOMAIN E : E[j].name = n => Said(p.lines, n) = Wanted(E, j)
          /\ n \notin Names(E) => Said(p.lines, n) = Said(f.lines, n)
      BY <1>0 DEF SaysPlanned
    <2>2. At(m, n) = Said(f.lines, n)
      BY SettingsAre
    <2>3. CASE n \notin Names(E)
      <3>1. Said(p.lines, n) = Said(f.lines, n)
        BY <2>0, <2>3
      <3>2. At(o, n) = At(m, n)
        <4> HIDE DEF m
        <4> QED BY <2>3, OverriddenIs
      <3> QED BY <2>1, <2>2, <3>1, <3>2
    <2>4. ASSUME NEW j \in DOMAIN E, E[j].name = n
          PROVE  At(Settings(p), n) = At(o, n)
      <3>1. Said(p.lines, n) = Wanted(E, j)
        BY <2>0, <2>4
      <3>2. At(o, n) = Wanted(E, j)
        <4> HIDE DEF m
        <4> QED BY <2>4, OverriddenIs
      <3> QED BY <2>1, <3>1, <3>2
    <2> QED BY <2>3, <2>4 DEF Names
  <1>3. Settings(p) = [n \in DOMAIN Settings(p) |-> Settings(p)[n]]
    BY DEF Settings
  <1>4. o = [n \in DOMAIN o |-> o[n]]
    <2> HIDE DEF m
    <2> QED BY OverriddenIs
  <1> HIDE DEF p, o
  <1>5. Settings(p) = o
    BY <1>2, <1>3, <1>4, SameMaps
  <1> QED BY <1>5 DEF p, o

-----------------------------------------------------------------------------
(* The lines that define nothing.                                          *)

LEMMA RemarksOfItself == \A f : KeepsRemarks(f, f)
  <1> SUFFICES ASSUME NEW f PROVE KeepsRemarks(f, f)
    OBVIOUS
  <1> DEFINE at == [i \in Remarks(f) |-> i]
  <1>1. at \in [Remarks(f) -> DOMAIN f.lines]
    BY DEF Remarks
  <1>2. \A i \in Remarks(f) : at[i] = i
    OBVIOUS
  <1> HIDE DEF at
  <1> QED BY <1>1, <1>2 DEF KeepsRemarks

LEMMA RemarksThroughBoth ==
    ASSUME NEW f, NEW g, NEW h, KeepsRemarks(f, g), KeepsRemarks(g, h)
    PROVE  KeepsRemarks(f, h)
  <1>1. PICK a \in [Remarks(f) -> DOMAIN g.lines] :
            /\ \A i \in Remarks(f) : g.lines[a[i]] = f.lines[i]
            /\ \A i, j \in Remarks(f) : i < j => a[i] < a[j]
    BY DEF KeepsRemarks
  <1>2. PICK b \in [Remarks(g) -> DOMAIN h.lines] :
            /\ \A i \in Remarks(g) : h.lines[b[i]] = g.lines[i]
            /\ \A i, j \in Remarks(g) : i < j => b[i] < b[j]
    BY DEF KeepsRemarks
  <1> DEFINE at == [i \in Remarks(f) |-> b[a[i]]]
  <1>3. \A i \in Remarks(f) : a[i] \in Remarks(g)
    BY <1>1 DEF Remarks
  <1>4. at \in [Remarks(f) -> DOMAIN h.lines] /\ \A i \in Remarks(f) : at[i] = b[a[i]]
    BY <1>2, <1>3
  <1> HIDE DEF at
  <1>5. \A i \in Remarks(f) : h.lines[at[i]] = f.lines[i]
    BY <1>1, <1>2, <1>3, <1>4
  <1>6. \A i, j \in Remarks(f) : i < j => at[i] < at[j]
    BY <1>1, <1>2, <1>3, <1>4
  <1> QED BY <1>4, <1>5, <1>6 DEF KeepsRemarks

LEMMA EmittedRemark ==
    ASSUME NEW S, NEW f, f.lines \in Seq(S), NEW E, Proper(E), NEW i \in Remarks(f)
    PROVE  /\ Emitted(f, E, i) \in Seq(Written(S, E))
           /\ Len(Emitted(f, E, i)) \in Nat /\ Len(Emitted(f, E, i)) >= 1
           /\ Emitted(f, E, i)[1] = f.lines[i]
  <1> DEFINE owner == {j \in DOMAIN E : Replaces(f, E[j], i)}
             below == {j \in DOMAIN E : Inserts(f, E[j], i)}
             l == f.lines[i]
             line == <<l>>
             more == IF below = {} THEN <<>> ELSE <<Render(E[LastOf(below)])>>
             T == Written(S, E)
  <1>1. i \in 1..Len(f.lines) /\ l.kind # "active" /\ l \in T
    BY DEF Remarks, Written
  <1>2. owner = {}
    BY <1>1, OneEntryEach DEF Says
  <1>3. Emitted(f, E, i) = line \o more
    BY <1>2 DEF Emitted, Among
  <1>4. more \in Seq(T)
    <2>1. CASE below = {}
      BY <2>1
    <2>2. CASE below # {}
      <3>1. below \subseteq 1..Len(E) /\ Len(E) \in Nat
        BY DEF Proper
      <3>2. LastOf(below) \in below
        <4> HIDE DEF below
        <4> QED BY <2>2, <3>1, LastIs
      <3>3. Render(E[LastOf(below)]) \in T
        BY <3>2 DEF Written
      <3> HIDE DEF T, below
      <3> QED BY <2>2, <3>3
    <2> QED BY <2>1, <2>2
  <1>5. line \in Seq(T) /\ Len(line) = 1 /\ line[1] = l
    BY <1>1
  <1> HIDE DEF line, more, T, l
  <1>6. line \o more \in Seq(T) /\ Len(line \o more) >= 1 /\ Len(line \o more) \in Nat
        /\ (line \o more)[1] = l
    <2>0. line \in Seq(T) /\ more \in Seq(T)
      BY <1>4, <1>5
    <2>1. /\ line \o more \in Seq(T) /\ Len(line \o more) = Len(line) + Len(more)
          /\ \A x \in 1..Len(line) : (line \o more)[x] = line[x]
      BY <2>0, ConcatProperties
    <2>2. 1 \in 1..Len(line) /\ Len(more) \in Nat
      BY <1>5, <2>0
    <2> QED BY <1>5, <2>1, <2>2
  <1> QED BY <1>3, <1>6 DEF T, l

\* Every line that defines nothing is still there, and in its place.
LEMMA PlannedKeepsRemarks ==
    ASSUME NEW S, NEW f, f.lines \in Seq(S), NEW E, Proper(E)
    PROVE  KeepsRemarks(f, Planned(f, E))
  <1> DEFINE N == Len(f.lines)
             T == Written(S, E)
             em == [i \in DOMAIN f.lines |-> Emitted(f, E, i)]
             more == Appended(f, E)
             body == Body(f, E)
  <1>1. N \in Nat /\ DOMAIN f.lines = 1..N /\ Remarks(f) \subseteq 1..N
    BY DEF Remarks
  <1>2. em \in Seq(Seq(T)) /\ Len(em) = N /\ \A i \in 1..N : em[i] = Emitted(f, E, i)
    <2>1. \A i \in 1..N : Emitted(f, E, i) \in Seq(T)
      BY EmittedSays
    <2> QED BY <1>1, <2>1, IsASeq
  <1>3. body = FlattenSeq(em)
    BY DEF Body
  <1>4. Planned(f, E).lines = body \o more
    BY DEF Planned, File
  <1>5. more \in Seq(T \cup {Blank, Marker})
    BY AppendedSays
  <1>6. \A i \in Remarks(f) : /\ em[i] \in Seq(T) /\ Len(em[i]) \in Nat /\ Len(em[i]) >= 1
                              /\ em[i][1] = f.lines[i]
    <2> SUFFICES ASSUME NEW i \in Remarks(f)
                 PROVE  /\ em[i] \in Seq(T) /\ Len(em[i]) \in Nat /\ Len(em[i]) >= 1
                        /\ em[i][1] = f.lines[i]
      OBVIOUS
    <2>1. em[i] = Emitted(f, E, i)
      BY <1>1, <1>2
    <2>2. /\ Emitted(f, E, i) \in Seq(Written(S, E))
          /\ Len(Emitted(f, E, i)) \in Nat /\ Len(Emitted(f, E, i)) >= 1
          /\ Emitted(f, E, i)[1] = f.lines[i]
      BY EmittedRemark
    <2> HIDE DEF em
    <2> QED BY <2>1, <2>2
  <1> HIDE DEF N, T, em, more, body
  <1>7. PICK g \in [0..N -> Seq(T)] : Flattens(g, em, N) /\ FlattenSeq(em) = g[N]
    BY <1>2, FlattenSteps
  <1>8. /\ \A i \in 1..N : g[i] = g[i - 1] \o em[i] /\ em[i] \in Seq(T) /\ i - 1 \in 0..N
        /\ \A i \in 0..N : g[i] \in Seq(T) /\ Len(g[i]) \in Nat
    <2>1. \A i \in 1..N : g[i] = g[i - 1] \o em[i]
      BY <1>7 DEF Flattens
    <2>2. \A i \in 1..N : em[i] \in Seq(T) /\ i - 1 \in 0..N
      BY <1>1, <1>2
    <2>3. \A i \in 0..N : g[i] \in Seq(T)
      BY <1>7
    <2>4. \A q \in Seq(T) : Len(q) \in Nat
      OBVIOUS
    <2> QED BY <2>1, <2>2, <2>3, <2>4
  <1>9. ASSUME NEW i \in 1..N
        PROVE  /\ Len(g[i]) = Len(g[i - 1]) + Len(em[i]) /\ Len(em[i]) \in Nat
               /\ \A x \in 1..Len(g[i - 1]) : g[i][x] = g[i - 1][x]
               /\ \A x \in 1..Len(em[i]) : g[i][Len(g[i - 1]) + x] = em[i][x]
    <2> DEFINE p == g[i - 1]
               r == em[i]
    <2>1. p \in Seq(T) /\ r \in Seq(T) /\ g[i] = p \o r
      BY <1>8
    <2> HIDE DEF p, r
    <2>2. /\ Len(p \o r) = Len(p) + Len(r) /\ Len(r) \in Nat
          /\ \A x \in 1..Len(p) : (p \o r)[x] = p[x]
          /\ \A x \in 1..Len(r) : (p \o r)[Len(p) + x] = r[x]
      BY <2>1, ConcatProperties
    <2> QED BY <2>1, <2>2 DEF p, r
  <1>10. ASSUME NEW i \in 0..N, NEW k \in 0..N, i <= k
         PROVE  Len(g[i]) <= Len(g[k]) /\ \A x \in 1..Len(g[i]) : g[k][x] = g[i][x]
    <2> DEFINE K == {m \in 0..N : i <= m => /\ Len(g[i]) <= Len(g[m])
                                            /\ \A x \in 1..Len(g[i]) : g[m][x] = g[i][x]}
    <2>1. 0 \in K
      <3>1. 0 \in 0..N /\ (i <= 0 => i = 0)
        BY <1>1
      <3> QED BY <1>8, <3>1
    <2>2. ASSUME NEW m \in 1..N, m - 1 \in K PROVE m \in K
      <3>1. m \in 0..N /\ m - 1 \in 0..N /\ (i <= m => i = m \/ i <= m - 1)
        BY <1>1
      <3>2. CASE i = m
        BY <1>8, <3>1, <3>2
      <3>3. CASE i <= m - 1
        <4>1. Len(g[i]) <= Len(g[m - 1]) /\ \A x \in 1..Len(g[i]) : g[m - 1][x] = g[i][x]
          BY <2>2, <3>3
        <4>2. /\ Len(g[i]) \in Nat /\ Len(g[m - 1]) \in Nat /\ Len(g[m]) \in Nat
              /\ Len(g[m - 1]) <= Len(g[m])
              /\ \A x \in 1..Len(g[m - 1]) : g[m][x] = g[m - 1][x]
          <5>1. Len(g[i]) \in Nat /\ Len(g[m - 1]) \in Nat /\ Len(g[m]) \in Nat
            BY <1>8, <3>1
          <5>2. /\ Len(g[m]) = Len(g[m - 1]) + Len(em[m]) /\ Len(em[m]) \in Nat
                /\ \A x \in 1..Len(g[m - 1]) : g[m][x] = g[m - 1][x]
            BY <1>9
          <5>3. \A x, y, z \in Nat : z = x + y => x <= z
            OBVIOUS
          <5>4. Len(g[m - 1]) <= Len(g[m])
            BY <5>1, <5>2, <5>3
          <5> QED BY <5>1, <5>2, <5>4
        <4>3. Len(g[i]) <= Len(g[m]) /\ \A x \in 1..Len(g[i]) : g[m][x] = g[i][x]
          BY <4>1, <4>2
        <4> QED BY <3>1, <4>3
      <3> QED BY <3>1, <3>2, <3>3
    <2> HIDE DEF K
    <2>3. \A m \in 0..N : m \in K
      BY <1>1, <2>1, <2>2, StepByStep
    <2>4. k \in K
      BY <2>3
    <2> QED BY <1>10, <2>4 DEF K
  <1> DEFINE at == [i \in Remarks(f) |-> Len(g[i - 1]) + 1]
  <1>11. ASSUME NEW i \in Remarks(f)
         PROVE  /\ at[i] = Len(g[i - 1]) + 1 /\ at[i] \in 1..Len(body)
                /\ at[i] <= Len(g[i]) /\ body[at[i]] = f.lines[i]
    <2>1. i \in 1..N /\ i \in 0..N /\ i - 1 \in 0..N /\ N \in 0..N /\ i <= N
      BY <1>1
    <2>2. /\ Len(g[i - 1]) \in Nat /\ Len(g[i]) \in Nat /\ Len(g[N]) \in Nat
          /\ at[i] = Len(g[i - 1]) + 1 /\ at[i] <= Len(g[i]) /\ at[i] \in 1..Len(g[i])
      <3>1. Len(g[i - 1]) \in Nat /\ Len(g[i]) \in Nat /\ Len(g[N]) \in Nat
        BY <1>8, <2>1
      <3>2. Len(g[i]) = Len(g[i - 1]) + Len(em[i])
        BY <1>9, <2>1
      <3>3. Len(em[i]) \in Nat /\ Len(em[i]) >= 1
        BY <1>6
      <3>4. at[i] = Len(g[i - 1]) + 1
        OBVIOUS
      <3>5. \A x, y, z \in Nat : z = x + y /\ y >= 1 => x + 1 <= z /\ x + 1 \in 1..z
        OBVIOUS
      <3>6. Len(g[i - 1]) + 1 <= Len(g[i]) /\ Len(g[i - 1]) + 1 \in 1..Len(g[i])
        BY <3>1, <3>2, <3>3, <3>5
      <3> HIDE DEF at
      <3> QED BY <3>1, <3>4, <3>6
    <2>3. g[i][at[i]] = f.lines[i]
      <3>1. 1 \in 1..Len(em[i])
        BY <1>6
      <3> QED BY <1>6, <1>9, <2>1, <2>2, <3>1
    <2>4. Len(g[i]) <= Len(g[N]) /\ g[N][at[i]] = g[i][at[i]]
      BY <1>10, <2>1, <2>2
    <2> QED BY <1>3, <1>7, <2>2, <2>3, <2>4
  <1>12. ASSUME NEW i \in Remarks(f), NEW j \in Remarks(f), i < j
         PROVE  at[i] < at[j]
    <2>1. i \in 0..N /\ j \in 1..N /\ j - 1 \in 0..N /\ i <= j - 1
      BY <1>1, <1>12
    <2>2. Len(g[i]) <= Len(g[j - 1])
      BY <1>10, <2>1
    <2>3. Len(g[i]) \in Nat /\ Len(g[j - 1]) \in Nat
      BY <1>8, <2>1
    <2>4. at[i] <= Len(g[i]) /\ at[i] \in Nat /\ at[j] = Len(g[j - 1]) + 1
      BY <1>11
    <2> HIDE DEF at
    <2> QED BY <2>2, <2>3, <2>4
  <1>13. at \in [Remarks(f) -> 1..Len(body)]
    BY <1>11
  <1> HIDE DEF at
  <1>14. /\ DOMAIN (body \o more) = 1..Len(body \o more)
         /\ 1..Len(body) \subseteq 1..Len(body \o more)
         /\ \A x \in 1..Len(body) : (body \o more)[x] = body[x]
    <2> DEFINE W == T \cup {Blank, Marker}
    <2>1. body \in Seq(W)
      <3>1. body \in Seq(T) /\ T \subseteq W
        BY <1>1, <1>3, <1>7
      <3> HIDE DEF W
      <3> QED BY <3>1, SeqMonotonic
    <2>2. more \in Seq(W)
      BY <1>5
    <2> HIDE DEF W
    <2>3. /\ body \o more \in Seq(W) /\ Len(body \o more) = Len(body) + Len(more)
          /\ Len(body) \in Nat /\ Len(more) \in Nat
          /\ \A x \in 1..Len(body) : (body \o more)[x] = body[x]
      BY <2>1, <2>2, ConcatProperties
    <2> QED BY <2>3
  <1> QED BY <1>4, <1>11, <1>12, <1>13, <1>14 DEF KeepsRemarks

\* The settings of the new file, a name at a time.
LEMMA PlannedSettings ==
    ASSUME NEW S, NEW f, f.lines \in Seq(S), NEW E, Proper(E), NEW n
    PROVE  At(Settings(Planned(f, E)), n)
               = At(IF n \in Names(E) THEN Overridden(<<>>, E) ELSE Settings(f), n)
  <1> DEFINE m == Settings(f)
             none == <<>>
  <1>1. Settings(Planned(f, E)) = Overridden(m, E)
    BY EditorEditsTheMap
  <1> HIDE DEF m, none
  <1>2. CASE n \notin Names(E)
    <2>1. At(Overridden(m, E), n) = At(m, n)
      BY <1>2, OverriddenIs
    <2> QED BY <1>1, <1>2, <2>1 DEF m
  <1>3. ASSUME NEW j \in DOMAIN E, E[j].name = n
        PROVE  At(Overridden(m, E), n) = At(Overridden(none, E), n)
    <2>1. At(Overridden(m, E), n) = Wanted(E, j)
      BY <1>3, OverriddenIs
    <2>2. At(Overridden(none, E), n) = Wanted(E, j)
      BY <1>3, OverriddenIs
    <2> QED BY <2>1, <2>2
  <1>4. CASE n \in Names(E)
    <2>1. At(Overridden(m, E), n) = At(Overridden(none, E), n)
      BY <1>3, <1>4 DEF Names
    <2> QED BY <1>1, <1>4, <2>1 DEF none
  <1> QED BY <1>2, <1>4

-----------------------------------------------------------------------------
(* Posts.                                                                  *)

LEMMA CoercedIsText ==
    ASSUME NEW W, NEW v, v.parts \in Seq(Seq(W))
    PROVE  Coerced(v) \in Seq(W)
  <1>1. PICK g \in [0..Len(v.parts) -> Seq(W)] : FlattenSeq(v.parts) = g[Len(v.parts)]
    BY FlattenSteps
  <1>2. Len(v.parts) \in 0..Len(v.parts)
    OBVIOUS
  <1> QED BY <1>1, <1>2 DEF Coerced

\* The entries of a post that is not refused are proper ones.
LEMMA EntriesAreProper ==
    ASSUME NEW X, NEW us \in Seq(X), Rejected(us) = {},
           \A i \in 1..Len(us) : us[i].value # Null => IsText(Coerced(us[i].value))
    PROVE  Proper(Entries(us))
  <1> DEFINE E == Entries(us)
  <1>1. /\ DOMAIN E = DOMAIN us /\ DOMAIN us = 1..Len(us) /\ Len(us) \in Nat
        /\ \A i \in DOMAIN us :
              /\ E[i].name = us[i].key.name
              /\ E[i].set = (us[i].value # Null)
              /\ us[i].value # Null => E[i].text = Coerced(us[i].value)
    BY DEF Entries
  <1>2. E \in Seq({E[j] : j \in DOMAIN E})
    <2>1. E = [i \in 1..Len(us) |-> E[i]]
      BY <1>1 DEF Entries
    <2> HIDE DEF E
    <2> QED BY <1>1, <2>1, IsASeq
  <1> HIDE DEF E
  <1>3. ASSUME NEW i \in DOMAIN E, NEW j \in DOMAIN E, E[i].name = E[j].name PROVE i = j
    <2>1. i \notin Rejected(us) /\ j \notin Rejected(us)
      OBVIOUS
    <2>2. ~Collides(us, i) /\ GoodKey(us[j].key)
      BY <1>1, <2>1 DEF Rejected
    <2> QED BY <1>1, <1>3, <2>2 DEF Collides
  <1>4. ASSUME NEW j \in DOMAIN E
        PROVE  E[j].set \in BOOLEAN /\ (E[j].set => IsText(E[j].text))
    BY <1>1
  <1> QED BY <1>2, <1>3, <1>4 DEF Proper, E

-----------------------------------------------------------------------------
(* The lines of the new file.                                              *)

LEMMA LinesFlattened ==
    ASSUME NEW G, NEW q \in Seq(Seq(G))
    PROVE  FlattenSeq(q) \in Seq(G)
  <1> DEFINE v == Json("array", q)
  <1>1. v.parts = q /\ Coerced(v) = FlattenSeq(q)
    BY DEF Json, Coerced
  <1> HIDE DEF v
  <1>2. v.parts \in Seq(Seq(G))
    BY <1>1
  <1>3. Coerced(v) \in Seq(G)
    BY <1>2, CoercedIsText
  <1> QED BY <1>1, <1>3

LEMMA EmittedIn ==
    ASSUME NEW S, NEW f, f.lines \in Seq(S), NEW E, Proper(E), NEW i \in 1..Len(f.lines), NEW G,
           (\A j \in DOMAIN E : ~Replaces(f, E[j], i)) => f.lines[i] \in G,
           \A j \in DOMAIN E : Replaces(f, E[j], i) \/ Inserts(f, E[j], i) => Render(E[j]) \in G
    PROVE  Emitted(f, E, i) \in Seq(G)
  <1> DEFINE owner == {k \in DOMAIN E : Replaces(f, E[k], i)}
             below == {k \in DOMAIN E : Inserts(f, E[k], i)}
             line == IF owner = {} THEN <<f.lines[i]>> ELSE <<Render(E[LastOf(owner)])>>
             more == IF below = {} THEN <<>> ELSE <<Render(E[LastOf(below)])>>
  <1>1. Emitted(f, E, i) = line \o more
    BY DEF Emitted, Among
  <1>2. owner \subseteq 1..Len(E) /\ below \subseteq 1..Len(E) /\ Len(E) \in Nat
    BY DEF Proper
  <1>3. line \in Seq(G)
    <2>1. CASE owner = {}
      <3>1. f.lines[i] \in G
        BY <2>1
      <3> QED BY <2>1, <3>1
    <2>2. CASE owner # {}
      <3>1. LastOf(owner) \in owner
        <4> HIDE DEF owner
        <4> QED BY <1>2, <2>2, LastIs
      <3>2. Render(E[LastOf(owner)]) \in G
        BY <3>1
      <3> HIDE DEF owner
      <3> QED BY <2>2, <3>2
    <2> QED BY <2>1, <2>2
  <1>4. more \in Seq(G)
    <2>1. CASE below = {}
      BY <2>1
    <2>2. CASE below # {}
      <3>1. LastOf(below) \in below
        <4> HIDE DEF below
        <4> QED BY <1>2, <2>2, LastIs
      <3>2. Render(E[LastOf(below)]) \in G
        BY <3>1
      <3> HIDE DEF below
      <3> QED BY <2>2, <3>2
    <2> QED BY <2>1, <2>2
  <1> HIDE DEF line, more
  <1> QED BY <1>1, <1>3, <1>4

\* What holds of the lines that no entry replaces, of those of the entries, and of
\* the marker, holds of all lines.
LEMMA PlannedIn ==
    ASSUME NEW S, NEW f, f.lines \in Seq(S), NEW E, Proper(E), NEW G,
           \A i \in 1..Len(f.lines) :
              (\A j \in DOMAIN E : ~Replaces(f, E[j], i)) => f.lines[i] \in G,
           \A j \in DOMAIN E : Render(E[j]) \in G,
           Blank \in G, Marker \in G
    PROVE  Planned(f, E).lines \in Seq(G)
  <1> DEFINE N == Len(f.lines)
             em == [i \in DOMAIN f.lines |-> Emitted(f, E, i)]
             one(j) == IF Appends(f, E[j]) THEN <<Render(E[j])>> ELSE <<>>
             each == [j \in DOMAIN E |-> one(j)]
             lead == IF f.lines = <<>> THEN <<>> ELSE <<Blank>>
             mark == IF Marker \in ToSet(f.lines) THEN <<>> ELSE Append(lead, Marker)
             body == FlattenSeq(em)
             missing == FlattenSeq(each)
             more == IF missing = <<>> THEN <<>> ELSE mark \o missing
  <1>1. Planned(f, E).lines = body \o more
    BY DEF Planned, File, Body, Appended
  <1>2. body \in Seq(G)
    <2>1. \A i \in 1..N : Emitted(f, E, i) \in Seq(G)
      BY EmittedIn
    <2>2. em \in Seq(Seq(G))
      <3>1. N \in Nat /\ DOMAIN f.lines = 1..N
        OBVIOUS
      <3> QED BY <2>1, <3>1, IsASeq
    <2> HIDE DEF em
    <2> QED BY <2>2, LinesFlattened
  <1>3. missing \in Seq(G)
    <2>1. \A j \in 1..Len(E) : one(j) \in Seq(G)
      <3> SUFFICES ASSUME NEW j \in 1..Len(E) PROVE one(j) \in Seq(G)
        OBVIOUS
      <3>1. Render(E[j]) \in G
        BY DEF Proper
      <3> QED BY <3>1
    <2>2. each \in Seq(Seq(G))
      <3>1. Len(E) \in Nat /\ DOMAIN E = 1..Len(E)
        BY DEF Proper
      <3> HIDE DEF one
      <3> QED BY <2>1, <3>1, IsASeq
    <2> HIDE DEF each
    <2> QED BY <2>2, LinesFlattened
  <1>4. mark \in Seq(G)
    OBVIOUS
  <1> HIDE DEF body, missing, mark
  <1>5. more \in Seq(G)
    BY <1>3, <1>4
  <1> HIDE DEF more
  <1> QED BY <1>1, <1>2, <1>5

IsLine(line) == IsText(line.text) /\ (~line.quoted => \A w \in ToSet(line.text) : w[2] = 0)

\* The new file is a file, and whole if the old one was.
LEMMA PlannedIsFile ==
    ASSUME NEW f, IsFile(f), NEW E, Proper(E)
    PROVE  IsFile(Planned(f, E)) /\ (f.eol # Torn.eol => Planned(f, E).eol # Torn.eol)
  <1> DEFINE p == Planned(f, E)
             S == ToSet(f.lines)
             G == {line \in Written(S, E) \cup {Blank, Marker} : IsLine(line)}
  <1>1. f.lines \in Seq(S) /\ \A i \in 1..Len(f.lines) : f.lines[i] \in S /\ f.lines[i] \in G
    <2>1. f.lines \in Seq(S) /\ \A line \in S : IsLine(line)
      BY DEF IsFile, IsLine
    <2> HIDE DEF S
    <2> QED BY <2>1 DEF Written
  <1>2. \A j \in DOMAIN E : Render(E[j]) \in G
    <2> SUFFICES ASSUME NEW j \in DOMAIN E PROVE IsLine(Render(E[j]))
      BY DEF Written
    <2>1. CASE E[j].set
      <3>1. /\ Render(E[j]).text = Escape(E[j].text) /\ IsText(E[j].text)
            /\ Render(E[j]).quoted = TRUE
        BY <2>1 DEF Render, Setting, Proper
      <3> QED BY <3>1, EscapedIsText DEF IsLine
    <2>2. CASE ~E[j].set
      <3>1. Render(E[j]).text = <<>>
        BY <2>2 DEF Render, Comment
      <3> QED BY <3>1, NoWordsAreText DEF IsLine, ToSet
    <2> QED BY <2>1, <2>2
  <1>3. Blank \in G /\ Marker \in G
    <2>1. ASSUME NEW kind PROVE IsLine(Plain(kind))
      <3>1. Plain(kind).text = <<>>
        BY DEF Plain
      <3> QED BY <3>1, NoWordsAreText DEF IsLine, ToSet
    <2> QED BY <2>1 DEF Blank, Marker
  <1>4. DOMAIN p = {"lines", "eol", "ended"}
    BY DEF Planned, File
  <1>5. p.eol = IF f.eol = "mixed" THEN "crlf" ELSE f.eol
    BY DEF Planned, File
  <1>6. Torn.eol = "torn"
    BY DEF Torn, File
  <1>7. \A line \in G : IsLine(line)
    OBVIOUS
  <1> HIDE DEF S, G
  <1>8. p.lines \in Seq(G)
    BY <1>1, <1>2, <1>3, PlannedIn
  <1> HIDE DEF p
  <1>9. p.lines \in Seq(ToSet(p.lines)) /\ \A line \in ToSet(p.lines) : line \in G
    BY <1>8, SequenceOfItsOwn DEF ToSet
  <1> QED BY <1>4, <1>5, <1>6, <1>7, <1>9 DEF p, IsFile, IsLine

LEMMA DefinesAre ==
    ASSUME NEW S, NEW f, f.lines \in Seq(S), NEW e
    PROVE  /\ Defines(f, e) = Definitions(f.lines, e.name)
           /\ \A i : Replaces(f, e, i) <=> i \in 1..Len(f.lines) /\ Says(f.lines[i], e.name)
  BY DEF Defines, ActiveLines, Definitions, Says, Replaces

\* Every line of the new file that says something of a key of the post says what
\* the post does.
LEMMA PlannedLines ==
    ASSUME NEW S, NEW f, f.lines \in Seq(S), NEW E, Proper(E), NEW j \in DOMAIN E,
           NEW i \in DOMAIN Planned(f, E).lines, Says(Planned(f, E).lines[i], E[j].name)
    PROVE  Planned(f, E).lines[i] = Render(E[j])
  <1> DEFINE W == Written(S, E) \cup {Blank, Marker}
             G == {l \in W : Says(l, E[j].name) => l = Render(E[j])}
             p == Planned(f, E)
  <1>1. ASSUME NEW x \in 1..Len(f.lines), \A k \in DOMAIN E : ~Replaces(f, E[k], x)
        PROVE  f.lines[x] \in G
    <2>1. f.lines[x] \in W
      BY DEF Written
    <2>2. ~Says(f.lines[x], E[j].name)
      BY <1>1, OneEntryEach
    <2> QED BY <2>1, <2>2
  <1>2. ASSUME NEW k \in DOMAIN E PROVE Render(E[k]) \in G
    <2>1. Render(E[k]) \in W
      BY DEF Written
    <2>2. Says(Render(E[k]), E[j].name) => k = j
      <3>1. Says(Render(E[k]), E[j].name) => E[k].name = E[j].name
        BY DEF Says, Render, Setting, Comment
      <3> QED BY <3>1 DEF Proper
    <2> QED BY <2>1, <2>2
  <1>3. Blank \in G /\ Marker \in G
    BY DEF Says, Blank, Marker, Plain
  <1> HIDE DEF G
  <1>4. p.lines \in Seq(G)
    BY <1>1, <1>2, <1>3, PlannedIn
  <1> HIDE DEF p
  <1>5. \A x \in DOMAIN p.lines : p.lines[x] \in G
    BY <1>4
  <1> QED BY <1>5 DEF p, G

LEMMA AllEmpty ==
    ASSUME NEW S, NEW q \in Seq(Seq(S)), \A i \in 1..Len(q) : q[i] = <<>>
    PROVE  FlattenSeq(q) = <<>>
  <1>1. PICK g \in [0..Len(q) -> Seq(S)] : Flattens(g, q, Len(q)) /\ FlattenSeq(q) = g[Len(q)]
    BY FlattenSteps
  <1> DEFINE N == Len(q)
             K == {k \in 0..N : g[k] = <<>>}
  <1>2. N \in Nat /\ 0 \in K
    BY <1>1 DEF Flattens
  <1>3. ASSUME NEW k \in 1..N, k - 1 \in K PROVE k \in K
    <2>1. g[k] = g[k - 1] \o q[k] /\ g[k - 1] = <<>> /\ q[k] = <<>>
      BY <1>1, <1>3 DEF Flattens
    <2>2. k \in 0..N
      BY <1>2
    <2> QED BY <2>1, <2>2
  <1> HIDE DEF K
  <1>4. N \in K
    <2> HIDE DEF N
    <2>1. \A k \in 0..N : k \in K
      BY <1>2, <1>3, StepByStep
    <2> QED BY <1>2, <2>1
  <1> QED BY <1>1, <1>4 DEF K

LEMMA AllSingle ==
    ASSUME NEW S, NEW lines \in Seq(S), NEW q \in Seq(Seq(S)), Len(q) = Len(lines),
           \A i \in 1..Len(q) : q[i] = <<lines[i]>>
    PROVE  FlattenSeq(q) = lines
  <1>1. PICK g \in [0..Len(q) -> Seq(S)] : Flattens(g, q, Len(q)) /\ FlattenSeq(q) = g[Len(q)]
    BY FlattenSteps
  <1> DEFINE N == Len(q)
             K == {k \in 0..N : g[k] = Prefix(lines, k)}
  <1>2. N \in Nat /\ 0 \in K
    BY <1>1 DEF Flattens, Prefix
  <1>3. ASSUME NEW k \in 1..N, k - 1 \in K PROVE k \in K
    <2>1. g[k] = g[k - 1] \o q[k] /\ g[k - 1] = Prefix(lines, k - 1) /\ q[k] = <<lines[k]>>
      BY <1>1, <1>3 DEF Flattens
    <2>2. Prefix(lines, k) = Prefix(lines, k - 1) \o <<lines[k]>>
      BY PrefixGrows
    <2>3. k \in 0..N
      BY <1>2
    <2> QED BY <2>1, <2>2, <2>3
  <1> HIDE DEF K
  <1>4. N \in K
    <2> HIDE DEF N
    <2>1. \A k \in 0..N : k \in K
      BY <1>2, <1>3, StepByStep
    <2> QED BY <1>2, <2>1
  <1>5. Prefix(lines, N) = lines
    BY DEF Prefix
  <1> QED BY <1>1, <1>4, <1>5 DEF K

\* A file in which the post has nothing to do is left as it is.
LEMMA PlannedOfSettled ==
    ASSUME NEW S, NEW f, f.lines \in Seq(S), NEW E, Proper(E),
           \A i \in 1..Len(f.lines), j \in DOMAIN E :
              /\ Replaces(f, E[j], i) => Render(E[j]) = f.lines[i]
              /\ ~Inserts(f, E[j], i),
           \A j \in DOMAIN E : ~Appends(f, E[j])
    PROVE  Planned(f, E).lines = f.lines
  <1> DEFINE N == Len(f.lines)
             em == [i \in DOMAIN f.lines |-> Emitted(f, E, i)]
             each == [j \in DOMAIN E |-> IF Appends(f, E[j]) THEN <<Render(E[j])>> ELSE <<>>]
  <1>1. N \in Nat /\ DOMAIN f.lines = 1..N
    OBVIOUS
  <1>2. ASSUME NEW i \in 1..N PROVE Emitted(f, E, i) = <<f.lines[i]>>
    <2> DEFINE owner == {k \in DOMAIN E : Replaces(f, E[k], i)}
               below == {k \in DOMAIN E : Inserts(f, E[k], i)}
               line == IF owner = {} THEN <<f.lines[i]>> ELSE <<Render(E[LastOf(owner)])>>
    <2>1. below = {}
      OBVIOUS
    <2>2. Emitted(f, E, i) = line \o <<>>
      BY <2>1 DEF Emitted, Among
    <2>3. line = <<f.lines[i]>>
      <3>1. CASE owner # {}
        <4>1. owner \subseteq 1..Len(E) /\ Len(E) \in Nat
          BY DEF Proper
        <4>2. LastOf(owner) \in owner
          <5> HIDE DEF owner
          <5> QED BY <3>1, <4>1, LastIs
        <4>3. Render(E[LastOf(owner)]) = f.lines[i]
          BY <4>2
        <4> QED BY <3>1, <4>3
      <3> QED BY <3>1
    <2> HIDE DEF line
    <2> QED BY <2>2, <2>3
  <1>3. em \in Seq(Seq(S)) /\ Len(em) = N /\ \A i \in 1..N : em[i] = <<f.lines[i]>>
    <2>1. \A i \in 1..N : Emitted(f, E, i) \in Seq(S)
      <3> SUFFICES ASSUME NEW i \in 1..N PROVE Emitted(f, E, i) \in Seq(S)
        OBVIOUS
      <3>1. f.lines[i] \in S /\ Emitted(f, E, i) = <<f.lines[i]>>
        BY <1>2
      <3>2. \A l \in S : <<l>> \in Seq(S)
        OBVIOUS
      <3> QED BY <3>1, <3>2
    <2>2. em \in Seq(Seq(S)) /\ Len(em) = N
      BY <1>1, <2>1, IsASeq
    <2> QED BY <1>1, <1>2, <2>2
  <1>4. each \in Seq(Seq(S)) /\ \A j \in 1..Len(each) : each[j] = <<>>
    <2>1. Len(E) \in Nat /\ DOMAIN E = 1..Len(E)
      BY DEF Proper
    <2>2. <<>> \in Seq(S) /\ \A j \in 1..Len(E) : each[j] = <<>>
      BY <2>1
    <2>3. each = [j \in 1..Len(E) |-> each[j]]
      BY <2>1
    <2> HIDE DEF each
    <2>4. \A j \in 1..Len(E) : each[j] \in Seq(S)
      BY <2>2
    <2>5. each \in Seq(Seq(S)) /\ Len(each) = Len(E)
      BY <2>1, <2>3, <2>4, IsASeq
    <2> QED BY <2>2, <2>5
  <1>5. Planned(f, E).lines = FlattenSeq(em) \o Appended(f, E)
    BY DEF Planned, File, Body
  <1>6. Appended(f, E) = <<>>
    <2>1. FlattenSeq(each) = <<>>
      <3> HIDE DEF each
      <3> QED BY <1>4, AllEmpty
    <2> QED BY <2>1 DEF Appended
  <1>7. FlattenSeq(em) = f.lines
    <2> DEFINE lines == f.lines
    <2>1. lines \in Seq(S) /\ Len(lines) = N /\ \A i \in 1..N : em[i] = <<lines[i]>>
      BY <1>3
    <2> HIDE DEF em, lines, N
    <2>2. FlattenSeq(em) = lines
      BY <1>3, <2>1, AllSingle
    <2> QED BY <2>2 DEF lines
  <1> HIDE DEF em
  <1> QED BY <1>5, <1>6, <1>7

-----------------------------------------------------------------------------
(* What is reported, and what a second post does.                          *)

LEMMA DispositionIs ==
    ASSUME NEW f, NEW e, e.set \in BOOLEAN,
           Mentions(f, e) # {} => LastOf(Mentions(f, e)) \in Mentions(f, e)
    PROVE  Disposition(f, e) = "unchanged" <=>
              IF Defines(f, e) = {} THEN ~e.set
              ELSE \A i \in Defines(f, e) : f.lines[i] = Render(e)
  <1>1. (\E i \in Mentions(f, e) : Inserts(f, e, i))
            <=> e.set /\ Defines(f, e) = {} /\ Mentions(f, e) # {}
    BY DEF Inserts
  <1>2. Appends(f, e) <=> e.set /\ Defines(f, e) = {} /\ Mentions(f, e) = {}
    BY DEF Appends
  <1> DEFINE in == \E i \in Mentions(f, e) : Inserts(f, e, i)
             app == Appends(f, e)
             all == \A i \in Defines(f, e) : f.lines[i] = Render(e)
             none == Defines(f, e) = {}
  <1>3. Disposition(f, e) =
            CASE ~e.set /\ none -> "unchanged"
              [] in -> "inserted"
              [] app -> "appended"
              [] OTHER -> IF all THEN "unchanged" ELSE IF e.set THEN "updated" ELSE "unset"
    BY DEF Disposition
  <1>4. in => e.set /\ none
    BY <1>1
  <1>5. app => e.set /\ none
    BY <1>2
  <1>6. e.set /\ none => in \/ app
    BY <1>1, <1>2
  <1>7. in => ~app
    BY <1>1, <1>2
  <1> HIDE DEF in, app, all, none
  <1>8. CASE none /\ ~e.set
    <2>1. ~in /\ ~app
      BY <1>4, <1>5, <1>8
    <2>2. Disposition(f, e) = "unchanged"
      BY <1>3, <1>8, <2>1
    <2> QED BY <1>8, <2>2 DEF none
  <1>9. CASE none /\ e.set
    <2>1. CASE in
      <3>1. ~(~e.set /\ none) /\ ~app
        BY <1>7, <1>9, <2>1
      <3>2. Disposition(f, e) = "inserted"
        BY <1>3, <2>1, <3>1
      <3> QED BY <1>9, <3>2 DEF none
    <2>2. CASE app
      <3>1. ~(~e.set /\ none) /\ ~in
        BY <1>7, <1>9, <2>2
      <3>2. Disposition(f, e) = "appended"
        BY <1>3, <2>2, <3>1
      <3> QED BY <1>9, <3>2 DEF none
    <2> QED BY <1>6, <1>9, <2>1, <2>2
  <1>10. CASE ~none
    <2>1. ~in /\ ~app /\ ~(~e.set /\ none)
      BY <1>4, <1>5, <1>10
    <2>2. Disposition(f, e) = IF all THEN "unchanged" ELSE IF e.set THEN "updated" ELSE "unset"
      BY <1>3, <2>1
    <2>3. Disposition(f, e) = "unchanged" <=> all
      BY <2>2
    <2> QED BY <1>10, <2>3 DEF none, all
  <1> QED BY <1>8, <1>9, <1>10

LEMMA LastMention ==
    ASSUME NEW S, NEW f, f.lines \in Seq(S), NEW e, Mentions(f, e) # {}
    PROVE  LastOf(Mentions(f, e)) \in Mentions(f, e)
  <1> DEFINE M == Mentions(f, e)
  <1>0. DOMAIN f.lines = 1..Len(f.lines) /\ Len(f.lines) \in Nat
    OBVIOUS
  <1>1. M \subseteq 1..Len(f.lines) /\ M # {} /\ Len(f.lines) \in Nat
    BY <1>0 DEF Mentions
  <1> HIDE DEF M
  <1>2. LastOf(M) \in M
    BY <1>1, LastIs
  <1> QED BY <1>2 DEF M

\* The post has nothing to do.
Settled(f, E) ==
    \A j \in DOMAIN E : IF Defines(f, E[j]) = {} THEN ~E[j].set
                        ELSE \A i \in Defines(f, E[j]) : f.lines[i] = Render(E[j])

LEMMA SettledStays ==
    ASSUME NEW S, NEW f, f.lines \in Seq(S), NEW E, Proper(E), Settled(f, E)
    PROVE  Planned(f, E).lines = f.lines
  <1>1. ASSUME NEW i \in 1..Len(f.lines), NEW j \in DOMAIN E
        PROVE  /\ Replaces(f, E[j], i) => Render(E[j]) = f.lines[i]
               /\ ~Inserts(f, E[j], i)
    <2>1. Replaces(f, E[j], i) => Defines(f, E[j]) # {} /\ i \in Defines(f, E[j])
      BY DEF Replaces
    <2>2. Inserts(f, E[j], i) => Defines(f, E[j]) = {} /\ E[j].set
      BY DEF Inserts
    <2> QED BY <2>1, <2>2 DEF Settled
  <1>2. \A j \in DOMAIN E : ~Appends(f, E[j])
    BY DEF Settled, Appends
  <1> QED BY <1>1, <1>2, PlannedOfSettled

\* The lines stay the same only if the post has nothing to do, ...
LEMMA OnlySettledStays ==
    ASSUME NEW S, NEW f, f.lines \in Seq(S), NEW E, Proper(E), Planned(f, E).lines = f.lines
    PROVE  Settled(f, E)
  <1> SUFFICES ASSUME NEW j \in DOMAIN E
               PROVE  IF Defines(f, E[j]) = {} THEN ~E[j].set
                      ELSE \A i \in Defines(f, E[j]) : f.lines[i] = Render(E[j])
    BY DEF Settled
  <1>1. Defines(f, E[j]) = Definitions(f.lines, E[j].name)
    BY DefinesAre
  <1>2. CASE Defines(f, E[j]) = {}
    <2> DEFINE n == E[j].name
    <2>1. SaysPlanned(S, f, E, n)
      BY PlannedSays
    <2>2. Said(f.lines, n) = Wanted(E, j)
      BY <2>1 DEF SaysPlanned
    <2>3. Said(f.lines, n) = {}
      BY <1>1, <1>2 DEF Said
    <2> QED BY <1>2, <2>2, <2>3 DEF Wanted
  <1>3. ASSUME NEW i \in Defines(f, E[j]) PROVE f.lines[i] = Render(E[j])
    <2>1. i \in DOMAIN f.lines /\ Says(f.lines[i], E[j].name)
      BY DEF Defines, ActiveLines, Says
    <2> DEFINE p == Planned(f, E)
    <2>2. i \in DOMAIN p.lines /\ Says(p.lines[i], E[j].name)
      BY <2>1
    <2>3. p.lines[i] = Render(E[j])
      BY <2>2, PlannedLines
    <2> QED BY <2>3
  <1> QED BY <1>2, <1>3

\* ... and it has nothing to do in the file that it has made.
LEMMA PlannedIsSettled ==
    ASSUME NEW S, NEW f, f.lines \in Seq(S), NEW E, Proper(E)
    PROVE  Settled(Planned(f, E), E)
  <1> DEFINE p == Planned(f, E)
             T == Written(S, E) \cup {Blank, Marker}
  <1> SUFFICES ASSUME NEW j \in DOMAIN E
               PROVE  IF Defines(p, E[j]) = {} THEN ~E[j].set
                      ELSE \A i \in Defines(p, E[j]) : p.lines[i] = Render(E[j])
    BY DEF Settled
  <1> DEFINE n == E[j].name
  <1>1. SaysPlanned(S, f, E, n)
    BY PlannedSays
  <1>2. p.lines \in Seq(T) /\ Said(p.lines, n) = Wanted(E, j)
    BY <1>1 DEF SaysPlanned
  <1>3. \A i \in Defines(p, E[j]) : i \in DOMAIN p.lines /\ Says(p.lines[i], n)
    BY DEF Defines, ActiveLines, Says
  <1>4. ASSUME NEW i \in Defines(p, E[j]) PROVE p.lines[i] = Render(E[j])
    BY <1>3, PlannedLines
  <1> HIDE DEF p, T
  <1>5. Defines(p, E[j]) = Definitions(p.lines, n)
    BY <1>2, DefinesAre
  <1>6. Defines(p, E[j]) = {} => ~E[j].set
    BY <1>2, <1>5 DEF Said, Wanted
  <1> QED BY <1>4, <1>6

\* Whatever the file and the accepted post: the report says of every key that it
\* is unchanged exactly if the lines are, and the same post has nothing to do in
\* the file that it has made.
THEOREM EditorReportsTheEdit ==
    ASSUME NEW f, IsFile(f), NEW E, Proper(E)
    PROVE  /\ (\A j \in DOMAIN E : Disposition(f, E[j]) = "unchanged")
                  <=> Planned(f, E) = [f EXCEPT !.eol = Planned(f, E).eol]
           /\ Planned(Planned(f, E), E) = Planned(f, E)
  <1> DEFINE S == ToSet(f.lines)
             p == Planned(f, E)
  <1>1. f.lines \in Seq(S)
    BY DEF IsFile
  <1> HIDE DEF S
  <1>2. (\A j \in DOMAIN E : Disposition(f, E[j]) = "unchanged") <=> Settled(f, E)
    <2>1. ASSUME NEW j \in DOMAIN E
          PROVE  Disposition(f, E[j]) = "unchanged" <=>
                    IF Defines(f, E[j]) = {} THEN ~E[j].set
                    ELSE \A i \in Defines(f, E[j]) : f.lines[i] = Render(E[j])
      <3>1. E[j].set \in BOOLEAN
        BY DEF Proper
      <3>2. Mentions(f, E[j]) # {} => LastOf(Mentions(f, E[j])) \in Mentions(f, E[j])
        BY <1>1, LastMention
      <3> DEFINE e == E[j]
      <3>3. e.set \in BOOLEAN /\ (Mentions(f, e) # {} => LastOf(Mentions(f, e)) \in Mentions(f, e))
        BY <3>1, <3>2
      <3> HIDE DEF e
      <3>4. Disposition(f, e) = "unchanged" <=>
              IF Defines(f, e) = {} THEN ~e.set
              ELSE \A i \in Defines(f, e) : f.lines[i] = Render(e)
        BY <3>3, DispositionIs
      <3> QED BY <3>4 DEF e
    <2> QED BY <2>1 DEF Settled
  <1>3. Settled(f, E) <=> p.lines = f.lines
    BY <1>1, SettledStays, OnlySettledStays
  <1>4. p = [lines |-> p.lines, eol |-> p.eol, ended |-> f.ended]
    BY DEF Planned, File
  <1>5. [f EXCEPT !.eol = p.eol] = [lines |-> f.lines, eol |-> p.eol, ended |-> f.ended]
    <2> DEFINE x == p.eol
    <2> HIDE DEF x
    <2>1. [f EXCEPT !.eol = x] = [lines |-> f.lines, eol |-> x, ended |-> f.ended]
      BY DEF IsFile
    <2> QED BY <2>1 DEF x
  <1>6. p.lines = f.lines <=> p = [f EXCEPT !.eol = p.eol]
    <2> DEFINE x == p.eol
               y == f.ended
               a == p.lines
               b == f.lines
    <2>1. p = [lines |-> a, eol |-> x, ended |-> y]
      BY <1>4
    <2>2. [f EXCEPT !.eol = x] = [lines |-> b, eol |-> x, ended |-> y]
      BY <1>5
    <2> HIDE DEF x, y, a, b
    <2>3. [lines |-> a, eol |-> x, ended |-> y] = [lines |-> b, eol |-> x, ended |-> y] <=> a = b
      OBVIOUS
    <2>4. a = b <=> p = [f EXCEPT !.eol = x]
      BY <2>1, <2>2, <2>3
    <2> QED BY <2>4 DEF x, a, b
  <1>7. Planned(p, E) = p
    <2>1. IsFile(p)
      BY PlannedIsFile
    <2>2. Settled(p, E)
      BY <1>1, PlannedIsSettled
    <2>3. p.eol = IF f.eol = "mixed" THEN "crlf" ELSE f.eol
      BY DEF Planned, File
    <2> HIDE DEF p
    <2> DEFINE P == ToSet(p.lines)
    <2>4. p.lines \in Seq(P)
      BY <2>1 DEF IsFile
    <2> HIDE DEF P
    <2>5. Planned(p, E).lines = p.lines
      BY <2>2, <2>4, SettledStays
    <2>6. Planned(p, E).eol = p.eol
      BY <2>3 DEF Planned, File
    <2>7. Planned(p, E).ended = p.ended
      BY DEF Planned, File
    <2>8. Planned(p, E) = [lines |-> Planned(p, E).lines, eol |-> Planned(p, E).eol,
                           ended |-> Planned(p, E).ended]
      BY DEF Planned, File
    <2>9. p = [lines |-> p.lines, eol |-> p.eol, ended |-> p.ended]
      BY <1>4 DEF p, Planned, File
    <2> QED BY <2>5, <2>6, <2>7, <2>8, <2>9
  <1> HIDE DEF p
  <1>8. Planned(f, E) = p
    BY DEF p
  <1> QED BY <1>2, <1>3, <1>6, <1>7, <1>8

-----------------------------------------------------------------------------
(* The other reader of a file.                                             *)

LEMMA FirstIs ==
    ASSUME NEW T, T \subseteq Nat, T # {}
    PROVE  FirstOf(T) \in T
  <1>1. PICK m \in T : \A e \in T : m <= e
    BY LeastOf
  <1> QED BY <1>1 DEF FirstOf

LEMMA OrdinaryIsWritten ==
    ASSUME NEW W, NEW text \in Seq(W), Ordinary(text)
    PROVE  Escape(text) = text /\ \A i \in DOMAIN text : text[i][1] \notin WithEquals
  <1>1. \A i \in DOMAIN text : text[i][1] \notin Special /\ text[i][1] \notin WithEquals
    BY DEF Ordinary
  <1>2. text = [i \in DOMAIN text |-> text[i]]
    OBVIOUS
  <1>3. Escape(text) = [i \in DOMAIN text |-> text[i]]
    BY <1>1 DEF Escape
  <1> QED BY <1>1, <1>2, <1>3

\* Whatever the file: if no other key begins with STORAGE, the directory that is
\* read is the one that was posted, in ordinary words, with the variables of the
\* server's environment filled in.
THEOREM StorageIsFound ==
    ASSUME NEW S, NEW f, f.lines \in Seq(S), NEW E, Proper(E), NEW j \in DOMAIN E,
           E[j].name = "STORAGE", E[j].set, Ordinary(E[j].text),
           NEW W, E[j].text \in Seq(W),
           DOMAIN Settings(Planned(f, E)) \cap StorageNames = {"STORAGE"}
    PROVE  StorageDirectory(Planned(f, E)) = {Expanded(E[j].text)}
  <1> DEFINE p == Planned(f, E)
             T == Written(S, E) \cup {Blank, Marker}
             n == "STORAGE"
             line == Render(E[j])
             found == StorageLines(p)
  <1>1. SaysPlanned(S, f, E, n)
    BY PlannedSays
  <1>2. p.lines \in Seq(T) /\ Said(p.lines, n) # {}
    BY <1>1 DEF SaysPlanned, Wanted
  <1>3. /\ line.kind = "active" /\ line.name = n /\ line.style = "exact"
        /\ line.text = Escape(E[j].text)
    BY DEF Render, Setting
  <1>4. Escape(E[j].text) = E[j].text /\ \A i \in DOMAIN E[j].text : E[j].text[i][1] \notin WithEquals
    BY OrdinaryIsWritten
  <1>5. \A i \in DOMAIN p.lines : Says(p.lines[i], n) => p.lines[i] = line
    BY PlannedLines
  <1>6. \A i \in ActiveLines(p) : p.lines[i].name \in DOMAIN Settings(p)
    BY DEF Settings
  <1> HIDE DEF p, T, line
  <1>7. DOMAIN p.lines = 1..Len(p.lines) /\ Len(p.lines) \in Nat
    BY <1>2
  <1>8. ASSUME NEW i \in found PROVE i \in Nat /\ p.lines[i] = line
    <2>1. i \in ActiveLines(p) /\ p.lines[i].name \in StorageNames
      BY <1>8 DEF StorageLines
    <2>2. i \in DOMAIN p.lines /\ p.lines[i].kind = "active" /\ p.lines[i].name = n
      BY <1>6, <2>1 DEF p, ActiveLines
    <2> QED BY <1>5, <1>7, <2>2 DEF Says
  <1>9. found # {}
    <2>1. PICK i \in 1..Len(p.lines) : Says(p.lines[i], n)
      BY <1>2 DEF Said, Definitions
    <2>2. i \in ActiveLines(p) /\ p.lines[i] = line
      BY <1>5, <1>7, <2>1 DEF ActiveLines, Says
    <2>3. line.name \in StorageNames
      BY <1>3
    <2>4. i \in StorageLines(p)
      BY <1>3, <1>4, <2>2, <2>3 DEF StorageLines
    <2> QED BY <2>4
  <1>10. p.lines[FirstOf(found)] = line
    <2> HIDE DEF found
    <2>1. found \subseteq Nat
      BY <1>8
    <2> QED BY <1>8, <1>9, <2>1, FirstIs
  <1>11. StorageDirectory(p) = {Expanded(line.text)}
    BY <1>9, <1>10 DEF StorageDirectory
  <1> QED BY <1>3, <1>4, <1>11 DEF p

-----------------------------------------------------------------------------
(* What is read, and posted back.                                          *)

\* A finite set is listed without repetition.
LEMMA Listed ==
    ASSUME NEW S, IsFiniteSet(S)
    PROVE  SetToSeq(S) \in Seq(S) /\ IsInjective(SetToSeq(S))
  <1> DEFINE C == Cardinality(S)
  <1>1. C \in Nat /\ ExistsBijection(1..C, S)
    BY FS_CardinalityType
  <1> HIDE DEF C
  <1>2. \E g \in [1..C -> S] : IsInjective(g)
    BY <1>1 DEF ExistsBijection, Bijection, Injection
  <1>3. SetToSeq(S) \in [1..C -> S] /\ IsInjective(SetToSeq(S))
    BY <1>2 DEF SetToSeq, C
  <1> QED BY <1>1, <1>3

\* Of words that were no control characters none is made.
LEMMA QuotesTaken ==
    ASSUME NEW text, IsText(text), \A w \in ToSet(text) : w[1] \notin Control
    PROVE  /\ IsText(WithoutQuotes(text))
           /\ \A w \in ToSet(WithoutQuotes(text)) : w[1] \notin Control
           /\ (\A i \in DOMAIN text : text[i][1] \notin DOMAIN Stripped)
                 => WithoutQuotes(text) = text
  <1> DEFINE left(i) == IF text[i][1] \in DOMAIN Stripped THEN Stripped[text[i][1]]
                        ELSE <<text[i]>>
             q == [i \in DOMAIN text |-> left(i)]
             W == {w \in ToSet(text) \cup UNION {ToSet(Stripped[n]) : n \in DOMAIN Stripped} :
                      IsWord(w) /\ w[1] \notin Control}
             r == WithoutQuotes(text)
  <1>1. /\ text \in Seq(ToSet(text)) /\ DOMAIN text = 1..Len(text) /\ Len(text) \in Nat
        /\ \A i \in 1..Len(text) : text[i] \in ToSet(text)
    <2>1. text \in Seq(ToSet(text))
      BY DEF IsText
    <2> QED BY <2>1 DEF ToSet
  <1>2. \A i \in 1..Len(text) : text[i] \in W
    BY <1>1 DEF IsText
  <1>3. ASSUME NEW i \in 1..Len(text) PROVE left(i) \in Seq(W)
    <2>1. CASE text[i][1] \in DOMAIN Stripped
      <3> DEFINE n == text[i][1]
      <3>1. n \notin Control
        BY <1>2
      <3>2. IsText(Stripped[n]) /\ \A w \in ToSet(Stripped[n]) : w[1] \notin Control
        BY <2>1, <3>1, StrippedAssumption
      <3>3. ToSet(Stripped[n]) \subseteq W
        BY <2>1, <3>2 DEF IsText
      <3>4. Stripped[n] \in Seq(ToSet(Stripped[n]))
        BY <3>2 DEF IsText
      <3> HIDE DEF W
      <3>5. Stripped[n] \in Seq(W)
        BY <3>3, <3>4
      <3> QED BY <2>1, <3>5
    <2>2. CASE text[i][1] \notin DOMAIN Stripped
      <3>1. text[i] \in W
        BY <1>2
      <3> HIDE DEF W
      <3>2. <<text[i]>> \in Seq(W)
        BY <3>1
      <3> QED BY <2>2, <3>2
    <2> QED BY <2>1, <2>2
  <1>4. r = FlattenSeq(q)
    BY DEF WithoutQuotes
  <1>5. \A w \in W : IsWord(w) /\ w[1] \notin Control
    OBVIOUS
  <1> HIDE DEF W, left, r
  <1>6. q \in Seq(Seq(W)) /\ Len(q) = Len(text) /\ \A i \in 1..Len(q) : q[i] = left(i)
    BY <1>1, <1>3, IsASeq
  <1> HIDE DEF q
  <1>7. r \in Seq(W)
    BY <1>4, <1>6, LinesFlattened
  <1>8. r \in Seq(ToSet(r)) /\ ToSet(r) \subseteq W
    BY <1>7, SequenceOfItsOwn DEF ToSet
  <1>9. IsText(r) /\ \A w \in ToSet(r) : w[1] \notin Control
    BY <1>5, <1>8 DEF IsText
  <1>10. ASSUME \A i \in DOMAIN text : text[i][1] \notin DOMAIN Stripped
         PROVE  r = text
    <2>1. \A i \in 1..Len(q) : q[i] = <<text[i]>>
      BY <1>1, <1>6, <1>10 DEF left
    <2>2. text \in Seq(W)
      BY <1>1, <1>2, IsASeq
    <2> QED BY <1>4, <1>6, <2>1, <2>2, AllSingle
  <1> QED BY <1>9, <1>10 DEF r

\* Without a control character, what GET reads in a line may be posted, and is
\* written as it was read.
LEMMA ReadIsWritten ==
    ASSUME NEW line, IsText(line.text),
           \A w \in ToSet(line.text) : w[1] \notin Control
    PROVE  /\ ValueOf(line) # Null /\ Writable(ValueOf(line))
           /\ Coerced(ValueOf(line)) = ReadText(line) /\ IsText(ReadText(line))
           /\ Literal(line) => ReadText(line) = TextOf(line)
  <1> DEFINE t == ReadText(line)
             v == ValueOf(line)
  <1>0. Literal(line) => t = TextOf(line)
    BY QuotesTaken DEF Literal, ReadText, TextOf
  <1>1. IsText(t) /\ \A w \in ToSet(t) : w[1] \notin Control
    <2>1. CASE line.quoted
      <3>1. t = Unescape(line.text)
        BY <2>1 DEF ReadText
      <3>2. IsText(t) /\ DOMAIN t = DOMAIN line.text
            /\ \A i \in DOMAIN t : t[i][1] = line.text[i][1]
        BY <3>1, EscapedIsText DEF Unescape
      <3> HIDE DEF t
      <3> QED BY <3>2 DEF ToSet
    <2>2. CASE ~line.quoted
      BY <2>2, QuotesTaken DEF ReadText
    <2> QED BY <2>1, <2>2
  <1> HIDE DEF t
  <1>2. \A i \in DOMAIN t : t[i][1] \notin Control
    BY <1>1 DEF ToSet
  <1>3. CASE v = Scalar(t)
    <2>1. v.parts = <<t>> /\ v.type = "scalar"
      BY <1>3 DEF Scalar, Json
    <2>2. Coerced(v) = t
      <3> DEFINE T == ToSet(t)
                 q == <<t>>
      <3>1. t \in Seq(T)
        BY <1>1 DEF IsText
      <3> HIDE DEF T
      <3>2. q \in Seq(Seq(T)) /\ Len(q) = 1 /\ q[1] = t
        BY <3>1
      <3> HIDE DEF q
      <3>3. PICK g \in [0..1 -> Seq(T)] : Flattens(g, q, 1) /\ FlattenSeq(q) = g[1]
        BY <3>2, FlattenSteps
      <3>4. g[1] = g[1 - 1] \o q[1] /\ 1 - 1 = 0 /\ g[0] = <<>>
        <4>1. 1 \in 1..1 /\ g[0] = <<>> /\ \A i \in 1..1 : g[i] = g[i - 1] \o q[i]
          BY <3>3 DEF Flattens
        <4> QED BY <4>1
      <3>5. FlattenSeq(q) = t
        BY <3>1, <3>2, <3>3, <3>4
      <3> QED BY <2>1, <3>5 DEF Coerced, q
    <2>3. v # Null
      BY <2>1 DEF Null, Json
    <2> HIDE DEF v
    <2>4. Writable(v)
      BY <1>2, <2>1, <2>2 DEF Writable
    <2> QED BY <1>0, <1>1, <2>2, <2>3, <2>4 DEF v, t
  <1>4. CASE v = Json("array", [i \in DOMAIN t |-> <<t[i]>>])
    <2> DEFINE q == [i \in DOMAIN t |-> <<t[i]>>]
               T == ToSet(t)
    <2>1. v.parts = q /\ v.type = "array"
      BY <1>4 DEF Json
    <2>2. t \in Seq(T) /\ DOMAIN t = 1..Len(t) /\ Len(t) \in Nat /\ \A i \in 1..Len(t) : t[i] \in T
      BY <1>1 DEF IsText, ToSet
    <2>3. q = [i \in 1..Len(t) |-> <<t[i]>>] /\ \A i \in 1..Len(t) : <<t[i]>> \in Seq(T)
      BY <2>1, <2>2
    <2> HIDE DEF q, T
    <2>4. q \in Seq(Seq(T)) /\ Len(q) = Len(t) /\ \A i \in 1..Len(q) : q[i] = <<t[i]>>
      BY <2>2, <2>3, IsASeq
    <2>5. FlattenSeq(q) = t
      BY <2>2, <2>4, AllSingle
    <2>6. Coerced(v) = t
      BY <2>1, <2>5 DEF Coerced
    <2>7. v # Null
      BY <2>1 DEF Null, Json
    <2>8. \A i \in DOMAIN v.parts : Len(v.parts[i]) = 1
      BY <2>1, <2>2, <2>3
    <2> HIDE DEF v
    <2>9. Writable(v)
      BY <1>2, <2>1, <2>6, <2>8 DEF Writable
    <2> QED BY <1>0, <1>1, <2>6, <2>7, <2>9 DEF v, t
  <1> QED BY <1>3, <1>4 DEF ValueOf, t

\* The keys that GET answers with.
KeysRead(f) == {k \in DOMAIN View(f) : k.name # Reserved}

LEMMA SentBackLists ==
    ASSUME NEW S, NEW f, f.lines \in Seq(S)
    PROVE  LET sent == {Update(k, View(f)[k]) : k \in KeysRead(f)}
           IN  SentBack(f) \in Seq(sent) /\ IsInjective(SentBack(f))
  <1> DEFINE sent == {Update(k, View(f)[k]) : k \in KeysRead(f)}
             I == ActiveLines(f)
             one(i) == Update(KeyOf(f.lines[i]), View(f)[KeyOf(f.lines[i])])
             all == {one(i) : i \in I}
             m == [i \in I |-> one(i)]
  <1>1. IsFiniteSet(I)
    <2> DEFINE n == Len(f.lines)
    <2>1. n \in Nat /\ I \in SUBSET (1..n)
      BY DEF ActiveLines
    <2> HIDE DEF I, n
    <2>2. IsFiniteSet(1..n)
      BY <2>1, FS_Interval
    <2> QED BY <2>1, <2>2, FS_Subset
  <1>2. sent \in SUBSET all
    BY DEF KeysRead, View
  <1>3. m \in Surjection(I, all)
    <2> HIDE DEF one, I
    <2> QED BY DEF Surjection
  <1> HIDE DEF all, m, I, sent
  <1>4. IsFiniteSet(sent)
    BY <1>1, <1>2, <1>3, FS_Surjection, FS_Subset
  <1>5. SetToSeq(sent) \in Seq(sent) /\ IsInjective(SetToSeq(sent))
    BY <1>4, Listed
  <1>6. SentBack(f) = SetToSeq(sent)
    BY DEF SentBack, sent, KeysRead
  <1> QED BY <1>5, <1>6 DEF sent

\* Of a key that is spelled in one way, GET answers the definition that counts.
LEMMA ViewIs ==
    ASSUME NEW S, NEW f, f.lines \in Seq(S), NEW k \in KeysRead(f),
           \A l \in KeysRead(f) : k.name = l.name => k = l
    PROVE  /\ \E i \in ActiveLines(f) :
                 View(f)[k] = ValueOf(f.lines[i]) /\ Said(f.lines, k.name) = {TextOf(f.lines[i])}
           /\ k.name # Reserved
  <1> DEFINE D == Definitions(f.lines, k.name)
             I == {i \in ActiveLines(f) : KeyOf(f.lines[i]) = k}
  <1>1. DOMAIN f.lines = 1..Len(f.lines) /\ Len(f.lines) \in Nat
    OBVIOUS
  <1>2. k \in DOMAIN View(f) /\ k.name # Reserved
    BY DEF KeysRead
  <1>3. View(f)[k] = ValueOf(f.lines[LastOf(I)])
    BY <1>2 DEF View
  <1>4. I \subseteq 1..Len(f.lines) /\ I # {}
    BY <1>1, <1>2 DEF View, ActiveLines
  <1>5. ASSUME NEW i \in 1..Len(f.lines) PROVE i \in D <=> i \in I
    <2>1. KeyOf(f.lines[i]).name = f.lines[i].name
      BY DEF KeyOf, Key
    <2>2. CASE i \in D
      <3>1. i \in ActiveLines(f) /\ f.lines[i].name = k.name
        BY <1>1, <2>2 DEF Definitions, Says, ActiveLines
      <3>2. KeyOf(f.lines[i]) \in KeysRead(f)
        BY <1>2, <2>1, <3>1 DEF KeysRead, View
      <3> QED BY <2>1, <2>2, <3>1, <3>2
    <2>3. CASE i \in I
      <3>1. i \in ActiveLines(f) /\ f.lines[i].name = k.name
        BY <2>1, <2>3
      <3> QED BY <1>1, <2>3, <3>1 DEF Definitions, Says, ActiveLines
    <2> QED BY <2>2, <2>3
  <1>6. D = I
    BY <1>4, <1>5 DEF Definitions
  <1>7. LastOf(I) \in ActiveLines(f)
    <2>1. LastOf(I) \in I
      <3> HIDE DEF I
      <3> QED BY <1>1, <1>4, LastIs
    <2> QED BY <2>1
  <1>8. Said(f.lines, k.name) = {TextOf(f.lines[LastOf(I)])}
    <2> HIDE DEF I
    <2> QED BY <1>4, <1>6 DEF Said
  <1> QED BY <1>2, <1>3, <1>7, <1>8

\* Whatever the file: what GET answered is accepted when it is posted back, unless
\* the file has keys or values that no post may have, and changes no setting, unless
\* GET has left quotes out.
THEOREM EditorTakesItBack ==
    ASSUME NEW f, IsFile(f),
           \A k \in KeysRead(f) : GoodKey(k),
           \A k, l \in KeysRead(f) : k.name = l.name => k = l,
           \A i \in ActiveLines(f) : \A w \in ToSet(f.lines[i].text) : w[1] \notin Control
    PROVE  /\ Rejected(SentBack(f)) = {}
           /\ (\A i \in ActiveLines(f) : Literal(f.lines[i]))
                 => Settings(Planned(f, Entries(SentBack(f)))) = Settings(f)
  <1> DEFINE S == ToSet(f.lines)
             sent == {Update(k, View(f)[k]) : k \in KeysRead(f)}
             us == SentBack(f)
             E == Entries(us)
             m == Settings(f)
  <1>1. f.lines \in Seq(S)
    BY DEF IsFile
  <1>2. us \in Seq(sent) /\ IsInjective(us)
    <2> HIDE DEF S
    <2> QED BY <1>1, SentBackLists
  \* Each of them, with the line it was read in.
  <1>3. ASSUME NEW j \in 1..Len(us)
        PROVE  /\ us[j].key \in KeysRead(f) /\ us[j] = Update(us[j].key, us[j].value)
               /\ us[j].value = View(f)[us[j].key]
               /\ us[j].value # Null /\ Writable(us[j].value)
               /\ IsText(Coerced(us[j].value))
               /\ (\A i \in ActiveLines(f) : Literal(f.lines[i]))
                     => Said(f.lines, us[j].key.name) = {Coerced(us[j].value)}
    <2>1. us[j] \in sent
      BY <1>2
    <2>2. PICK k \in KeysRead(f) : us[j] = Update(k, View(f)[k])
      BY <2>1
    <2>3. us[j].key = k /\ us[j].value = View(f)[k]
      BY <2>2 DEF Update
    <2>4. PICK i \in ActiveLines(f) :
              View(f)[k] = ValueOf(f.lines[i]) /\ Said(f.lines, k.name) = {TextOf(f.lines[i])}
      <3>1. \A l \in KeysRead(f) : k.name = l.name => k = l
        OBVIOUS
      <3> HIDE DEF S
      <3> QED BY <1>1, <3>1, ViewIs
    <2> DEFINE line == f.lines[i]
    <2>5. IsText(line.text) /\ \A w \in ToSet(line.text) : w[1] \notin Control
      <3>1. line \in S
        BY <2>4 DEF ActiveLines, ToSet
      <3> QED BY <2>4, <3>1 DEF IsFile
    <2> HIDE DEF line, S
    <2>6. /\ ValueOf(line) # Null /\ Writable(ValueOf(line))
          /\ Coerced(ValueOf(line)) = ReadText(line) /\ IsText(ReadText(line))
          /\ Literal(line) => ReadText(line) = TextOf(line)
      BY <2>5, ReadIsWritten
    <2>7. us[j].value = ValueOf(line) /\ Said(f.lines, k.name) = {TextOf(line)}
      BY <2>3, <2>4 DEF line
    <2>8. (\A l \in ActiveLines(f) : Literal(f.lines[l])) => Literal(line)
      BY <2>4 DEF line
    <2> HIDE DEF us
    <2> QED BY <2>2, <2>3, <2>6, <2>7, <2>8
  <1>4. Rejected(us) = {}
    <2> DEFINE N == Len(us)
    <2>1. DOMAIN us = 1..N /\ N \in Nat
      <3> HIDE DEF us, sent
      <3> QED BY <1>2
    <2> HIDE DEF us, sent, N
    <2>2. ASSUME NEW i \in 1..N
          PROVE  GoodKey(us[i].key) /\ ~Collides(us, i) /\ Writable(us[i].value)
      <3>1. ASSUME NEW j \in 1..N, us[j].key.name = us[i].key.name PROVE j = i
        <4>1. us[j].key = us[i].key
          BY <1>3, <3>1 DEF N
        <4>2. us[j] = us[i]
          BY <1>3, <4>1 DEF N
        <4> QED BY <1>2, <2>1, <4>2 DEF IsInjective
      <3>2. ~Collides(us, i)
        BY <2>1, <3>1 DEF Collides
      <3> QED BY <1>3, <3>2 DEF N
    <2> QED BY <2>1, <2>2 DEF Rejected
  <1>5. Proper(E)
    <2> HIDE DEF us, sent
    <2> QED BY <1>2, <1>3, <1>4, EntriesAreProper
  <1> SUFFICES ASSUME \A i \in ActiveLines(f) : Literal(f.lines[i])
               PROVE  Settings(Planned(f, E)) = m
    BY <1>4
  <1>6. /\ DOMAIN E = 1..Len(us)
        /\ \A j \in 1..Len(us) : /\ E[j].name = us[j].key.name
                                  /\ Wanted(E, j) = Said(f.lines, E[j].name)
    <2> HIDE DEF us, sent
    <2>1. DOMAIN us = 1..Len(us)
      BY <1>2
    <2>2. DOMAIN E = 1..Len(us)
      BY <2>1 DEF Entries
    <2>3. ASSUME NEW j \in 1..Len(us)
          PROVE  E[j].name = us[j].key.name /\ Wanted(E, j) = Said(f.lines, E[j].name)
      <3>1. E[j].name = us[j].key.name /\ E[j].set /\ E[j].text = Coerced(us[j].value)
        BY <1>3, <2>1 DEF Entries
      <3> HIDE DEF E
      <3> QED BY <1>3, <3>1 DEF Wanted
    <2> QED BY <2>2, <2>3
  <1> HIDE DEF E, us, sent, S
  <1>7. ASSUME NEW n PROVE At(Overridden(m, E), n) = At(m, n)
    <2>0. At(m, n) = Said(f.lines, n)
      BY <1>1, SettingsAre
    <2> HIDE DEF m
    <2>1. CASE n \notin Names(E)
      BY <1>5, <2>1, OverriddenIs
    <2>2. ASSUME NEW j \in DOMAIN E, E[j].name = n PROVE At(Overridden(m, E), n) = At(m, n)
      <3>1. At(Overridden(m, E), n) = Wanted(E, j)
        BY <1>5, <2>2, OverriddenIs
      <3> QED BY <1>6, <2>0, <2>2, <3>1
    <2> QED BY <2>1, <2>2 DEF Names
  <1>8. m = [n \in DOMAIN m |-> m[n]]
    BY DEF Settings
  <1> HIDE DEF m
  <1>9. Overridden(m, E) = [n \in DOMAIN Overridden(m, E) |-> Overridden(m, E)[n]]
    BY <1>5, OverriddenIs
  <1>10. Overridden(m, E) = m
    BY <1>7, <1>8, <1>9, SameMaps
  <1>11. Settings(Planned(f, E)) = Overridden(m, E)
    BY <1>1, <1>5, EditorEditsTheMap DEF m
  <1> QED BY <1>10, <1>11
=============================================================================
