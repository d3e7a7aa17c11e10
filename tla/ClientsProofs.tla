---------------------------- MODULE ClientsProofs ----------------------------
(***************************************************************************)
(* Proofs about what clients connect to.  Certificates: for any number of  *)
(* starts, failures, kills and power losses, a pair that was saved as a    *)
(* whole is the one that a start from the directory serves.  WsBridge and  *)
(* EventSocket: for any number of messages and any capacities, both kinds  *)
(* of socket do what LossyStream allows, and a close frame comes after the *)
(* newest message that was forwarded.  Session: for any number of requests *)
(* and accounts, what is asked of Studio is answered in the session it was *)
(* asked in, and the queue of the lock forgets nobody and admits a writer  *)
(* alone.  Last, the types of the composition.                             *)
(***************************************************************************)
EXTENDS MCClients, SequenceTheorems, TLAPS

-----------------------------------------------------------------------------
(* Session: queues without repetitions.                                    *)

LEMMA Members ==
    ASSUME NEW S, NEW s \in Seq(S)
    PROVE  /\ DOMAIN s = 1..Len(s) /\ Len(s) \in Nat
           /\ \A i \in 1..Len(s) : s[i] \in S /\ s[i] \in Range(s)
           /\ \A c \in Range(s) : c \in S /\ \E i \in 1..Len(s) : s[i] = c
  BY DEF Range

LEMMA Joined ==
    ASSUME NEW S, NEW s \in Seq(S), IsInjective(s), NEW c \in S, c \notin Range(s)
    PROVE  /\ Append(s, c) \in Seq(S) /\ IsInjective(Append(s, c))
           /\ Range(Append(s, c)) = Range(s) \cup {c}
  <1> DEFINE t == Append(s, c)
  <1>1. /\ t \in Seq(S) /\ Len(t) = Len(s) + 1 /\ Len(s) \in Nat /\ t[Len(s) + 1] = c
        /\ \A i \in 1..Len(s) : t[i] = s[i]
    OBVIOUS
  <1> HIDE DEF t
  <1>2. DOMAIN t = 1..Len(s) + 1 /\ DOMAIN s = 1..Len(s)
    BY <1>1
  <1>3. IsInjective(t)
    <2> SUFFICES ASSUME NEW i \in 1..Len(s) + 1, NEW j \in 1..Len(s) + 1, t[i] = t[j]
                 PROVE  i = j
      BY <1>2 DEF IsInjective
    <2>1. CASE i \in 1..Len(s) /\ j \in 1..Len(s)
      BY <1>1, <1>2, <2>1 DEF IsInjective
    <2>2. CASE i = Len(s) + 1 /\ j # Len(s) + 1
      BY <1>1, <1>2, <2>2 DEF Range
    <2>3. CASE j = Len(s) + 1 /\ i # Len(s) + 1
      BY <1>1, <1>2, <2>3 DEF Range
    <2> QED BY <1>1, <2>1, <2>2, <2>3
  <1>4. Range(t) = Range(s) \cup {c}
    <2>1. ASSUME NEW x \in Range(t) PROVE x \in Range(s) \cup {c}
      BY <1>1, <1>2, <2>1 DEF Range
    <2>2. ASSUME NEW x \in Range(s) \cup {c} PROVE x \in Range(t)
      <3>1. CASE x = c
        BY <1>1, <1>2, <3>1 DEF Range
      <3>2. CASE x \in Range(s)
        <4>1. PICK i \in 1..Len(s) : s[i] = x
          BY <1>2, <3>2 DEF Range
        <4> QED BY <1>1, <1>2, <4>1 DEF Range
      <3> QED BY <3>1, <3>2
    <2> QED BY <2>1, <2>2
  <1> QED BY <1>1, <1>3, <1>4 DEF t

\* Of a queue without repetitions, whoever is at a place is nowhere else.
Without(s, k, t) ==
    /\ Len(t) = Len(s) - 1
    /\ \A i \in 1..Len(t) : t[i] = IF i < k THEN s[i] ELSE s[i + 1]

LEMMA WithoutPlace ==
    ASSUME NEW S, NEW s \in Seq(S), IsInjective(s), NEW k \in 1..Len(s),
           NEW t \in Seq(S), Without(s, k, t)
    PROVE  IsInjective(t) /\ Range(t) = Range(s) \ {s[k]}
  <1>1. /\ t \in Seq(S) /\ Len(t) = Len(s) - 1 /\ Len(s) \in Nat
        /\ \A i \in 1..Len(t) : t[i] = IF i < k THEN s[i] ELSE s[i + 1]
    BY DEF Without
  <1>2. DOMAIN t = 1..Len(t) /\ DOMAIN s = 1..Len(s)
    BY <1>1
  <1>3. \A i, j \in 1..Len(s) : s[i] = s[j] => i = j
    BY <1>2 DEF IsInjective
  <1>4. IsInjective(t)
    <2> SUFFICES ASSUME NEW i \in 1..Len(t), NEW j \in 1..Len(t), t[i] = t[j]
                 PROVE  i = j
      BY <1>2 DEF IsInjective
    <2>1. i \in 1..Len(s) /\ i + 1 \in 1..Len(s) /\ j \in 1..Len(s) /\ j + 1 \in 1..Len(s)
      BY <1>1
    <2>2. (IF i < k THEN i ELSE i + 1) = (IF j < k THEN j ELSE j + 1)
      BY <1>1, <1>3, <2>1
    <2> QED BY <2>1, <2>2
  <1>5. ASSUME NEW x \in Range(t) PROVE x \in Range(s) \ {s[k]}
    <2>1. PICK i \in 1..Len(t) : t[i] = x
      BY <1>2 DEF Range
    <2>2. i \in 1..Len(s) /\ i + 1 \in 1..Len(s)
      BY <1>1
    <2>3. CASE i < k
      BY <1>1, <1>2, <1>3, <2>1, <2>2, <2>3 DEF Range
    <2>4. CASE ~(i < k)
      <3>1. x = s[i + 1] /\ i + 1 # k
        BY <1>1, <2>1, <2>4
      <3> QED BY <1>2, <1>3, <2>2, <3>1 DEF Range
    <2> QED BY <2>3, <2>4
  <1>6. ASSUME NEW x \in Range(s) \ {s[k]} PROVE x \in Range(t)
    <2>1. PICK i \in 1..Len(s) : s[i] = x
      BY <1>2 DEF Range
    <2>2. i # k
      BY <2>1
    <2>3. CASE i < k
      <3>1. i \in 1..Len(t) /\ t[i] = x
        BY <1>1, <2>1, <2>3
      <3> QED BY <1>2, <3>1 DEF Range
    <2>4. CASE i > k
      <3>1. i - 1 \in 1..Len(t) /\ ~(i - 1 < k) /\ i - 1 + 1 = i
        BY <1>1, <2>4
      <3>2. t[i - 1] = s[i - 1 + 1]
        BY <1>1, <3>1
      <3> QED BY <1>2, <2>1, <3>1, <3>2 DEF Range
    <2> QED BY <2>2, <2>3, <2>4
  <1>7. Range(t) = Range(s) \ {s[k]}
    BY <1>5, <1>6
  <1> QED BY <1>4, <1>7

\* Whoever leaves the queue from any place of it leaves the others in it.
LEMMA Left ==
    ASSUME NEW S, NEW s \in Seq(S), IsInjective(s), NEW k \in 1..Len(s)
    PROVE  /\ RemoveAt(s, k) \in Seq(S) /\ IsInjective(RemoveAt(s, k))
           /\ Range(RemoveAt(s, k)) = Range(s) \ {s[k]}
  <1> DEFINE before == SubSeq(s, 1, k - 1)
             after == SubSeq(s, k + 1, Len(s))
             t == before \o after
  <1>0. Len(s) \in Nat /\ k \in Nat /\ 1 <= k /\ k <= Len(s) /\ \A i \in 1..Len(s) : s[i] \in S
    OBVIOUS
  <1>1. /\ before \in Seq(S) /\ Len(before) = k - 1
        /\ \A i \in 1..k - 1 : before[i] = s[i]
    BY <1>0
  <1>2. /\ after \in Seq(S) /\ Len(after) = Len(s) - k
        /\ \A i \in 1..Len(s) - k : after[i] = s[k + i]
    BY <1>0
  <1>3. RemoveAt(s, k) = t
    BY DEF RemoveAt
  <1> HIDE DEF before, after
  <1>4. /\ t \in Seq(S) /\ Len(t) = Len(before) + Len(after)
        /\ \A i \in 1..Len(before) + Len(after) :
              t[i] = IF i <= Len(before) THEN before[i] ELSE after[i - Len(before)]
    BY <1>1, <1>2, ConcatProperties
  <1> HIDE DEF t
  <1>5. Len(t) = Len(s) - 1
    BY <1>0, <1>1, <1>2, <1>4
  <1>6. ASSUME NEW i \in 1..Len(t) PROVE t[i] = IF i < k THEN s[i] ELSE s[i + 1]
    <2>1. CASE i < k
      BY <1>0, <1>1, <1>4, <1>5, <2>1
    <2>2. CASE ~(i < k)
      <3>1. i - (k - 1) \in 1..Len(s) - k /\ k + (i - (k - 1)) = i + 1
        BY <1>0, <1>5, <2>2
      <3>2. t[i] = after[i - (k - 1)]
        BY <1>0, <1>1, <1>4, <1>5, <2>2
      <3>3. after[i - (k - 1)] = s[k + (i - (k - 1))]
        BY <1>2, <3>1
      <3> QED BY <2>2, <3>1, <3>2, <3>3
    <2> QED BY <2>1, <2>2
  <1>7. Without(s, k, t)
    BY <1>5, <1>6 DEF Without
  <1>8. t \in Seq(S)
    BY <1>4
  <1>9. IsInjective(t) /\ Range(t) = Range(s) \ {s[k]}
    BY <1>7, <1>8, WithoutPlace
  <1> QED BY <1>3, <1>8, <1>9

\* Taking the first is removing at the first place.
LEMMA FirstLeft ==
    ASSUME NEW S, NEW s \in Seq(S), IsInjective(s), s # <<>>
    PROVE  /\ Tail(s) \in Seq(S) /\ IsInjective(Tail(s))
           /\ Range(Tail(s)) = Range(s) \ {Head(s)} /\ Head(s) \in Range(s)
  <1> DEFINE t == Tail(s)
  <1>1. /\ 1 \in 1..Len(s) /\ Head(s) = s[1] /\ t \in Seq(S) /\ Len(t) = Len(s) - 1
        /\ \A i \in 1..Len(t) : t[i] = s[i + 1]
    OBVIOUS
  <1> HIDE DEF t
  <1>2. Without(s, 1, t)
    BY <1>1 DEF Without
  <1>3. IsInjective(t) /\ Range(t) = Range(s) \ {s[1]}
    BY <1>1, <1>2, WithoutPlace
  <1>4. s[1] \in Range(s)
    BY <1>1, Members
  <1> QED BY <1>1, <1>3, <1>4 DEF t

-----------------------------------------------------------------------------
(* Session: the inductive invariant.                                       *)

\* Who waits asked for the lock and holds none; who holds a guard asked for it
\* and may ask Studio; who asks Studio holds one, to read, in the session it
\* read it in.
InStep(c) ==
    /\ request[c].pc = "idle" => request[c] = NoRequest
    /\ c \in Range(waiting) => request[c].pc \in {"lock", "lock again"} /\ c \notin guards
    /\ c \in guards => request[c].pc \in {"lock", "lock again", "asking"}
    /\ request[c].pc = "asking" => c \in guards /\ ~Writer(c) /\ signedIn = request[c].account

SessionInv == SessionTypeOK /\ \A c \in Callers : InStep(c)

\* Whatever a caller's own step does, the others stay in step when their
\* requests and their places stay, and the session of those who ask Studio.
LEMMA OthersInStep ==
    ASSUME SessionInv, NEW c \in Callers, NEW to \in Request,
           request' = [request EXCEPT ![c] = to],
           signedIn' \in Accounts \cup {Nobody},
           \A d \in Callers : d # c /\ request[d].pc = "asking" => signedIn' = signedIn,
           waiting' \in Seq(Callers), IsInjective(waiting'),
           guards' \subseteq Callers,
           \A d \in Callers : d # c => (d \in guards' <=> d \in guards),
           \A d \in Callers : d # c => (d \in Range(waiting') <=> d \in Range(waiting)),
           to.op \in Writes /\ c \in guards' => guards' = {c},
           \A d \in guards' : d # c /\ c \in guards' => request[d].op \notin Writes,
           InStep(c)',
           to.pc \in {"lock", "lock again"} => c \in Range(waiting') \cup guards'
    PROVE  SessionInv'
  <1>1. request' \in [Callers -> Request]
    BY DEF SessionInv, SessionTypeOK
  <1>2. request'[c] = to /\ \A d \in Callers : d # c => request'[d] = request[d]
    BY DEF SessionInv, SessionTypeOK
  <1>3. ASSUME NEW d \in Callers PROVE InStep(d)'
    <2>1. CASE d # c
      <3>1. request'[d] = request[d] /\ InStep(d)
        BY <1>2, <2>1 DEF SessionInv
      <3>2. (d \in guards' <=> d \in guards) /\ (d \in Range(waiting') <=> d \in Range(waiting))
        BY <2>1
      <3> QED BY <3>1, <3>2 DEF InStep, Writer
    <2> QED BY <2>1
  <1>4. ASSUME NEW d \in guards', NEW e \in guards', request'[d].op \in Writes PROVE d = e
    <2>1. d \in Callers /\ e \in Callers
      OBVIOUS
    <2>2. CASE d = c
      BY <1>2, <1>4, <2>2
    <2>3. CASE d # c
      <3>1. request[d].op \in Writes /\ d \in guards
        BY <1>2, <1>4, <2>1, <2>3
      <3>2. e # c
        BY <2>3, <3>1
      <3> QED BY <2>1, <3>1, <3>2 DEF SessionInv, SessionTypeOK
    <2> QED BY <2>2, <2>3
  <1>5. ASSUME NEW d \in Callers, request'[d].pc \in {"lock", "lock again"}
        PROVE  d \in Range(waiting') \cup guards'
    <2>1. CASE d # c
      <3>1. d \in Range(waiting) \cup guards
        BY <1>2, <1>5, <2>1 DEF SessionInv, SessionTypeOK
      <3> QED BY <2>1, <3>1
    <2> QED BY <1>2, <1>5, <2>1
  <1> QED BY <1>1, <1>3, <1>4, <1>5 DEF SessionInv, SessionTypeOK

PCs == {"idle", "signing in", "lock", "again", "lock again", "asking"}

LEMMA Requests ==
    ASSUME SessionInv, NEW c \in Callers
    PROVE  /\ request[c] \in Request /\ NoRequest \in Request
           /\ request \in [Callers -> Request]
           /\ signedIn \in Accounts \cup {Nobody}
           /\ waiting \in Seq(Callers) /\ IsInjective(waiting) /\ guards \subseteq Callers
           /\ InStep(c)
  BY DEF SessionInv, SessionTypeOK, Request, NoRequest

\* Going on to another step of a request.
LEMMA Goes ==
    ASSUME SessionInv, NEW c \in Callers, NEW pc \in PCs, RequestGoes(c, pc)
    PROVE  \E to \in Request :
              /\ request' = [request EXCEPT ![c] = to]
              /\ to.pc = pc /\ to.op = request[c].op /\ to.account = request[c].account
  <1> DEFINE to == [request[c] EXCEPT !.pc = pc]
  <1>1. /\ to \in Request
        /\ to.pc = pc /\ to.op = request[c].op /\ to.account = request[c].account
    BY Requests DEF Request, PCs
  <1>2. request' = [request EXCEPT ![c] = to]
    BY DEF RequestGoes
  <1> QED BY <1>1, <1>2

\* A request that ends with its guard, wherever its caller waited before.
LEMMA FinishedInStep ==
    ASSUME SessionInv, NEW c \in Callers, Finishes(c),
           signedIn' \in Accounts \cup {Nobody},
           \A d \in Callers : d # c /\ request[d].pc = "asking" => signedIn' = signedIn,
           waiting' \in Seq(Callers), IsInjective(waiting'),
           Range(waiting') = Range(waiting) \ {c}
    PROVE  SessionInv'
  <1>1. /\ request' = [request EXCEPT ![c] = NoRequest] /\ guards' = guards \ {c}
        /\ NoRequest \in Request
    BY Requests DEF Finishes
  <1>2. guards' \subseteq Callers
    BY <1>1, Requests
  <1>3. request'[c] = NoRequest
    BY <1>1, Requests
  <1>4. InStep(c)'
    BY <1>1, <1>3 DEF InStep, NoRequest
  <1>5. NoRequest.pc = "idle" /\ NoRequest.op = "none"
    BY DEF NoRequest
  <1> QED BY <1>1, <1>2, <1>4, <1>5, OthersInStep

\* A caller that joins the queue.
LEMMA JoinedInStep ==
    ASSUME SessionInv, NEW c \in Callers, NEW to \in Request,
           request' = [request EXCEPT ![c] = to], to.pc \in {"lock", "lock again"},
           Asks(c), UNCHANGED <<signedIn, guards>>,
           request[c].pc \notin {"lock", "lock again", "asking"}
    PROVE  SessionInv'
  <1>1. c \notin Range(waiting) /\ c \notin guards
    BY Requests DEF InStep
  <1>2. /\ waiting' \in Seq(Callers) /\ IsInjective(waiting')
        /\ Range(waiting') = Range(waiting) \cup {c}
    BY <1>1, Requests, Joined DEF Asks
  <1>3. request'[c] = to
    BY Requests
  <1>4. InStep(c)'
    BY <1>1, <1>3 DEF InStep
  <1>5. /\ signedIn' = signedIn /\ guards' = guards
        /\ signedIn \in Accounts \cup {Nobody} /\ guards \subseteq Callers
    BY Requests
  <1> QED BY <1>1, <1>2, <1>4, <1>5, OthersInStep

\* A caller that goes on outside the queue and keeps its guard or drops it.
LEMMA WentOnInStep ==
    ASSUME SessionInv, NEW c \in Callers, NEW to \in Request,
           request' = [request EXCEPT ![c] = to],
           UNCHANGED <<signedIn, waiting>>, c \notin Range(waiting),
           guards' \in {guards, guards \ {c}},
           to.op \in Writes => c \notin guards',
           to.pc \in {"signing in", "again", "asking"},
           c \in guards' => to.pc = "asking" /\ ~Writer(c),
           to.pc = "asking" => /\ c \in guards' /\ to.account = signedIn
    PROVE  SessionInv'
  <1>1. request'[c] = to
    BY Requests
  <1>2. signedIn' = signedIn /\ waiting' = waiting
    OBVIOUS
  <1>3. InStep(c)'
    BY <1>1, <1>2 DEF InStep, Writer
  <1>4. ASSUME NEW d \in guards', d # c, c \in guards' PROVE request[d].op \notin Writes
    BY <1>4 DEF SessionInv, SessionTypeOK
  <1>5. /\ guards' \subseteq Callers
        /\ signedIn' \in Accounts \cup {Nobody}
        /\ waiting' \in Seq(Callers) /\ IsInjective(waiting')
    BY <1>2, Requests
  <1> QED BY <1>1, <1>2, <1>3, <1>4, <1>5, OthersInStep

-----------------------------------------------------------------------------
(* Session: one lemma per kind of step.                                    *)

LEMMA ArrivesKeeps ==
    ASSUME SessionInv, NEW c \in Callers, NEW op \in Ops, Arrives(c, op)
    PROVE  SessionInv'
  <1>0. request[c] = NoRequest
    BY DEF Arrives
  <1>1. request[c].pc = "idle"
    BY <1>0 DEF NoRequest
  <1>2. c \notin Range(waiting) /\ c \notin guards
    BY <1>1, Requests DEF InStep
  <1>3. CASE op = "login"
    <2>1. PICK a \in Accounts :
             request' = [request EXCEPT ![c] = [op |-> op, pc |-> "signing in", account |-> a]]
      BY <1>3 DEF Arrives
    <2> DEFINE to == [op |-> op, pc |-> "signing in", account |-> a]
    <2>2. to \in Request /\ to.pc = "signing in"
      BY <1>3 DEF Request, Ops, Writes
    <2>3. request' = [request EXCEPT ![c] = to] /\ UNCHANGED <<signedIn, guards, waiting>>
      BY <1>3, <2>1 DEF Arrives
    <2> HIDE DEF to
    <2> QED BY <1>2, <2>2, <2>3, WentOnInStep
  <1>4. CASE op # "login"
    <2> DEFINE to == [op |-> op, pc |-> "lock", account |-> Nobody]
    <2>1. to \in Request /\ to.pc = "lock"
      BY <1>4 DEF Request
    <2>2. request' = [request EXCEPT ![c] = to] /\ Asks(c) /\ UNCHANGED <<signedIn, guards>>
      BY <1>4 DEF Arrives
    <2> HIDE DEF to
    <2> QED BY <1>1, <2>1, <2>2, JoinedInStep
  <1> QED BY <1>3, <1>4

\* A request that ends outside the queue.
LEMMA EndsKeeps ==
    ASSUME SessionInv, NEW c \in Callers, Finishes(c), UNCHANGED <<signedIn, waiting>>,
           c \notin Range(waiting)
    PROVE  SessionInv'
  <1>1. /\ signedIn' = signedIn /\ waiting' = waiting
        /\ signedIn' \in Accounts \cup {Nobody}
        /\ waiting' \in Seq(Callers) /\ IsInjective(waiting')
        /\ Range(waiting') = Range(waiting) \ {c}
    BY Requests
  <1> QED BY <1>1, FinishedInStep

LEMMA SignsInKeeps ==
    ASSUME SessionInv, NEW c \in Callers, SignsIn(c)
    PROVE  SessionInv'
  <1>1. request[c].pc = "signing in" /\ c \notin Range(waiting) /\ UNCHANGED signedIn
    BY Requests DEF SignsIn, InStep
  <1>2. CASE RequestGoes(c, "lock") /\ Asks(c) /\ UNCHANGED guards
    <2>1. PICK to \in Request : request' = [request EXCEPT ![c] = to] /\ to.pc = "lock"
      BY <1>2, Goes DEF PCs
    <2> QED BY <1>1, <1>2, <2>1, JoinedInStep
  <1>3. CASE Finishes(c) /\ UNCHANGED waiting
    BY <1>1, <1>3, EndsKeeps
  <1> QED BY <1>2, <1>3 DEF SignsIn

LEMMA GrantedKeeps ==
    ASSUME SessionInv, NEW c \in Callers, Granted(c)
    PROVE  SessionInv'
  <1>1. /\ waiting # <<>> /\ c = Head(waiting) /\ Grantable(c) /\ waiting' = Tail(waiting)
        /\ guards' = guards \cup {c} /\ request' = request /\ signedIn' = signedIn
    BY DEF Granted
  <1>2. /\ waiting' \in Seq(Callers) /\ IsInjective(waiting')
        /\ Range(waiting') = Range(waiting) \ {c} /\ c \in Range(waiting)
    BY <1>1, Requests, FirstLeft
  <1>3. request[c].pc \in {"lock", "lock again"} /\ request[c] \in Request /\ c \notin guards
    BY <1>2, Requests DEF InStep
  <1>4. request' = [request EXCEPT ![c] = request[c]]
    BY <1>1, Requests
  <1>5. InStep(c)'
    BY <1>1, <1>2, <1>3 DEF InStep
  <1>6. request[c].op \in Writes => guards' = {c}
    BY <1>1 DEF Grantable, Writer
  <1>7. ASSUME NEW d \in guards', d # c PROVE request[d].op \notin Writes
    BY <1>1, <1>7 DEF Grantable, Writer
  <1>8. guards' \subseteq Callers /\ signedIn' \in Accounts \cup {Nobody}
    BY <1>1, Requests
  <1> QED BY <1>1, <1>2, <1>3, <1>4, <1>5, <1>6, <1>7, <1>8, OthersInStep

\* A writer is alone: nobody is asking Studio when the session changes.
LEMMA StoresKeeps ==
    ASSUME SessionInv, NEW c \in Callers, Stores(c)
    PROVE  SessionInv'
  <1>1. /\ c \in guards /\ c \notin Range(waiting) /\ request[c].op \in Writes
        /\ signedIn' = request[c].account /\ waiting' = waiting /\ Finishes(c)
    BY DEF Stores, Holds
  <1>2. ASSUME NEW d \in Callers, d # c, request[d].pc = "asking" PROVE FALSE
    <2>1. d \in guards
      BY <1>2 DEF SessionInv, InStep
    <2> QED BY <1>1, <1>2, <2>1 DEF SessionInv, SessionTypeOK
  <1>3. signedIn' \in Accounts \cup {Nobody}
    BY <1>1, Requests DEF Request
  <1>4. /\ waiting' \in Seq(Callers) /\ IsInjective(waiting')
        /\ Range(waiting') = Range(waiting) \ {c}
    BY <1>1, Requests
  <1> QED BY <1>1, <1>2, <1>3, <1>4, FinishedInStep

LEMMA BorrowsKeeps ==
    ASSUME SessionInv, NEW c \in Callers, Borrows(c)
    PROVE  SessionInv'
  <1>1. /\ c \in guards /\ c \notin Range(waiting) /\ ~Writer(c)
        /\ UNCHANGED <<signedIn, waiting>>
    BY DEF Borrows, Holds, Writer, Writes
  <1>2. CASE signedIn = Nobody
    <2>1. Finishes(c)
      BY <1>2 DEF Borrows
    <2> QED BY <1>1, <2>1, EndsKeeps
  <1>3. CASE signedIn # Nobody
    <2> DEFINE to == [request[c] EXCEPT !.pc = "asking", !.account = signedIn]
    <2>1. /\ to \in Request /\ to.pc = "asking" /\ to.account = signedIn
          /\ to.op = request[c].op
      BY Requests DEF Request
    <2>2. request' = [request EXCEPT ![c] = to] /\ guards' = guards
      BY <1>3 DEF Borrows, Kept
    <2> HIDE DEF to
    <2>3. to.op \notin Writes
      BY <1>1, <2>1 DEF Writer
    <2> QED BY <1>1, <2>1, <2>2, <2>3, WentOnInStep
  <1> QED BY <1>2, <1>3

LEMMA ChecksSignedInKeeps ==
    ASSUME SessionInv, NEW c \in Callers, ChecksSignedIn(c)
    PROVE  SessionInv'
  <1>1. /\ c \in guards /\ c \notin Range(waiting) /\ guards' = guards \ {c}
        /\ UNCHANGED <<signedIn, waiting>> /\ RequestGoes(c, "again")
    BY DEF ChecksSignedIn, Holds, GuardDropped
  <1>2. PICK to \in Request : request' = [request EXCEPT ![c] = to] /\ to.pc = "again"
    BY <1>1, Goes DEF PCs
  <1> QED BY <1>1, <1>2, WentOnInStep

LEMMA AsksAgainKeeps ==
    ASSUME SessionInv, NEW c \in Callers, AsksAgain(c)
    PROVE  SessionInv'
  <1>1. /\ request[c].pc = "again" /\ Asks(c) /\ UNCHANGED <<signedIn, guards>>
        /\ RequestGoes(c, "lock again")
    BY DEF AsksAgain
  <1>2. PICK to \in Request : request' = [request EXCEPT ![c] = to] /\ to.pc = "lock again"
    BY <1>1, Goes DEF PCs
  <1> QED BY <1>1, <1>2, JoinedInStep

LEMMA DroppedKeeps ==
    ASSUME SessionInv, NEW c \in Callers, Dropped(c)
    PROVE  SessionInv'
  <1>1. Finishes(c) /\ signedIn' = signedIn
    BY DEF Dropped
  <1>2. CASE c \notin Range(waiting) /\ UNCHANGED waiting
    BY <1>1, <1>2, EndsKeeps
  <1>3. ASSUME NEW i \in DOMAIN waiting, waiting[i] = c, waiting' = RemoveAt(waiting, i)
        PROVE  SessionInv'
    <2>1. waiting \in Seq(Callers) /\ IsInjective(waiting) /\ signedIn \in Accounts \cup {Nobody}
      BY Requests
    <2>2. i \in 1..Len(waiting)
      BY <2>1, Members
    <2>3. /\ waiting' \in Seq(Callers) /\ IsInjective(waiting')
          /\ Range(waiting') = Range(waiting) \ {c}
      BY <1>3, <2>1, <2>2, Left
    <2> QED BY <1>1, <2>1, <2>3, FinishedInStep
  <1> QED BY <1>2, <1>3 DEF Dropped

LEMMA SessionStep ==
    ASSUME SessionInv, [SessionNext]_sessionVars
    PROVE  SessionInv'
  <1>1. CASE UNCHANGED sessionVars
    <2>1. /\ signedIn' = signedIn /\ guards' = guards
          /\ waiting' = waiting /\ request' = request
      BY <1>1 DEF sessionVars
    <2> QED BY <2>1 DEF SessionInv, SessionTypeOK, InStep, Writer
  <1>2. ASSUME NEW c \in Callers, NEW op \in Ops, Arrives(c, op) PROVE SessionInv'
    BY <1>2, ArrivesKeeps
  <1>3. ASSUME NEW c \in Callers, Steps(c) PROVE SessionInv'
    <2>1. ASSUME NEW op, Looks(c, op) PROVE SessionInv'
      BY <2>1, EndsKeeps DEF Looks, Holds
    <2> QED BY <1>3, <2>1, GrantedKeeps, StoresKeeps, BorrowsKeeps, ChecksSignedInKeeps,
              AsksAgainKeeps DEF Steps, ListsLabels, ClonesClient
  <1>4. ASSUME NEW c \in Callers, StudioAnswers(c) PROVE SessionInv'
    <2>1. c \notin Range(waiting)
      BY <1>4, Requests DEF StudioAnswers, InStep
    <2> QED BY <1>4, <2>1, EndsKeeps DEF StudioAnswers
  <1> QED BY <1>1, <1>2, <1>3, <1>4, SignsInKeeps, DroppedKeeps DEF SessionNext

LEMMA SessionStarts == SessionInit => SessionInv
  <1> SUFFICES ASSUME SessionInit PROVE SessionInv
    OBVIOUS
  <1>1. /\ signedIn = Nobody /\ guards = {} /\ waiting = <<>>
        /\ \A c \in Callers : request[c] = NoRequest
        /\ request = [c \in Callers |-> NoRequest]
    BY DEF SessionInit
  <1>2. NoRequest \in Request /\ NoRequest.pc = "idle"
    BY DEF NoRequest, Request
  <1>3. Range(waiting) = {} /\ waiting \in Seq(Callers) /\ IsInjective(waiting)
    BY <1>1 DEF Range, IsInjective
  <1> QED BY <1>1, <1>2, <1>3 DEF SessionInv, SessionTypeOK, InStep

-----------------------------------------------------------------------------
(* Session: the theorems.                                                  *)

\* The lock of UploadManager::client admits a writer alone, whoever asks for
\* the lock waits for it or has it, and nobody waits twice.
THEOREM LockAdmits == SessionSpec => []SessionTypeOK
  <1>1. SessionInv => SessionTypeOK
    BY DEF SessionInv
  <1> QED BY <1>1, SessionStarts, SessionStep, PTL DEF SessionSpec

\* No login and no logout changes the session of a request that waits for
\* Studio's answer: list_studio_projects and get_username hold their guard.
THEOREM AnsweredInItsSession == SessionSpec => []AnsweredInSession
  <1>1. SessionInv => AnsweredInSession
    BY DEF SessionInv, InStep, AnsweredInSession
  <1> QED BY <1>1, SessionStarts, SessionStep, PTL DEF SessionSpec

-----------------------------------------------------------------------------
(* Certificates: the strengthening.                                        *)

\* A pair on its way to the directory is the newest one, whole.
SavesNewest ==
    start.pc = "save" => /\ memory.source = "Generated"
                         /\ memory.crt = Whole(pairs) /\ memory.key = Whole(pairs)
                         /\ pairs # 0

\* From the first truncation to the key's content a save is halfway, and behind
\* the certificate's content it has written that.
SaveTracked ==
    start.pc = "save" => /\ start.step \in 2..5 => halfway
                         /\ start.step \in 3..6 => dir["crt"] = memory.crt

\* While none is cut off, the directory holds nothing or what was saved last.
DirectoryWhole ==
    ~halfway => \/ \A h \in Halves : dir[h] = Absent
                \/ \A h \in Halves : dir[h] = Whole(kept)

\* What was loaded is not being saved.
LoadedApart == memory.source = "CertDir" => start.pc \in {"build", "serving", "refused"}

CertInv ==
    /\ CertTypeOK
    /\ SavesNewest /\ SaveTracked /\ DirectoryWhole /\ LoadedApart
    /\ SavedPairServes

-----------------------------------------------------------------------------
LEMMA SixSteps ==
    /\ Len(SaveSteps) = 6
    /\ SaveSteps[1] = <<"crt", "create">> /\ SaveSteps[2] = <<"crt", "write">>
    /\ SaveSteps[3] = <<"crt", "mode">> /\ SaveSteps[4] = <<"key", "create">>
    /\ SaveSteps[5] = <<"key", "write">> /\ SaveSteps[6] = <<"key", "mode">>
  BY DEF SaveSteps

LEMMA WholeIsContent ==
    /\ Absent \in Contents /\ Torn \in Contents
    /\ \A n \in 1..MaxPairs : Whole(n) \in Contents
    /\ \A n : Whole(n) # Absent /\ Whole(n) # Torn
    /\ \A n : Whole(n).state = "whole" /\ Whole(n).pair = n
    /\ Absent # Torn
  BY DEF Absent, Torn, Whole, Contents

\* The control points.
Controls == [pc : StartPcs, step : 1..6]

LEMMA AtIsControl ==
    /\ \A pc \in StartPcs : At(pc) \in Controls
    /\ \A pc : At(pc).pc = pc /\ At(pc).step = 1
  BY DEF At, Controls

\* The types, with what is local to a start named apart.
Results == [crt : Contents, key : Contents, source : Sources]

FilesTyped == dir \in [Halves -> Contents] /\ flushed \in [Halves -> Contents]
StartTyped == /\ start \in Controls /\ memory \in Results
              /\ mode \in {"default", "generate-cert", "cert and key"}
PairsTyped == pairs \in 0..MaxPairs /\ kept \in 0..pairs

LEMMA CertTypes == CertTypeOK <=> FilesTyped /\ StartTyped /\ PairsTyped /\ halfway \in BOOLEAN
  BY SixSteps DEF CertTypeOK, Controls, Results, FilesTyped, StartTyped, PairsTyped

LEMMA NoResultTyped ==
    /\ NoResult \in Results
    /\ \A s \in Sources : [NoResult EXCEPT !.source = s] \in Results
    /\ \A s : [NoResult EXCEPT !.source = s].source = s
    /\ NoResult.source = "none"
  BY WholeIsContent DEF NoResult, Results, Sources

LEMMA CertInitially == CertInit => CertInv
  <1> SUFFICES ASSUME CertInit PROVE CertInv
    OBVIOUS
  <1> USE CertificatesAssumption
  <1>1. CertTypeOK
    <2>1. dir \in [Halves -> Contents] /\ flushed \in [Halves -> Contents]
      BY WholeIsContent DEF CertInit
    <2>2. start \in Controls
      BY AtIsControl DEF CertInit, StartPcs
    <2>3. memory \in Results
      BY NoResultTyped DEF CertInit
    <2>4. mode \in {"default", "generate-cert", "cert and key"} /\ halfway \in BOOLEAN
      BY DEF CertInit
    <2>5. pairs \in 0..MaxPairs /\ kept \in 0..pairs
      BY DEF CertInit, CertificatesAssumption
    <2> QED BY <2>1, <2>2, <2>3, <2>4, <2>5, CertTypes DEF FilesTyped, StartTyped, PairsTyped
  <1>2. SavesNewest /\ SaveTracked /\ DirectoryWhole /\ LoadedApart /\ SavedPairServes
    BY NoResultTyped DEF CertInit, SavesNewest, SaveTracked, DirectoryWhole, LoadedApart,
       SavedPairServes, At
  <1> QED BY <1>1, <1>2 DEF CertInv

-----------------------------------------------------------------------------
(* Certificates: the steps.                                                *)

\* The types of the next state, put together from the parts.
LEMMA TypesPutTogether ==
    ASSUME FilesTyped', StartTyped', PairsTyped', (halfway \in BOOLEAN)'
    PROVE  CertTypeOK'
  BY SixSteps DEF CertTypeOK, Controls, Results, FilesTyped, StartTyped, PairsTyped

LEMMA StartsWithSound ==
    ASSUME CertInv, NEW m \in {"default", "generate-cert", "cert and key"}, StartsWith(m)
    PROVE  CertInv'
  <1>1. start' \in {At("serving"), At("refused"), At("load")} /\ start' \in Controls
    BY AtIsControl DEF StartsWith, StartPcs
  <1>2. memory' \in Results /\ memory'.source \in {"UserProvided", "none"}
    BY NoResultTyped DEF StartsWith, Sources
  <1>3. FilesTyped' /\ PairsTyped' /\ (halfway \in BOOLEAN)'
    BY CertTypes DEF CertInv, StartsWith, FilesTyped, PairsTyped
  <1>4. StartTyped'
    BY <1>1, <1>2 DEF StartsWith, StartTyped
  <1>5. start'.pc # "save"
    BY <1>1, AtIsControl
  <1>6. (SavesNewest /\ SaveTracked /\ LoadedApart /\ SavedPairServes)'
    BY <1>2, <1>5 DEF SavesNewest, SaveTracked, LoadedApart, SavedPairServes
  <1>7. DirectoryWhole'
    BY DEF CertInv, StartsWith, DirectoryWhole
  <1> QED BY <1>3, <1>4, <1>6, <1>7, TypesPutTogether DEF CertInv

LEMMA LoadCertDirSound ==
    ASSUME CertInv, LoadCertDir
    PROVE  CertInv'
  <1>1. FilesTyped' /\ PairsTyped' /\ (halfway \in BOOLEAN)'
    BY CertTypes DEF CertInv, LoadCertDir, FilesTyped, PairsTyped
  <1>2. DirectoryWhole'
    BY DEF CertInv, LoadCertDir, DirectoryWhole
  <1>3. CASE /\ Exist /\ start' = At("build")
             /\ memory' = [crt |-> dir["crt"], key |-> dir["key"], source |-> "CertDir"]
    <2>1. StartTyped'
      BY <1>3, CertTypes, AtIsControl
      DEF CertInv, LoadCertDir, StartTyped, FilesTyped, Results, Sources, StartPcs, Halves
    <2>2. start'.pc = "build"
      BY <1>3, AtIsControl
    <2>3. ~halfway => dir["crt"] = Whole(kept) /\ dir["key"] = Whole(kept)
      BY <1>3 DEF CertInv, DirectoryWhole, Exist, Halves
    <2>4. (SavesNewest /\ SaveTracked /\ LoadedApart /\ SavedPairServes)'
      BY <1>3, <2>2, <2>3
      DEF LoadCertDir, SavesNewest, SaveTracked, LoadedApart, SavedPairServes, Whole
    <2> QED BY <1>1, <1>2, <2>1, <2>4, TypesPutTogether DEF CertInv
  <1>4. CASE start' = At("generate") /\ UNCHANGED memory
    <2>1. StartTyped'
      BY <1>4, CertTypes, AtIsControl DEF CertInv, LoadCertDir, StartTyped, StartPcs
    <2>2. start'.pc = "generate" /\ memory'.source # "CertDir"
      BY <1>4, AtIsControl DEF CertInv, LoadCertDir, LoadedApart
    <2>3. (SavesNewest /\ SaveTracked /\ LoadedApart /\ SavedPairServes)'
      BY <2>2 DEF SavesNewest, SaveTracked, LoadedApart, SavedPairServes
    <2> QED BY <1>1, <1>2, <2>1, <2>3, TypesPutTogether DEF CertInv
  <1> QED BY <1>3, <1>4 DEF LoadCertDir

LEMMA GenerateSound ==
    ASSUME CertInv, Generate
    PROVE  CertInv'
  <1> USE CertificatesAssumption
  <1>1. FilesTyped' /\ (halfway \in BOOLEAN)'
    BY CertTypes DEF CertInv, Generate, FilesTyped
  <1>2. DirectoryWhole'
    BY DEF CertInv, Generate, DirectoryWhole
  <1>3. memory.source # "CertDir"
    BY DEF CertInv, Generate, LoadedApart
  <1>4. ASSUME pairs' = pairs + 1,
               NEW next \in {<<"Generated", At("save")>>, <<"Embedded", At("build")>>},
               memory' = [crt |-> NewPair, key |-> NewPair, source |-> next[1]],
               start' = next[2]
        PROVE  CertInv'
    <2>1. PairsTyped'
      BY <1>4, CertTypes DEF CertInv, Generate, PairsTyped
    <2>2. NewPair \in Contents /\ NewPair = Whole(pairs')
      BY <1>4, <2>1, CertTypes, WholeIsContent DEF CertInv, Generate, PairsTyped, NewPair
    <2>3. StartTyped'
      <3>1. start' \in Controls
        BY <1>4, AtIsControl DEF StartPcs
      <3>2. memory' \in Results
        BY <1>4, <2>2 DEF Results, Sources
      <3>3. mode' = mode /\ StartTyped
        BY CertTypes DEF CertInv, Generate
      <3> QED BY <3>1, <3>2, <3>3 DEF StartTyped
    <2>4. start'.pc = "save" => start'.step = 1 /\ next[1] = "Generated"
      BY <1>4, AtIsControl
    <2>5. memory'.source # "CertDir" /\ pairs' # 0
      BY <1>4, CertTypes DEF CertInv, PairsTyped
    <2>6. (SavesNewest /\ SaveTracked /\ LoadedApart /\ SavedPairServes)'
      BY <1>4, <2>2, <2>4, <2>5 DEF SavesNewest, SaveTracked, LoadedApart, SavedPairServes
    <2> QED BY <1>1, <1>2, <2>1, <2>3, <2>6, TypesPutTogether DEF CertInv
  <1>5. CASE start' = At("refused") /\ UNCHANGED <<memory, pairs>>
    <2>1. StartTyped' /\ PairsTyped'
      BY <1>5, CertTypes, AtIsControl DEF CertInv, Generate, StartTyped, PairsTyped, StartPcs
    <2>2. start'.pc = "refused"
      BY <1>5, AtIsControl
    <2>3. (SavesNewest /\ SaveTracked /\ LoadedApart /\ SavedPairServes)'
      BY <1>3, <1>5, <2>2 DEF SavesNewest, SaveTracked, LoadedApart, SavedPairServes
    <2> QED BY <1>1, <1>2, <2>1, <2>3, TypesPutTogether DEF CertInv
  <1> QED BY <1>4, <1>5 DEF Generate

\* A step that leaves the directory and the pairs alone, and the save behind.
LEMMA AwaySound ==
    ASSUME CertInv, UNCHANGED <<dir, mode, pairs, kept, halfway>>,
           flushed' \in {flushed, dir},
           NEW pc \in StartPcs \ {"save"}, start' = At(pc),
           memory' \in {memory, NoResult},
           memory'.source = "CertDir" => pc \in {"build", "serving", "refused"},
           ~halfway /\ memory'.source = "CertDir" => pc # "refused"
    PROVE  CertInv'
  <1>1. FilesTyped' /\ PairsTyped' /\ (halfway \in BOOLEAN)'
    BY CertTypes DEF CertInv, FilesTyped, PairsTyped
  <1>2. StartTyped'
    BY CertTypes, AtIsControl, NoResultTyped DEF CertInv, StartTyped
  <1>3. start'.pc = pc
    BY AtIsControl
  <1>4. DirectoryWhole'
    BY DEF CertInv, DirectoryWhole
  <1>5. (SavesNewest /\ SaveTracked /\ LoadedApart)'
    BY <1>3 DEF SavesNewest, SaveTracked, LoadedApart
  <1>6. SavedPairServes'
    BY <1>3, NoResultTyped DEF CertInv, SavedPairServes
  <1> QED BY <1>1, <1>2, <1>4, <1>5, <1>6, TypesPutTogether DEF CertInv

LEMMA SaveFailsSound ==
    ASSUME CertInv, SaveFails
    PROVE  CertInv'
  BY AwaySound DEF SaveFails, StartPcs, CertInv, SavesNewest

LEMMA BuildTlsSound ==
    ASSUME CertInv, BuildTls
    PROVE  CertInv'
  <1>1. ~halfway /\ memory.source = "CertDir" => Fit
    BY WholeIsContent DEF CertInv, SavedPairServes, Fit
  <1>2. CASE Fit
    BY <1>2, AwaySound DEF BuildTls, StartPcs
  <1>3. CASE ~Fit
    BY <1>1, <1>3, AwaySound DEF BuildTls, StartPcs
  <1> QED BY <1>2, <1>3

LEMMA ExitsSound ==
    ASSUME CertInv, Exits
    PROVE  CertInv'
  BY AwaySound, NoResultTyped DEF Exits, StartPcs

LEMMA WrittenBackSound ==
    ASSUME CertInv, WrittenBack
    PROVE  CertInv'
  <1>1. FilesTyped' /\ StartTyped' /\ PairsTyped' /\ (halfway \in BOOLEAN)'
    BY CertTypes DEF CertInv, WrittenBack, FilesTyped, StartTyped, PairsTyped
  <1>2. (SavesNewest /\ SaveTracked /\ DirectoryWhole /\ LoadedApart /\ SavedPairServes)'
    BY DEF CertInv, WrittenBack, SavesNewest, SaveTracked, DirectoryWhole, LoadedApart,
       SavedPairServes
  <1> QED BY <1>1, <1>2, TypesPutTogether DEF CertInv

LEMMA PowerLossSound ==
    ASSUME CertInv, PowerLoss
    PROVE  CertInv'
  <1>1. FilesTyped' /\ PairsTyped' /\ (halfway \in BOOLEAN)'
    BY CertTypes DEF CertInv, PowerLoss, FilesTyped, PairsTyped
  <1>2. StartTyped' /\ start'.pc = "stopped" /\ memory'.source = "none"
    BY CertTypes, AtIsControl, NoResultTyped DEF CertInv, PowerLoss, StartTyped, StartPcs
  <1>3. ~halfway' => ~halfway /\ dir' = dir /\ kept' = kept
    BY DEF PowerLoss
  <1>4. DirectoryWhole'
    BY <1>3 DEF CertInv, DirectoryWhole
  <1>5. (SavesNewest /\ SaveTracked /\ LoadedApart /\ SavedPairServes)'
    BY <1>2 DEF SavesNewest, SaveTracked, LoadedApart, SavedPairServes
  <1> QED BY <1>1, <1>2, <1>4, <1>5, TypesPutTogether DEF CertInv

-----------------------------------------------------------------------------
(* A save, step by step.                                                   *)

\* Where a step leads, and what is so while saving.
LEMMA SaveProceeds ==
    ASSUME CertInv, SaveStep
    PROVE  /\ start.pc = "save" /\ start.step \in 1..6
           /\ start' \in Controls
           /\ start.step = 6 => start'.pc = "build"
           /\ start.step # 6 => start'.pc = "save" /\ start'.step = start.step + 1
           /\ memory' = memory /\ pairs' = pairs /\ flushed' = flushed /\ mode' = mode
           /\ memory.source = "Generated" /\ pairs # 0
           /\ memory.crt = Whole(pairs) /\ memory.key = Whole(pairs)
  <1>1. start \in Controls
    BY CertTypes DEF CertInv, StartTyped
  <1>2. start.step \in 1..6 /\ start.pc = "save"
    BY <1>1 DEF Controls, SaveStep
  <1>3. CASE start.step = 6
    BY <1>3, SixSteps, AtIsControl DEF CertInv, SaveStep, Proceeds, SavesNewest, StartPcs
  <1>4. CASE start.step # 6
    <2>1. start' = [start EXCEPT !.step = start.step + 1]
      BY <1>4, SixSteps DEF SaveStep, Proceeds
    <2>2. start' \in Controls /\ start'.pc = "save" /\ start'.step = start.step + 1
      BY <1>1, <1>2, <1>4, <2>1 DEF Controls
    <2> QED BY <1>2, <1>4, <2>2 DEF CertInv, SaveStep, SavesNewest
  <1> QED BY <1>2, <1>3, <1>4

\* What a step does to the files, to the mark of a cut-off save and to what was
\* saved last.
LEMMA SaveWrites ==
    ASSUME CertInv, SaveStep
    PROVE  /\ start.step = 1 => dir' = [dir EXCEPT !["crt"] = Torn] /\ halfway'
           /\ start.step = 2 => dir' = [dir EXCEPT !["crt"] = memory.crt]
           /\ start.step = 3 => dir' = dir
           /\ start.step = 4 => dir' = [dir EXCEPT !["key"] = Torn]
           /\ start.step = 5 => /\ dir' = [dir EXCEPT !["key"] = memory.key]
                               /\ ~halfway' /\ kept' = memory.crt.pair
           /\ start.step = 6 => dir' = dir
           /\ start.step \in {2, 3, 4, 6} => halfway' = halfway
           /\ start.step # 5 => kept' = kept
  <1>1. CASE start.step = 1
    BY <1>1, SixSteps DEF SaveStep, Step, Overwrites
  <1>2. CASE start.step = 2
    BY <1>2, SixSteps DEF SaveStep, Step, Overwrites
  <1>3. CASE start.step = 3
    BY <1>3, SixSteps DEF SaveStep, Step, Overwrites
  <1>4. CASE start.step = 4
    BY <1>4, SixSteps DEF SaveStep, Step, Overwrites
  <1>5. CASE start.step = 5
    BY <1>5, SixSteps DEF SaveStep, Step, Overwrites
  <1>6. CASE start.step = 6
    BY <1>6, SixSteps DEF SaveStep, Step, Overwrites
  <1> QED BY <1>1, <1>2, <1>3, <1>4, <1>5, <1>6, SaveProceeds

LEMMA SaveStepSound ==
    ASSUME CertInv, SaveStep
    PROVE  CertInv'
  <1>1. FilesTyped /\ StartTyped /\ PairsTyped /\ halfway \in BOOLEAN
    BY CertTypes DEF CertInv
  <1>0. /\ start.step \in 1..6
        /\ start.step \in 2..5 => halfway
        /\ start.step \in 3..6 => dir["crt"] = memory.crt
    BY SaveProceeds DEF CertInv, SaveTracked
  <1>2. Whole(pairs) \in Contents /\ Torn \in Contents /\ Whole(pairs).pair = pairs
    BY <1>1, SaveProceeds, WholeIsContent, CertificatesAssumption DEF PairsTyped
  <1>3. dir' \in [Halves -> Contents]
    <2>1. dir \in [Halves -> Contents]
      BY <1>1 DEF FilesTyped
    <2>2. \A h, c : h \in Halves /\ c \in Contents
                     => [dir EXCEPT ![h] = c] \in [Halves -> Contents]
      BY <2>1
    <2>3. \/ dir' = dir
          \/ dir' = [dir EXCEPT !["crt"] = Torn]
          \/ dir' = [dir EXCEPT !["key"] = Torn]
          \/ dir' = [dir EXCEPT !["crt"] = Whole(pairs)]
          \/ dir' = [dir EXCEPT !["key"] = Whole(pairs)]
      BY SaveWrites, SaveProceeds
    <2> QED BY <1>2, <2>1, <2>2, <2>3 DEF Halves
  <1>4. FilesTyped'
    BY <1>1, <1>3, SaveProceeds DEF FilesTyped
  <1>5. StartTyped'
    BY <1>1, SaveProceeds DEF StartTyped
  <1>6. (halfway \in BOOLEAN)'
    BY DEF SaveStep, CertInv, CertTypeOK
  <1>7. PairsTyped'
    <2>1. kept' \in {kept, pairs}
      BY <1>2, SaveWrites, SaveProceeds
    <2> QED BY <1>1, <2>1, SaveProceeds DEF PairsTyped
  <1>8. (SavesNewest /\ LoadedApart /\ SavedPairServes)'
    BY SaveProceeds DEF SavesNewest, LoadedApart, SavedPairServes
  <1>9. SaveTracked'
    <2>1. start'.pc = "save" => start'.step = start.step + 1 /\ start.step \in 1..5
      BY <1>0, SaveProceeds
    <2>2. start.step \in 1..4 => halfway'
      BY <1>0, SaveWrites
    <2>3. start.step \in 2..5 => dir'["crt"] = memory.crt
      <3>1. dir \in [Halves -> Contents] /\ "crt" \in Halves /\ "key" \in Halves
        BY <1>1 DEF FilesTyped, Halves
      <3>2. CASE start.step = 2
        BY <3>1, <3>2, SaveWrites
      <3>3. CASE start.step \in {3, 4, 5}
        BY <1>0, <3>1, <3>3, SaveWrites
      <3> QED BY <3>2, <3>3
    <2>4. start'.step \in 2..5 /\ start'.pc = "save" => halfway'
      BY <1>0, <2>1, <2>2
    <2>5. start'.step \in 3..6 /\ start'.pc = "save" => dir'["crt"] = memory.crt
      BY <1>0, <2>1, <2>3
    <2> QED BY <2>4, <2>5, SaveProceeds DEF SaveTracked
  <1>10. DirectoryWhole'
    <2>1. CASE start.step \in 1..4
      <3>1. halfway'
        BY <1>0, <2>1, SaveWrites
      <3> QED BY <3>1 DEF DirectoryWhole
    <2>2. CASE start.step = 5
      <3>1. dir["crt"] = Whole(pairs) /\ kept' = pairs
        BY <1>0, <1>2, <2>2, SaveWrites, SaveProceeds
      <3>2. dir' = [dir EXCEPT !["key"] = Whole(pairs)]
        BY <2>2, SaveWrites, SaveProceeds
      <3>3. dir'["crt"] = Whole(pairs) /\ dir'["key"] = Whole(pairs)
        BY <1>1, <3>1, <3>2 DEF FilesTyped, Halves
      <3> QED BY <3>1, <3>3 DEF DirectoryWhole, Halves
    <2>3. CASE start.step = 6
      BY <2>3, SaveWrites DEF CertInv, DirectoryWhole
    <2> QED BY <1>0, <2>1, <2>2, <2>3
  <1> QED BY <1>4, <1>5, <1>6, <1>7, <1>8, <1>9, <1>10, TypesPutTogether DEF CertInv

\* Each step of a start, of the kernel or of a failure keeps the strengthening.
LEMMA CertStep ==
    ASSUME CertInv, [CertNext]_certVars
    PROVE  CertInv'
  <1>1. CASE \E m \in {"default", "generate-cert", "cert and key"} : StartsWith(m)
    BY <1>1, StartsWithSound
  <1>2. CASE LoadCertDir
    BY <1>2, LoadCertDirSound
  <1>3. CASE Generate
    BY <1>3, GenerateSound
  <1>4. CASE SaveStep
    BY <1>4, SaveStepSound
  <1>5. CASE SaveFails
    BY <1>5, SaveFailsSound
  <1>6. CASE BuildTls
    BY <1>6, BuildTlsSound
  <1>7. CASE Exits
    BY <1>7, ExitsSound
  <1>8. CASE WrittenBack
    BY <1>8, WrittenBackSound
  <1>9. CASE PowerLoss
    BY <1>9, PowerLossSound
  <1>10. CASE UNCHANGED certVars
    <2>1. FilesTyped' /\ StartTyped' /\ PairsTyped' /\ (halfway \in BOOLEAN)'
      BY <1>10, CertTypes DEF CertInv, certVars, FilesTyped, StartTyped, PairsTyped
    <2>2. (SavesNewest /\ SaveTracked /\ DirectoryWhole /\ LoadedApart /\ SavedPairServes)'
      BY <1>10 DEF CertInv, certVars, SavesNewest, SaveTracked, DirectoryWhole, LoadedApart,
         SavedPairServes
    <2> QED BY <2>1, <2>2, TypesPutTogether DEF CertInv
  <1> QED BY <1>1, <1>2, <1>3, <1>4, <1>5, <1>6, <1>7, <1>8, <1>9, <1>10 DEF CertNext

-----------------------------------------------------------------------------
(* Certificates: the theorems.                                             *)

\* The strengthening holds of every reachable state: no order of starts,
\* generations, failed or cut-off saves (save_certificate_to_dir), kills and
\* power losses leads out of it.
THEOREM CertInvariant == CertSpec => []CertInv
  <1>1. CertInit => CertInv
    BY CertInitially
  <1> QED BY <1>1, CertStep, PTL DEF CertSpec

\* Whatever is loaded from the directory while no save is cut off serves, and is
\* the pair that save_certificate_to_dir put there last.
THEOREM SavedPairsServe == CertSpec => []SavedPairServes
  <1>1. CertInv => SavedPairServes
    BY DEF CertInv
  <1> QED BY <1>1, CertInvariant, PTL

-----------------------------------------------------------------------------
(* Queues of message numbers.                                              *)

\* Newer and newer messages, all after lo and none after hi.
Rising(s, lo, hi) ==
    /\ \A i \in 1..Len(s) : lo < s[i] /\ s[i] <= hi
    /\ \A i, j \in 1..Len(s) : i < j => s[i] < s[j]

LEMMA RisingAppended ==
    ASSUME NEW S \in SUBSET Nat, NEW s \in Seq(S), NEW lo \in Nat, NEW hi \in Nat,
           NEW n \in S, Rising(s, lo, hi), lo <= hi, hi < n
    PROVE  /\ Append(s, n) \in Seq(S) /\ Len(Append(s, n)) = Len(s) + 1
           /\ Rising(Append(s, n), lo, n)
           /\ Append(s, n)[Len(Append(s, n))] = n
  <1> DEFINE t == Append(s, n)
  <1>1. /\ t \in Seq(S) /\ Len(t) = Len(s) + 1 /\ Len(s) \in Nat /\ t[Len(s) + 1] = n
        /\ \A i \in 1..Len(s) : t[i] = s[i] /\ s[i] \in S
    OBVIOUS
  <1>0. n \in Nat /\ \A i \in 1..Len(s) : s[i] \in Nat
    BY <1>1
  <1> HIDE DEF t
  <1>2. ASSUME NEW i \in 1..Len(t) PROVE lo < t[i] /\ t[i] <= n
    <2>1. CASE i = Len(s) + 1
      BY <1>0, <1>1, <2>1
    <2>2. CASE i # Len(s) + 1
      <3>1. i \in 1..Len(s)
        BY <1>1, <2>2
      <3>2. t[i] = s[i] /\ s[i] \in Nat /\ lo < s[i] /\ s[i] <= hi
        BY <1>0, <1>1, <3>1 DEF Rising
      <3> QED BY <1>0, <3>2
    <2> QED BY <2>1, <2>2
  <1>3. ASSUME NEW i \in 1..Len(t), NEW j \in 1..Len(t), i < j PROVE t[i] < t[j]
    <2>1. i \in 1..Len(s)
      BY <1>1, <1>3
    <2>2. t[i] = s[i] /\ s[i] \in Nat /\ s[i] <= hi
      BY <1>0, <1>1, <2>1 DEF Rising
    <2>3. CASE j = Len(s) + 1
      BY <1>0, <1>1, <2>2, <2>3
    <2>4. CASE j # Len(s) + 1
      <3>1. j \in 1..Len(s)
        BY <1>1, <2>4
      <3> QED BY <1>1, <1>3, <2>1, <3>1 DEF Rising
    <2> QED BY <2>3, <2>4
  <1> QED BY <1>1, <1>2, <1>3 DEF t, Rising

LEMMA RisingTaken ==
    ASSUME NEW S \in SUBSET Nat, NEW s \in Seq(S), NEW lo \in Nat, NEW hi \in Nat,
           Rising(s, lo, hi), s # <<>>
    PROVE  /\ Head(s) \in S /\ lo < Head(s) /\ Head(s) <= hi
           /\ Tail(s) \in Seq(S) /\ Len(Tail(s)) = Len(s) - 1
           /\ Rising(Tail(s), Head(s), hi)
           /\ IF Tail(s) = <<>> THEN Head(s) = s[Len(s)] ELSE Tail(s)[Len(Tail(s))] = s[Len(s)]
  <1> DEFINE t == Tail(s)
  <1>1. /\ Len(s) \in Nat /\ Len(s) > 0 /\ Head(s) = s[1] /\ s[1] \in S
        /\ t \in Seq(S) /\ Len(t) = Len(s) - 1
        /\ \A i \in 1..Len(t) : t[i] = s[i + 1]
    OBVIOUS
  <1> HIDE DEF t
  <1>2. lo < s[1] /\ s[1] <= hi
    BY <1>1 DEF Rising
  <1>3. ASSUME NEW i \in 1..Len(t)
        PROVE  i + 1 \in 1..Len(s) /\ 1 \in 1..Len(s) /\ 1 < i + 1 /\ t[i] = s[i + 1]
    BY <1>1
  <1>4. Rising(t, s[1], hi)
    <2>1. ASSUME NEW i \in 1..Len(t) PROVE s[1] < t[i] /\ t[i] <= hi
      BY <1>3 DEF Rising
    <2>2. ASSUME NEW i \in 1..Len(t), NEW j \in 1..Len(t), i < j PROVE t[i] < t[j]
      <3>1. i + 1 < j + 1
        BY <2>2
      <3> QED BY <1>3, <3>1 DEF Rising
    <2> QED BY <2>1, <2>2 DEF Rising
  <1>5. IF t = <<>> THEN s[1] = s[Len(s)] ELSE t[Len(t)] = s[Len(s)]
    BY <1>1
  <1> QED BY <1>1, <1>2, <1>4, <1>5 DEF t

\* What is left is after any message that is not newer than what was taken.
LEMMA RisingFrom ==
    ASSUME NEW S \in SUBSET Nat, NEW s \in Seq(S), NEW lo \in Nat, NEW hi \in Nat,
           Rising(s, lo, hi), NEW lo2 \in Nat, lo2 <= lo
    PROVE  Rising(s, lo2, hi)
  <1>1. \A i \in 1..Len(s) : s[i] \in S
    OBVIOUS
  <1>2. \A i \in 1..Len(s) : s[i] \in Nat
    BY <1>1
  <1> QED BY <1>2 DEF Rising

-----------------------------------------------------------------------------
(* WsBridge.                                                               *)

\* The newest message that the client has or is about to have.
Reached == IF socket = "sending" THEN frame ELSE got

\* Messages are in order in the subscriber, in the stream and at the client, each
\* place behind the one before; what the stream has not lost ends with the newest
\* that was forwarded.
InOrder ==
    /\ Rising(subscriber, forwarded, published) /\ forwarded <= published
    /\ Rising(stream, Reached, forwarded) /\ Reached <= forwarded
    /\ socket = "sending" => got < frame

NewestKept ==
    socket # "ended" =>
        IF stream = <<>> THEN Reached = forwarded ELSE stream[Len(stream)] = forwarded

\* A close frame is due when the listener is gone and the stream is drained.
Drained == socket = "closing" => stream = <<>> /\ listener = "ended"

\* The types in two parts: the numbers, and control.
NumbersOK ==
    /\ published \in 0..MaxMsgs
    /\ subscriber \in Seq(Msgs) /\ Len(subscriber) <= SubCap
    /\ forwarded \in 0..MaxMsgs
    /\ stream \in Seq(Msgs) /\ Len(stream) <= StreamCap
    /\ frame \in 0..MaxMsgs /\ got \in 0..MaxMsgs
ControlOK ==
    /\ session \in BOOLEAN /\ token \in BOOLEAN /\ lagged \in BOOLEAN /\ stopped \in BOOLEAN
    /\ listener \in {"declaring", "receiving", "undeclaring", "ended"}
    /\ socket \in {"upgrading", "select", "sending", "pinging", "closing", "ended"}
    /\ client \in {"reading", "stalled", "gone"}

BridgeInv == NumbersOK /\ ControlOK /\ InOrder /\ NewestKept /\ Drained

LEMMA BridgeStarts ==
    ASSUME NEW l \in {"declaring", "ended"}, NEW s \in {"upgrading", "ended"}, Connection(l, s)
    PROVE  BridgeInv
  <1>1. /\ published = 0 /\ subscriber = <<>> /\ session = TRUE /\ token = FALSE
        /\ listener = l /\ forwarded = 0 /\ stream = <<>> /\ lagged = FALSE
        /\ socket = s /\ frame = 0 /\ stopped = (s = "ended") /\ client = "reading" /\ got = 0
    BY DEF Connection
  <1>2. Len(subscriber) = 0 /\ Len(stream) = 0
    BY <1>1
  <1>3. MaxMsgs \in Nat /\ SubCap \in Nat /\ StreamCap \in Nat
    BY BridgeAssumption
  <1>4. subscriber \in Seq(Msgs) /\ stream \in Seq(Msgs)
    BY <1>1
  <1>5. NumbersOK /\ ControlOK
    <2>1. NumbersOK
      BY <1>1, <1>2, <1>3, <1>4, BridgeAssumption DEF NumbersOK
    <2>2. ControlOK
      BY <1>1 DEF ControlOK
    <2> QED BY <2>1, <2>2
  <1>6. InOrder /\ NewestKept /\ Drained
    BY <1>1, <1>2 DEF InOrder, NewestKept, Drained, Rising, Reached
  <1> QED BY <1>5, <1>6 DEF BridgeInv

LEMMA Numbered == Msgs \in SUBSET Nat /\ \A n \in Msgs : n \in Nat /\ 0 < n /\ n <= MaxMsgs
  BY BridgeAssumption DEF Msgs

LEMMA BridgeTypes ==
    ASSUME BridgeInv
    PROVE  /\ published \in Nat /\ forwarded \in Nat /\ got \in Nat /\ frame \in Nat
           /\ Reached \in Nat /\ Reached <= forwarded /\ forwarded <= published
           /\ published <= MaxMsgs /\ MaxMsgs \in Nat
           /\ subscriber \in Seq(Msgs) /\ stream \in Seq(Msgs)
           /\ Len(subscriber) \in Nat /\ Len(stream) \in Nat
  BY BridgeAssumption DEF BridgeInv, NumbersOK, InOrder, Reached

LEMMA BridgeTyped == BridgeInv => BridgeTypeOK
  BY DEF BridgeInv, NumbersOK, ControlOK, BridgeTypeOK

\* Control goes on where no message moves.
LEMMA ControlKeeps ==
    ASSUME BridgeInv, ControlOK',
           UNCHANGED <<published, subscriber, forwarded, stream, got>>,
           frame' = frame \/ frame' = 0,
           Reached' = Reached, socket' = "sending" => socket = "sending" /\ frame' = frame,
           socket = "ended" => socket' = "ended",
           socket' = "closing" => stream = <<>> /\ listener' = "ended"
    PROVE  BridgeInv'
  <1>1. /\ published' = published /\ subscriber' = subscriber /\ forwarded' = forwarded
        /\ stream' = stream /\ got' = got
    OBVIOUS
  <1>2. NumbersOK'
    BY <1>1, BridgeAssumption DEF BridgeInv, NumbersOK
  <1>3. InOrder'
    BY <1>1 DEF BridgeInv, InOrder
  <1>4. NewestKept' /\ Drained'
    BY <1>1 DEF BridgeInv, NewestKept, Drained
  <1> QED BY <1>2, <1>3, <1>4 DEF BridgeInv

\* Nobody receives any more.
LEMMA SocketEndsKeeps ==
    ASSUME BridgeInv, SocketEnds, SocketStep, got' = got, frame' \in {0, frame}
    PROVE  BridgeInv'
  <1>1. /\ published' = published /\ subscriber' = subscriber /\ forwarded' = forwarded
        /\ stream' = <<>> /\ got' = got /\ socket' = "ended" /\ stopped' = TRUE /\ lagged' = FALSE
        /\ session' = session /\ token' = token /\ listener' = listener /\ client' = client
    BY DEF SocketEnds, SocketStep
  <1>2. Len(stream') = 0 /\ stream' \in Seq(Msgs)
    BY <1>1
  <1>3. NumbersOK'
    BY <1>1, <1>2, BridgeAssumption DEF BridgeInv, NumbersOK
  <1>4. ControlOK'
    BY <1>1 DEF BridgeInv, ControlOK
  <1>5. got <= forwarded
    <2>1. CASE socket = "sending"
      BY <2>1, BridgeTypes DEF BridgeInv, InOrder, Reached
    <2>2. CASE socket # "sending"
      BY <2>2 DEF BridgeInv, InOrder, Reached
    <2> QED BY <2>1, <2>2
  <1>6. InOrder'
    <2>1. Rising(stream, Reached, forwarded)'
      BY <1>1, <1>2 DEF Rising
    <2> QED BY <1>1, <1>5, <2>1 DEF BridgeInv, InOrder, Reached
  <1>7. NewestKept' /\ Drained'
    BY <1>1 DEF NewestKept, Drained
  <1> QED BY <1>3, <1>4, <1>6, <1>7 DEF BridgeInv

LEMMA PublishKeeps ==
    ASSUME BridgeInv, Publish
    PROVE  BridgeInv'
  <1>0. \/ subscriber' = subscriber
        \/ Len(subscriber) < SubCap /\ subscriber' = Append(subscriber, published + 1)
    BY DEF Publish
  <1>1. /\ published < MaxMsgs /\ published' = published + 1
        /\ session' = session /\ token' = token /\ listener' = listener /\ forwarded' = forwarded
        /\ stream' = stream /\ lagged' = lagged /\ socket' = socket /\ frame' = frame
        /\ stopped' = stopped /\ client' = client /\ got' = got
    BY DEF Publish
  <1>2. published + 1 \in Msgs /\ published < published + 1
    BY <1>1, BridgeTypes DEF Msgs
  <1>3. /\ Rising(subscriber', forwarded, published + 1) /\ subscriber' \in Seq(Msgs)
        /\ Len(subscriber') <= SubCap
    <2>1. CASE subscriber' = subscriber
      <3>1. ASSUME NEW i \in 1..Len(subscriber) PROVE subscriber[i] <= published + 1
        <4>1. subscriber[i] \in Msgs /\ subscriber[i] <= published
          BY BridgeTypes DEF BridgeInv, InOrder, Rising
        <4>2. subscriber[i] \in Nat /\ published \in Nat
          BY <4>1, Numbered, BridgeTypes
        <4> QED BY <4>1, <4>2
      <3>2. Rising(subscriber, forwarded, published + 1)
        BY <3>1 DEF BridgeInv, InOrder, Rising
      <3> QED BY <2>1, <3>2 DEF BridgeInv, NumbersOK
    <2>2. CASE Len(subscriber) < SubCap /\ subscriber' = Append(subscriber, published + 1)
      <3>1. /\ subscriber' \in Seq(Msgs) /\ Len(subscriber') = Len(subscriber) + 1
            /\ Rising(subscriber', forwarded, published + 1)
        BY <1>2, <2>2, Numbered, BridgeTypes, RisingAppended DEF BridgeInv, InOrder
      <3>2. Len(subscriber) + 1 <= SubCap
        BY <2>2, BridgeTypes, BridgeAssumption
      <3> QED BY <3>1, <3>2
    <2> QED BY <1>0, <2>1, <2>2
  <1>4. NumbersOK'
    BY <1>1, <1>2, <1>3, BridgeAssumption DEF BridgeInv, NumbersOK
  <1>5. ControlOK'
    BY <1>1 DEF BridgeInv, ControlOK
  <1>6. InOrder'
    BY <1>1, <1>3, BridgeTypes DEF BridgeInv, InOrder, Reached
  <1>7. NewestKept' /\ Drained'
    BY <1>1 DEF BridgeInv, NewestKept, Drained, Reached
  <1> QED BY <1>4, <1>5, <1>6, <1>7 DEF BridgeInv

\* Whatever a full stream loses, the newest message ends it.
LEMMA PushedInOrder ==
    ASSUME NEW q \in Seq(Msgs), NEW lo \in Nat, NEW hi \in Nat, NEW m \in Msgs,
           Rising(q, lo, hi), lo <= hi, hi < m, Len(q) <= StreamCap
    PROVE  /\ Pushed(q, m).stream \in Seq(Msgs) /\ Len(Pushed(q, m).stream) <= StreamCap
           /\ Pushed(q, m).stream # <<>> /\ Rising(Pushed(q, m).stream, lo, m)
           /\ Pushed(q, m).stream[Len(Pushed(q, m).stream)] = m
           /\ Pushed(q, m).lagged \in BOOLEAN
  <1>0. Len(q) \in Nat /\ StreamCap \in Nat /\ StreamCap > 0
    BY BridgeAssumption
  <1>1. CASE Len(q) < StreamCap
    <2> DEFINE t == Append(q, m)
    <2>1. Pushed(q, m).stream = t /\ Pushed(q, m).lagged = FALSE
      BY <1>1 DEF Pushed
    <2>2. /\ t \in Seq(Msgs) /\ Len(t) = Len(q) + 1 /\ Rising(t, lo, m) /\ t[Len(t)] = m
      BY Numbered, RisingAppended
    <2> HIDE DEF t
    <2>3. Len(t) <= StreamCap /\ t # <<>>
      BY <1>0, <1>1, <2>2
    <2> QED BY <2>1, <2>2, <2>3
  <1>2. CASE ~(Len(q) < StreamCap)
    <2> DEFINE r == Tail(q)
               t == Append(r, m)
    <2>1. Pushed(q, m).stream = t /\ Pushed(q, m).lagged = TRUE
      BY <1>2 DEF Pushed
    <2>2. q # <<>>
      BY <1>0, <1>2
    <2>3. /\ r \in Seq(Msgs) /\ Len(r) = Len(q) - 1 /\ Rising(r, Head(q), hi)
          /\ Head(q) \in Msgs /\ lo < Head(q) /\ Head(q) <= hi
      BY <2>2, Numbered, RisingTaken
    <2>4. Rising(r, lo, hi)
      <3>1. Head(q) \in Nat
        BY <2>3, Numbered
      <3>2. lo <= Head(q)
        BY <2>3, <3>1
      <3> QED BY <2>3, <3>1, <3>2, Numbered, RisingFrom
    <2> HIDE DEF r
    <2>5. /\ t \in Seq(Msgs) /\ Len(t) = Len(r) + 1 /\ Rising(t, lo, m) /\ t[Len(t)] = m
      BY <2>3, <2>4, Numbered, RisingAppended
    <2> HIDE DEF t
    <2>6. Len(t) <= StreamCap /\ t # <<>>
      BY <1>0, <2>3, <2>5
    <2> QED BY <2>1, <2>5, <2>6
  <1> QED BY <1>1, <1>2

LEMMA ForwardKeeps ==
    ASSUME BridgeInv, Forward
    PROVE  BridgeInv'
  <1> DEFINE m == Head(subscriber)
  <1>1. /\ listener = "receiving" /\ subscriber # <<>>
        /\ subscriber' = Tail(subscriber) /\ forwarded' = m
        /\ published' = published /\ session' = session /\ token' = token
        /\ listener' = listener /\ socket' = socket /\ frame' = frame
        /\ stopped' = stopped /\ client' = client /\ got' = got
    BY DEF Forward, ListenerStep
  <1>2. /\ m \in Msgs /\ forwarded < m /\ m <= published /\ m \in Nat /\ m <= MaxMsgs
        /\ subscriber' \in Seq(Msgs) /\ Len(subscriber') = Len(subscriber) - 1
        /\ Rising(subscriber', m, published)
    BY <1>1, Numbered, BridgeTypes, RisingTaken DEF BridgeInv, InOrder
  <1>3. Len(subscriber') <= SubCap
    BY <1>2, BridgeTypes, BridgeAssumption DEF BridgeInv, NumbersOK
  <1>4. /\ stream' \in Seq(Msgs) /\ Len(stream') <= StreamCap /\ Rising(stream', Reached, m)
        /\ socket # "ended" => stream' # <<>> /\ stream'[Len(stream')] = m
        /\ lagged' \in BOOLEAN
    <2>1. CASE socket = "ended"
      <3>1. stream' = stream /\ lagged' = lagged
        BY <2>1 DEF Forward
      <3>2. ASSUME NEW i \in 1..Len(stream) PROVE stream[i] <= m
        <4>1. stream[i] \in Msgs /\ stream[i] <= forwarded
          BY BridgeTypes DEF BridgeInv, InOrder, Rising
        <4>2. stream[i] \in Nat /\ forwarded \in Nat
          BY <4>1, Numbered, BridgeTypes
        <4> QED BY <1>2, <4>1, <4>2
      <3>3. Rising(stream, Reached, m)
        BY <3>2 DEF BridgeInv, InOrder, Rising
      <3> QED BY <2>1, <3>1, <3>3 DEF BridgeInv, NumbersOK, ControlOK
    <2>2. CASE socket # "ended"
      <3>1. /\ stream' = Pushed(stream, m).stream
            /\ lagged' = (lagged \/ Pushed(stream, m).lagged)
        BY <2>2 DEF Forward
      <3> HIDE DEF m
      <3>2. lagged' \in BOOLEAN
        BY <3>1
      <3>3. Len(stream) <= StreamCap /\ Rising(stream, Reached, forwarded)
        BY DEF BridgeInv, NumbersOK, InOrder
      <3>4. /\ stream' \in Seq(Msgs) /\ Len(stream') <= StreamCap /\ stream' # <<>>
            /\ Rising(stream', Reached, m) /\ stream'[Len(stream')] = m
        BY <1>2, <3>1, <3>3, BridgeTypes, PushedInOrder
      <3> QED BY <3>2, <3>4
    <2> QED BY <2>1, <2>2
  <1> HIDE DEF m
  <1>5. NumbersOK'
    BY <1>1, <1>2, <1>3, <1>4 DEF BridgeInv, NumbersOK
  <1>6. ControlOK'
    BY <1>1, <1>4 DEF BridgeInv, ControlOK
  <1>7. Reached' = Reached /\ Reached <= m
    BY <1>1, <1>2, BridgeTypes DEF Reached
  <1>8. InOrder'
    BY <1>1, <1>2, <1>4, <1>7 DEF BridgeInv, InOrder
  <1>9. NewestKept' /\ Drained'
    BY <1>1, <1>4 DEF BridgeInv, NewestKept, Drained
  <1> QED BY <1>5, <1>6, <1>8, <1>9 DEF BridgeInv

LEMMA UndeclareKeeps ==
    ASSUME BridgeInv, Undeclare
    PROVE  BridgeInv'
  <1>1. /\ listener = "receiving" /\ listener' = "undeclaring" /\ subscriber' = <<>>
        /\ forwarded' = forwarded /\ stream' = stream /\ lagged' = lagged
        /\ published' = published /\ session' = session /\ token' = token
        /\ socket' = socket /\ frame' = frame
        /\ stopped' = stopped /\ client' = client /\ got' = got
    BY DEF Undeclare, ListenerStep
  <1>2. Len(subscriber') = 0 /\ subscriber' \in Seq(Msgs)
    BY <1>1
  <1>3. NumbersOK'
    BY <1>1, <1>2, BridgeAssumption DEF BridgeInv, NumbersOK
  <1>4. ControlOK'
    BY <1>1 DEF BridgeInv, ControlOK
  <1>5. InOrder'
    <2>1. Rising(subscriber, forwarded, published)'
      BY <1>1, <1>2 DEF Rising
    <2> QED BY <1>1, <2>1 DEF BridgeInv, InOrder, Reached
  <1>6. NewestKept' /\ Drained'
    BY <1>1 DEF BridgeInv, NewestKept, Drained, Reached
  <1> QED BY <1>3, <1>4, <1>5, <1>6 DEF BridgeInv

\* The oldest message leaves the stream and is on its way to the client.
LEMMA ReceiveMessageKeeps ==
    ASSUME BridgeInv, ReceiveMessage
    PROVE  BridgeInv'
  <1>1. /\ socket = "select" /\ stream # <<>> /\ frame' = Head(stream) /\ stream' = Tail(stream)
        /\ socket' = "sending" /\ stopped' = stopped /\ lagged' = lagged /\ got' = got
        /\ published' = published /\ subscriber' = subscriber /\ session' = session
        /\ token' = token /\ listener' = listener /\ forwarded' = forwarded /\ client' = client
    BY DEF ReceiveMessage, SocketStep
  <1>2. Reached = got /\ Rising(stream, got, forwarded)
    BY <1>1 DEF BridgeInv, InOrder, Reached
  <1>3. /\ frame' \in Msgs /\ got < frame' /\ frame' <= forwarded
        /\ stream' \in Seq(Msgs) /\ Len(stream') = Len(stream) - 1
        /\ Rising(stream', frame', forwarded)
        /\ IF stream' = <<>> THEN frame' = stream[Len(stream)]
           ELSE stream'[Len(stream')] = stream[Len(stream)]
    BY <1>1, <1>2, Numbered, BridgeTypes, RisingTaken
  <1>4. frame' \in 0..MaxMsgs
    BY <1>3, BridgeAssumption DEF Msgs
  <1>5. Len(stream') <= StreamCap
    BY <1>3, BridgeTypes, BridgeAssumption DEF BridgeInv, NumbersOK
  <1>6. NumbersOK'
    BY <1>1, <1>3, <1>4, <1>5 DEF BridgeInv, NumbersOK
  <1>7. ControlOK'
    BY <1>1 DEF BridgeInv, ControlOK
  <1>8. Reached' = frame' /\ stream[Len(stream)] = forwarded
    BY <1>1 DEF Reached, BridgeInv, NewestKept
  <1>9. InOrder'
    BY <1>1, <1>3, <1>8 DEF BridgeInv, InOrder
  <1>10. NewestKept' /\ Drained'
    BY <1>1, <1>3, <1>8 DEF NewestKept, Drained
  <1> QED BY <1>6, <1>7, <1>9, <1>10 DEF BridgeInv

LEMMA SendMessageKeeps ==
    ASSUME BridgeInv, SendMessage
    PROVE  BridgeInv'
  <1>1. /\ socket = "sending" /\ frame' = 0 /\ SocketStep
        /\ \/ SocketGoes("select") /\ got' = frame
           \/ SocketEnds /\ got' = got
    BY DEF SendMessage, SendFrame
  <1>2. CASE SocketEnds /\ got' = got
    BY <1>1, <1>2, SocketEndsKeeps
  <1>3. CASE SocketGoes("select") /\ got' = frame
    <2>1. /\ socket' = "select" /\ stopped' = stopped /\ stream' = stream /\ lagged' = lagged
          /\ published' = published /\ subscriber' = subscriber /\ session' = session
          /\ token' = token /\ listener' = listener /\ forwarded' = forwarded /\ client' = client
      BY <1>1, <1>3 DEF SocketGoes, SocketStep
    <2>2. Reached' = Reached
      BY <1>1, <1>3, <2>1 DEF Reached
    <2>3. NumbersOK'
      BY <1>1, <1>3, <2>1, BridgeAssumption DEF BridgeInv, NumbersOK
    <2>4. ControlOK'
      BY <2>1 DEF BridgeInv, ControlOK
    <2>5. InOrder' /\ NewestKept' /\ Drained'
      BY <1>1, <2>1, <2>2 DEF BridgeInv, InOrder, NewestKept, Drained
    <2> QED BY <2>3, <2>4, <2>5 DEF BridgeInv
  <1> QED BY <1>1, <1>2, <1>3

LEMMA BridgeStep ==
    ASSUME BridgeInv, [BridgeNext]_bridgeVars
    PROVE  BridgeInv'
  <1>1. CASE UNCHANGED bridgeVars
    <2>1. ControlOK' /\ Reached' = Reached
      BY <1>1 DEF bridgeVars, BridgeInv, ControlOK, Reached
    <2> QED BY <1>1, <2>1, ControlKeeps DEF bridgeVars, BridgeInv, Drained
  <1>2. CASE Cancelled \/ SessionCloses
    <2>1. ControlOK' /\ Reached' = Reached
      BY <1>2 DEF Cancelled, SessionCloses, BridgeInv, ControlOK, Reached
    <2> QED BY <1>2, <2>1, ControlKeeps DEF Cancelled, SessionCloses, BridgeInv, Drained
  <1>3. CASE Stalls \/ Resumes \/ Leaves
    <2>1. ControlOK' /\ Reached' = Reached
      BY <1>3 DEF Stalls, Resumes, Leaves, ClientBecomes, BridgeInv, ControlOK, Reached
    <2> QED BY <1>3, <2>1, ControlKeeps
            DEF Stalls, Resumes, Leaves, ClientBecomes, BridgeInv, Drained
  <1>4. CASE Declare \/ Undeclared
    <2>1. ControlOK' /\ Reached' = Reached
      BY <1>4 DEF Declare, Undeclared, ListenerStep, BridgeInv, ControlOK, Reached
    <2> QED BY <1>4, <2>1, ControlKeeps DEF Declare, Undeclared, ListenerStep, BridgeInv, Drained
  <1>5. CASE Upgrade
    <2>1. CASE SocketEnds
      BY <1>5, <2>1, SocketEndsKeeps DEF Upgrade
    <2>2. CASE SocketGoes("select")
      <3>1. ControlOK' /\ Reached' = Reached
        BY <1>5, <2>2 DEF Upgrade, SocketGoes, SocketStep, BridgeInv, ControlOK, Reached
      <3> QED BY <1>5, <2>2, <3>1, ControlKeeps DEF Upgrade, SocketGoes, SocketStep
    <2> QED BY <1>5, <2>1, <2>2 DEF Upgrade
  <1>6. CASE ReceiveLagged
    <2>1. ControlOK' /\ Reached' = Reached
      BY <1>6 DEF ReceiveLagged, SocketStep, BridgeInv, ControlOK, Reached
    <2> QED BY <1>6, <2>1, ControlKeeps DEF ReceiveLagged, SocketStep
  <1>7. CASE ReceiveClosed
    <2>1. ControlOK' /\ Reached' = Reached
      BY <1>7 DEF ReceiveClosed, SocketGoes, SocketStep, BridgeInv, ControlOK, Reached
    <2> QED BY <1>7, <2>1, ControlKeeps DEF ReceiveClosed, SocketGoes, SocketStep, NoSender
  <1>8. CASE PingDue
    <2>1. ControlOK' /\ Reached' = Reached
      BY <1>8 DEF PingDue, SocketGoes, SocketStep, BridgeInv, ControlOK, Reached
    <2> QED BY <1>8, <2>1, ControlKeeps DEF PingDue, SocketGoes, SocketStep
  <1>9. CASE SendPing
    <2>1. CASE SocketEnds /\ got' = got
      BY <1>9, <2>1, SocketEndsKeeps DEF SendPing, SendFrame
    <2>2. CASE SocketGoes("select") /\ got' = got
      <3>1. ControlOK' /\ Reached' = Reached
        BY <1>9, <2>2 DEF SendPing, SendFrame, SocketGoes, SocketStep, BridgeInv, ControlOK, Reached
      <3> QED BY <1>9, <2>2, <3>1, ControlKeeps DEF SendPing, SendFrame, SocketGoes, SocketStep
    <2> QED BY <1>9, <2>1, <2>2 DEF SendPing, SendFrame
  <1>10. CASE SendClose \/ ClientClosed
    BY <1>10, SocketEndsKeeps DEF SendClose, ClientClosed
  <1> QED BY <1>1, <1>2, <1>3, <1>4, <1>5, <1>6, <1>7, <1>8, <1>9, <1>10, PublishKeeps,
             ForwardKeeps, UndeclareKeeps, ReceiveMessageKeeps, SendMessageKeeps
          DEF BridgeNext, Listens, Serves, Receives, Over

\* What moves messages towards the client is what LossyStream allows.
LEMMA BridgeStepIsLossy ==
    ASSUME BridgeInv, [BridgeNext]_bridgeVars
    PROVE  \/ Lossy!Offer \/ Lossy!Deliver \/ Lossy!Close
           \/ UNCHANGED <<forwarded, got, socket # "ended">>
  <1>1. CASE Forward
    <2>1. /\ subscriber # <<>> /\ forwarded' = Head(subscriber) /\ got' = got /\ socket' = socket
      BY <1>1 DEF Forward, ListenerStep
    <2>2. Head(subscriber) \in Msgs /\ forwarded < Head(subscriber)
      BY <2>1, Numbered, BridgeTypes, RisingTaken DEF BridgeInv, InOrder
    <2>3. Head(subscriber) > forwarded
      BY <2>2
    <2> QED BY <2>1, <2>2, <2>3 DEF Lossy!Offer
  <1>2. CASE SendMessage
    <2>1. socket = "sending" /\ forwarded' = forwarded
      BY <1>2 DEF SendMessage, SendFrame, SocketStep
    <2>2. CASE SocketGoes("select") /\ got' = frame
      <3>1. got < frame /\ frame <= forwarded
        BY <2>1 DEF BridgeInv, InOrder, Reached
      <3>2. frame \in Msgs
        BY <3>1, BridgeTypes DEF Msgs
      <3>3. socket' = "select"
        BY <2>2 DEF SocketGoes
      <3> QED BY <2>1, <2>2, <3>1, <3>2, <3>3 DEF Lossy!Deliver
    <2>3. CASE SocketEnds /\ got' = got
      BY <2>1, <2>3 DEF SocketEnds, Lossy!Close
    <2> QED BY <1>2, <2>2, <2>3 DEF SendMessage, SendFrame
  <1>3. CASE SocketEnds /\ socket # "ended" /\ UNCHANGED <<forwarded, got>>
    BY <1>3 DEF SocketEnds, Lossy!Close
  <1>4. CASE Publish \/ Cancelled \/ SessionCloses \/ Stalls \/ Resumes \/ Leaves
    BY <1>4 DEF Publish, Cancelled, SessionCloses, Stalls, Resumes, Leaves, ClientBecomes
  <1>5. CASE Declare \/ Undeclared \/ Undeclare
    BY <1>5 DEF Declare, Undeclared, Undeclare, ListenerStep
  <1>6. CASE Upgrade \/ SendPing \/ SendClose \/ ClientClosed
    <2>1. socket # "ended" /\ UNCHANGED <<forwarded, got>>
      BY <1>6 DEF Upgrade, SendPing, SendClose, ClientClosed, SendFrame, SocketStep
    <2>2. SocketEnds \/ socket' = "select"
      BY <1>6 DEF Upgrade, SendPing, SendClose, ClientClosed, SendFrame, SocketGoes
    <2> QED BY <1>3, <2>1, <2>2
  <1>7. CASE ReceiveMessage \/ ReceiveLagged \/ ReceiveClosed \/ PingDue
    BY <1>7 DEF ReceiveMessage, ReceiveLagged, ReceiveClosed, PingDue, SocketGoes, SocketStep
  <1>8. CASE UNCHANGED bridgeVars
    BY <1>8 DEF bridgeVars
  <1> QED BY <1>1, <1>2, <1>4, <1>5, <1>6, <1>7, <1>8
          DEF BridgeNext, Listens, Serves, Receives, Over

LEMMA BridgeInvHolds == BridgeSpec => []BridgeInv
  <1>1. BridgeInit => BridgeInv
    BY BridgeStarts DEF BridgeInit
  <1> QED BY <1>1, BridgeStep, PTL DEF BridgeSpec

\* When the server tells a client that the subscriber ended, it has sent it the
\* newest message that zenoh_listener forwarded, however many it lagged behind.
THEOREM GoodbyeAfterNewest == BridgeSpec => []GoodbyeIsLast
  <1>1. BridgeInv => GoodbyeIsLast
    BY DEF BridgeInv, Drained, NewestKept, Reached, GoodbyeIsLast
  <1> QED BY <1>1, BridgeInvHolds, PTL

\* websocket.rs implements LossyStream, but for what must happen: the messages of
\* a live topic reach the client newer and newer, none of them twice, none after
\* the end and none that was not published, for any capacity of the stream.
THEOREM BridgeIsLossy == BridgeSpec => Lossy!LossySafe
  <1>1. BridgeInit => Lossy!LossyInit
    BY DEF BridgeInit, Connection, Lossy!LossyInit
  <1>2. BridgeInv /\ [BridgeNext]_bridgeVars
           => [Lossy!Offer \/ Lossy!Deliver \/ Lossy!Close]_<<forwarded, got, socket # "ended">>
    BY BridgeStepIsLossy
  <1> QED BY <1>1, <1>2, BridgeInvHolds, PTL DEF BridgeSpec, Lossy!LossySafe

-----------------------------------------------------------------------------
(* EventSocket: the same stream, shared by the whole server.               *)

Seen == IF viewer = "sending" THEN event ELSE shown

EventsInOrder ==
    /\ Rising(backlog, Seen, offered) /\ Seen <= offered /\ offered <= emitted
    /\ viewer = "sending" => shown < event

EventNumbersOK ==
    /\ emitted \in 0..MaxEvents /\ offered \in 0..MaxEvents
    /\ backlog \in Seq(Events) /\ Len(backlog) <= EventCap
    /\ event \in 0..MaxEvents /\ shown \in 0..MaxEvents
EventControlOK ==
    /\ overrun \in BOOLEAN
    /\ viewer \in {"upgrading", "select", "sending", "pinging", "ended"}
    /\ browser \in {"reading", "stalled", "gone"}

EventInv == EventNumbersOK /\ EventControlOK /\ EventsInOrder

LEMMA EventTyped == EventInv => EventTypeOK
  BY DEF EventInv, EventNumbersOK, EventControlOK, EventTypeOK

LEMMA EventTypes ==
    ASSUME EventInv
    PROVE  /\ emitted \in Nat /\ offered \in Nat /\ shown \in Nat /\ event \in Nat
           /\ Seen \in Nat /\ Seen <= offered /\ offered <= emitted
           /\ emitted <= MaxEvents /\ MaxEvents \in Nat
           /\ backlog \in Seq(Events) /\ Len(backlog) \in Nat /\ Len(backlog) <= EventCap
           /\ Rising(backlog, Seen, offered)
           /\ Events \in SUBSET Nat /\ \A n \in Events : n \in Nat
           /\ EventCap \in Nat /\ EventCap > 0
  BY EventAssumption DEF EventInv, EventNumbersOK, EventsInOrder, Seen, Events

LEMMA EventStarts ==
    ASSUME NEW w \in {"upgrading", "ended"}, Viewer(w)
    PROVE  EventInv
  <1>1. /\ emitted = 0 /\ offered = 0 /\ backlog = <<>> /\ overrun = FALSE /\ viewer = w
        /\ event = 0 /\ browser = "reading" /\ shown = 0
    BY DEF Viewer
  <1>2. Len(backlog) = 0 /\ backlog \in Seq(Events)
    BY <1>1
  <1>3. EventNumbersOK
    BY <1>1, <1>2, EventAssumption DEF EventNumbersOK
  <1>4. EventControlOK
    BY <1>1 DEF EventControlOK
  <1>5. EventsInOrder
    BY <1>1, <1>2 DEF EventsInOrder, Rising, Seen
  <1> QED BY <1>3, <1>4, <1>5 DEF EventInv

LEMMA EventControlKeeps ==
    ASSUME EventInv, EventControlOK',
           UNCHANGED <<emitted, offered, backlog, event, shown>>,
           viewer' = "sending" <=> viewer = "sending"
    PROVE  EventInv'
  <1>1. Seen' = Seen
    BY DEF Seen
  <1>2. EventNumbersOK' /\ EventsInOrder'
    BY <1>1 DEF EventInv, EventNumbersOK, EventsInOrder
  <1> QED BY <1>2 DEF EventInv

LEMMA ViewerEndsKeeps ==
    ASSUME EventInv, ViewerEnds, ViewerStep, shown' = shown, event' \in {0, event}
    PROVE  EventInv'
  <1>1. /\ viewer' = "ended" /\ backlog' = <<>> /\ overrun' = FALSE
        /\ emitted' = emitted /\ offered' = offered /\ browser' = browser
    BY DEF ViewerEnds, ViewerStep
  <1>2. Len(backlog') = 0 /\ backlog' \in Seq(Events)
    BY <1>1
  <1>3. EventNumbersOK'
    BY <1>1, <1>2, EventAssumption DEF EventInv, EventNumbersOK
  <1>4. EventControlOK'
    BY <1>1 DEF EventInv, EventControlOK
  <1>5. shown <= offered
    <2>1. CASE viewer = "sending"
      BY <2>1, EventTypes DEF EventInv, EventsInOrder, Seen
    <2>2. CASE viewer # "sending"
      BY <2>2 DEF EventInv, EventsInOrder, Seen
    <2> QED BY <2>1, <2>2
  <1>6. EventsInOrder'
    <2>1. Rising(backlog, Seen, offered)'
      BY <1>1, <1>2 DEF Rising
    <2> QED BY <1>1, <1>5, <2>1 DEF EventInv, EventsInOrder, Seen
  <1> QED BY <1>3, <1>4, <1>6 DEF EventInv

\* A full stream loses its oldest event, and the new one is after all others.
LEMMA EmitKeeps ==
    ASSUME EventInv, Emit
    PROVE  EventInv'
  <1> DEFINE n == emitted + 1
             q == IF Len(backlog) < EventCap THEN backlog ELSE Tail(backlog)
  <1>0. emitted < MaxEvents /\ emitted' = n
    BY DEF Emit
  <1>1. /\ viewer' = viewer /\ event' = event /\ browser' = browser /\ shown' = shown
    BY DEF Emit
  <1>2. n \in Events /\ n \in Nat /\ emitted < n /\ offered < n /\ n <= MaxEvents
    BY <1>0, EventTypes DEF Events
  <1>3. EventControlOK'
    <2>1. overrun' \in BOOLEAN
      BY DEF Emit, EventInv, EventControlOK
    <2> QED BY <1>1, <2>1 DEF EventInv, EventControlOK
  <1>4. Seen' = Seen
    BY <1>1 DEF Seen
  <1>5. CASE Subscribed
    <2>1. offered' = n /\ backlog' = Append(q, n)
      BY <1>0, <1>5 DEF Emit
    <2>2. q \in Seq(Events) /\ Len(q) + 1 <= EventCap /\ Rising(q, Seen, offered)
      <3>1. CASE Len(backlog) < EventCap
        BY <3>1, EventTypes
      <3>2. CASE ~(Len(backlog) < EventCap)
        <4>1. backlog # <<>>
          BY <3>2, EventTypes
        <4>2. /\ q \in Seq(Events) /\ Len(q) = Len(backlog) - 1 /\ Rising(q, Head(backlog), offered)
              /\ Head(backlog) \in Events /\ Seen < Head(backlog)
          BY <3>2, <4>1, EventTypes, RisingTaken
        <4>3. Head(backlog) \in Nat
          BY <4>2, EventTypes
        <4>4. Seen <= Head(backlog)
          BY <4>2, <4>3, EventTypes
        <4>5. Rising(q, Seen, offered)
          BY <4>2, <4>3, <4>4, EventTypes, RisingFrom
        <4>6. Len(q) + 1 <= EventCap
          BY <4>2, EventTypes
        <4> QED BY <4>2, <4>5, <4>6
      <3> QED BY <3>1, <3>2
    <2> HIDE DEF q
    <2>3. /\ backlog' \in Seq(Events) /\ Len(backlog') = Len(q) + 1 /\ Rising(backlog', Seen, n)
      <3> HIDE DEF n
      <3>1. Seen \in Nat /\ offered \in Nat /\ Seen <= offered /\ Events \in SUBSET Nat
        BY EventTypes
      <3>2. /\ Append(q, n) \in Seq(Events) /\ Len(Append(q, n)) = Len(q) + 1
            /\ Rising(Append(q, n), Seen, n)
        BY <1>2, <2>2, <3>1, RisingAppended
      <3> QED BY <2>1, <3>2
    <2>4. EventNumbersOK'
      BY <1>0, <1>1, <1>2, <2>1, <2>2, <2>3 DEF EventInv, EventNumbersOK
    <2>5. EventsInOrder'
      BY <1>0, <1>1, <1>2, <1>4, <2>1, <2>3, EventTypes DEF EventInv, EventsInOrder
    <2> QED BY <1>3, <2>4, <2>5 DEF EventInv
  <1>6. CASE ~Subscribed
    <2>1. offered' = offered /\ backlog' = backlog
      BY <1>6 DEF Emit
    <2>2. EventNumbersOK'
      BY <1>0, <1>1, <1>2, <2>1 DEF EventInv, EventNumbersOK
    <2>3. EventsInOrder'
      BY <1>0, <1>1, <1>2, <1>4, <2>1, EventTypes DEF EventInv, EventsInOrder
    <2> QED BY <1>3, <2>2, <2>3 DEF EventInv
  <1> QED BY <1>5, <1>6

LEMMA NextEventKeeps ==
    ASSUME EventInv, NextEvent
    PROVE  EventInv'
  <1>1. /\ viewer = "select" /\ backlog # <<>> /\ event' = Head(backlog) /\ backlog' = Tail(backlog)
        /\ viewer' = "sending" /\ overrun' = overrun /\ shown' = shown
        /\ emitted' = emitted /\ offered' = offered /\ browser' = browser
    BY DEF NextEvent, ViewerStep
  <1>2. Seen = shown /\ Seen' = event'
    BY <1>1 DEF Seen
  <1>3. /\ event' \in Events /\ shown < event' /\ event' <= offered
        /\ backlog' \in Seq(Events) /\ Len(backlog') = Len(backlog) - 1
        /\ Rising(backlog', event', offered)
    BY <1>1, <1>2, EventTypes, RisingTaken
  <1>4. event' \in 0..MaxEvents /\ Len(backlog') <= EventCap
    BY <1>3, EventTypes DEF Events
  <1>5. EventNumbersOK'
    BY <1>1, <1>3, <1>4 DEF EventInv, EventNumbersOK
  <1>6. EventControlOK'
    BY <1>1 DEF EventInv, EventControlOK
  <1>7. EventsInOrder'
    BY <1>1, <1>2, <1>3 DEF EventInv, EventsInOrder
  <1> QED BY <1>5, <1>6, <1>7 DEF EventInv

LEMMA ShowEventKeeps ==
    ASSUME EventInv, ShowEvent
    PROVE  EventInv'
  <1>1. viewer = "sending" /\ event' = 0 /\ ViewerStep
    BY DEF ShowEvent
  <1>2. CASE ViewerEnds /\ shown' = shown
    BY <1>1, <1>2, ViewerEndsKeeps
  <1>3. CASE ViewerGoes("select") /\ shown' = event
    <2>1. /\ viewer' = "select" /\ backlog' = backlog /\ overrun' = overrun
          /\ emitted' = emitted /\ offered' = offered /\ browser' = browser
      BY <1>1, <1>3 DEF ViewerGoes, ViewerStep
    <2>2. Seen' = Seen
      BY <1>1, <1>3, <2>1 DEF Seen
    <2>3. EventNumbersOK'
      BY <1>1, <1>3, <2>1, EventAssumption DEF EventInv, EventNumbersOK
    <2>4. EventControlOK' /\ EventsInOrder'
      BY <2>1, <2>2 DEF EventInv, EventControlOK, EventsInOrder
    <2> QED BY <2>3, <2>4 DEF EventInv
  <1> QED BY <1>2, <1>3 DEF ShowEvent

LEMMA EventStep ==
    ASSUME EventInv, [EventNext]_eventVars
    PROVE  EventInv'
  <1>1. CASE UNCHANGED eventVars
    <2>1. EventControlOK'
      BY <1>1 DEF eventVars, EventInv, EventControlOK
    <2> QED BY <1>1, <2>1, EventControlKeeps DEF eventVars
  <1>2. CASE BrowserStalls \/ BrowserResumes \/ BrowserLeaves
    <2>1. EventControlOK'
      BY <1>2 DEF BrowserStalls, BrowserResumes, BrowserLeaves, BrowserBecomes, EventInv,
                  EventControlOK
    <2> QED BY <1>2, <2>1, EventControlKeeps
            DEF BrowserStalls, BrowserResumes, BrowserLeaves, BrowserBecomes
  <1>3. CASE ViewerUpgrade \/ ViewerPing \/ HungUp
    <2>1. /\ viewer \in {"upgrading", "pinging", "select"} /\ ViewerStep /\ UNCHANGED <<event, shown>>
      BY <1>3 DEF ViewerUpgrade, ViewerPing, HungUp
    <2>2. CASE ViewerEnds
      BY <2>1, <2>2, ViewerEndsKeeps
    <2>3. CASE ViewerGoes("select")
      <3>1. EventControlOK'
        BY <2>1, <2>3 DEF ViewerGoes, ViewerStep, EventInv, EventControlOK
      <3> QED BY <2>1, <2>3, <3>1, EventControlKeeps DEF ViewerGoes, ViewerStep
    <2> QED BY <1>3, <2>2, <2>3 DEF ViewerUpgrade, ViewerPing, HungUp
  <1>4. CASE SkipLost
    <2>1. EventControlOK'
      BY <1>4 DEF SkipLost, ViewerStep, EventInv, EventControlOK
    <2> QED BY <1>4, <2>1, EventControlKeeps DEF SkipLost, ViewerStep
  <1>5. CASE ViewerPingDue
    <2>1. EventControlOK'
      BY <1>5 DEF ViewerPingDue, ViewerGoes, ViewerStep, EventInv, EventControlOK
    <2> QED BY <1>5, <2>1, EventControlKeeps DEF ViewerPingDue, ViewerGoes, ViewerStep
  <1> QED BY <1>1, <1>2, <1>3, <1>4, <1>5, EmitKeeps, NextEventKeeps, ShowEventKeeps
          DEF EventNext, Views, TakesEvent

LEMMA EventStepIsLossy ==
    ASSUME EventInv, [EventNext]_eventVars
    PROVE  \/ EventLossy!Offer \/ EventLossy!Deliver \/ EventLossy!Close
           \/ UNCHANGED <<offered, shown, viewer # "ended">>
  <1>1. CASE Emit
    <2>1. UNCHANGED <<viewer, shown>>
      BY <1>1 DEF Emit
    <2>2. CASE Subscribed
      <3>1. offered' = emitted + 1 /\ emitted < MaxEvents
        BY <1>1, <2>2 DEF Emit
      <3>2. emitted + 1 \in Events /\ emitted + 1 > offered
        BY <3>1, EventTypes DEF Events
      <3> QED BY <2>1, <3>1, <3>2 DEF EventLossy!Offer
    <2> QED BY <1>1, <2>1, <2>2 DEF Emit
  <1>2. CASE ShowEvent
    <2>1. viewer = "sending" /\ offered' = offered
      BY <1>2 DEF ShowEvent, ViewerStep
    <2>2. CASE ViewerGoes("select") /\ shown' = event
      <3>1. shown < event /\ event <= offered /\ viewer' = "select"
        BY <2>1, <2>2 DEF EventInv, EventsInOrder, Seen, ViewerGoes
      <3>2. event \in Events
        BY <3>1, EventTypes DEF Events
      <3> QED BY <2>1, <2>2, <3>1, <3>2 DEF EventLossy!Deliver
    <2>3. CASE ViewerEnds /\ shown' = shown
      BY <2>1, <2>3 DEF ViewerEnds, EventLossy!Close
    <2> QED BY <1>2, <2>2, <2>3 DEF ShowEvent
  <1>3. CASE ViewerUpgrade \/ ViewerPing \/ HungUp
    <2>1. viewer # "ended" /\ UNCHANGED <<offered, shown>>
      BY <1>3 DEF ViewerUpgrade, ViewerPing, HungUp, ViewerStep
    <2>2. CASE ViewerEnds
      BY <2>1, <2>2 DEF ViewerEnds, EventLossy!Close
    <2>3. CASE ViewerGoes("select")
      BY <2>1, <2>3 DEF ViewerGoes
    <2> QED BY <1>3, <2>2, <2>3 DEF ViewerUpgrade, ViewerPing, HungUp
  <1>4. CASE BrowserStalls \/ BrowserResumes \/ BrowserLeaves
    BY <1>4 DEF BrowserStalls, BrowserResumes, BrowserLeaves, BrowserBecomes
  <1>5. CASE NextEvent \/ SkipLost \/ ViewerPingDue
    BY <1>5 DEF NextEvent, SkipLost, ViewerPingDue, ViewerGoes, ViewerStep
  <1>6. CASE UNCHANGED eventVars
    BY <1>6 DEF eventVars
  <1> QED BY <1>1, <1>2, <1>3, <1>4, <1>5, <1>6 DEF EventNext, Views, TakesEvent

\* The sockets of main.rs and websocket.rs for uploads and errors implement
\* LossyStream too, but for what must happen.
THEOREM EventSocketIsLossy == EventSpec => EventLossy!LossySafe
  <1>1. EventInit => EventInv /\ EventLossy!LossyInit
    BY EventStarts DEF EventInit, Viewer, EventLossy!LossyInit
  <1>2. EventInv /\ [EventNext]_eventVars
           => /\ EventInv'
              /\ [EventLossy!Offer \/ EventLossy!Deliver \/ EventLossy!Close]_<<offered, shown, viewer # "ended">>
    BY EventStep, EventStepIsLossy
  <1> QED BY <1>1, <1>2, PTL DEF EventSpec, EventLossy!LossySafe

-----------------------------------------------------------------------------
(* All that the server does for its clients.                               *)

\* Each part keeps its own strengthening, and the parts share no state.
ClientsInv == BridgeInv /\ EventInv /\ SessionInv /\ CertInv

\* Whichever part a behaviour follows, the state of all of them is what their
\* code can make of it.
THEOREM ClientsTyped == MCSpec => []TypesOK
  <1>1. MCInit => ClientsInv
    <2> SUFFICES ASSUME MCInit PROVE ClientsInv
      OBVIOUS
    <2>1. BridgeInv
      BY BridgeStarts DEF MCInit, BridgeInit, NoConnection
    <2>2. EventInv
      BY EventStarts DEF MCInit, EventInit, NoViewer
    <2>3. SessionInv /\ CertInv
      BY SessionStarts, CertInitially DEF MCInit
    <2> QED BY <2>1, <2>2, <2>3 DEF ClientsInv
  <1>2. ClientsInv /\ [MCNext]_allVars => ClientsInv'
    <2> SUFFICES ASSUME ClientsInv, [MCNext]_allVars PROVE ClientsInv'
      OBVIOUS
    <2>1. /\ [BridgeNext]_bridgeVars /\ [EventNext]_eventVars
          /\ [SessionNext]_sessionVars /\ [CertNext]_certVars
      BY DEF MCNext, allVars
    <2> QED BY <2>1, BridgeStep, EventStep, SessionStep, CertStep DEF ClientsInv
  <1>3. ClientsInv => TypesOK
    BY BridgeTyped, EventTyped DEF ClientsInv, SessionInv, CertInv, TypesOK
  <1> QED BY <1>1, <1>2, <1>3, PTL DEF MCSpec
=============================================================================
