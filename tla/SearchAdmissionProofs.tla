------------------------ MODULE SearchAdmissionProofs ------------------------
(***************************************************************************)
(* Proofs about SearchAdmission for any number of callers, slots and       *)
(* queue places.                                                           *)
(*                                                                         *)
(* The counters of the scheduler say how many callers are where: the       *)
(* inductive invariant equates each with the cardinality of a set of       *)
(* callers, and every step moves one caller (a handover moves two).        *)
(***************************************************************************)
EXTENDS SearchAdmission, FiniteSetTheorems, TLAPS

\* The callers of B that f puts in one of the places A.
In(f, B, A) == {t \in B : f[t] \in A}

\* Where a caller has a slot, is counted by s.waiting, holds a token.
WithSlot == {"won", "admitted"}
Counted == {"reject", "select", "wait", "won", "quit"}
Entered == PCs \ {"idle"}

\* g is f after the caller s has gone to l.
Moved(f, g, s, l) == g = [f EXCEPT ![s] = l]

\* How many callers have a slot, are counted as waiting, hold a token.
SlotsTaken(f) == Cardinality(In(f, Searches, WithSlot))
CountedIn(f) == Cardinality(In(f, Searches, Counted))
TokensTaken(f) == Cardinality(In(f, Background, Entered))

Waiters == {s \in Searches : pc[s] = "wait"}

\* The queue q holds each member of W once and nothing else.
Lines(q, W) ==
    /\ q \in Seq(Searches)
    /\ \A i, j \in 1..Len(q) : q[i] = q[j] => i = j
    /\ \A i \in 1..Len(q) : q[i] \in W
    /\ \A s \in W : \E i \in 1..Len(q) : q[i] = s

Places ==
    /\ pc \in [Searches -> PCs]
    /\ \A s \in Searches : pc[s] = "untoken" => s \in Background

Counts ==
    /\ active = SlotsTaken(pc)
    /\ waiting = CountedIn(pc)
    /\ background = TokensTaken(pc)

Bounds == active <= ActiveSearches /\ background <= BackgroundCap

Queue == Lines(sendq, Waiters) /\ (sendq # <<>> => active = ActiveSearches)

AdmissionInv == Places /\ Counts /\ Bounds /\ Queue

-----------------------------------------------------------------------------
\* A caller that moves from f[s] to l changes a count by whether it is among
\* those counted before and after.
LEMMA MoveCounts ==
    ASSUME NEW f \in [Searches -> PCs], NEW B \in SUBSET Searches,
           NEW A \in SUBSET PCs, NEW s \in Searches, NEW l \in PCs,
           NEW g, Moved(f, g, s, l)
    PROVE  /\ Cardinality(In(f, B, A)) \in Nat
           /\ Cardinality(In(g, B, A)) \in Nat
           /\ s \in B /\ l \in A /\ f[s] \notin A =>
                Cardinality(In(g, B, A)) = Cardinality(In(f, B, A)) + 1
           /\ s \in B /\ l \notin A /\ f[s] \in A =>
                Cardinality(In(g, B, A)) = Cardinality(In(f, B, A)) - 1
           /\ s \notin B \/ (l \in A <=> f[s] \in A) =>
                Cardinality(In(g, B, A)) = Cardinality(In(f, B, A))
<1>1. IsFiniteSet(Searches)
  BY AdmissionAssumption, FS_Union DEF Searches
<1>2. IsFiniteSet(In(f, B, A)) /\ IsFiniteSet(In(g, B, A))
  BY <1>1, FS_Subset DEF In
<1>3. Cardinality(In(f, B, A)) \in Nat /\ Cardinality(In(g, B, A)) \in Nat
  BY <1>2, FS_CardinalityType
<1>4. ASSUME s \in B, l \in A, f[s] \notin A
      PROVE  Cardinality(In(g, B, A)) = Cardinality(In(f, B, A)) + 1
  <2>1. In(g, B, A) = In(f, B, A) \cup {s} /\ s \notin In(f, B, A)
    BY <1>4 DEF In, Moved
  <2> QED BY <2>1, <1>2, FS_AddElement
<1>5. ASSUME s \in B, l \notin A, f[s] \in A
      PROVE  Cardinality(In(g, B, A)) = Cardinality(In(f, B, A)) - 1
  <2>1. In(g, B, A) = In(f, B, A) \ {s} /\ s \in In(f, B, A)
    BY <1>5 DEF In, Moved
  <2> QED BY <2>1, <1>2, FS_RemoveElement
<1>6. ASSUME s \notin B \/ (l \in A <=> f[s] \in A)
      PROVE  Cardinality(In(g, B, A)) = Cardinality(In(f, B, A))
  <2>1. In(g, B, A) = In(f, B, A)
    BY <1>6 DEF In, Moved
  <2> QED BY <2>1
<1> QED BY <1>3, <1>4, <1>5, <1>6

Bit(b) == IF b THEN 1 ELSE 0

LEMMA OneMove ==
    ASSUME NEW f \in [Searches -> PCs], NEW s \in Searches, NEW l \in PCs,
           NEW g, Moved(f, g, s, l)
    PROVE  /\ g \in [Searches -> PCs]
           /\ SlotsTaken(f) \in Nat /\ SlotsTaken(g) \in Nat
           /\ CountedIn(f) \in Nat /\ CountedIn(g) \in Nat
           /\ TokensTaken(f) \in Nat /\ TokensTaken(g) \in Nat
           /\ SlotsTaken(g) = SlotsTaken(f) + Bit(l \in WithSlot) - Bit(f[s] \in WithSlot)
           /\ CountedIn(g) = CountedIn(f) + Bit(l \in Counted) - Bit(f[s] \in Counted)
           /\ s \in Background => TokensTaken(g) =
                TokensTaken(f) + Bit(l \in Entered) - Bit(f[s] \in Entered)
           /\ s \notin Background => TokensTaken(g) = TokensTaken(f)
<1>1. WithSlot \in SUBSET PCs /\ Counted \in SUBSET PCs /\ Entered \in SUBSET PCs
  BY DEF WithSlot, Counted, Entered, PCs
<1>2. Background \in SUBSET Searches /\ Searches \in SUBSET Searches
  BY DEF Searches
<1>3. ASSUME NEW B \in SUBSET Searches, NEW A \in SUBSET PCs
      PROVE  /\ Cardinality(In(f, B, A)) \in Nat
             /\ Cardinality(In(g, B, A)) \in Nat
             /\ s \in B => Cardinality(In(g, B, A)) =
                  Cardinality(In(f, B, A)) + Bit(l \in A) - Bit(f[s] \in A)
             /\ s \notin B => Cardinality(In(g, B, A)) = Cardinality(In(f, B, A))
  <2> DEFINE m == Cardinality(In(f, B, A))
             n == Cardinality(In(g, B, A))
  <2>1. /\ m \in Nat /\ n \in Nat
        /\ s \in B /\ l \in A /\ f[s] \notin A => n = m + 1
        /\ s \in B /\ l \notin A /\ f[s] \in A => n = m - 1
        /\ s \notin B \/ (l \in A <=> f[s] \in A) => n = m
    BY MoveCounts
  <2> HIDE DEF m, n
  <2>2. s \in B => n = m + Bit(l \in A) - Bit(f[s] \in A)
    BY <2>1 DEF Bit
  <2> QED BY <2>1, <2>2 DEF m, n
<1>4. g \in [Searches -> PCs]
  BY DEF Moved
<1> QED BY <1>1, <1>2, <1>3, <1>4 DEF SlotsTaken, CountedIn, TokensTaken

\* A blocked sender joins the end of the line.
LEMMA JoinLine ==
    ASSUME NEW q, NEW W, Lines(q, W), NEW s \in Searches, s \notin W
    PROVE  Lines(Append(q, s), W \cup {s}) /\ Append(q, s) # <<>>
<1> DEFINE r == Append(q, s)
<1>1. /\ r \in Seq(Searches) /\ Len(q) \in Nat /\ Len(r) = Len(q) + 1
      /\ \A i \in 1..Len(q) : r[i] = q[i]
      /\ r[Len(q) + 1] = s
  BY DEF Lines
<1> HIDE DEF r
<1>2. \A i \in 1..Len(r) : i \in 1..Len(q) \/ i = Len(q) + 1
  BY <1>1
<1>3. \A i \in 1..Len(r) : r[i] \in W \cup {s}
  BY <1>1, <1>2 DEF Lines
<1>4. \A i, j \in 1..Len(r) : r[i] = r[j] => i = j
  <2> SUFFICES ASSUME NEW i \in 1..Len(r), NEW j \in 1..Len(r), r[i] = r[j]
               PROVE  i = j
    OBVIOUS
  <2>1. CASE i \in 1..Len(q) /\ j \in 1..Len(q)
    BY <2>1, <1>1 DEF Lines
  <2>2. CASE i \in 1..Len(q) /\ j = Len(q) + 1
    BY <2>2, <1>1 DEF Lines
  <2>3. CASE j \in 1..Len(q) /\ i = Len(q) + 1
    BY <2>3, <1>1 DEF Lines
  <2> QED BY <2>1, <2>2, <2>3, <1>2
<1>5. \A t \in W \cup {s} : \E i \in 1..Len(r) : r[i] = t
  <2>1. \A t \in W : \E i \in 1..Len(r) : r[i] = t
    BY <1>1 DEF Lines
  <2>2. \E i \in 1..Len(r) : r[i] = s
    BY <1>1
  <2> QED BY <2>1, <2>2
<1>6. r # <<>>
  BY <1>1
<1> QED BY <1>1, <1>3, <1>4, <1>5, <1>6 DEF Lines, r

\* Whoever is served or gives up leaves the line; the others keep their order.
LEMMA LeaveLine ==
    ASSUME NEW q, NEW W, Lines(q, W), NEW k \in 1..Len(q)
    PROVE  Lines(RemoveAt(q, k), W \ {q[k]})
<1> DEFINE r == RemoveAt(q, k)
           Old(i) == IF i < k THEN i ELSE i + 1
<1>1. q \in Seq(Searches) /\ Len(q) \in Nat
  BY DEF Lines
<1>2. /\ r \in Seq(Searches) /\ Len(r) = Len(q) - 1
      /\ \A i \in 1..Len(r) : r[i] = q[Old(i)]
  <2> DEFINE a == SubSeq(q, 1, k - 1)
             b == SubSeq(q, k + 1, Len(q))
  <2>1. /\ a \in Seq(Searches) /\ Len(a) = k - 1
        /\ \A i \in 1..(k - 1) : a[i] = q[i]
    BY <1>1
  <2>2. /\ b \in Seq(Searches) /\ Len(b) = Len(q) - k
        /\ \A i \in 1..(Len(q) - k) : b[i] = q[k + i]
    BY <1>1
  <2>3. r = a \o b
    BY DEF RemoveAt
  <2> HIDE DEF a, b, r
  <2>4. r \in Seq(Searches) /\ Len(r) = Len(q) - 1
    BY <2>1, <2>2, <2>3, <1>1
  <2>5. ASSUME NEW i \in 1..Len(r) PROVE r[i] = q[Old(i)]
    <3>1. CASE i < k
      <4>1. r[i] = a[i]
        BY <3>1, <2>1, <2>2, <2>3, <2>4, <1>1
      <4> QED BY <3>1, <4>1, <2>1, <2>4, <1>1
    <3>2. CASE i >= k
      <4>1. r[i] = b[i - (k - 1)]
        BY <3>2, <2>1, <2>2, <2>3, <2>4, <1>1
      <4>2. i - (k - 1) \in 1..(Len(q) - k) /\ k + (i - (k - 1)) = i + 1
        BY <3>2, <2>4, <1>1
      <4> QED BY <3>2, <4>1, <4>2, <2>2
    <3> QED BY <3>1, <3>2, <2>4, <1>1
  <2> QED BY <2>4, <2>5
<1> HIDE DEF r
<1>3. \A i \in 1..Len(r) : Old(i) \in 1..Len(q) /\ Old(i) # k
  BY <1>1, <1>2
<1>4. \A i, j \in 1..Len(r) : r[i] = r[j] => i = j
  <2> SUFFICES ASSUME NEW i \in 1..Len(r), NEW j \in 1..Len(r), r[i] = r[j]
               PROVE  i = j
    OBVIOUS
  <2>1. Old(i) = Old(j)
    <3> HIDE DEF Old
    <3> QED BY <1>2, <1>3 DEF Lines
  <2> QED BY <2>1, <1>1, <1>2
<1>5. \A i \in 1..Len(r) : r[i] \in W \ {q[k]}
  <2> SUFFICES ASSUME NEW i \in 1..Len(r) PROVE r[i] \in W \ {q[k]}
    OBVIOUS
  <2>1. r[i] = q[Old(i)] /\ Old(i) \in 1..Len(q) /\ Old(i) # k
    BY <1>2, <1>3
  <2> HIDE DEF Old
  <2> QED BY <2>1 DEF Lines
<1>6. \A t \in W \ {q[k]} : \E i \in 1..Len(r) : r[i] = t
  <2> SUFFICES ASSUME NEW t \in W \ {q[k]} PROVE \E i \in 1..Len(r) : r[i] = t
    OBVIOUS
  <2>1. PICK j \in 1..Len(q) : q[j] = t
    BY DEF Lines
  <2>2. j # k
    BY <2>1
  <2> DEFINE i == IF j < k THEN j ELSE j - 1
  <2>3. i \in 1..Len(r) /\ Old(i) = j
    BY <2>2, <1>1, <1>2
  <2> QED BY <2>1, <2>3, <1>2
<1> QED BY <1>2, <1>4, <1>5, <1>6 DEF Lines, r

LEMMA HeadLeaves ==
    ASSUME NEW q, NEW W, Lines(q, W), q # <<>>
    PROVE  Head(q) \in W /\ Head(q) \in Searches /\ Lines(Tail(q), W \ {Head(q)})
<1>1. q \in Seq(Searches) /\ 1 \in 1..Len(q) /\ Head(q) = q[1]
  BY DEF Lines
<1>2. RemoveAt(q, 1) = Tail(q)
  <2>1. SubSeq(q, 1, 0) = <<>> /\ SubSeq(q, 2, Len(q)) = Tail(q)
    BY <1>1
  <2> QED BY <2>1, <1>1 DEF RemoveAt
<1>3. Lines(RemoveAt(q, 1), W \ {q[1]})
  BY <1>1, LeaveLine
<1>4. q[1] \in W /\ q[1] \in Searches
  BY <1>1 DEF Lines
<1> QED BY <1>1, <1>2, <1>3, <1>4

-----------------------------------------------------------------------------
LEMMA AdmissionStarts == Init => AdmissionInv
<1> SUFFICES ASSUME Init PROVE AdmissionInv
  OBVIOUS
<1>1. Places
  BY DEF Init, Places, PCs
<1>2. /\ In(pc, Searches, WithSlot) = {} /\ In(pc, Searches, Counted) = {}
      /\ In(pc, Background, Entered) = {}
  BY DEF Init, In, WithSlot, Counted, Entered, Searches
<1>3. Counts
  BY <1>2, FS_EmptySet DEF Init, Counts, SlotsTaken, CountedIn, TokensTaken
<1>4. Bounds
  BY AdmissionAssumption DEF Init, Bounds, BackgroundCap
<1>5. Queue
  BY DEF Init, Queue, Lines, Waiters
<1> QED BY <1>1, <1>3, <1>4, <1>5 DEF AdmissionInv

LEMMA AdmissionStep == AdmissionInv /\ [Next]_vars => AdmissionInv'
<1> SUFFICES ASSUME AdmissionInv, [Next]_vars PROVE AdmissionInv'
  OBVIOUS
<1> USE AdmissionAssumption DEF AdmissionInv
<1>0. ActiveSearches \in Nat /\ BackgroundCap \in Nat
  BY DEF BackgroundCap
<1>1. CASE UNCHANGED vars
  BY <1>1 DEF vars, Places, Counts, Bounds, Queue, Waiters
<1>2. ASSUME NEW s \in Searches, NEW l \in PCs, Goto(s, l),
             l = "untoken" => s \in Background
      PROVE  /\ Places'
             /\ SlotsTaken(pc') = active + Bit(l \in WithSlot) - Bit(pc[s] \in WithSlot)
             /\ CountedIn(pc') = waiting + Bit(l \in Counted) - Bit(pc[s] \in Counted)
             /\ s \in Background => TokensTaken(pc') =
                  background + Bit(l \in Entered) - Bit(pc[s] \in Entered)
             /\ s \notin Background => TokensTaken(pc') = background
             /\ active \in Nat /\ waiting \in Nat /\ background \in Nat
             /\ Waiters' = IF l = "wait" THEN Waiters \cup {s} ELSE Waiters \ {s}
  <2>1. pc \in [Searches -> PCs] /\ pc' = [pc EXCEPT ![s] = l]
    BY <1>2 DEF Places, Goto
  <2>2. Places'
    BY <1>2, <2>1 DEF Places
  <2>3. Waiters' = IF l = "wait" THEN Waiters \cup {s} ELSE Waiters \ {s}
    BY <2>1 DEF Waiters
  <2>4. /\ SlotsTaken(pc) \in Nat /\ CountedIn(pc) \in Nat /\ TokensTaken(pc) \in Nat
        /\ SlotsTaken(pc') = SlotsTaken(pc) + Bit(l \in WithSlot) - Bit(pc[s] \in WithSlot)
        /\ CountedIn(pc') = CountedIn(pc) + Bit(l \in Counted) - Bit(pc[s] \in Counted)
        /\ s \in Background => TokensTaken(pc') =
             TokensTaken(pc) + Bit(l \in Entered) - Bit(pc[s] \in Entered)
        /\ s \notin Background => TokensTaken(pc') = TokensTaken(pc)
    <3>1. Moved(pc, pc', s, l)
      BY <2>1 DEF Moved
    <3> QED BY <2>1, <3>1, OneMove
  <2> QED BY <2>2, <2>3, <2>4 DEF Counts
<1>3. ASSUME NEW s \in Searches, ArriveInteractive(s) PROVE AdmissionInv'
  <2>1. Goto(s, "try") /\ pc[s] = "idle" /\ s \notin Background /\ "try" \in PCs
    BY <1>3 DEF ArriveInteractive, PCs
  <2>2. UNCHANGED <<active, sendq, background, waiting>>
    BY <1>3 DEF ArriveInteractive
  <2>3. Waiters' = Waiters
    BY <2>1, <1>2 DEF Waiters
  <2>4. Counts'
    BY <2>1, <2>2, <1>2 DEF Counts, Bit, WithSlot, Counted
  <2> QED BY <2>1, <2>2, <2>3, <2>4, <1>2 DEF Bounds, Queue
<1>4. ASSUME NEW s \in Searches, ArriveBackground(s) PROVE AdmissionInv'
  <2>1. Goto(s, "try") /\ pc[s] = "idle" /\ s \in Background /\ "try" \in PCs
    BY <1>4 DEF ArriveBackground, PCs
  <2>2. UNCHANGED <<active, sendq, waiting>> /\ background < BackgroundCap
        /\ background' = background + 1
    BY <1>4 DEF ArriveBackground
  <2>3. Waiters' = Waiters
    BY <2>1, <1>2 DEF Waiters
  <2>4. Counts' /\ background \in Nat
    BY <2>1, <2>2, <1>2 DEF Counts, Bit, WithSlot, Counted, Entered
  <2>5. Bounds'
    BY <2>2, <2>4, <1>0 DEF Bounds
  <2> QED BY <2>1, <2>2, <2>3, <2>4, <2>5, <1>2 DEF Queue
<1>5. ASSUME NEW s \in Searches, TryActive(s) PROVE AdmissionInv'
  <2>1. pc[s] = "try" /\ UNCHANGED <<sendq, background, waiting>>
    BY <1>5 DEF TryActive
  <2>2. CASE active < ActiveSearches
    <3>1. active' = active + 1 /\ Goto(s, "admitted") /\ "admitted" \in PCs
      BY <1>5, <2>2 DEF TryActive, PCs
    <3>2. Waiters' = Waiters
      BY <2>1, <3>1, <1>2 DEF Waiters
    <3>3. Counts' /\ active \in Nat
      BY <2>1, <3>1, <1>2 DEF Counts, Bit, WithSlot, Counted, Entered, PCs
    <3>4. Bounds' /\ sendq = <<>>
      BY <2>1, <2>2, <3>1, <3>3, <1>0 DEF Bounds, Queue
    <3> QED BY <2>1, <3>1, <3>2, <3>3, <3>4, <1>2 DEF Queue
  <2>3. CASE ~(active < ActiveSearches)
    <3>1. active' = active /\ Goto(s, "count") /\ "count" \in PCs
      BY <1>5, <2>3 DEF TryActive, PCs
    <3>2. Waiters' = Waiters
      BY <2>1, <3>1, <1>2 DEF Waiters
    <3>3. Counts'
      BY <2>1, <3>1, <1>2 DEF Counts, Bit, WithSlot, Counted, Entered, PCs
    <3> QED BY <2>1, <3>1, <3>2, <3>3, <1>2 DEF Bounds, Queue
  <2> QED BY <2>2, <2>3
<1>6. ASSUME NEW s \in Searches, Count(s) PROVE AdmissionInv'
  <2>1. /\ pc[s] = "count" /\ UNCHANGED <<active, sendq, background>>
        /\ waiting' = waiting + 1
    BY <1>6 DEF Count
  <2>2. PICK l \in {"reject", "select"} : Goto(s, l)
    BY <1>6 DEF Count
  <2>3. l \in PCs /\ Waiters' = Waiters
    BY <2>1, <2>2, <1>2 DEF Waiters, PCs
  <2>4. Counts'
    BY <2>1, <2>2, <2>3, <1>2 DEF Counts, Bit, WithSlot, Counted, Entered, PCs
  <2> QED BY <2>1, <2>2, <2>3, <2>4, <1>2 DEF Bounds, Queue
<1>7. ASSUME NEW s \in Searches, Select(s) PROVE AdmissionInv'
  <2>1. pc[s] = "select" /\ UNCHANGED <<background, waiting>>
    BY <1>7 DEF Select
  <2>2. CASE active < ActiveSearches /\ active' = active + 1 /\ Goto(s, "won")
             /\ UNCHANGED sendq
    <3>1. "won" \in PCs /\ Waiters' = Waiters
      BY <2>1, <2>2, <1>2 DEF Waiters, PCs
    <3>2. Counts' /\ active \in Nat
      BY <2>1, <2>2, <3>1, <1>2 DEF Counts, Bit, WithSlot, Counted, Entered, PCs
    <3>3. Bounds' /\ sendq = <<>>
      BY <2>1, <2>2, <3>2, <1>0 DEF Bounds, Queue
    <3> QED BY <2>1, <2>2, <3>1, <3>2, <3>3, <1>2 DEF Queue
  <2>3. CASE Goto(s, "quit") /\ UNCHANGED <<active, sendq>>
    <3>1. "quit" \in PCs /\ Waiters' = Waiters
      BY <2>1, <2>3, <1>2 DEF Waiters, PCs
    <3>2. Counts'
      BY <2>1, <2>3, <3>1, <1>2 DEF Counts, Bit, WithSlot, Counted, Entered, PCs
    <3> QED BY <2>1, <2>3, <3>1, <3>2, <1>2 DEF Bounds, Queue
  <2>4. CASE active = ActiveSearches /\ sendq' = Append(sendq, s) /\ Goto(s, "wait")
             /\ UNCHANGED active
    <3>1. "wait" \in PCs /\ Waiters' = Waiters \cup {s} /\ s \notin Waiters
      BY <2>1, <2>4, <1>2 DEF Waiters, PCs
    <3>2. Counts'
      BY <2>1, <2>4, <3>1, <1>2 DEF Counts, Bit, WithSlot, Counted, Entered, PCs
    <3>3. Queue'
      BY <2>4, <3>1, JoinLine DEF Queue
    <3> QED BY <2>1, <2>4, <3>1, <3>2, <3>3, <1>2 DEF Bounds
  <2> QED BY <1>7, <2>2, <2>3, <2>4 DEF Select
<1>8. ASSUME NEW s \in Searches, GiveUp(s) PROVE AdmissionInv'
  <2>1. /\ pc[s] = "wait" /\ Goto(s, "quit") /\ "quit" \in PCs
        /\ UNCHANGED <<active, background, waiting>>
    BY <1>8 DEF GiveUp, PCs
  <2>2. PICK i \in 1..Len(sendq) : sendq[i] = s /\ sendq' = RemoveAt(sendq, i)
    BY <1>8 DEF GiveUp, Queue, Lines
  <2>3. Waiters' = Waiters \ {s}
    BY <2>1, <1>2
  <2>4. Lines(sendq', Waiters')
    BY <2>2, <2>3, LeaveLine DEF Queue
  <2>5. sendq # <<>>
    BY <2>2
  <2>6. Counts'
    BY <2>1, <1>2 DEF Counts, Bit, WithSlot, Counted, Entered, PCs
  <2> QED BY <2>1, <2>4, <2>5, <2>6, <1>2 DEF Bounds, Queue
<1>9. ASSUME NEW s \in Searches, Uncount(s) PROVE AdmissionInv'
  <2>1. /\ pc[s] \in {"reject", "won", "quit"} /\ waiting' = waiting - 1
        /\ UNCHANGED <<active, sendq, background>>
    BY <1>9 DEF Uncount
  <2> DEFINE l == IF pc[s] = "won" THEN "admitted" ELSE Out(s)
  <2>2. Goto(s, l)
    BY <1>9 DEF Uncount
  <2>3. /\ l \in PCs /\ (l = "untoken" => s \in Background) /\ l # "wait"
        /\ (l = "admitted" <=> pc[s] = "won") /\ (l = "idle" => s \notin Background)
        /\ l \in {"admitted", "untoken", "idle"}
    BY DEF Out, PCs
  <2> HIDE DEF l
  <2>4. Waiters' = Waiters
    BY <2>1, <2>2, <2>3, <1>2 DEF Waiters
  <2>5. Counts'
    BY <2>1, <2>2, <2>3, <1>2 DEF Counts, Bit, WithSlot, Counted, Entered, PCs
  <2> QED BY <2>1, <2>2, <2>3, <2>4, <2>5, <1>2 DEF Bounds, Queue
<1>10. ASSUME NEW s \in Searches, Release(s) PROVE AdmissionInv'
  <2>1. pc[s] = "admitted" /\ UNCHANGED <<background, waiting>>
    BY <1>10 DEF Release
  <2>2. /\ Out(s) \in PCs /\ (Out(s) = "untoken" => s \in Background)
        /\ Out(s) \in {"untoken", "idle"} /\ (Out(s) = "idle" => s \notin Background)
    BY DEF Out, PCs
  <2>3. CASE sendq = <<>>
    <3>1. active' = active - 1 /\ Goto(s, Out(s)) /\ sendq' = <<>>
      BY <1>10, <2>3 DEF Release
    <3>2. Waiters' = Waiters
      BY <2>1, <2>2, <3>1, <1>2 DEF Waiters
    <3>3. Counts' /\ active \in Nat
      BY <2>1, <2>2, <3>1, <1>2 DEF Counts, Bit, WithSlot, Counted, Entered, PCs
    <3>4. Bounds'
      BY <2>1, <3>1, <3>3, <1>0 DEF Bounds
    <3> QED BY <2>1, <2>2, <2>3, <3>1, <3>2, <3>3, <3>4, <1>2 DEF Queue
  <2>4. CASE sendq # <<>>
    <3> DEFINE h == Head(sendq)
               mid == [pc EXCEPT ![s] = Out(s)]
    <3>1. /\ pc' = [pc EXCEPT ![s] = Out(s), ![h] = "won"]
          /\ sendq' = Tail(sendq) /\ active' = active
      BY <1>10, <2>4 DEF Release
    <3>2. h \in Waiters /\ h \in Searches /\ Lines(Tail(sendq), Waiters \ {h})
      BY <2>4, HeadLeaves DEF Queue
    <3>3. pc[h] = "wait" /\ h # s
      BY <2>1, <3>2 DEF Waiters
    <3>4. pc \in [Searches -> PCs] /\ mid \in [Searches -> PCs] /\ mid[h] = "wait"
      BY <2>2, <3>2, <3>3 DEF Places
    <3>5. pc' = [mid EXCEPT ![h] = "won"] /\ "won" \in PCs
      BY <3>1 DEF PCs
    <3> HIDE DEF h, mid
    <3>6. Places'
      BY <2>2, <3>1, <3>2, <3>4 DEF Places, PCs
    <3>7. /\ SlotsTaken(mid) = active - 1 /\ CountedIn(mid) = waiting
          /\ TokensTaken(mid) = background
          /\ active \in Nat /\ waiting \in Nat /\ background \in Nat
      <4>1. Moved(pc, mid, s, Out(s))
        BY DEF mid, Moved
      <4>2. /\ SlotsTaken(pc) \in Nat /\ CountedIn(pc) \in Nat /\ TokensTaken(pc) \in Nat
            /\ SlotsTaken(mid) = SlotsTaken(pc) + Bit(Out(s) \in WithSlot)
                                 - Bit(pc[s] \in WithSlot)
            /\ CountedIn(mid) = CountedIn(pc) + Bit(Out(s) \in Counted)
                                - Bit(pc[s] \in Counted)
            /\ s \in Background => TokensTaken(mid) =
                 TokensTaken(pc) + Bit(Out(s) \in Entered) - Bit(pc[s] \in Entered)
            /\ s \notin Background => TokensTaken(mid) = TokensTaken(pc)
        BY <2>2, <3>4, <4>1, OneMove
      <4> QED BY <2>1, <2>2, <4>2 DEF Counts, Bit, WithSlot, Counted, Entered, PCs
    <3>8. Counts'
      <4>1. /\ SlotsTaken(pc') = SlotsTaken(mid) + Bit("won" \in WithSlot)
                                 - Bit(mid[h] \in WithSlot)
            /\ CountedIn(pc') = CountedIn(mid) + Bit("won" \in Counted)
                                - Bit(mid[h] \in Counted)
            /\ h \in Background => TokensTaken(pc') =
                 TokensTaken(mid) + Bit("won" \in Entered) - Bit(mid[h] \in Entered)
            /\ h \notin Background => TokensTaken(pc') = TokensTaken(mid)
        <5>1. Moved(mid, pc', h, "won")
          BY <3>5 DEF Moved
        <5> QED BY <3>2, <3>4, <3>5, <5>1, OneMove
      <4> QED
        BY <2>1, <3>1, <3>4, <3>7, <4>1 DEF Counts, Bit, WithSlot, Counted, Entered, PCs
    <3>9. Waiters' = Waiters \ {h}
      BY <2>1, <2>2, <3>1, <3>2, <3>4 DEF Waiters
    <3>10. Queue'
      BY <2>4, <3>1, <3>2, <3>9 DEF Queue, h
    <3> QED BY <2>1, <3>1, <3>6, <3>8, <3>10 DEF Bounds
  <2> QED BY <2>3, <2>4
<1>11. ASSUME NEW s \in Searches, ReturnToken(s) PROVE AdmissionInv'
  <2>1. /\ pc[s] = "untoken" /\ Goto(s, "idle") /\ "idle" \in PCs
        /\ background' = background - 1
        /\ UNCHANGED <<active, sendq, waiting>>
    BY <1>11 DEF ReturnToken, PCs
  <2>2. s \in Background
    BY <2>1 DEF Places
  <2>3. Waiters' = Waiters
    BY <2>1, <1>2 DEF Waiters
  <2>4. Counts' /\ background \in Nat
    BY <2>1, <2>2, <1>2 DEF Counts, Bit, WithSlot, Counted, Entered, PCs
  <2>5. Bounds'
    BY <2>1, <2>4, <1>0 DEF Bounds
  <2> QED BY <2>1, <2>3, <2>4, <2>5, <1>2 DEF Queue
<1> QED
  BY <1>1, <1>3, <1>4, <1>5, <1>6, <1>7, <1>8, <1>9, <1>10, <1>11 DEF Next, Step

LEMMA AdmissionInvariant == Spec => []AdmissionInv
<1> QED BY AdmissionStarts, AdmissionStep, PTL DEF Spec

\* A free slot is never left idle while a search waits (Acquire, Release).
THEOREM SlotsNeverIdle == Spec => []NoIdleSlot
<1>1. ASSUME AdmissionInv PROVE NoIdleSlot
  <2> USE <1>1 DEF AdmissionInv, Queue
  <2>1. ASSUME NEW s \in Searches, pc[s] = "wait"
        PROVE  Cardinality({i \in DOMAIN sendq : sendq[i] = s}) = 1
    <3>1. PICK k \in 1..Len(sendq) : sendq[k] = s
      BY <2>1 DEF Lines, Waiters
    <3>2. {i \in DOMAIN sendq : sendq[i] = s} = {k}
      BY <3>1 DEF Lines
    <3> QED BY <3>2, FS_Singleton
  <2>2. ASSUME NEW s \in Searches, pc[s] # "wait"
        PROVE  Cardinality({i \in DOMAIN sendq : sendq[i] = s}) # 1
    <3>1. {i \in DOMAIN sendq : sendq[i] = s} = {}
      BY <2>2 DEF Lines, Waiters
    <3>2. Cardinality({i \in DOMAIN sendq : sendq[i] = s}) = 0
      BY <3>1, FS_EmptySet
    <3> QED BY <3>2
  <2> QED BY <2>1, <2>2 DEF NoIdleSlot
<1> QED BY <1>1, AdmissionInvariant, PTL

\* Collections and refreshes hold at most BackgroundCap slots, so whoever waits
\* waits for interactive searches too (Acquire and the token of Config).
THEOREM ForegroundKeepsSlots == Spec => []ForegroundReserved
<1>1. ASSUME AdmissionInv, NEW s \in Interactive, pc[s] = "wait"
      PROVE  Cardinality(Holding \cap Interactive) >=
               IF ActiveSearches > 2 THEN 2 ELSE ActiveSearches - 1
  <2> USE <1>1 DEF AdmissionInv
  <2> DEFINE F == Holding \cap Interactive
             B == Holding \cap Background
  <2>1. \E i \in 1..Len(sendq) : sendq[i] = s
    BY DEF Queue, Lines, Waiters, Searches
  <2>2. active = ActiveSearches
    BY <2>1 DEF Queue
  <2>3. IsFiniteSet(Interactive) /\ IsFiniteSet(Background) /\ IsFiniteSet(Searches)
    BY AdmissionAssumption, FS_Union DEF Searches
  <2>4. IsFiniteSet(F) /\ IsFiniteSet(B) /\ IsFiniteSet(F \cup B)
    BY <2>3, FS_Subset, FS_Union
  <2>5. F \cup B = In(pc, Searches, WithSlot) /\ F \cap B = {}
    BY AdmissionAssumption DEF Holding, In, WithSlot, Searches
  <2>6. Cardinality(F \cup B) = ActiveSearches
    BY <2>2, <2>5 DEF Counts, SlotsTaken
  <2>7. Cardinality(F \cup B) = Cardinality(F) + Cardinality(B) - Cardinality(F \cap B)
    BY <2>4, FS_Union
  <2>8. Cardinality(F) \in Nat /\ Cardinality(B) \in Nat /\ Cardinality(F \cap B) = 0
    BY <2>4, <2>5, FS_CardinalityType, FS_EmptySet
  <2>9. Cardinality(B) <= background
    <3>1. B \subseteq In(pc, Background, Entered)
      BY DEF Holding, In, Entered, PCs
    <3>2. IsFiniteSet(In(pc, Background, Entered))
      BY <2>3, FS_Subset DEF In
    <3> QED BY <3>1, <3>2, FS_Subset DEF Counts, TokensTaken
  <2>10. background <= BackgroundCap /\ background \in Nat
    <3>1. IsFiniteSet(In(pc, Background, Entered))
      BY <2>3, FS_Subset DEF In
    <3> QED BY <3>1, FS_CardinalityType DEF Counts, TokensTaken, Bounds
  <2> HIDE DEF F, B
  <2>11. Cardinality(F) >= ActiveSearches - BackgroundCap
    BY <2>6, <2>7, <2>8, <2>9, <2>10, AdmissionAssumption DEF BackgroundCap
  <2>12. Cardinality(F) >= IF ActiveSearches > 2 THEN 2 ELSE ActiveSearches - 1
    BY <2>8, <2>11, AdmissionAssumption DEF BackgroundCap
  <2> QED BY <2>12 DEF F
<1>2. AdmissionInv => ForegroundReserved
  BY <1>1 DEF ForegroundReserved
<1> QED BY <1>2, AdmissionInvariant, PTL

-----------------------------------------------------------------------------
(* Refinement of FairSlots *)

\* Who was let into the queue and has not left it for good: no more than SearchQueue,
\* since each of them was within the limit when s.waiting was counted up for it.
Patient == {"select", "wait", "won", "quit"}

LineInv == Cardinality(In(pc, Searches, Patient)) <= SearchQueue

LEMMA SearchesFinite ==
    /\ IsFiniteSet(Searches) /\ IsFiniteSet(Background)
    /\ \A f, A : /\ IsFiniteSet(In(f, Searches, A)) /\ Cardinality(In(f, Searches, A)) \in Nat
                 /\ IsFiniteSet(In(f, Background, A)) /\ Cardinality(In(f, Background, A)) \in Nat
<1>1. IsFiniteSet(Searches) /\ IsFiniteSet(Background)
  BY AdmissionAssumption, FS_Union DEF Searches
<1>2. ASSUME NEW f, NEW A
      PROVE  IsFiniteSet(In(f, Searches, A)) /\ IsFiniteSet(In(f, Background, A))
  BY <1>1, FS_Subset DEF In
<1> QED BY <1>1, <1>2, FS_CardinalityType

LEMMA LineStarts == Init => LineInv
<1> SUFFICES ASSUME Init PROVE LineInv
  OBVIOUS
<1>1. In(pc, Searches, Patient) = {}
  BY DEF Init, In, Patient
<1>2. Cardinality({}) = 0 /\ SearchQueue \in Nat
  BY FS_EmptySet, AdmissionAssumption
<1> QED BY <1>1, <1>2 DEF LineInv

\* Only the count lets a caller into the queue.
LEMMA LineStep == AdmissionInv /\ LineInv /\ [Next]_vars => LineInv'
<1> SUFFICES ASSUME AdmissionInv, LineInv, [Next]_vars PROVE LineInv'
  OBVIOUS
<1> USE DEF AdmissionInv, Places
<1>0. SearchQueue \in Nat
  BY AdmissionAssumption
<1>1. ASSUME \A t \in Searches : pc'[t] \in Patient => pc[t] \in Patient PROVE LineInv'
  <2>1. In(pc', Searches, Patient) \subseteq In(pc, Searches, Patient)
    BY <1>1 DEF In
  <2>2. Cardinality(In(pc', Searches, Patient)) <= Cardinality(In(pc, Searches, Patient))
    BY <2>1, SearchesFinite, FS_Subset
  <2> QED BY <1>0, <2>2, SearchesFinite DEF LineInv
<1>2. ASSUME NEW s \in Searches, Count(s) PROVE LineInv'
  <2>1. CASE waiting' > SearchQueue
    BY <1>1, <1>2, <2>1 DEF Count, Goto, Patient
  <2>2. CASE ~(waiting' > SearchQueue)
    <3>1. AdmissionInv'
      BY AdmissionStep
    <3>2. In(pc', Searches, Patient) \subseteq In(pc', Searches, Counted)
      BY DEF In, Patient, Counted
    <3>3. Cardinality(In(pc', Searches, Patient)) <= Cardinality(In(pc', Searches, Counted))
      BY <3>2, SearchesFinite, FS_Subset
    <3>4. waiting' = Cardinality(In(pc', Searches, Counted))
      BY <3>1 DEF Counts, CountedIn
    <3> QED BY <1>0, <2>2, <3>3, <3>4, SearchesFinite DEF LineInv
  <2> QED BY <2>1, <2>2
<1>3. CASE UNCHANGED vars
  BY <1>1, <1>3 DEF vars
<1>4. ASSUME NEW s \in Searches,
             ArriveInteractive(s) \/ ArriveBackground(s) \/ TryActive(s) \/ Uncount(s) \/ ReturnToken(s)
      PROVE  LineInv'
  BY <1>1, <1>4 DEF ArriveInteractive, ArriveBackground, TryActive, Uncount, ReturnToken,
                    Goto, Out, Patient
<1>5. ASSUME NEW s \in Searches, Select(s) \/ GiveUp(s) PROVE LineInv'
  BY <1>1, <1>5 DEF Select, GiveUp, Goto, Patient
<1>6. ASSUME NEW s \in Searches, Release(s) PROVE LineInv'
  <2>1. CASE sendq = <<>>
    BY <1>1, <1>6, <2>1 DEF Release, Goto, Out, Patient
  <2>2. CASE sendq # <<>>
    <3>1. Head(sendq) \in Searches /\ pc[Head(sendq)] = "wait"
      <4>1. Head(sendq) \in Waiters
        BY <2>2, HeadLeaves DEF Queue
      <4> QED BY <4>1 DEF Waiters
    <3>2. pc' = [pc EXCEPT ![s] = Out(s), ![Head(sendq)] = "won"]
      BY <1>6, <2>2 DEF Release
    <3>3. Out(s) \notin Patient /\ pc[Head(sendq)] \in Patient
      BY <3>1 DEF Out, Patient
    <3> QED BY <1>1, <3>1, <3>2, <3>3
  <2> QED BY <2>1, <2>2
<1> QED BY <1>2, <1>3, <1>4, <1>5, <1>6 DEF Next, Step

-----------------------------------------------------------------------------
LEMMA FairCardinality ==
    /\ \A S : FairAdmission!Cardinality(S) = Cardinality(S)
    /\ \A q, i : FairAdmission!RemoveAt(q, i) = RemoveAt(q, i)
  BY DEF FairAdmission!Cardinality, Cardinality, FairAdmission!RemoveAt, RemoveAt

\* What the abstract state says of the callers.
LEMMA FairState ==
    ASSUME AdmissionInv
    PROVE  /\ Holding = In(pc, Searches, WithSlot) /\ FairAdmission!InLine = Waiters
           /\ FairAdmission!Cardinality(Holding) = active /\ active \in Nat
           /\ Waiters \subseteq Searches
<1>1. Holding = In(pc, Searches, WithSlot)
  BY DEF Holding, In, WithSlot
<1>2. FairAdmission!InLine = Waiters
  <2>1. sendq \in Seq(Searches) /\ DOMAIN sendq = 1..Len(sendq)
    BY DEF AdmissionInv, Queue, Lines
  <2> QED BY <2>1 DEF AdmissionInv, Queue, Lines, FairAdmission!InLine
<1>3. FairAdmission!Cardinality(Holding) = active /\ active \in Nat
  BY <1>1, FairCardinality, SearchesFinite DEF AdmissionInv, Counts, SlotsTaken
<1> QED BY <1>1, <1>2, <1>3 DEF Waiters

\* A caller with what it needs, but neither slot nor place, may come: a background
\* caller's token is not among those of the callers that have come.
LEMMA CallerMayCome ==
    ASSUME AdmissionInv, NEW s \in Searches, pc[s] \in {"try", "select"}
    PROVE  FairAdmission!MayCome(s)
<1> DEFINE here == (Holding \cup Waiters) \cap Background
           tokens == In(pc, Background, Entered)
<1>1. s \notin Holding \cup Waiters
  BY DEF Holding, Waiters
<1>2. ASSUME s \in Background PROVE Cardinality(here) < BackgroundCap
  <2>1. s \in tokens /\ here \subseteq tokens \ {s}
    BY <1>1, <1>2 DEF Holding, Waiters, In, Entered, PCs
  <2>2. IsFiniteSet(tokens) /\ Cardinality(tokens) \in Nat
    BY SearchesFinite
  <2>3. IsFiniteSet(tokens \ {s}) /\ Cardinality(tokens \ {s}) = Cardinality(tokens) - 1
    BY <2>1, <2>2, FS_RemoveElement
  <2>4. IsFiniteSet(here) /\ Cardinality(here) <= Cardinality(tokens \ {s})
    BY <2>1, <2>3, FS_Subset
  <2>5. Cardinality(here) \in Nat
    BY <2>4, FS_CardinalityType
  <2>6. Cardinality(tokens) <= BackgroundCap
    BY DEF AdmissionInv, Counts, TokensTaken, Bounds
  <2>7. BackgroundCap \in Nat
    BY AdmissionAssumption DEF BackgroundCap
  <2> HIDE DEF here, tokens
  <2> QED BY <2>2, <2>3, <2>4, <2>5, <2>6, <2>7
<1>3. (Holding \cup FairAdmission!InLine) \cap Background = here
  BY FairState
<1>4. FairAdmission!Cardinality(here) = Cardinality(here)
  BY FairCardinality
<1> HIDE DEF here
<1> QED BY <1>1, <1>2, <1>3, <1>4, FairState DEF FairAdmission!MayCome

\* A caller that goes from one place without a slot to another, or keeps its slot,
\* changes nothing of the abstract state.
LEMMA FairStutters ==
    ASSUME AdmissionInv, NEW s \in Searches, NEW l \in PCs, Goto(s, l), sendq' = sendq,
           l \in WithSlot <=> pc[s] \in WithSlot
    PROVE  UNCHANGED FairAdmission!vars
<1>1. \A t \in Searches : pc'[t] \in WithSlot <=> pc[t] \in WithSlot
  BY DEF AdmissionInv, Places, Goto
<1>2. Holding' = Holding
  BY <1>1 DEF Holding, WithSlot
<1> QED BY <1>2 DEF FairAdmission!vars

\* A caller takes a free slot.
LEMMA FairEnters ==
    ASSUME AdmissionInv, NEW s \in Searches, pc[s] \in {"try", "select"},
           active < ActiveSearches, NEW l \in WithSlot, Goto(s, l), sendq' = sendq
    PROVE  FairAdmission!Enter(s)
<1>1. sendq = <<>>
  BY AdmissionAssumption DEF AdmissionInv, Queue
<1>2. Holding' = Holding \cup {s}
  BY DEF Holding, WithSlot, Goto, AdmissionInv, Places
<1> QED BY <1>1, <1>2, CallerMayCome, FairState DEF FairAdmission!Enter

\* The line is as long as its members are many.
LEMMA LineLength ==
    ASSUME AdmissionInv
    PROVE  Len(sendq) \in Nat /\ Len(sendq) <= Cardinality(Waiters)
<1>1. /\ sendq \in Seq(Searches) /\ Len(sendq) \in Nat
      /\ \A i, j \in 1..Len(sendq) : sendq[i] = sendq[j] => i = j
      /\ \A i \in 1..Len(sendq) : sendq[i] \in Waiters
  BY DEF AdmissionInv, Queue, Lines
<1> DEFINE f == [i \in 1..Len(sendq) |-> sendq[i]]
<1>2. f \in Injection(1..Len(sendq), Waiters)
  BY <1>1 DEF Injection, IsInjective
<1>3. IsFiniteSet(Waiters)
  BY SearchesFinite, FS_Subset DEF Waiters
<1>4. Cardinality(1..Len(sendq)) <= Cardinality(Waiters)
  BY <1>2, <1>3, FS_Injection
<1>5. Cardinality(1..Len(sendq)) = Len(sendq)
  <2>1. 1 \in Int /\ Len(sendq) \in Int
    BY <1>1
  <2>2. Cardinality(1..Len(sendq)) = IF 1 > Len(sendq) THEN 0 ELSE Len(sendq) - 1 + 1
    BY <2>1, FS_Interval
  <2> QED BY <1>1, <2>2
<1> QED BY <1>1, <1>4, <1>5

\* A caller that finds no slot free joins a line that is not full.
LEMMA FairQueues ==
    ASSUME AdmissionInv, LineInv, NEW s \in Searches, pc[s] = "select",
           active = ActiveSearches, Goto(s, "wait"), sendq' = Append(sendq, s)
    PROVE  FairAdmission!QueueUp(s)
<1> DEFINE P == In(pc, Searches, Patient)
<1>1. s \in P /\ Waiters \subseteq P \ {s}
  BY DEF In, Patient, Waiters
<1>2. IsFiniteSet(P) /\ Cardinality(P) \in Nat /\ Cardinality(P) <= SearchQueue
  BY SearchesFinite DEF LineInv
<1>3. IsFiniteSet(P \ {s}) /\ Cardinality(P \ {s}) = Cardinality(P) - 1
  BY <1>1, <1>2, FS_RemoveElement
<1>4. IsFiniteSet(Waiters) /\ Cardinality(Waiters) <= Cardinality(P \ {s})
  BY <1>1, <1>3, FS_Subset
<1>5. Cardinality(Waiters) \in Nat /\ SearchQueue \in Nat
  BY <1>4, FS_CardinalityType, AdmissionAssumption
<1> HIDE DEF P
<1>6. Len(sendq) < SearchQueue
  BY <1>2, <1>3, <1>4, <1>5, LineLength
<1>7. Holding' = Holding
  BY DEF Holding, Goto, AdmissionInv, Places
<1> QED BY <1>6, <1>7, CallerMayCome, FairState DEF FairAdmission!QueueUp

\* A slot that is given back goes to the first in line.
LEMMA FairLeaves ==
    ASSUME AdmissionInv, NEW s \in Searches, Release(s)
    PROVE  FairAdmission!Leave(s)
<1>1. s \in Holding /\ pc \in [Searches -> PCs] /\ Out(s) \notin WithSlot
  BY DEF Release, Holding, AdmissionInv, Places, Out, WithSlot
<1>2. CASE sendq = <<>>
  <2>1. Holding' = Holding \ {s}
    BY <1>1, <1>2 DEF Release, Goto, Holding, WithSlot
  <2> QED BY <1>1, <1>2, <2>1 DEF Release, FairAdmission!Leave
<1>3. CASE sendq # <<>>
  <2>1. Head(sendq) \in Searches /\ pc[Head(sendq)] = "wait"
    <3>1. Head(sendq) \in Waiters
      BY <1>3, HeadLeaves DEF AdmissionInv, Queue
    <3> QED BY <3>1 DEF Waiters
  <2>2. pc' = [pc EXCEPT ![s] = Out(s), ![Head(sendq)] = "won"] /\ sendq' = Tail(sendq)
    BY <1>3 DEF Release
  <2>3. Holding' = (Holding \ {s}) \cup {Head(sendq)}
    <3> DEFINE h == Head(sendq)
    <3>1. h # s /\ h \in Searches
      BY <2>1 DEF Release
    <3>2. pc'[h] = "won" /\ pc'[s] = Out(s) /\ \A t \in Searches \ {s, h} : pc'[t] = pc[t]
      BY <1>1, <2>1, <2>2, <3>1
    <3> HIDE DEF h
    <3> QED BY <1>1, <3>1, <3>2 DEF Holding, WithSlot, h
  <2> QED BY <1>1, <1>3, <2>2, <2>3 DEF FairAdmission!Leave
<1> QED BY <1>2, <1>3

\* Every step of a caller is a step of FairSlots or leaves its state alone.
LEMMA AdmissionRefinesStep ==
    AdmissionInv /\ LineInv /\ [Next]_vars => [FairAdmission!Next]_FairAdmission!vars
<1> SUFFICES ASSUME AdmissionInv, LineInv, [Next]_vars
             PROVE  [FairAdmission!Next]_FairAdmission!vars
  OBVIOUS
<1>1. CASE UNCHANGED vars
  BY <1>1 DEF vars, FairAdmission!vars, Holding
<1>2. ASSUME NEW s \in Searches, ArriveInteractive(s) \/ ArriveBackground(s) \/ ReturnToken(s)
      PROVE  UNCHANGED FairAdmission!vars
  BY <1>2, FairStutters DEF ArriveInteractive, ArriveBackground, ReturnToken, PCs, WithSlot
<1>3. ASSUME NEW s \in Searches, TryActive(s)
      PROVE  FairAdmission!Enter(s) \/ UNCHANGED FairAdmission!vars
  <2>1. CASE active < ActiveSearches
    BY <1>3, <2>1, FairEnters DEF TryActive, WithSlot
  <2>2. CASE ~(active < ActiveSearches)
    BY <1>3, <2>2, FairStutters DEF TryActive, PCs, WithSlot
  <2> QED BY <2>1, <2>2
<1>4. ASSUME NEW s \in Searches, Count(s) PROVE UNCHANGED FairAdmission!vars
  <2>1. PICK l \in {"reject", "select"} : Goto(s, l)
    BY <1>4 DEF Count
  <2> QED BY <1>4, <2>1, FairStutters DEF Count, PCs, WithSlot
<1>5. ASSUME NEW s \in Searches, Select(s)
      PROVE  \/ FairAdmission!Enter(s) \/ FairAdmission!QueueUp(s)
             \/ UNCHANGED FairAdmission!vars
  <2>1. CASE active < ActiveSearches /\ Goto(s, "won") /\ sendq' = sendq
    BY <1>5, <2>1, FairEnters DEF Select, WithSlot
  <2>2. CASE Goto(s, "quit") /\ sendq' = sendq
    BY <1>5, <2>2, FairStutters DEF Select, PCs, WithSlot
  <2>3. CASE active = ActiveSearches /\ sendq' = Append(sendq, s) /\ Goto(s, "wait")
    BY <1>5, <2>3, FairQueues DEF Select
  <2> QED BY <1>5, <2>1, <2>2, <2>3 DEF Select
<1>6. ASSUME NEW s \in Searches, GiveUp(s) PROVE FairAdmission!Abandon(s)
  <2>1. Holding' = Holding
    BY <1>6 DEF GiveUp, Goto, Holding, AdmissionInv, Places
  <2> QED BY <1>6, <2>1, FairCardinality DEF GiveUp, FairAdmission!Abandon
<1>7. ASSUME NEW s \in Searches, Uncount(s) PROVE UNCHANGED FairAdmission!vars
  <2>1. CASE pc[s] = "won"
    BY <1>7, <2>1, FairStutters DEF Uncount, PCs, WithSlot
  <2>2. CASE pc[s] # "won"
    <3>1. Goto(s, Out(s)) /\ Out(s) \in PCs \ WithSlot /\ pc[s] \notin WithSlot /\ sendq' = sendq
      BY <1>7, <2>2 DEF Uncount, Out, PCs, WithSlot
    <3> QED BY <3>1, FairStutters
  <2> QED BY <2>1, <2>2
<1>8. ASSUME NEW s \in Searches, Release(s) PROVE FairAdmission!Leave(s)
  BY <1>8, FairLeaves
<1> QED BY <1>1, <1>2, <1>3, <1>4, <1>5, <1>6, <1>7, <1>8 DEF Next, Step, FairAdmission!Next

\* Acquire and Release implement FairSlots for any number of callers, slots and places:
\* nobody overtakes a blocked search, and a freed slot goes to the first in line.
THEOREM AdmissionRefines == Spec => ImplementsFairSlots
<1>1. Init => FairAdmission!Init
  BY DEF Init, FairAdmission!Init, Holding
<1> QED
  BY <1>1, LineStarts, LineStep, AdmissionInvariant, AdmissionRefinesStep, PTL
  DEF Spec, ImplementsFairSlots, FairAdmission!Spec
=============================================================================
