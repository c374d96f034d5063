------------------------ MODULE SourceSnapshotsProofs ------------------------
(***************************************************************************)
(* Proofs about SourceSnapshots for any number of readers, updates,        *)
(* versions and crashes.                                                   *)
(***************************************************************************)
EXTENDS SourceSnapshots, FiniteSetTheorems, TLAPS

Working   == {"count", "check", "use", "drop", "last", "close"}
Updating  == {"build", "store", "publish", "swap", "retire", "look", "close", "done"}
Retiring  == {"retire", "look", "close"}

Typed ==
    /\ db \in Versions /\ current \in Versions \cup {None} /\ shut \in BOOLEAN
    /\ retired \in [Versions -> BOOLEAN] /\ closed \in [Versions -> BOOLEAN]
    /\ lock \in Updaters \cup {NoOne}
    /\ pc \in [Actors -> Working \cup Updating \cup {"idle"}]
    /\ snap \in [Actors -> Versions \cup {None}]
    /\ expect \in [Updaters -> Versions \cup {None}]
    /\ early \in [Readers -> {"late", "early", "safe"}]

\* A reader at work has a snapshot.
ReadersOK ==
    \A r \in Readers : /\ pc[r] \in Working \cup {"idle"}
                       /\ pc[r] \in Working => snap[r] \in Versions

\* An update at work has the lock; the version it publishes is the stored one.
UpdatersOK ==
    \A u \in Updaters :
      /\ pc[u] \in Updating \cup {"idle"}
      /\ pc[u] \in Updating => lock = u
      /\ pc[u] \in {"build", "store"} => db < MaxVersion
      /\ pc[u] \in {"publish", "swap"} => snap[u] = db
      /\ pc[u] \in Retiring => snap[u] \in Versions

CloserOK ==
    /\ pc[Closer] \in Retiring \cup {"idle", "done"}
    /\ pc[Closer] \in Retiring => snap[Closer] \in Versions

CurrentOK == current <= db /\ (~shut => current # None)

BaseInv == Typed /\ ReadersOK /\ UpdatersOK /\ CloserOK /\ CurrentOK

LEMMA BaseStarts == Init => BaseInv
<1> SUFFICES ASSUME Init PROVE BaseInv
  OBVIOUS
<1> USE SnapshotAssumption DEF Versions, None
<1>1. Typed
  <2>1. retired \in [Versions -> BOOLEAN] /\ closed \in [Versions -> BOOLEAN]
    BY DEF Init
  <2>2. /\ pc \in [Actors -> Working \cup Updating \cup {"idle"}]
        /\ snap \in [Actors -> Versions \cup {None}]
        /\ expect \in [Updaters -> Versions \cup {None}]
        /\ early \in [Readers -> {"late", "early", "safe"}]
    BY DEF Init
  <2>3. db \in Versions /\ current \in Versions /\ lock = NoOne
    BY DEF Init
  <2>4. shut \in BOOLEAN
    BY DEF Init
  <2> QED BY <2>1, <2>2, <2>3, <2>4 DEF Typed
<1>2. ReadersOK /\ UpdatersOK /\ CloserOK /\ CurrentOK
  BY DEF Init, ReadersOK, UpdatersOK, CloserOK, CurrentOK, Working, Updating, Retiring, Actors
<1> QED BY <1>1, <1>2 DEF BaseInv

LEMMA BaseStep == BaseInv /\ [Next]_vars => BaseInv'
<1> SUFFICES ASSUME BaseInv, [Next]_vars PROVE BaseInv'
  OBVIOUS
<1> USE SnapshotAssumption DEF BaseInv, Working, Updating, Retiring
<1>0. /\ Versions \subseteq Nat /\ None = 0 /\ None \notin Versions
      /\ \A v \in Versions : v < MaxVersion => v + 1 \in Versions
      /\ Readers \subseteq Actors /\ Updaters \subseteq Actors /\ Closer \in Actors
  BY DEF Versions, None, Actors
<1>1. CASE UNCHANGED vars
  BY <1>1 DEF vars, snapVars, Typed, ReadersOK, UpdatersOK, CloserOK, CurrentOK
<1>2. ASSUME NEW r \in Readers, NEW l \in Working \cup {"idle"},
             Goto(r, l) /\ (UNCHANGED snap \/ snap' = [snap EXCEPT ![r] = None]),
             l # "idle" => snap'[r] \in Versions,
             UNCHANGED <<db, current, shut, lock, expect>>,
             /\ retired' \in [Versions -> BOOLEAN] /\ closed' \in [Versions -> BOOLEAN]
             /\ early' \in [Readers -> {"late", "early", "safe"}]
      PROVE  BaseInv'
  <2>1. Typed'
    BY <1>0, <1>2 DEF Typed, Goto
  <2>2. /\ \A a \in Actors \ {r} : pc'[a] = pc[a] /\ snap'[a] = snap[a]
        /\ pc'[r] = l
    BY <1>0, <1>2 DEF Typed, Goto
  <2>3. ReadersOK'
    BY <1>0, <1>2, <2>2 DEF ReadersOK
  <2>4. UpdatersOK' /\ CloserOK'
    BY <1>0, <1>2, <2>2 DEF UpdatersOK, CloserOK
  <2> QED BY <1>2, <2>1, <2>3, <2>4 DEF CurrentOK
<1>3. ASSUME NEW r \in Readers, Load(r) PROVE BaseInv'
  <2>1. Typed' /\ pc' = [pc EXCEPT ![r] = "count"] /\ snap' = [snap EXCEPT ![r] = current]
        /\ UNCHANGED <<db, current, shut, lock, expect>> /\ current \in Versions
    BY <1>0, <1>3 DEF Load, Goto, Typed, snapVars
  <2>2. ReadersOK'
    BY <1>0, <2>1 DEF ReadersOK, Typed
  <2>3. UpdatersOK' /\ CloserOK'
    BY <1>0, <2>1 DEF UpdatersOK, CloserOK, Typed
  <2> QED BY <2>1, <2>2, <2>3 DEF CurrentOK
<1>4. ASSUME NEW r \in Readers, LeaseStep(r) PROVE BaseInv'
  <2>0. snap[r] \in Versions /\ pc[r] \in Working
    BY <1>4 DEF LeaseStep, CountLease, CheckOpen, EndUse, DropLease, LastLease,
                CloseByReader, ReadersOK
  <2>1. CASE CountLease(r)
    <3>1. Goto(r, "check") /\ UNCHANGED <<db, current, shut, lock, expect, retired, closed, snap>>
      BY <2>1 DEF CountLease
    <3>2. early' \in [Readers -> {"late", "early", "safe"}]
      BY <2>1 DEF CountLease, Typed
    <3> QED BY <1>2, <2>0, <3>1, <3>2 DEF Typed
  <2>2. CASE CheckOpen(r)
    <3>1. PICK l \in {"drop", "use"} : Goto(r, l)
      BY <2>2 DEF CheckOpen
    <3> QED BY <1>2, <2>0, <2>2, <3>1 DEF CheckOpen, Typed, snapVars
  <2>3. CASE EndUse(r)
    BY <1>2, <2>0, <2>3 DEF EndUse, Typed, snapVars
  <2>4. CASE DropLease(r)
    <3>1. /\ UNCHANGED <<db, current, shut, lock, expect, retired, closed>>
          /\ \/ Goto(r, "last") /\ UNCHANGED snap
             \/ Leave(r)
      BY <2>4 DEF DropLease
    <3>2. early' \in [Readers -> {"late", "early", "safe"}]
      BY <2>4 DEF DropLease, Typed
    <3> QED BY <1>2, <2>0, <3>1, <3>2 DEF Leave, Typed
  <2>5. CASE LastLease(r)
    BY <1>2, <2>0, <2>5 DEF LastLease, Leave, Typed, snapVars
  <2>6. CASE CloseByReader(r)
    <3>1. closed' \in [Versions -> BOOLEAN]
      BY <2>6 DEF CloseByReader, Typed
    <3> QED BY <1>2, <2>0, <2>6, <3>1 DEF CloseByReader, Leave, Typed
  <2> QED BY <1>4, <2>1, <2>2, <2>3, <2>4, <2>5, <2>6 DEF LeaseStep
<1>5. ASSUME NEW u \in Updaters, EndUpdate(u), UNCHANGED <<current, shut, snapVars, early>>,
             pc[u] \in Updating,
             db' \in Versions, db' >= db
      PROVE  BaseInv'
  <2>1. /\ pc' = [pc EXCEPT ![u] = "idle"] /\ snap' = [snap EXCEPT ![u] = None]
        /\ lock' = NoOne /\ expect' = [expect EXCEPT ![u] = None]
    BY <1>5 DEF EndUpdate, Leave, Goto
  <2>2. Typed'
    BY <1>0, <1>5, <2>1 DEF Typed, snapVars
  <2>3. \A a \in Actors \ {u} : pc'[a] = pc[a] /\ snap'[a] = snap[a]
    BY <2>1 DEF Typed
  <2>4. \A v \in Updaters \ {u} : pc[v] = "idle"
    BY <1>5 DEF UpdatersOK
  <2>5. UpdatersOK'
    BY <1>0, <2>1, <2>3, <2>4 DEF UpdatersOK, Typed
  <2>6. ReadersOK' /\ CloserOK'
    BY <1>0, <2>3 DEF ReadersOK, CloserOK
  <2>7. CurrentOK'
    BY <1>0, <1>5 DEF CurrentOK, Typed
  <2> QED BY <2>2, <2>5, <2>6, <2>7
<1>6. ASSUME NEW u \in Updaters, Submit(u) PROVE BaseInv'
  <2>1. expect' \in [Updaters -> Versions \cup {None}]
    <3>1. PICK v \in 1..db : expect' = [expect EXCEPT ![u] = v]
      BY <1>6 DEF Submit
    <3>2. v \in Versions
      BY DEF Typed, Versions
    <3> QED BY <3>1, <3>2 DEF Typed
  <2> QED BY <1>6, <2>1 DEF Submit, snapVars, Typed, ReadersOK, UpdatersOK, CloserOK, CurrentOK
<1>7. ASSUME NEW u \in Updaters, LockUpdate(u) PROVE BaseInv'
  <2>1. /\ pc[u] = "idle" /\ lock = NoOne
        /\ UNCHANGED <<db, current, shut, snapVars, snap, early>>
    BY <1>7 DEF LockUpdate
  <2>2. CASE expect[u] = db /\ db < MaxVersion
    <3>1. lock' = u /\ pc' = [pc EXCEPT ![u] = "build"] /\ UNCHANGED expect
      BY <1>7, <2>2 DEF LockUpdate, Goto
    <3>2. Typed'
      BY <1>0, <2>1, <3>1 DEF Typed, snapVars
    <3>3. UpdatersOK'
      BY <1>0, <2>1, <2>2, <3>1 DEF UpdatersOK, Typed
    <3>4. ReadersOK' /\ CloserOK' /\ CurrentOK'
      BY <1>0, <2>1, <3>1 DEF ReadersOK, CloserOK, CurrentOK, Typed
    <3> QED BY <3>2, <3>3, <3>4
  <2>3. CASE ~(expect[u] = db /\ db < MaxVersion)
    <3>1. expect' = [expect EXCEPT ![u] = None] /\ UNCHANGED <<lock, pc>>
      BY <1>7, <2>3 DEF LockUpdate
    <3> QED BY <2>1, <3>1 DEF snapVars, Typed, ReadersOK, UpdatersOK, CloserOK, CurrentOK
  <2> QED BY <2>2, <2>3
\* A step of the update in progress, or of the closer, that keeps its snapshot.
<1>8. ASSUME NEW a \in Actors \ Readers, NEW l \in Updating,
             Goto(a, l), a \in Updaters => lock = a /\ l \notin {"build"},
             a \in Updaters /\ l = "store" => db' < MaxVersion,
             a \in Updaters /\ l \in {"publish", "swap"} => snap'[a] = db',
             l \in Retiring => snap'[a] \in Versions,
             a = Closer => l \in Retiring \cup {"done"},
             a \in Updaters => UNCHANGED shut,
             a = Closer => UNCHANGED db,
             lock' = lock, expect' = expect, early' = early,
             snap' \in [Actors -> Versions \cup {None}],
             \A b \in Actors \ {a} : snap'[b] = snap[b],
             retired' \in [Versions -> BOOLEAN], closed' \in [Versions -> BOOLEAN],
             db' \in Versions, db' = db \/ a \in Updaters, shut' \in BOOLEAN,
             current' \in Versions \cup {None}, current' <= db', ~shut' => current' # None
      PROVE  BaseInv'
  <2>1. Typed'
    BY <1>0, <1>8 DEF Typed, Goto
  <2>2. pc'[a] = l /\ \A b \in Actors \ {a} : pc'[b] = pc[b]
    BY <1>8 DEF Typed, Goto
  <2>3. a \in Updaters \/ a = Closer
    BY DEF Actors
  <2>4. a \in Updaters => \A v \in Updaters \ {a} : pc[v] = "idle"
    BY <1>8 DEF UpdatersOK
  <2>5. UpdatersOK'
    <3>1. CASE a \in Updaters
      BY <1>0, <1>8, <2>2, <2>4, <3>1 DEF UpdatersOK
    <3>2. CASE a = Closer
      BY <1>0, <1>8, <2>2, <3>2 DEF UpdatersOK
    <3> QED BY <2>3, <3>1, <3>2
  <2>6. CloserOK'
    <3>1. CASE a \in Updaters
      BY <1>0, <1>8, <2>2, <3>1 DEF CloserOK
    <3>2. CASE a = Closer
      BY <1>0, <1>8, <2>2, <3>2 DEF CloserOK
    <3> QED BY <2>3, <3>1, <3>2
  <2>7. ReadersOK'
    BY <1>0, <1>8, <2>2 DEF ReadersOK
  <2> QED BY <1>8, <2>1, <2>5, <2>6, <2>7 DEF CurrentOK
<1>9. ASSUME NEW u \in Updaters, BuildCandidate(u) PROVE BaseInv'
  <2>1. pc[u] = "build" /\ UNCHANGED <<db, current, shut, snapVars, early>> /\ lock = u
    BY <1>9 DEF BuildCandidate, UpdatersOK
  <2>2. CASE EndUpdate(u)
    BY <1>0, <1>5, <2>1, <2>2 DEF Typed
  <2>3. CASE Goto(u, "store") /\ UNCHANGED <<snap, lock, expect>>
    BY <1>0, <1>8, <2>1, <2>3 DEF Typed, snapVars, UpdatersOK, CurrentOK
  <2> QED BY <1>9, <2>2, <2>3 DEF BuildCandidate
<1>10. ASSUME NEW u \in Updaters, StoreConfig(u) PROVE BaseInv'
  <2>1. /\ pc[u] = "store" /\ UNCHANGED <<current, shut, snapVars, early>> /\ lock = u
        /\ db < MaxVersion /\ db + 1 \in Versions /\ db \in Nat /\ current \in Nat
    BY <1>0, <1>10 DEF StoreConfig, UpdatersOK, Typed
  <2>2. CASE EndUpdate(u) /\ (db' = db + 1 \/ db' = db)
    BY <1>0, <1>5, <2>1, <2>2 DEF Typed
  <2>3. CASE db' = db + 1 /\ snap' = [snap EXCEPT ![u] = db'] /\ Goto(u, "publish")
             /\ UNCHANGED <<lock, expect>>
    <3>1. /\ snap' \in [Actors -> Versions \cup {None}] /\ snap'[u] = db'
          /\ \A b \in Actors \ {u} : snap'[b] = snap[b]
      BY <1>0, <2>1, <2>3 DEF Typed
    <3>2. current' <= db'
      BY <2>1, <2>3 DEF CurrentOK
    <3> QED BY <1>0, <1>8, <2>1, <2>3, <3>1, <3>2 DEF Typed, snapVars, CurrentOK
  <2> QED BY <1>10, <2>2, <2>3 DEF StoreConfig
<1>11. ASSUME NEW u \in Updaters, Publish(u) PROVE BaseInv'
  <2>1. pc[u] = "publish" /\ UNCHANGED <<db, current, shut, snapVars, early>> /\ lock = u
        /\ snap[u] = db
    BY <1>11 DEF Publish, UpdatersOK
  <2>2. CASE EndUpdate(u)
    BY <1>0, <1>5, <2>1, <2>2 DEF Typed
  <2>3. CASE Goto(u, "swap") /\ UNCHANGED <<snap, lock, expect>>
    BY <1>0, <1>8, <2>1, <2>3 DEF Typed, snapVars, CurrentOK
  <2> QED BY <1>11, <2>2, <2>3 DEF Publish
<1>12. ASSUME NEW u \in Updaters, Swap(u) PROVE BaseInv'
  <2>1. /\ pc[u] = "swap" /\ UNCHANGED <<db, shut, snapVars, lock, expect, early>> /\ lock = u
        /\ snap[u] = db /\ current' = db /\ snap' = [snap EXCEPT ![u] = current]
    BY <1>12 DEF Swap, UpdatersOK
  <2>2. /\ snap' \in [Actors -> Versions \cup {None}] /\ snap'[u] = current
        /\ \A b \in Actors \ {u} : snap'[b] = snap[b]
    BY <1>0, <2>1 DEF Typed
  <2>3. PICK l \in {"done", "retire"} : Goto(u, l) /\ (l = "retire" => current # None)
    BY <1>12 DEF Swap
  <2>4. current' <= db' /\ current' \in Versions /\ (l = "retire" => snap'[u] \in Versions)
    BY <1>0, <2>1, <2>2, <2>3 DEF Typed
  <2>5. /\ u \in Actors \ Readers /\ u # Closer /\ db' \in Versions /\ shut' \in BOOLEAN
        /\ current' # None
        /\ retired' \in [Versions -> BOOLEAN] /\ closed' \in [Versions -> BOOLEAN]
    BY <1>0, <2>1, <2>4 DEF Typed, snapVars
  <2>6. l \in Updating /\ l \notin {"build", "store", "publish", "swap"}
        /\ (l \in Retiring => l = "retire")
    BY <2>3
  <2> HIDE DEF Updating, Retiring, Working
  <2> QED BY <1>8, <2>1, <2>2, <2>3, <2>4, <2>5, <2>6
<1>13. ASSUME NEW a \in Updaters \cup {Closer}, RetireStep(a) PROVE BaseInv'
  <2>1. /\ pc[a] \in Retiring /\ snap[a] \in Versions
        /\ UNCHANGED <<db, current, shut, lock, snap, expect, early>>
        /\ a \in Updaters => lock = a
    BY <1>13 DEF RetireStep, Retire, LookAtLeases, CloseByRetirer, snapVars, UpdatersOK, CloserOK
  <2>2. PICK l \in {"look", "close", "done"} : Goto(a, l)
    BY <1>13 DEF RetireStep, Retire, LookAtLeases, CloseByRetirer
  <2>3. retired' \in [Versions -> BOOLEAN]
    BY <1>13 DEF RetireStep, Retire, LookAtLeases, CloseByRetirer, snapVars, Typed
  <2>4. closed' \in [Versions -> BOOLEAN]
    BY <1>13 DEF RetireStep, Retire, LookAtLeases, CloseByRetirer, snapVars, Typed
  <2>5. a \in Actors \ Readers
    BY DEF Actors
  <2> QED BY <1>0, <1>8, <2>1, <2>2, <2>3, <2>4, <2>5 DEF Typed, CurrentOK
<1>14. ASSUME NEW u \in Updaters, Finish(u) PROVE BaseInv'
  BY <1>0, <1>5, <1>14 DEF Finish, Typed
<1>15. CASE CloseManager
  <2>1. /\ shut' = TRUE /\ current' = None /\ snap' = [snap EXCEPT ![Closer] = current]
        /\ Goto(Closer, "retire") /\ UNCHANGED <<db, snapVars, lock, expect, early>>
        /\ current \in Versions /\ pc[Closer] = "idle"
    BY <1>0, <1>15 DEF CloseManager, CurrentOK, Typed
  <2>2. /\ snap' \in [Actors -> Versions \cup {None}] /\ snap'[Closer] = current
        /\ \A b \in Actors \ {Closer} : snap'[b] = snap[b]
    BY <1>0, <2>1 DEF Typed
  <2>3. Closer \in Actors \ Readers /\ Closer \notin Updaters
    BY <1>0
  <2>4. None <= db
    BY <1>0 DEF Typed
  <2> QED BY <1>0, <1>8, <2>1, <2>2, <2>3, <2>4 DEF Typed, snapVars
<1>16. CASE Crash
  <2>1. Typed'
    BY <1>16 DEF Crash, Typed
  <2> QED BY <1>0, <1>16, <2>1 DEF Crash, Typed, ReadersOK, UpdatersOK, CloserOK, CurrentOK
<1> QED
  BY <1>1, <1>3, <1>4, <1>6, <1>7, <1>9, <1>10, <1>11, <1>12, <1>13, <1>14, <1>15, <1>16
     DEF Next, UpdateStep

LEMMA BaseInvariant == Spec => []BaseInv
<1> QED BY BaseStarts, BaseStep, PTL DEF Spec

-----------------------------------------------------------------------------
\* current changes at a crash, at the manager's Close and at the swap, which puts
\* in the stored version.
LEMMA CurrentChanges ==
    BaseInv /\ [Next]_vars =>
      \/ UNCHANGED current
      \/ current' = None
      \/ current' = db
<1> SUFFICES ASSUME BaseInv, [Next]_vars
             PROVE  UNCHANGED current \/ current' = None \/ current' = db
  OBVIOUS
<1>1. ASSUME NEW u \in Updaters, Swap(u) PROVE current' = db
  BY <1>1 DEF Swap, BaseInv, UpdatersOK
<1>2. ASSUME NEW r \in Readers, Load(r) \/ LeaseStep(r) PROVE UNCHANGED current
  BY <1>2 DEF Load, LeaseStep, CountLease, CheckOpen, EndUse, DropLease, LastLease, CloseByReader
<1>3. ASSUME NEW a, RetireStep(a) PROVE UNCHANGED current
  BY <1>3 DEF RetireStep, Retire, LookAtLeases, CloseByRetirer
<1>4. ASSUME NEW u \in Updaters,
             Submit(u) \/ LockUpdate(u) \/ BuildCandidate(u) \/ StoreConfig(u)
             \/ Publish(u) \/ Finish(u)
      PROVE  UNCHANGED current
  BY <1>4 DEF Submit, LockUpdate, BuildCandidate, StoreConfig, Publish, Finish
<1>5. CASE CloseManager \/ Crash \/ UNCHANGED vars
  BY <1>5 DEF CloseManager, Crash, vars
<1> QED BY <1>1, <1>2, <1>3, <1>4, <1>5 DEF Next, UpdateStep

\* The configuration in force never goes back (Publish under the update lock).
THEOREM NeverRollsBack == Spec => NoRollback
<1>1. BaseInv /\ [Next]_vars => [current # None /\ current' # None => current' >= current]_vars
  <2> SUFFICES ASSUME BaseInv, [Next]_vars, current # None, current' # None
               PROVE  current' >= current
    OBVIOUS
  <2>1. db \in Nat /\ current \in Nat /\ current <= db
    BY SnapshotAssumption DEF BaseInv, Typed, CurrentOK, Versions, None
  <2> QED BY <2>1, CurrentChanges
<1> QED BY <1>1, BaseInvariant, PTL DEF Spec, NoRollback

-----------------------------------------------------------------------------
\* While the manager is open, only versions whose commit was taken for a failure, and
\* the one that an update has stored and not yet published, set the runtime and the
\* database apart.
Behind == {v \in Versions : current < v /\ v <= db} \ lost

PublishedOrUnderWay ==
    ~shut => Behind = {} \/ \E u \in Updaters : pc[u] \in {"publish", "swap"}

\* The runtime misses no version of the database but those whose commit was taken for
\* a failure, whenever no update is under way: Update and bootstrapSourceRuntime.
THEOREM RuntimeFollows == Spec => []RuntimeInSync
<1>1. Init => PublishedOrUnderWay
  BY SnapshotAssumption DEF Init, PublishedOrUnderWay, Behind, Versions
<1>2. ASSUME BaseInv, PublishedOrUnderWay, [Next]_vars PROVE PublishedOrUnderWay'
  <2> USE <1>2 DEF PublishedOrUnderWay
  <2>0. /\ \A u, v \in Updaters : pc[u] \in Updating /\ pc[v] \in Updating => u = v
        /\ Updaters \subseteq Actors /\ Updaters \cap Readers = {} /\ Closer \notin Updaters
        /\ \A a \in Actors : pc[a] \in Working \cup Updating \cup {"idle"}
    BY SnapshotAssumption DEF BaseInv, UpdatersOK, Actors, Typed
  <2>a. UNCHANGED <<db, current, lost>> => Behind' = Behind
    BY DEF Behind
  <2>b. current = db => Behind = {}
    BY SnapshotAssumption DEF Behind, Versions, BaseInv, Typed
  <2>1. ASSUME UNCHANGED <<db, current, shut, lost>>,
               \A u \in Updaters : pc[u] \in {"publish", "swap"} => pc'[u] \in {"publish", "swap"}
        PROVE  PublishedOrUnderWay'
    BY <2>1, <2>a
  <2>2. ASSUME UNCHANGED <<db, current, shut, lost>>, NEW a \in Actors, NEW l, Goto(a, l),
               pc[a] \notin {"publish", "swap"}
        PROVE  PublishedOrUnderWay'
    <3>1. \A b \in Actors \ {a} : pc'[b] = pc[b]
      BY <2>2 DEF Goto, BaseInv, Typed
    <3> QED BY <2>0, <2>1, <2>2, <3>1
  <2>3. ASSUME NEW r \in Readers, Load(r) \/ LeaseStep(r) PROVE PublishedOrUnderWay'
    <3>1. r \in Actors /\ pc[r] \notin {"publish", "swap"}
      BY DEF Actors, BaseInv, ReadersOK, Working
    <3>2. UNCHANGED <<db, current, shut, lost>> /\ \E l : Goto(r, l)
      BY <2>3 DEF Load, LeaseStep, CountLease, CheckOpen, EndUse, DropLease, LastLease,
                  CloseByReader, Leave
    <3> QED BY <2>2, <3>1, <3>2
  <2>4. ASSUME NEW a \in Updaters \cup {Closer}, RetireStep(a) PROVE PublishedOrUnderWay'
    <3>1. a \in Actors /\ pc[a] \in Retiring
      BY <2>4 DEF Actors, RetireStep, Retire, LookAtLeases, CloseByRetirer, Retiring
    <3>2. UNCHANGED <<db, current, shut, lost>> /\ \E l : Goto(a, l)
      BY <2>4 DEF RetireStep, Retire, LookAtLeases, CloseByRetirer
    <3> QED BY <2>2, <3>1, <3>2 DEF Retiring
  <2>5. ASSUME NEW u \in Updaters, Submit(u) PROVE PublishedOrUnderWay'
    BY <2>1, <2>5 DEF Submit
  <2>6. ASSUME NEW u \in Updaters, LockUpdate(u) \/ BuildCandidate(u) \/ Finish(u)
        PROVE  PublishedOrUnderWay'
    <3>1. pc[u] \in {"idle", "build", "done"} /\ UNCHANGED <<db, current, shut, lost>>
          /\ (UNCHANGED pc \/ \E l : Goto(u, l))
      BY <2>6 DEF LockUpdate, BuildCandidate, Finish, EndUpdate, Leave
    <3> QED BY <2>0, <2>1, <2>2, <3>1
  <2>7. ASSUME NEW u \in Updaters, StoreConfig(u) PROVE PublishedOrUnderWay'
    <3>0. pc[u] = "store" /\ UNCHANGED <<current, shut>> /\ \E l : Goto(u, l)
      BY <2>7 DEF StoreConfig, EndUpdate, Leave
    <3>1. CASE UNCHANGED <<db, lost>>
      BY <2>0, <2>2, <3>0, <3>1
    <3>2. CASE Goto(u, "publish")
      <4>1. pc'[u] = "publish"
        BY <2>0, <3>2 DEF Goto, BaseInv, Typed
      <4> QED BY <4>1
    <3>3. CASE db' = db + 1 /\ lost' = lost \cup {db'}
      \* The update that stores is the only one under way.
      <4>1. \A v \in Updaters : pc[v] \notin {"publish", "swap"}
        BY <2>0, <3>0 DEF Updating
      <4>2. db \in Nat /\ current \in Nat
        BY SnapshotAssumption DEF BaseInv, Typed, Versions, None
      <4>3. Behind' \subseteq Behind
        BY <3>0, <3>3, <4>2 DEF Behind, Versions
      <4> QED BY <3>0, <4>1, <4>3
    <3> QED BY <2>7, <3>1, <3>2, <3>3 DEF StoreConfig
  <2>8. ASSUME NEW u \in Updaters, Publish(u) PROVE PublishedOrUnderWay'
    <3>1. CASE shut
      BY <2>8, <3>1 DEF Publish
    <3>2. CASE ~shut
      <4>1. pc'[u] = "swap"
        BY <2>0, <2>8, <3>2 DEF Publish, Goto, BaseInv, Typed
      <4> QED BY <4>1
    <3> QED BY <3>1, <3>2
  <2>9. ASSUME NEW u \in Updaters, Swap(u) PROVE PublishedOrUnderWay'
    <3>1. current' = db /\ db' = db /\ db \in Nat
      BY <2>9, SnapshotAssumption DEF Swap, BaseInv, UpdatersOK, Typed, Versions
    <3>2. Behind' = {}
      BY <3>1 DEF Behind, Versions
    <3> QED BY <3>2
  <2>10. CASE CloseManager \/ Crash \/ UNCHANGED vars
    <3>1. CASE CloseManager
      BY <3>1 DEF CloseManager
    <3>2. CASE Crash
      <4>1. current' = db /\ db' = db /\ db \in Nat
        BY <3>2, SnapshotAssumption DEF Crash, BaseInv, Typed, Versions
      <4>2. Behind' = {}
        BY <4>1 DEF Behind, Versions
      <4> QED BY <4>2
    <3>3. CASE UNCHANGED vars
      BY <2>1, <3>3 DEF vars
    <3> QED BY <2>10, <3>1, <3>2, <3>3
  <2> QED BY <2>3, <2>4, <2>5, <2>6, <2>7, <2>8, <2>9, <2>10 DEF Next, UpdateStep
<1>3. BaseInv /\ PublishedOrUnderWay => RuntimeInSync
  <2> SUFFICES ASSUME BaseInv, PublishedOrUnderWay, ~shut, lock = NoOne
               PROVE  current <= db /\ (current + 1)..db \subseteq lost
    BY DEF RuntimeInSync
  <2>1. Behind = {}
    BY SnapshotAssumption DEF BaseInv, UpdatersOK, Updating, PublishedOrUnderWay
  <2>2. db \in Versions /\ current \in Nat /\ current <= db
    BY SnapshotAssumption DEF BaseInv, Typed, CurrentOK, Versions, None
  <2>3. \A v \in (current + 1)..db : v \in Versions /\ current < v /\ v <= db
    BY <2>2, SnapshotAssumption DEF Versions
  <2> QED BY <2>1, <2>2, <2>3 DEF Behind
<1> QED BY <1>1, <1>2, <1>3, BaseInvariant, PTL DEF Spec

-----------------------------------------------------------------------------
(* Leases *)

Leasing     == {"check", "use", "drop"}
Responsible == Leasing \cup {"last", "look", "close"}

Leases(v) == {r \in Readers : pc[r] \in Leasing /\ snap[r] = v}

\* refs counts the readers between refs.Add(1) and refs.Add(-1).
RefsOK == refs \in [Versions -> Nat] /\ \A v \in Versions : refs[v] = Cardinality(Leases(v))

\* Only a retired snapshot is about to be closed or has been.
ClosedOK ==
    /\ \A v \in Versions : closed[v] => retired[v]
    /\ \A a \in Actors : pc[a] \in {"look", "close"} => retired[snap[a]]

\* Nobody is on the way to close the snapshot of a safe lease.
SafeOK ==
    \A r \in Readers : early[r] = "safe" =>
      /\ pc[r] \in Leasing /\ ~closed[snap[r]]
      /\ \A a \in Actors : pc[a] \in {"last", "close"} => snap[a] # snap[r]

\* Somebody will still look at a retired snapshot that is open.
RetiredOK ==
    \A v \in Versions : retired[v] /\ ~closed[v] =>
      \E a \in Actors : snap[a] = v /\ pc[a] \in Responsible

LeaseInv == RefsOK /\ ClosedOK /\ SafeOK /\ RetiredOK

LEMMA LeaseStarts == Init => LeaseInv
<1> SUFFICES ASSUME Init PROVE LeaseInv
  OBVIOUS
<1>1. \A v \in Versions : Leases(v) = {}
  BY DEF Init, Leases, Leasing, Actors
<1>2. RefsOK
  BY <1>1, FS_EmptySet DEF Init, RefsOK
<1>3. ClosedOK /\ SafeOK /\ RetiredOK
  BY DEF Init, ClosedOK, SafeOK, RetiredOK, Actors
<1> QED BY <1>2, <1>3 DEF LeaseInv

LEMMA FiniteLeases ==
    ASSUME NEW v
    PROVE  /\ IsFiniteSet(Leases(v)) /\ IsFiniteSet(Leases(v)')
           /\ Cardinality(Leases(v)) \in Nat /\ Cardinality(Leases(v)') \in Nat
           /\ Cardinality(Leases(v)) = 0 <=> Leases(v) = {}
<1>1. IsFiniteSet(Leases(v)) /\ IsFiniteSet(Leases(v)')
  BY SnapshotAssumption, FS_Subset DEF Leases
<1> QED BY <1>1, FS_CardinalityType, FS_EmptySet

LEMMA LeaseStepOK == BaseInv /\ BaseInv' /\ LeaseInv /\ [Next]_vars => LeaseInv'
<1> SUFFICES ASSUME BaseInv, BaseInv', LeaseInv, [Next]_vars PROVE LeaseInv'
  OBVIOUS
<1> USE DEF LeaseInv
<1>0. /\ pc \in [Actors -> Working \cup Updating \cup {"idle"}]
      /\ snap \in [Actors -> Versions \cup {None}]
      /\ retired \in [Versions -> BOOLEAN] /\ closed \in [Versions -> BOOLEAN]
      /\ early \in [Readers -> {"late", "early", "safe"}]
      /\ Readers \subseteq Actors /\ Updaters \subseteq Actors /\ Closer \in Actors
      /\ Closer \notin Readers /\ Readers \cap Updaters = {} /\ None \notin Versions
  BY SnapshotAssumption DEF BaseInv, Typed, Actors, Versions, None
<1>1. CASE UNCHANGED vars
  BY <1>1 DEF vars, snapVars, RefsOK, Leases, ClosedOK, SafeOK, RetiredOK
\* A step that takes no lease and gives none back.
<1>2. ASSUME NEW a \in Actors, NEW l, Goto(a, l), UNCHANGED refs,
             a \in Readers => (pc[a] \in Leasing <=> l \in Leasing),
             a \notin Readers => pc[a] \notin Leasing \cup {"last"},
             \A b \in Actors \ {a} : snap'[b] = snap[b],
             a \in Readers /\ l \in Leasing => snap'[a] = snap[a]
      PROVE  /\ RefsOK' /\ pc'[a] = l
             /\ \A b \in Actors \ {a} : pc'[b] = pc[b] /\ snap'[b] = snap[b]
  <2>1. pc'[a] = l /\ \A b \in Actors \ {a} : pc'[b] = pc[b] /\ snap'[b] = snap[b]
    BY <1>0, <1>2 DEF Goto
  <2>2. \A v \in Versions : Leases(v)' = Leases(v)
    BY <1>0, <1>2, <2>1 DEF Leases
  <2> QED BY <1>2, <2>1, <2>2 DEF RefsOK
<1>3. ASSUME NEW r \in Readers, Load(r) PROVE LeaseInv'
  <2>1. /\ pc[r] = "idle" /\ Goto(r, "count") /\ snap' = [snap EXCEPT ![r] = current]
        /\ UNCHANGED <<refs, retired, closed, early>>
    BY <1>3 DEF Load, snapVars
  <2>2. \A b \in Actors \ {r} : snap'[b] = snap[b]
    BY <1>0, <2>1
  <2>3. /\ RefsOK' /\ pc'[r] = "count"
        /\ \A b \in Actors \ {r} : pc'[b] = pc[b] /\ snap'[b] = snap[b]
    BY <1>0, <1>2, <2>1, <2>2 DEF Leasing
  <2>4. ClosedOK'
    BY <2>1, <2>3 DEF ClosedOK
  <2>5. SafeOK'
    BY <1>0, <2>1, <2>3 DEF SafeOK, Leasing
  <2>6. RetiredOK'
    BY <1>0, <2>1, <2>3 DEF RetiredOK, Responsible, Leasing
  <2> QED BY <2>3, <2>4, <2>5, <2>6
<1>4. ASSUME NEW r \in Readers, CountLease(r) PROVE LeaseInv'
  <2>0. PICK v \in Versions : v = snap[r]
    BY <1>4 DEF CountLease, BaseInv, ReadersOK, Working
  <2>1. /\ pc[r] = "count" /\ pc' = [pc EXCEPT ![r] = "check"]
        /\ refs' = [refs EXCEPT ![v] = @ + 1] /\ UNCHANGED <<retired, closed, snap>>
    BY <1>4, <2>0 DEF CountLease, Goto
  <2>2. pc'[r] = "check" /\ \A b \in Actors \ {r} : pc'[b] = pc[b]
    BY <1>0, <2>1
  <2>3. /\ Leases(v)' = Leases(v) \cup {r} /\ r \notin Leases(v)
        /\ \A w \in Versions \ {v} : Leases(w)' = Leases(w)
    BY <1>0, <2>0, <2>1, <2>2 DEF Leases, Leasing
  <2>4. Cardinality(Leases(v)') = Cardinality(Leases(v)) + 1
    BY <2>3, FiniteLeases, FS_AddElement
  <2>5. RefsOK'
    BY <2>1, <2>3, <2>4 DEF RefsOK
  <2>6. ClosedOK'
    BY <2>1, <2>2 DEF ClosedOK
  <2>7. SafeOK'
    <3>1. \A q \in Readers \ {r} : early'[q] = early[q]
      BY <1>0, <1>4 DEF CountLease
    <3>2. early'[r] = "safe" =>
            ~retired[v] /\ ~ \E q \in Readers : pc[q] = "last" /\ snap[q] = v
      BY <1>0, <1>4, <2>0 DEF CountLease
    <3>3. \A a \in Actors \ Readers : pc[a] # "last"
      BY DEF BaseInv, UpdatersOK, CloserOK, Updating, Retiring, Actors
    <3>4. \A a \in Actors : pc[a] = "close" => retired[snap[a]]
      BY DEF ClosedOK
    <3>5. closed[v] => retired[v]
      BY <2>1 DEF ClosedOK
    <3>6. early'[r] = "safe" =>
            ~closed[v] /\ \A a \in Actors : pc[a] \in {"last", "close"} => snap[a] # v
      BY <3>2, <3>3, <3>4, <3>5
    <3>7. ASSUME NEW q \in Readers \ {r}, early'[q] = "safe"
          PROVE  /\ pc'[q] \in Leasing /\ ~closed[snap[q]]
                 /\ \A a \in Actors : pc'[a] \in {"last", "close"} => snap[a] # snap[q]
      BY <1>0, <2>2, <3>1, <3>7 DEF SafeOK
    <3>8. ASSUME early'[r] = "safe"
          PROVE  /\ pc'[r] \in Leasing /\ ~closed[snap[r]]
                 /\ \A a \in Actors : pc'[a] \in {"last", "close"} => snap[a] # snap[r]
      BY <1>0, <2>2, <3>6, <3>8, <2>0 DEF Leasing
    <3> QED BY <2>1, <3>7, <3>8 DEF SafeOK
  <2>8. RetiredOK'
    BY <1>0, <2>1, <2>2 DEF RetiredOK, Responsible, Leasing
  <2> QED BY <2>5, <2>6, <2>7, <2>8
<1>5. ASSUME NEW r \in Readers, CheckOpen(r) \/ EndUse(r) PROVE LeaseInv'
  <2>1. /\ pc[r] \in Leasing /\ UNCHANGED <<snap, refs, retired, closed, early>>
        /\ \E l \in {"drop", "use"} : Goto(r, l)
    BY <1>5 DEF CheckOpen, EndUse, snapVars, Leasing
  <2>2. PICK l \in {"drop", "use"} : Goto(r, l)
    BY <2>1
  <2>3. /\ RefsOK' /\ pc'[r] = l
        /\ \A b \in Actors \ {r} : pc'[b] = pc[b] /\ snap'[b] = snap[b]
    BY <1>0, <1>2, <2>1, <2>2 DEF Leasing
  <2>4. ClosedOK'
    BY <2>1, <2>3 DEF ClosedOK
  <2>5. SafeOK'
    BY <1>0, <2>1, <2>3 DEF SafeOK, Leasing
  <2>6. RetiredOK'
    BY <1>0, <2>1, <2>3 DEF RetiredOK, Responsible, Leasing
  <2> QED BY <2>3, <2>4, <2>5, <2>6
<1>6. ASSUME NEW r \in Readers, DropLease(r) PROVE LeaseInv'
  <2>0. PICK v \in Versions : v = snap[r]
    BY <1>6 DEF DropLease, BaseInv, ReadersOK, Working
  <2>1. /\ pc[r] = "drop" /\ refs' = [refs EXCEPT ![v] = @ - 1]
        /\ early' = [early EXCEPT ![r] = "late"]
        /\ UNCHANGED <<retired, closed>>
    BY <1>6, <2>0 DEF DropLease
  <2>2. \/ refs'[v] = 0 /\ pc' = [pc EXCEPT ![r] = "last"] /\ snap' = snap
        \/ refs'[v] # 0 /\ pc' = [pc EXCEPT ![r] = "idle"] /\ snap' = [snap EXCEPT ![r] = None]
    BY <1>6, <2>0 DEF DropLease, Goto, Leave
  <2>3. /\ \A b \in Actors \ {r} : pc'[b] = pc[b] /\ snap'[b] = snap[b]
        /\ \/ refs'[v] = 0 /\ pc'[r] = "last" /\ snap'[r] = v
           \/ refs'[v] # 0 /\ pc'[r] = "idle"
    BY <1>0, <2>0, <2>2
  <2>4. /\ Leases(v)' = Leases(v) \ {r} /\ r \in Leases(v)
        /\ \A w \in Versions \ {v} : Leases(w)' = Leases(w)
    BY <1>0, <2>0, <2>1, <2>3 DEF Leases, Leasing
  <2>5. Cardinality(Leases(v)') = Cardinality(Leases(v)) - 1
    BY <2>4, FiniteLeases, FS_RemoveElement
  <2>6. Cardinality(Leases(v)') \in Nat /\ Cardinality(Leases(v)) \in Nat
    BY FiniteLeases
  <2>7. RefsOK'
    BY <2>1, <2>4, <2>5, <2>6 DEF RefsOK
  <2>8. refs'[v] = 0 <=> Leases(v) \ {r} = {}
    <3>1. IsFiniteSet(Leases(v)')
      BY FiniteLeases
    <3>2. Cardinality(Leases(v)') = 0 <=> Leases(v)' = {}
      BY <3>1, FS_EmptySet
    <3> QED BY <2>1, <2>4, <2>7, <3>2 DEF RefsOK
  <2>9. ClosedOK'
    BY <2>1, <2>3 DEF ClosedOK
  <2>10. SafeOK'
    <3> SUFFICES ASSUME NEW q \in Readers \ {r}, early[q] = "safe"
                 PROVE  /\ pc'[q] \in Leasing /\ ~closed[snap'[q]]
                        /\ \A a \in Actors : pc'[a] \in {"last", "close"} => snap'[a] # snap'[q]
      BY <1>0, <2>1 DEF SafeOK
    <3>1. /\ pc[q] \in Leasing /\ ~closed[snap[q]]
          /\ \A a \in Actors : pc[a] \in {"last", "close"} => snap[a] # snap[q]
      BY DEF SafeOK
    <3>2. snap[q] = v => refs'[v] # 0
      BY <2>8, <3>1 DEF Leases
    <3>3. pc'[r] \in {"last", "close"} => snap'[r] # snap[q]
      BY <2>3, <3>2
    <3> QED BY <1>0, <2>3, <3>1, <3>3
  <2>11. RetiredOK'
    <3> SUFFICES ASSUME NEW w \in Versions, retired[w], ~closed[w]
                 PROVE  \E a \in Actors : snap'[a] = w /\ pc'[a] \in Responsible
      BY <2>1 DEF RetiredOK
    <3>1. PICK a \in Actors : snap[a] = w /\ pc[a] \in Responsible
      BY DEF RetiredOK
    <3>2. CASE a # r
      BY <2>3, <3>1, <3>2
    <3>3. CASE a = r
      <4>1. w = v
        BY <2>0, <3>1, <3>3
      <4>2. CASE refs'[v] = 0
        BY <1>0, <2>3, <4>1, <4>2 DEF Responsible
      <4>3. CASE refs'[v] # 0
        <5>1. PICK q \in Leases(v) : q # r
          BY <2>8, <4>3
        <5>2. q \in Actors /\ snap[q] = v /\ pc[q] \in Leasing
          BY <1>0 DEF Leases
        <5> QED BY <2>3, <4>1, <5>1, <5>2 DEF Responsible
      <4> QED BY <4>2, <4>3
    <3> QED BY <3>2, <3>3
  <2> QED BY <2>7, <2>9, <2>10, <2>11
<1>7. ASSUME NEW r \in Readers, LastLease(r) PROVE LeaseInv'
  <2>1. pc[r] = "last" /\ UNCHANGED <<refs, retired, closed, early>> /\ snap[r] \in Versions
    BY <1>7 DEF LastLease, snapVars, BaseInv, ReadersOK, Working
  <2>2. \/ retired[snap[r]] /\ Goto(r, "close") /\ snap' = snap
        \/ ~retired[snap[r]] /\ Goto(r, "idle") /\ snap' = [snap EXCEPT ![r] = None]
    BY <1>7 DEF LastLease, Leave
  <2>3. \A b \in Actors \ {r} : snap'[b] = snap[b]
    BY <1>0, <2>2
  <2>4. RefsOK' /\ \A b \in Actors \ {r} : pc'[b] = pc[b] /\ snap'[b] = snap[b]
    BY <1>0, <1>2, <2>1, <2>2, <2>3 DEF Leasing
  <2>5. \/ retired[snap[r]] /\ pc'[r] = "close" /\ snap'[r] = snap[r]
        \/ ~retired[snap[r]] /\ pc'[r] = "idle"
    BY <1>0, <2>2 DEF Goto
  <2>6. ClosedOK'
    BY <2>1, <2>4, <2>5 DEF ClosedOK
  <2>7. SafeOK'
    BY <1>0, <2>1, <2>4, <2>5 DEF SafeOK, Leasing
  <2>8. RetiredOK'
    BY <1>0, <2>1, <2>4, <2>5 DEF RetiredOK, Responsible, Leasing
  <2> QED BY <2>4, <2>6, <2>7, <2>8
\* The snapshot of a is closed.
<1>8. ASSUME NEW a \in Actors, pc[a] = "close", NEW l \in {"idle", "done"}, Goto(a, l),
             closed' = [closed EXCEPT ![snap[a]] = TRUE],
             \A b \in Actors \ {a} : snap'[b] = snap[b], UNCHANGED <<refs, retired, early>>
      PROVE  LeaseInv'
  <2>1. snap[a] \in Versions
    BY <1>8 DEF BaseInv, ReadersOK, UpdatersOK, CloserOK, Working, Retiring, Actors
  <2>2. /\ RefsOK' /\ pc'[a] = l
        /\ \A b \in Actors \ {a} : pc'[b] = pc[b] /\ snap'[b] = snap[b]
    BY <1>2, <1>8 DEF Leasing
  <2>3. closed'[snap[a]] /\ \A v \in Versions \ {snap[a]} : closed'[v] = closed[v]
    BY <1>0, <1>8, <2>1
  <2>4. retired[snap[a]]
    BY <1>8 DEF ClosedOK
  <2>5. ClosedOK'
    BY <1>8, <2>2, <2>3, <2>4 DEF ClosedOK
  <2>6. SafeOK'
    <3> SUFFICES ASSUME NEW q \in Readers, early[q] = "safe"
                 PROVE  /\ pc'[q] \in Leasing /\ ~closed'[snap'[q]]
                        /\ \A b \in Actors : pc'[b] \in {"last", "close"} => snap'[b] # snap'[q]
      BY <1>8 DEF SafeOK
    <3>1. /\ pc[q] \in Leasing /\ ~closed[snap[q]] /\ snap[q] # snap[a]
          /\ \A b \in Actors : pc[b] \in {"last", "close"} => snap[b] # snap[q]
      BY <1>8 DEF SafeOK
    <3>2. q # a /\ q \in Actors /\ snap[q] \in Versions
      BY <1>0, <1>8, <3>1 DEF Leasing, BaseInv, ReadersOK, Working
    <3> QED BY <1>8, <2>2, <2>3, <3>1, <3>2
  <2>7. RetiredOK'
    BY <1>0, <1>8, <2>2, <2>3 DEF RetiredOK
  <2> QED BY <2>2, <2>5, <2>6, <2>7
<1>9. ASSUME NEW r \in Readers, CloseByReader(r) PROVE LeaseInv'
  <2>1. /\ pc[r] = "close" /\ Goto(r, "idle") /\ snap' = [snap EXCEPT ![r] = None]
        /\ closed' = [closed EXCEPT ![snap[r]] = TRUE] /\ UNCHANGED <<refs, retired, early>>
    BY <1>9 DEF CloseByReader, Leave
  <2>2. \A b \in Actors \ {r} : snap'[b] = snap[b]
    BY <1>0, <2>1
  <2> QED BY <1>0, <1>8, <2>1, <2>2
<1>10. ASSUME NEW a \in Updaters \cup {Closer}, CloseByRetirer(a) PROVE LeaseInv'
  BY <1>0, <1>8, <1>10 DEF CloseByRetirer
<1>11. ASSUME NEW a \in Updaters \cup {Closer}, Retire(a) PROVE LeaseInv'
  <2>1. /\ pc[a] = "retire" /\ Goto(a, "look") /\ retired' = [retired EXCEPT ![snap[a]] = TRUE]
        /\ UNCHANGED <<refs, closed, snap, early>> /\ snap[a] \in Versions
        /\ a \in Actors /\ a \notin Readers
    BY <1>0, <1>11 DEF Retire, BaseInv, UpdatersOK, CloserOK, Retiring
  <2>2. /\ RefsOK' /\ pc'[a] = "look"
        /\ \A b \in Actors \ {a} : pc'[b] = pc[b] /\ snap'[b] = snap[b]
    BY <1>2, <2>1 DEF Leasing
  <2>3. retired'[snap[a]] /\ \A v \in Versions : retired[v] => retired'[v]
    BY <1>0, <2>1
  <2>4. ClosedOK'
    <3>1. \A v \in Versions : closed'[v] => retired'[v]
      BY <2>1, <2>3 DEF ClosedOK
    <3>2. ASSUME NEW b \in Actors, pc'[b] \in {"look", "close"} PROVE retired'[snap'[b]]
      <4>1. CASE b = a
        BY <2>1, <2>3, <4>1
      <4>2. CASE b # a
        <5>1. snap[b] \in Versions /\ retired[snap[b]]
          BY <2>2, <3>2, <4>2 DEF ClosedOK, BaseInv, ReadersOK, UpdatersOK, CloserOK, Working,
                                  Retiring, Actors
        <5> QED BY <2>1, <2>3, <5>1
      <4> QED BY <4>1, <4>2
    <3> QED BY <3>1, <3>2 DEF ClosedOK
  <2>5. SafeOK'
    BY <1>0, <2>1, <2>2 DEF SafeOK, Leasing
  <2>6. RetiredOK'
    <3> SUFFICES ASSUME NEW v \in Versions, retired'[v], ~closed[v]
                 PROVE  \E b \in Actors : snap'[b] = v /\ pc'[b] \in Responsible
      BY <2>1 DEF RetiredOK
    <3>1. CASE v = snap[a]
      BY <2>1, <2>2, <3>1 DEF Responsible
    <3>2. CASE v # snap[a]
      <4>1. retired[v]
        BY <1>0, <2>1, <3>2
      <4>2. PICK b \in Actors : snap[b] = v /\ pc[b] \in Responsible
        BY <4>1 DEF RetiredOK
      <4> QED BY <2>1, <2>2, <3>2, <4>2
    <3> QED BY <3>1, <3>2
  <2> QED BY <2>2, <2>4, <2>5, <2>6
<1>12. ASSUME NEW a \in Updaters \cup {Closer}, LookAtLeases(a) PROVE LeaseInv'
  <2> DEFINE v == snap[a]
             l == IF refs[v] = 0 THEN "close" ELSE "done"
  <2>1. /\ pc[a] = "look" /\ Goto(a, l) /\ UNCHANGED <<refs, retired, closed, snap, early>>
        /\ v \in Versions /\ a \in Actors /\ a \notin Readers
    BY <1>0, <1>12 DEF LookAtLeases, snapVars, BaseInv, UpdatersOK, CloserOK, Retiring
  <2>2. /\ RefsOK' /\ pc'[a] = l
        /\ \A b \in Actors \ {a} : pc'[b] = pc[b] /\ snap'[b] = snap[b]
    BY <1>2, <2>1 DEF Leasing
  <2>3. refs[v] = 0 <=> Leases(v) = {}
    BY <2>1, FiniteLeases DEF RefsOK
  <2>4. l \in {"close", "done"} /\ (l = "close" <=> Leases(v) = {})
    BY <2>3
  <2> HIDE DEF l
  <2>5. ClosedOK'
    BY <2>1, <2>2, <2>4 DEF ClosedOK
  <2>6. SafeOK'
    <3>1. \A q \in Readers : early[q] = "safe" => pc[q] \in Leasing /\ (snap[q] = v => l = "done")
      BY <2>4 DEF SafeOK, Leases
    <3> QED BY <1>0, <2>1, <2>2, <2>4, <3>1 DEF SafeOK
  <2>7. RetiredOK'
    <3> SUFFICES ASSUME NEW w \in Versions, retired[w], ~closed[w]
                 PROVE  \E b \in Actors : snap[b] = w /\ pc'[b] \in Responsible
      BY <2>1 DEF RetiredOK
    <3>1. PICK b \in Actors : snap[b] = w /\ pc[b] \in Responsible
      BY DEF RetiredOK
    <3>2. CASE b # a
      BY <2>2, <3>1, <3>2
    <3>3. CASE b = a /\ l = "close"
      BY <2>2, <3>1, <3>3 DEF Responsible
    <3>4. CASE b = a /\ l # "close"
      <4>1. PICK q \in Readers : pc[q] \in Leasing /\ snap[q] = v
        BY <2>4, <3>4 DEF Leases
      <4> QED BY <1>0, <2>1, <2>2, <3>1, <3>4, <4>1 DEF Responsible
    <3> QED BY <3>2, <3>3, <3>4
  <2> QED BY <2>2, <2>5, <2>6, <2>7
\* A step of an update, or of the closer, before it retires a snapshot or after.
<1>13. ASSUME NEW a \in Actors \ Readers, NEW l, Goto(a, l), UNCHANGED <<refs, retired, closed, early>>,
              pc[a] \in {"idle", "build", "store", "publish", "swap", "done"},
              l \notin Responsible,
              \A b \in Actors \ {a} : snap'[b] = snap[b]
       PROVE  LeaseInv'
  <2>1. /\ RefsOK' /\ pc'[a] = l
        /\ \A b \in Actors \ {a} : pc'[b] = pc[b] /\ snap'[b] = snap[b]
    BY <1>2, <1>13 DEF Leasing
  <2>2. ClosedOK'
    BY <1>13, <2>1 DEF ClosedOK, Responsible
  <2>3. SafeOK'
    BY <1>0, <1>13, <2>1 DEF SafeOK, Responsible
  <2>4. RetiredOK'
    BY <1>0, <1>13, <2>1 DEF RetiredOK, Responsible, Leasing
  <2> QED BY <2>1, <2>2, <2>3, <2>4
<1>14. ASSUME NEW u \in Updaters, Submit(u) PROVE LeaseInv'
  BY <1>14 DEF Submit, snapVars, RefsOK, Leases, ClosedOK, SafeOK, RetiredOK
<1>15. ASSUME NEW u \in Updaters,
              LockUpdate(u) \/ BuildCandidate(u) \/ StoreConfig(u) \/ Publish(u) \/ Swap(u)
              \/ Finish(u)
       PROVE  LeaseInv'
  <2>1. /\ pc[u] \in {"idle", "build", "store", "publish", "swap", "done"}
        /\ UNCHANGED <<refs, retired, closed, early>>
    BY <1>15 DEF LockUpdate, BuildCandidate, StoreConfig, Publish, Swap, Finish, snapVars
  <2>2. \/ UNCHANGED <<pc, snap>>
        \/ \E l \in {"idle", "build", "store", "publish", "swap", "retire", "done"} : Goto(u, l)
    BY <1>15 DEF LockUpdate, BuildCandidate, StoreConfig, Publish, Swap, Finish, EndUpdate, Leave
  <2>3. \A b \in Actors \ {u} : snap'[b] = snap[b]
    BY <1>0, <1>15 DEF LockUpdate, BuildCandidate, StoreConfig, Publish, Swap, Finish, EndUpdate,
                       Leave
  <2>4. CASE UNCHANGED <<pc, snap>>
    BY <2>1, <2>4 DEF RefsOK, Leases, ClosedOK, SafeOK, RetiredOK
  <2> QED BY <1>0, <1>13, <2>1, <2>2, <2>3, <2>4 DEF Responsible, Leasing
<1>16. CASE CloseManager
  <2>1. /\ pc[Closer] = "idle" /\ Goto(Closer, "retire") /\ UNCHANGED <<refs, retired, closed, early>>
        /\ snap' = [snap EXCEPT ![Closer] = current]
    BY <1>16 DEF CloseManager, snapVars
  <2>2. \A b \in Actors \ {Closer} : snap'[b] = snap[b]
    BY <1>0, <2>1
  <2> QED BY <1>0, <1>13, <2>1, <2>2 DEF Responsible, Leasing
<1>17. CASE Crash
  <2>1. \A v \in Versions : Leases(v)' = {}
    BY <1>0, <1>17 DEF Crash, Leases, Leasing
  <2>2. RefsOK'
    BY <1>17, <2>1, FS_EmptySet DEF Crash, RefsOK
  <2> QED BY <1>17, <2>2 DEF Crash, ClosedOK, SafeOK, RetiredOK
<1> QED
  BY <1>1, <1>3, <1>4, <1>5, <1>6, <1>7, <1>9, <1>10, <1>11, <1>12, <1>14, <1>15, <1>16, <1>17
     DEF Next, LeaseStep, UpdateStep, RetireStep

LEMMA LeaseInvariant == Spec => []LeaseInv
<1> QED BY LeaseStarts, LeaseStepOK, BaseInvariant, PTL DEF Spec

\* A lease counted before its snapshot was retired, with nobody about to look,
\* is never closed under its search (Acquire, Release and retire).
THEOREM SafeLeasesOpen == Spec => []SafeLeaseIsOpen
<1>1. LeaseInv => SafeLeaseIsOpen
  BY DEF LeaseInv, SafeOK, SafeLeaseIsOpen
<1> QED BY <1>1, LeaseInvariant, PTL

\* A retired snapshot does not stay open once nobody works with it (release and
\* retire, whichever comes first).
THEOREM RetiredGetsClosed == Spec => []RetiredIsClosed
<1>1. LeaseInv => RetiredIsClosed
  BY DEF LeaseInv, RetiredOK, RetiredIsClosed, Responsible, Leasing
<1> QED BY <1>1, LeaseInvariant, PTL

=============================================================================
