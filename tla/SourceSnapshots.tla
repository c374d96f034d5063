--------------------------- MODULE SourceSnapshots ---------------------------
(***************************************************************************)
(* The runtime snapshots of the source configuration                       *)
(* (sourceconfig/snapshot.go and service.go, storage/source_configs.go).   *)
(*                                                                         *)
(* A search leases the current snapshot, whose plugin manager it uses to   *)
(* the end.  An admin's update builds a candidate, stores the new version  *)
(* with a compare-and-swap, publishes the candidate and retires its        *)
(* predecessor, which is closed once nobody leases it.                     *)
(*                                                                         *)
(* Leases are counted with atomics and no lock: each atomic operation on   *)
(* refs, retired, closed and current is an action of its own.  A snapshot  *)
(* is identified by its version; a candidate that is never published is    *)
(* discarded and plays no part.                                            *)
(***************************************************************************)
EXTENDS Integers, FiniteSets

CONSTANTS
    Readers,     \* searches, collections and handlers that take leases
    Updaters,    \* admin requests
    MaxVersion,  \* bound: versions of the configuration
    MaxCrashes,  \* bound: crashes of the process
    NoOne        \* nobody holds the update lock

Versions == 1..MaxVersion
None     == 0
Closer   == "closer"
Actors   == Readers \cup Updaters \cup {Closer}

ASSUME SnapshotAssumption ==
    /\ IsFiniteSet(Readers) /\ IsFiniteSet(Updaters) /\ Readers \cap Updaters = {}
    /\ MaxVersion \in Nat \ {0} /\ MaxCrashes \in Nat
    /\ NoOne \notin Updaters /\ Closer \notin Readers \cup Updaters

VARIABLES
    db,        \* the stored version
    current,   \* the manager's current snapshot, None after Close
    shut,      \* the manager is closed
    refs,      \* refs of each snapshot
    retired,   \* retired
    closed,    \* closed
    lock,      \* the holder of the update lock
    pc,        \* where readers, updaters and the closer are
    snap,      \* the snapshot each of them works with
    expect,    \* the version an admin's page has shown
    early,     \* (history) how early a reader counted itself: "late", after the
               \* snapshot was retired; "early", before; "safe", before, and while
               \* nobody was about to look whether the snapshot is retired
    crashes,   \* crashes left
    lost       \* (history) the versions whose commit was taken for a failure

snapVars == <<refs, retired, closed>>
vars     == <<db, current, shut, snapVars, lock, pc, snap, expect, early, crashes, lost>>

TypeOK ==
    /\ db \in Versions /\ current \in Versions \cup {None}
    /\ shut \in BOOLEAN
    /\ refs \in [Versions -> Nat]
    /\ retired \in [Versions -> BOOLEAN] /\ closed \in [Versions -> BOOLEAN]
    /\ lock \in Updaters \cup {NoOne}
    /\ pc \in [Actors -> {"idle", "count", "check", "use", "drop", "last", "close",
                          "build", "store", "publish", "swap", "retire", "look", "done"}]
    /\ snap \in [Actors -> Versions \cup {None}]
    /\ expect \in [Updaters -> Versions \cup {None}]
    /\ early \in [Readers -> {"late", "early", "safe"}]
    /\ crashes \in 0..MaxCrashes /\ lost \subseteq Versions

\* bootstrapSourceRuntime: the process starts from the stored version.
Init ==
    /\ db = 1 /\ current = db /\ shut = FALSE
    /\ refs = [w \in Versions |-> 0]
    /\ retired = [w \in Versions |-> FALSE] /\ closed = [w \in Versions |-> FALSE]
    /\ lock = NoOne
    /\ pc = [a \in Actors |-> "idle"] /\ snap = [a \in Actors |-> None]
    /\ expect = [u \in Updaters |-> None] /\ early = [r \in Readers |-> "late"]
    /\ crashes = MaxCrashes /\ lost = {}

Goto(a, l) == pc' = [pc EXCEPT ![a] = l]

\* An actor is finished with its snapshot.
Leave(a) ==
    /\ Goto(a, "idle")
    /\ snap' = [snap EXCEPT ![a] = None]

-----------------------------------------------------------------------------
(* Acquire and Release *)

\* m.closed.Load and m.current.Load.  Close empties current, so the first test
\* only fails earlier; it is left out.
Load(r) ==
    /\ pc[r] = "idle" /\ current # None
    /\ snap' = [snap EXCEPT ![r] = current]
    /\ Goto(r, "count")
    /\ UNCHANGED <<db, current, shut, snapVars, lock, expect, early, crashes, lost>>

\* refs.Add(1).
CountLease(r) ==
    /\ pc[r] = "count"
    /\ refs' = [refs EXCEPT ![snap[r]] = @ + 1]
    /\ early' = [early EXCEPT ![r] =
                    IF retired[snap[r]] THEN "late"
                    ELSE IF \E q \in Readers : pc[q] = "last" /\ snap[q] = snap[r]
                         THEN "early" ELSE "safe"]
    /\ Goto(r, "check")
    /\ UNCHANGED <<db, current, shut, retired, closed, lock, snap, expect, crashes, lost>>

\* closed.Load: a lease, or the count is taken back and Acquire loops.
CheckOpen(r) ==
    /\ pc[r] = "check"
    /\ Goto(r, IF closed[snap[r]] THEN "drop" ELSE "use")
    /\ UNCHANGED <<db, current, shut, snapVars, lock, snap, expect, early, crashes, lost>>

\* The search ends and calls Release.
EndUse(r) ==
    /\ pc[r] = "use"
    /\ Goto(r, "drop")
    /\ UNCHANGED <<db, current, shut, snapVars, lock, snap, expect, early, crashes, lost>>

\* Mutant: the last lease does not look whether the snapshot is retired.
DropForget(r) ==
    /\ pc[r] = "drop"
    /\ refs' = [refs EXCEPT ![snap[r]] = @ - 1]
    /\ early' = [early EXCEPT ![r] = "late"]
    /\ Leave(r)
    /\ UNCHANGED <<db, current, shut, retired, closed, lock, expect, crashes, lost>>

\* refs.Add(-1).
DropLease(r) ==
    /\ pc[r] = "drop"
    /\ refs' = [refs EXCEPT ![snap[r]] = @ - 1]
    /\ early' = [early EXCEPT ![r] = "late"]
    /\ IF refs'[snap[r]] = 0
       THEN Goto(r, "last") /\ UNCHANGED snap
       ELSE Leave(r)
    /\ UNCHANGED <<db, current, shut, retired, closed, lock, expect, crashes, lost>>

\* retired.Load, by whoever brought the count to zero.
LastLease(r) ==
    /\ pc[r] = "last"
    /\ IF retired[snap[r]]
       THEN Goto(r, "close") /\ UNCHANGED snap
       ELSE Leave(r)
    /\ UNCHANGED <<db, current, shut, snapVars, lock, expect, early, crashes, lost>>

\* Snapshot.close: the compare-and-swap lets one caller close the plugins.
CloseByReader(r) ==
    /\ pc[r] = "close"
    /\ closed' = [closed EXCEPT ![snap[r]] = TRUE]
    /\ Leave(r)
    /\ UNCHANGED <<db, current, shut, refs, retired, lock, expect, early, crashes, lost>>

-----------------------------------------------------------------------------
(* Update *)

\* An admin submits a page that has shown version v.
Submit(u) ==
    /\ pc[u] = "idle" /\ expect[u] = None /\ ~shut
    /\ \E v \in 1..db : expect' = [expect EXCEPT ![u] = v]
    /\ UNCHANGED <<db, current, shut, snapVars, lock, pc, snap, early, crashes, lost>>

\* Mutant: updates do not exclude each other.
LockUpdateShared(u) ==
    /\ pc[u] = "idle" /\ expect[u] # None
    /\ IF expect[u] = db /\ db < MaxVersion
       THEN Goto(u, "build") /\ UNCHANGED expect
       ELSE expect' = [expect EXCEPT ![u] = None] /\ UNCHANGED pc
    /\ UNCHANGED <<db, current, shut, snapVars, lock, snap, early, crashes, lost>>

\* The update lock, the stored version and the comparison with it.
LockUpdate(u) ==
    /\ pc[u] = "idle" /\ expect[u] # None /\ lock = NoOne
    /\ IF expect[u] = db /\ db < MaxVersion
       THEN lock' = u /\ Goto(u, "build") /\ UNCHANGED expect
       ELSE expect' = [expect EXCEPT ![u] = None] /\ UNCHANGED <<lock, pc>>
    /\ UNCHANGED <<db, current, shut, snapVars, snap, early, crashes, lost>>

\* The update returns.
EndUpdate(u) ==
    /\ Leave(u)
    /\ lock' = NoOne
    /\ expect' = [expect EXCEPT ![u] = None]

\* Validation and BuildCandidate, which may fail, and do once the manager is closed.
BuildCandidate(u) ==
    /\ pc[u] = "build"
    /\ \/ ~shut /\ Goto(u, "store") /\ UNCHANGED <<snap, lock, expect>>
       \/ EndUpdate(u)
    /\ UNCHANGED <<db, current, shut, snapVars, early, crashes, lost>>

\* CompareAndSwapSearchSourceConfig: it commits, fails, or commits without the
\* caller learning of it; a candidate that is not stored is discarded.
StoreConfig(u) ==
    /\ pc[u] = "store"
    /\ \/ /\ db = expect[u]
          /\ db' = db + 1
          /\ \/ /\ snap' = [snap EXCEPT ![u] = db']
                /\ Goto(u, "publish")
                /\ UNCHANGED <<lock, expect, lost>>
             \/ EndUpdate(u) /\ lost' = lost \cup {db'}
       \/ EndUpdate(u) /\ UNCHANGED <<db, lost>>
    /\ UNCHANGED <<current, shut, snapVars, early, crashes>>

\* Publish: m.closed.Load; a closed manager discards the candidate.
Publish(u) ==
    /\ pc[u] = "publish"
    /\ IF shut THEN EndUpdate(u) ELSE Goto(u, "swap") /\ UNCHANGED <<snap, lock, expect>>
    /\ UNCHANGED <<db, current, shut, snapVars, early, crashes, lost>>

\* Publish: current.Swap; snap becomes the predecessor to retire, which Close may
\* have taken since.
Swap(u) ==
    /\ pc[u] = "swap"
    /\ current' = snap[u]
    /\ snap' = [snap EXCEPT ![u] = current]
    /\ Goto(u, IF current = None THEN "done" ELSE "retire")
    /\ UNCHANGED <<db, shut, snapVars, lock, expect, early, crashes, lost>>

-----------------------------------------------------------------------------
(* retire, by an update or by Manager.Close *)

\* retired.Store(true).
Retire(a) ==
    /\ pc[a] = "retire"
    /\ retired' = [retired EXCEPT ![snap[a]] = TRUE]
    /\ Goto(a, "look")
    /\ UNCHANGED <<db, current, shut, refs, closed, lock, snap, expect, early, crashes, lost>>

\* Mutant: a retired snapshot is closed under its leases.
LookNotAtLeases(a) ==
    /\ pc[a] = "look"
    /\ Goto(a, "close")
    /\ UNCHANGED <<db, current, shut, snapVars, lock, snap, expect, early, crashes, lost>>

\* refs.Load.
LookAtLeases(a) ==
    /\ pc[a] = "look"
    /\ Goto(a, IF refs[snap[a]] = 0 THEN "close" ELSE "done")
    /\ UNCHANGED <<db, current, shut, snapVars, lock, snap, expect, early, crashes, lost>>

CloseByRetirer(a) ==
    /\ a \notin Readers /\ pc[a] = "close"
    /\ closed' = [closed EXCEPT ![snap[a]] = TRUE]
    /\ Goto(a, "done")
    /\ UNCHANGED <<db, current, shut, refs, retired, lock, snap, expect, early, crashes, lost>>

Finish(u) ==
    /\ u \in Updaters /\ pc[u] = "done"
    /\ EndUpdate(u)
    /\ UNCHANGED <<db, current, shut, snapVars, early, crashes, lost>>

\* Manager.Close; the waits of the shutdown before it have time limits, so a
\* request or a collection may still be under way.
CloseManager ==
    /\ ~shut /\ pc[Closer] = "idle"
    /\ shut' = TRUE
    /\ current' = None
    /\ snap' = [snap EXCEPT ![Closer] = current]
    /\ Goto(Closer, "retire")
    /\ UNCHANGED <<db, snapVars, lock, expect, early, crashes, lost>>

\* The process dies and is started again from the stored configuration.
Crash ==
    /\ crashes > 0 /\ crashes' = crashes - 1
    /\ current' = db /\ shut' = FALSE
    /\ refs' = [w \in Versions |-> 0]
    /\ retired' = [w \in Versions |-> FALSE] /\ closed' = [w \in Versions |-> FALSE]
    /\ lock' = NoOne
    /\ pc' = [a \in Actors |-> "idle"] /\ snap' = [a \in Actors |-> None]
    /\ expect' = [u \in Updaters |-> None] /\ early' = [r \in Readers |-> "late"]
    /\ UNCHANGED <<db, lost>>

LeaseStep(r) ==
    \/ CountLease(r) \/ CheckOpen(r) \/ EndUse(r) \/ DropLease(r) \/ LastLease(r)
    \/ CloseByReader(r)

RetireStep(a) == Retire(a) \/ LookAtLeases(a) \/ CloseByRetirer(a)

UpdateStep(u) ==
    \/ LockUpdate(u) \/ BuildCandidate(u) \/ StoreConfig(u) \/ Publish(u) \/ Swap(u)
    \/ Finish(u)
    \/ RetireStep(u)

Next ==
    \/ \E r \in Readers : Load(r) \/ LeaseStep(r)
    \/ \E u \in Updaters : Submit(u) \/ UpdateStep(u)
    \/ CloseManager \/ RetireStep(Closer)
    \/ Crash

Spec == Init /\ [][Next]_vars

-----------------------------------------------------------------------------
(* Properties *)

\* "Wait for its reference count to reach zero, then close": the snapshot of a
\* search is not closed under it.
LeaseIsOpen == \A r \in Readers : pc[r] = "use" => ~closed[snap[r]]

\* What the counting does give: a reader that counted itself before the snapshot
\* was retired keeps it open, unless another one had just brought the count to
\* zero and was about to look whether the snapshot is retired.
SafeLeaseIsOpen == \A r \in Readers : early[r] = "safe" => ~closed[snap[r]]

\* The configuration in force never goes back to an older version while the
\* process lives.
NoRollback == [][current # None /\ current' # None => current' >= current]_vars

\* What searches use is what the database and the admin page say, whenever no
\* update is under way: the runtime is behind only by versions whose commit was
\* taken for a failure, and the next update that succeeds makes up for them.
RuntimeInSync ==
    ~shut /\ lock = NoOne => current <= db /\ (current + 1)..db \subseteq lost

\* A retired snapshot that nobody works with any more is closed, whichever of the
\* retiring update and the last leases came first; otherwise its plugins would run
\* for ever.
RetiredIsClosed ==
    \A v \in Versions :
      retired[v] /\ (\A a \in Actors : snap[a] = v => pc[a] = "done") => closed[v]
=============================================================================
