-------------------------------- MODULE Stores --------------------------------
(***************************************************************************)
(* The components that keep accounts, results and leases for the searches, *)
(* as one specification: the check columns of the resource library, the    *)
(* proxy pool, a shard of the disk cache, the plugin credentials and the   *)
(* main cache of the searches.  They share no variables, so that every     *)
(* property of one of them is a property of its own steps; a behaviour     *)
(* takes the steps of one of them, and all of them are explored.           *)
(***************************************************************************)
EXTENDS Integers, FiniteSets

CONSTANTS
    Stored, Hour, Interval, MaxTime,                              \* ResourceChecks
    Nodes, Borrowers, Refreshers, MaxPerNode, MaxCooldown, OutcomeQueue,
    MaxNow,                                                       \* ProxyPool
    CacheKeys, Sizes, Capacity, MaxSets,                          \* DiskCache
    Writers, Scopes, MaxLogins, MaxEdits,                         \* Credentials
    Mergers, Readers, Savers, Results, MemoryRoom, None, Torn     \* SearchCache

VARIABLES
    part,  \* the component whose steps are taken
    row, probed, time, evidence, excused,
    stored, nodes, lease, inUse, listing, probing, outcomes, now, barred,
    file, meta, recency, expired, currSize, sets,
    cred, op, logins, credEdits, intended,
    mem, disk, client, saving, merged, losses

Checks == INSTANCE ResourceChecks
Pool   == INSTANCE ProxyPool
Disk   == INSTANCE DiskCache
Creds  == INSTANCE Credentials
Cache  == INSTANCE SearchCache

\* The confirmation delay is a length of time, there is another scope to change to,
\* requests are finitely many, a node is not the mark of a missing one, an entry of
\* the disk cache takes some space, and those of the main cache are told apart from
\* the marks of a missing and of a broken one.
ASSUME StoresAssumption ==
    /\ Hour \in Nat
    /\ \A s \in Scopes : \E t \in Scopes : t # s
    /\ IsFiniteSet(Borrowers) /\ MaxPerNode \in Nat /\ Pool!NoNode \notin Nodes
    /\ IsFiniteSet(CacheKeys) /\ Capacity \in Nat /\ Sizes \subseteq Nat \ {0}
    /\ None # Torn /\ \A e \in SUBSET Results : e # None /\ e # Torn
    /\ Mergers \cap Readers = {}

checkVars  == <<row, probed, time, evidence, excused>>
poolVars   == <<stored, nodes, lease, inUse, listing, probing, outcomes, now, barred>>
diskVars   == <<file, meta, recency, expired, currSize, sets>>
credVars   == <<cred, op, logins, credEdits, intended>>
cacheVars  == <<mem, disk, client, saving, merged, losses>>
storeVars  == <<part, checkVars, poolVars, diskVars, credVars, cacheVars>>

StoresInit ==
    /\ part \in {"checks", "pool", "disk", "credentials", "cache"}
    /\ Checks!Init /\ Pool!Init /\ Disk!Init /\ Creds!Init /\ Cache!Init
    /\ part # "credentials" => cred.scope = CHOOSE s \in Scopes : TRUE

StoresNext ==
    \/ part = "checks" /\ Checks!Next
       /\ UNCHANGED <<part, poolVars, diskVars, credVars, cacheVars>>
    \/ part = "pool" /\ Pool!Next
       /\ UNCHANGED <<part, checkVars, diskVars, credVars, cacheVars>>
    \/ part = "disk" /\ Disk!Next
       /\ UNCHANGED <<part, checkVars, poolVars, credVars, cacheVars>>
    \/ part = "credentials" /\ Creds!Next
       /\ UNCHANGED <<part, checkVars, poolVars, diskVars, cacheVars>>
    \/ part = "cache" /\ Cache!Next
       /\ UNCHANGED <<part, checkVars, poolVars, diskVars, credVars>>

StoresSpec == StoresInit /\ [][StoresNext]_storeVars

-----------------------------------------------------------------------------
(* Properties: see the components *)

\* A resource is invalid only on negative results far enough apart, or on one after
\* a result that said nothing (CompleteResourceChecks).
NegativeIsConfirmed == Checks!NegativeIsConfirmed

\* The leases of a node are counted exactly across a Refresh (proxypool).
InflightExact == Pool!InflightExact

\* A node that owes a cooldown is not leased before its end (proxypool).
CooldownServed == Pool!CooldownServed

\* The shard's counter never exceeds what its files take (DiskCache).
DiskLosesNoSpace == Disk!DiskLosesNoSpace

\* No replacement of a credential overwrites one that it has not seen
\* (the compare-and-swap of plugin_credentials).
NoUpdateLost == Creds!NoUpdateLost

\* What was merged into an entry of the main cache stays there, unless one of four
\* events put an older version in place (mergeAndStoreCachedSearch).
MergedStays == Cache!MergedStays
=============================================================================
