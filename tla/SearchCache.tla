------------------------------ MODULE SearchCache ------------------------------
(***************************************************************************)
(* One key of the search service's main cache: the two levels of           *)
(* EnhancedTwoLevelCache (util/cache), of which only the memory level is   *)
(* looked at while it holds the key, under the merges of                   *)
(* service/search_cache.go and the searches that read the key.             *)
(*                                                                         *)
(* Merges of a key exclude each other (searchCacheLock).  Nothing else     *)
(* takes that lock: not a search that reads the key and so brings the disk *)
(* version into memory, nor the goroutine with which the memory level      *)
(* saves what it evicts, nor the flush at shutdown.  The write of a file   *)
(* is one step; a read that meets it may come back with a part of it.      *)
(***************************************************************************)
EXTENDS FiniteSets, Naturals

CONSTANTS
    Mergers,    \* goroutines that merge: a worker, a refresh, an aggregate
    Readers,    \* searches that look for the key
    Savers,     \* bound: saves of evicted entries, and flushes, under way at once
    Results,    \* what searches find
    MemoryRoom, \* results that an entry of the memory level may have
    None,       \* no entry
    Torn        \* an entry that cannot be decoded

VARIABLES
    mem,    \* the entry in memory
    disk,   \* the entry on disk
    client, \* of a merger or reader: where it is, the entry it holds, what it adds
    saving, \* of a saver: the entry it is about to write to disk
    merged, \* ghost: what was merged into the entry since there is one
    losses  \* ghost: the events since then that put an older version in place

cacheVars == <<mem, disk, client, saving, merged, losses>>

Clients == Mergers \cup Readers
Idle    == [pc |-> "idle", data |-> {}, new |-> {}]
Absent  == {None, Torn}

Fits(data) == data = Torn \/ Cardinality(data) <= MemoryRoom

\* What is merged, and what the merger between its two stores is about to have merged.
Newest == merged \cup UNION {client[m].new : m \in {n \in Mergers : client[n].pc = "both"}}

Older(data) == data # Torn /\ ~(Newest \subseteq data)

Init ==
    /\ mem = None /\ disk = None
    /\ client = [c \in Clients |-> Idle]
    /\ saving = [f \in Savers |-> None]
    /\ merged = {} /\ losses = {}

\* The ghosts start anew when neither level has the entry.
Account(all, events) ==
    IF mem' = None /\ disk' = None
    THEN merged' = {} /\ losses' = {}
    ELSE merged' = all /\ losses' = losses \cup events

Events(name, happened) == IF happened THEN {name} ELSE {}

-----------------------------------------------------------------------------
(* EnhancedTwoLevelCache.Get, and mergeAndStoreCachedSearch around it *)

\* The memory level answers a merger, or the disk is to be read.  An entry that
\* cannot be decoded ends the merge.
Lookup(m, new) ==
    /\ mem # Torn
    /\ client' = [client EXCEPT ![m] =
                      IF mem = None
                      THEN [pc |-> "read", data |-> {}, new |-> new]
                      ELSE [pc |-> "store", data |-> mem \cup new, new |-> new]]
    /\ UNCHANGED <<mem, disk, saving, merged, losses>>

\* Mutant: without the lock.
MergeUnlocked(m, new) ==
    /\ client[m] = Idle
    /\ Lookup(m, new)

\* A merge takes the lock of the key and looks for the entry.
Merge(m, new) ==
    /\ \A o \in Mergers : client[o] = Idle
    /\ Lookup(m, new)

\* A search looks for the entry; one in memory ends it here.
Read(r) ==
    /\ client[r] = Idle /\ mem = None
    /\ client' = [client EXCEPT ![r].pc = "read"]
    /\ UNCHANGED <<mem, disk, saving, merged, losses>>

\* The file may be under the hands of a writer.
BeingWritten == (\E m \in Mergers : client[m].pc = "both") \/ (\E f \in Savers : saving[f] # None)

\* The disk has the entry, and it is read without a lock: whole, or a part of it
\* while it is being written.
ReadDisk(c) ==
    /\ client[c].pc = "read" /\ disk # None
    /\ \E data \in {disk, Torn} :
          /\ data # disk => BeingWritten
          /\ client' = [client EXCEPT ![c] = [pc |-> "promote", data |-> data, new |-> client[c].new]]
    /\ UNCHANGED <<mem, disk, saving, merged, losses>>

\* The disk does not have the entry, or the read fails: a miss, on which a merge
\* starts from nothing.
MissDisk(c) ==
    /\ client[c].pc = "read"
    /\ client' = [client EXCEPT ![c] =
                      IF c \in Readers THEN Idle
                      ELSE [pc |-> "store", data |-> client[c].new, new |-> client[c].new]]
    /\ UNCHANGED <<mem, disk, saving>>
    /\ Account(merged, Events("miss", c \in Mergers /\ (mem # None \/ disk # None)))

\* The version read is put into memory, over whatever is there by now.
Promote(c) ==
    LET data == client[c].data
        new  == client[c].new
    IN
    /\ client[c].pc = "promote"
    /\ mem' = IF Fits(data) THEN data ELSE mem
    /\ client' = [client EXCEPT ![c] =
                      IF c \in Readers \/ data = Torn THEN Idle
                      ELSE [pc |-> "store", data |-> data \cup new, new |-> new]]
    /\ UNCHANGED <<disk, saving>>
    /\ Account(merged, Events("promotion", Fits(data) /\ Older(data)))

\* SetBothLevels: memory first, which keeps what it has when the new version is
\* too large for it,
StoreMemory(m) ==
    LET data == client[m].data IN
    /\ client[m].pc = "store"
    /\ mem' = IF Fits(data) THEN data ELSE mem
    /\ client' = [client EXCEPT ![m].pc = "both"]
    /\ UNCHANGED <<disk, saving>>
    /\ Account(merged, Events("refusal", ~Fits(data) /\ mem \notin Absent))

\* DiskCache.Set fails before it removes the old file, after that, or in the
\* middle of the new one.
DiskSetFails == disk' \in {disk, None} \cup (IF disk = None THEN {} ELSE {Torn})

\* then the disk, whose error is the merge's.
StoreDisk(m) ==
    /\ client[m].pc = "both"
    /\ client' = [client EXCEPT ![m] = Idle]
    /\ UNCHANGED <<mem, saving>>
    /\ \/ disk' = client[m].data /\ Account(merged \cup client[m].new, {})
       \/ DiskSetFails /\ Account(merged, {})

-----------------------------------------------------------------------------
(* What happens to the entry meanwhile *)

\* evictFromShard, for the sake of another key: a goroutine is to save the entry.
Evict(f) ==
    /\ mem # None /\ saving[f] = None
    /\ mem' = None
    /\ saving' = [saving EXCEPT ![f] = mem]
    /\ UNCHANGED <<disk, client>>
    /\ Account(merged, {})

\* At shutdown the entry in memory is to be written to disk.
FlushMemoryToDisk(f) ==
    /\ mem # None /\ saving[f] = None
    /\ saving' = [saving EXCEPT ![f] = mem]
    /\ UNCHANGED <<mem, disk, client, merged, losses>>

\* The write that an eviction or the flush owes.
Save(f) ==
    /\ saving[f] # None
    /\ saving' = [saving EXCEPT ![f] = None]
    /\ UNCHANGED <<mem, client>>
    /\ \/ disk' = saving[f] /\ Account(merged, Events("save", Older(saving[f])))
       \/ DiskSetFails /\ Account(merged, {})

\* The entry in memory expires, and is dropped by a look at it or by the cleanup.
ExpireMemory ==
    /\ mem # None /\ mem' = None
    /\ UNCHANGED <<disk, client, saving>>
    /\ Account(merged, {})

\* The file expires, makes room for another key's, or is missed by a read.
DropDisk ==
    /\ disk # None /\ disk' = None
    /\ UNCHANGED <<mem, client, saving>>
    /\ Account(merged, {})

\* Only the files outlive the process.
Restart ==
    /\ mem' = None /\ UNCHANGED disk
    /\ client' = [c \in Clients |-> Idle]
    /\ saving' = [f \in Savers |-> None]
    /\ Account(merged, {})

-----------------------------------------------------------------------------
Next ==
    \/ \E m \in Mergers :
          \/ \E new \in SUBSET Results : Merge(m, new)
          \/ StoreMemory(m) \/ StoreDisk(m)
    \/ \E r \in Readers : Read(r)
    \/ \E c \in Clients : ReadDisk(c) \/ MissDisk(c) \/ Promote(c)
    \/ \E f \in Savers : Evict(f) \/ FlushMemoryToDisk(f) \/ Save(f)
    \/ ExpireMemory \/ DropDisk \/ Restart

Spec == Init /\ [][Next]_cacheVars

-----------------------------------------------------------------------------
(* Properties *)

Visible == IF mem # None THEN mem ELSE disk

\* A merge loses nothing (mergeAndStoreCachedSearch): as long as the key has an
\* entry, a search that can read it finds all that was merged into it, whatever
\* merges, evicts, expires, fails or restarts, unless one of four events put an
\* older version in place: a reader's promotion, the save of an evicted entry, a
\* store that the memory level refused, or a miss of the merge's own read.
MergedStays == losses = {} /\ Visible \notin Absent => merged \subseteq Visible
=============================================================================
