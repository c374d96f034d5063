------------------------------- MODULE DiskCache -------------------------------
(***************************************************************************)
(* One shard of the disk level of the search cache (util/cache/            *)
(* disk_cache.go): data files, the metadata in memory and the counter of   *)
(* used space that decides when entries are evicted.  Operations hold the  *)
(* shard's mutex.                                                          *)
(***************************************************************************)
EXTENDS Integers, Sequences, FiniteSets, FiniteSetsExt, SequencesExt

CONSTANTS
    CacheKeys,  \* keys of the shard
    Sizes,      \* sizes of the payloads
    Capacity,   \* maxSizeMB, in the unit of Sizes
    MaxSets     \* bound: calls of Set

VARIABLES
    file,       \* size of a key's data file, 0 without one
    meta,       \* Size in the metadata of a key, 0 without an entry
    recency,    \* the keys with metadata, by LastUsed
    expired,    \* the keys whose entry has expired
    currSize,   \* the counter
    sets        \* calls of Set that are left

diskVars == <<file, meta, recency, expired, currSize, sets>>

\* The units of space that the keys in S take, and how many they are.  (A sum of
\* sizes, as a set: every unit belongs to one key.)
Space(sizes, S) == UNION {{k} \X (1..sizes[k]) : k \in S \cap CacheKeys}

Taken(sizes, S) == Cardinality(Space(sizes, S))

Total(sizes) == Taken(sizes, CacheKeys)

Init ==
    /\ file = [k \in CacheKeys |-> 0] /\ meta = [k \in CacheKeys |-> 0]
    /\ recency = <<>> /\ expired = {} /\ currSize = 0 /\ sets = MaxSets

Without(S) == SelectSeq(recency, LAMBDA k : k \notin S)

\* Files and metadata of the keys in S are gone, and their sizes subtracted.
Dropped(S, size) == size - Taken(meta, S)

Cleared(sizes, S) == [k \in CacheKeys |-> IF k \in S THEN 0 ELSE sizes[k]]

-----------------------------------------------------------------------------
\* evictLRU: the least recently used entries, until `need' fits.
Evicted(size, need) ==
    LET first(n) == Range(SubSeq(recency, 1, n))
        enough(n) == Dropped(first(n), size) + need <= Capacity
        fits == {n \in 0..Len(recency) : enough(n)}
    IN  IF size + need <= Capacity THEN {}
        ELSE IF fits = {} THEN Range(recency) ELSE first(Min(fits))

\* Mutant: the size of the version that is replaced stays in the counter.
ReplacedUncounted(k) == currSize

\* The counter without the version that Set replaces.
Replaced(k) == currSize - meta[k]

\* Set: the old file goes and its size is subtracted, but its metadata stays
\* until the new entry is written; writing the files may fail.
Set(k, s) ==
    LET size == Replaced(k)
        out  == Evicted(size, s)
    IN
    /\ sets > 0 /\ sets' = sets - 1
    /\ s <= Capacity
    /\ \/ /\ file' = [Cleared(file, out) EXCEPT ![k] = s]
          /\ meta' = [Cleared(meta, out) EXCEPT ![k] = s]
          /\ recency' = Append(Without(out \cup {k}), k)
          /\ expired' = expired \ (out \cup {k})
          /\ currSize' = Dropped(out, size) + s
       \/ /\ file' = Cleared(file, out \cup {k})
          /\ meta' = Cleared(meta, out)
          /\ recency' = Without(out)
          /\ expired' = expired \ out
          /\ currSize' = Dropped(out, size)

\* Delete: also the way out of GetWithTTL for an entry that has expired or has
\* lost its file.
Delete(k) ==
    /\ meta[k] > 0
    /\ file' = Cleared(file, {k}) /\ meta' = Cleared(meta, {k})
    /\ recency' = Without({k}) /\ expired' = expired \ {k}
    /\ currSize' = Dropped({k}, currSize)
    /\ UNCHANGED sets

\* GetWithTTL with a hit: the entry is the one used last.
Hit(k) ==
    /\ file[k] > 0 /\ meta[k] > 0 /\ k \notin expired
    /\ recency' = Append(Without({k}), k)
    /\ UNCHANGED <<file, meta, expired, currSize, sets>>

\* cleanExpired.
CleanExpired ==
    /\ expired # {}
    /\ file' = Cleared(file, expired) /\ meta' = Cleared(meta, expired)
    /\ recency' = Without(expired) /\ expired' = {}
    /\ currSize' = Dropped(expired, currSize)
    /\ UNCHANGED sets

Expire(k) ==
    /\ meta[k] > 0 /\ k \notin expired
    /\ expired' = expired \cup {k}
    /\ UNCHANGED <<file, meta, recency, currSize, sets>>

\* A restart reads the metadata that lies beside the files.  They hold LastUsed as
\* it was when the entry was set: any order of the keys may come of it.
LoadMetadata ==
    /\ meta' = file /\ currSize' = Total(file)
    /\ recency' \in SetToSeqs({k \in CacheKeys : file[k] > 0})
    /\ expired' = {k \in expired : file[k] > 0}
    /\ UNCHANGED <<file, sets>>

Next ==
    \/ \E k \in CacheKeys : Delete(k) \/ Hit(k) \/ Expire(k) \/ \E s \in Sizes : Set(k, s)
    \/ CleanExpired \/ LoadMetadata

Spec == Init /\ [][Next]_diskVars

-----------------------------------------------------------------------------
(* Properties *)

\* Space is never lost: the counter does not exceed what lies on the disk, so
\* that no failed write, replacement or eviction shrinks the cache for good.
DiskLosesNoSpace == currSize <= Total(file)
=============================================================================
