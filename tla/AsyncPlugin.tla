------------------------------ MODULE AsyncPlugin ------------------------------
(***************************************************************************)
(* A search plugin (BaseAsyncPlugin in plugin/plugin.go) between the       *)
(* searches that share its instance and the two caches behind it: its own  *)
(* responses by keyword, apiResponseCache, and the search service's main   *)
(* cache, into which late results are merged by the updater that           *)
(* service/search_service.go injects.  A result is the keyword it was      *)
(* found for and an item.                                                  *)
(*                                                                         *)
(* Of the main cache only the key under which results are merged is told   *)
(* apart here: what its two levels keep is the subject of SearchCache, and *)
(* a search finds some of what was merged, or nothing.  A search that ends *)
(* at its deadline merges what it knows as one does whose plugin has not   *)
(* answered in time (ResponseTimeout).                                     *)
(***************************************************************************)
EXTENDS Integers

CONSTANTS
    Searches,   \* concurrent searches, each with its goroutines
    Keywords,
    Items,      \* what the source can find for a keyword
    MaxWorkers, \* capacity of backgroundWorkerPool
    MaxSearches \* bound: searches begun

VARIABLES
    mainKey,   \* the field MainCacheKey of the plugin
    task,      \* of a search: where it is, its keyword, arguments and answer
    worker,    \* of a search: its background goroutine
    refresher, \* of a search: the refresh that it started
    write,     \* the merges into the main cache under way
    entry,     \* apiResponseCache
    tracker,   \* finalUpdateTracker
    slots,     \* filled places of backgroundWorkerPool
    begun,     \* searches begun
    merged     \* what was merged into the main cache, as <<keyword, key, item>>

pluginVars == <<mainKey, task, worker, refresher, write, entry, tracker, slots,
                begun, merged>>

Merges == {"worker", "refresher", "aggregate"} \X Searches

NoEntry == [results |-> {}, complete |-> FALSE, age |-> "none"]
Idle    == [pc |-> "idle"]

Init ==
    /\ mainKey = ""
    /\ task = [s \in Searches |-> Idle]
    /\ worker = [s \in Searches |-> Idle]
    /\ refresher = [s \in Searches |-> Idle]
    /\ write = [w \in Merges |-> Idle]
    /\ entry = [k \in Keywords |-> NoEntry]
    /\ tracker = {} /\ slots = 0 /\ begun = 0 /\ merged = {}

-----------------------------------------------------------------------------
(* The search: searchPluginsWithStatus around AsyncSearchWithResult *)

\* Past the main cache: what an incomplete entry has is the seed, unless a refresh
\* is forced.
Begin(s, k, seed) ==
    /\ task[s] = Idle /\ worker[s] = Idle /\ refresher[s] = Idle
    /\ \A w \in Merges : w[2] = s => write[w] = Idle
    /\ begun < MaxSearches /\ begun' = begun + 1
    /\ \E force \in BOOLEAN :
          /\ force => seed = {}
          /\ task' = [task EXCEPT ![s] = [pc |-> "key", kw |-> k, force |-> force, seed |-> seed]]
    /\ UNCHANGED <<mainKey, worker, refresher, write, entry, tracker, slots, merged>>

\* What the main cache may have under a key.
Kept(k) == {<<m[1], m[3]>> : m \in {n \in merged : n[2] = k}}

\* SetMainCacheKey writes the field of the shared instance.
SetMainCacheKey(s) ==
    /\ task[s].pc = "key"
    /\ mainKey' = task[s].kw
    /\ task' = [task EXCEPT ![s].pc = "enter"]
    /\ UNCHANGED <<worker, refresher, write, entry, tracker, slots, begun, merged>>

\* The answer of the plugin.
Answer(t, results) == [pc |-> "answered", kw |-> t.kw, seed |-> t.seed, res |-> results]

\* The plugin passes the field on and looks into its own cache: a complete
\* response, or an expired one with results, answers; otherwise a worker starts.
Enter(s) ==
    LET t == task[s]
        e == entry[t.kw]
        valid == e.complete /\ e.age # "expired"
        hit == ~t.force /\ (valid \/ e.results # {})
    IN
    /\ t.pc = "enter"
    /\ task' = [task EXCEPT ![s] =
                    IF hit
                    THEN [pc |-> "hit", kw |-> t.kw, seed |-> t.seed, key |-> mainKey,
                          snap |-> e, renew |-> e.age \in {"near", "expired"}]
                    ELSE [pc |-> "wait", kw |-> t.kw, seed |-> t.seed]]
    /\ worker' = IF hit THEN worker
                 ELSE [worker EXCEPT ![s] = [pc |-> "slot", kw |-> t.kw, key |-> mainKey]]
    /\ UNCHANGED <<mainKey, refresher, write, entry, tracker, slots, begun, merged>>

\* recordCacheAccess reads the response
RecordLoad(s) ==
    LET t == task[s] IN
    /\ t.pc = "hit"
    /\ task' = [task EXCEPT ![s] =
                    [pc |-> "touch", kw |-> t.kw, seed |-> t.seed, key |-> t.key, snap |-> t.snap,
                     renew |-> t.renew, copy |-> entry[t.kw]]]
    /\ UNCHANGED <<mainKey, worker, refresher, write, entry, tracker, slots, begun, merged>>

\* and stores what it has read; then the refresh starts where one is due.
RecordStore(s) ==
    LET t == task[s] IN
    /\ t.pc = "touch"
    /\ entry' = IF t.copy = NoEntry THEN entry ELSE [entry EXCEPT ![t.kw] = t.copy]
    /\ task' = [task EXCEPT ![s] = Answer(t, t.snap.results)]
    /\ refresher' = IF ~t.renew THEN refresher
                    ELSE [refresher EXCEPT ![s] =
                              [pc |-> "slot", kw |-> t.kw, key |-> t.key, snap |-> t.snap.results]]
    /\ UNCHANGED <<mainKey, worker, write, tracker, slots, begun, merged>>

\* The response timeout: a placeholder is left where there is no response.
ResponseTimeout(s) ==
    LET t == task[s] IN
    /\ t.pc = "wait"
    /\ task' = [task EXCEPT ![s] = Answer(t, {})]
    /\ entry' = IF entry[t.kw] # NoEntry THEN entry
                ELSE [entry EXCEPT ![t.kw] = [results |-> {}, complete |-> FALSE, age |-> "fresh"]]
    /\ UNCHANGED <<mainKey, worker, refresher, write, tracker, slots, begun, merged>>

\* The search service merges what the search knows into the main cache, from a
\* goroutine and under the search's own key.
Aggregate(s) ==
    LET t == task[s] IN
    /\ t.pc = "answered"
    /\ task' = [task EXCEPT ![s] = Idle]
    /\ write' = [write EXCEPT ![<<"aggregate", s>>] =
                     [pc |-> "merge", kw |-> t.kw, key |-> t.kw,
                      new |-> t.seed \cup ({t.kw} \X t.res)]]
    /\ UNCHANGED <<mainKey, worker, refresher, entry, tracker, slots, begun, merged>>

-----------------------------------------------------------------------------
(* The background goroutines *)

\* The worker takes a slot, or goes on with the quick client without one.
WorkerSlot(s) ==
    LET b == worker[s]
        free == slots < MaxWorkers
    IN
    /\ b.pc = "slot"
    /\ slots' = IF free THEN slots + 1 ELSE slots
    /\ worker' = [worker EXCEPT ![s] =
                      [pc |-> "search", kw |-> b.kw, key |-> b.key, held |-> free]]
    /\ UNCHANGED <<mainKey, task, refresher, write, entry, tracker, begun, merged>>

\* The worker ends, and its search, if it still waits, takes what it sent: the
\* results, or none with an error.
WorkerEnds(s, results) ==
    /\ worker' = [worker EXCEPT ![s] = Idle]
    /\ slots' = IF worker[s].held THEN slots - 1 ELSE slots
    /\ task' = IF task[s].pc # "wait" THEN task
               ELSE [task EXCEPT ![s] = Answer(task[s], results)]

WorkerFails(s) ==
    /\ worker[s].pc = "search"
    /\ WorkerEnds(s, {})
    /\ UNCHANGED <<mainKey, refresher, write, entry, tracker, begun, merged>>

\* storeCompletedPluginResponse reads the response under the keyword's lock
WorkerFinds(s, found) ==
    LET b == worker[s] IN
    /\ b.pc = "search"
    /\ \A o \in Searches : ~(worker[o].pc = "store" /\ worker[o].kw = b.kw)
    /\ worker' = [worker EXCEPT ![s] =
                      [pc |-> "store", kw |-> b.kw, key |-> b.key, held |-> b.held,
                       found |-> found, base |-> entry[b.kw].results]]
    /\ UNCHANGED <<mainKey, task, refresher, write, entry, tracker, slots, begun, merged>>

\* and stores the union.
WorkerStores(s) ==
    LET b == worker[s] IN
    /\ b.pc = "store"
    /\ entry' = [entry EXCEPT ![b.kw] =
                     [results |-> b.base \cup b.found, complete |-> TRUE, age |-> "fresh"]]
    /\ worker' = [worker EXCEPT ![s].pc = "deliver"]
    /\ UNCHANGED <<mainKey, task, refresher, write, tracker, slots, begun, merged>>

\* updateMainCacheWithFinal: results that are none, or were sent before, are not
\* sent; what is sent is marked first.
Sends(key, results) == results # {} /\ <<key, results>> \notin tracker

Delivery(w, b, results) ==
    /\ tracker' = tracker \cup {<<b.key, results>>}
    /\ write' = [write EXCEPT ![w] =
                     [pc |-> "merge", kw |-> b.kw, key |-> b.key,
                      new |-> {b.kw} \X results]]

WorkerDelivers(s) ==
    LET b == worker[s] IN
    /\ b.pc = "deliver" /\ Sends(b.key, b.base \cup b.found)
    /\ Delivery(<<"worker", s>>, b, b.base \cup b.found)
    /\ worker' = [worker EXCEPT ![s].pc = "sent"]
    /\ UNCHANGED <<mainKey, task, refresher, entry, slots, begun, merged>>

WorkerDone(s) ==
    LET b == worker[s] IN
    /\ \/ b.pc = "deliver" /\ ~Sends(b.key, b.base \cup b.found)
       \/ b.pc = "sent" /\ write[<<"worker", s>>] = Idle
    /\ WorkerEnds(s, b.found)
    /\ UNCHANGED <<mainKey, refresher, write, entry, tracker, begun, merged>>

\* A refresh takes a slot or does nothing.
RefreshSlot(s) ==
    LET b == refresher[s] IN
    /\ b.pc = "slot"
    /\ IF slots < MaxWorkers
       THEN slots' = slots + 1 /\ refresher' = [refresher EXCEPT ![s].pc = "search"]
       ELSE UNCHANGED slots /\ refresher' = [refresher EXCEPT ![s] = Idle]
    /\ UNCHANGED <<mainKey, task, worker, write, entry, tracker, begun, merged>>

\* What it finds is stored with the response that its search had seen.
RefreshFinds(s, found) ==
    LET b == refresher[s]
        all == found \cup b.snap
    IN
    /\ b.pc = "search" /\ found # {}
    /\ entry' = [entry EXCEPT ![b.kw] = [results |-> all, complete |-> TRUE, age |-> "fresh"]]
    /\ refresher' = [refresher EXCEPT ![s].pc = "sent"]
    /\ IF Sends(b.key, all) THEN Delivery(<<"refresher", s>>, b, all)
       ELSE UNCHANGED <<tracker, write>>
    /\ UNCHANGED <<mainKey, task, worker, slots, begun, merged>>

RefreshDone(s) ==
    /\ \/ refresher[s].pc = "search" \* an error, or nothing found
       \/ refresher[s].pc = "sent" /\ write[<<"refresher", s>>] = Idle
    /\ refresher' = [refresher EXCEPT ![s] = Idle]
    /\ slots' = slots - 1
    /\ UNCHANGED <<mainKey, task, worker, write, entry, tracker, begun, merged>>

-----------------------------------------------------------------------------
(* The main cache: mergeAndStoreCachedSearch *)

\* The results are merged into the entry of the key, or an error leaves it as it is.
Merge(w) ==
    LET m == write[w] IN
    /\ m.pc = "merge"
    /\ \/ merged' = merged \cup {<<r[1], m.key, r[2]>> : r \in m.new}
       \/ UNCHANGED merged
    /\ write' = [write EXCEPT ![w] = Idle]
    /\ UNCHANGED <<mainKey, task, worker, refresher, entry, tracker, slots, begun>>

-----------------------------------------------------------------------------
(* The plugin's cache *)

\* A response gets older, and no one is in the middle of a store meanwhile.
Age(k) ==
    /\ entry[k].age \in {"fresh", "near"}
    /\ \A s \in Searches : task[s].pc # "touch" /\ worker[s].pc # "store"
    /\ entry' = [entry EXCEPT ![k].age = IF @ = "fresh" THEN "near" ELSE "expired"]
    /\ UNCHANGED <<mainKey, task, worker, refresher, write, tracker, slots, begun, merged>>

\* cleanupExpiredApiCache, whose threshold does not depend on the plugin's TTL.
Cleanup(k) ==
    /\ entry[k].age \in {"near", "expired"}
    /\ entry' = [entry EXCEPT ![k] = NoEntry]
    /\ UNCHANGED <<mainKey, task, worker, refresher, write, tracker, slots, begun, merged>>

-----------------------------------------------------------------------------
Next ==
    \/ \E s \in Searches :
          \/ \E k \in Keywords : \E seed \in SUBSET Kept(k) : Begin(s, k, seed)
          \/ SetMainCacheKey(s) \/ Enter(s) \/ RecordLoad(s) \/ RecordStore(s)
          \/ ResponseTimeout(s) \/ Aggregate(s)
          \/ WorkerSlot(s) \/ WorkerFails(s) \/ WorkerStores(s) \/ WorkerDelivers(s)
          \/ WorkerDone(s) \/ RefreshSlot(s) \/ RefreshDone(s)
          \/ \E found \in SUBSET Items : WorkerFinds(s, found) \/ RefreshFinds(s, found)
    \/ \E w \in Merges : Merge(w)
    \/ \E k \in Keywords : Age(k) \/ Cleanup(k)

Spec == Init /\ [][Next]_pluginVars

-----------------------------------------------------------------------------
(* Properties *)

\* Results are merged into the entry of the keyword that they were found for
\* (GeneratePluginCacheKey), so that the next search for it finds them there.
MergedUnderOwnKey == \A m \in merged : m[2] = m[1]
=============================================================================
