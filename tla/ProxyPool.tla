------------------------------- MODULE ProxyPool -------------------------------
(***************************************************************************)
(* The proxy pool (proxypool/service.go, proxypool/runtime_state.go) and   *)
(* its rows (storage/proxy_pool.go): requests lease nodes and report how it*)
(* went, Refresh rebuilds the nodes in memory from a listing that it reads *)
(* before it takes the lock, probes judge nodes on their own, outcomes are *)
(* written behind, and an administrator disables and deletes nodes.        *)
(*                                                                         *)
(* Which failure reaches the threshold and how long the cooldown is are    *)
(* left open, and so is the selector's choice among the nodes that are     *)
(* available; sticky entries and the cooldowns of single targets only      *)
(* narrow that choice.                                                     *)
(***************************************************************************)
EXTENDS Integers, FiniteSets, Sequences

CONSTANTS
    Nodes,        \* proxy nodes
    Borrowers,    \* requests
    Refreshers,   \* concurrent calls of Refresh
    MaxPerNode,   \* leases of a node at once
    MaxCooldown,  \* the longest cooldown
    OutcomeQueue, \* capacity of the queue of outcomes
    MaxNow        \* bound: the last moment

VARIABLES
    stored,    \* the row of a node, or NoNode
    nodes,     \* s.nodes: the node in memory, or NoNode
    lease,     \* the node that a request has leased, or NoNode
    inUse,     \* s.inUse
    listing,   \* of a Refresh: the rows that it has read, or NoList
    probing,   \* the probe under way, or NoProbe
    outcomes,  \* the queue of outcomes
    now,       \* the clock
    barred     \* ghost: the end of the cooldown that a node in memory owes

proxyVars == <<stored, nodes, lease, inUse, listing, probing, outcomes, now, barred>>

NoNode  == [status |-> "absent"]
NoList  == [n \in {} |-> NoNode]
NoProbe == [node |-> NoNode, row |-> NoNode, recorded |-> "no"]

Leases(n) == {b \in Borrowers : lease[b] = n}

Init ==
    /\ stored = [n \in Nodes |-> [status |-> "healthy", enabled |-> TRUE, until |-> 0]]
    /\ nodes = [n \in Nodes |-> NoNode]
    /\ lease = [b \in Borrowers |-> NoNode]
    /\ inUse = 0
    /\ listing = [f \in Refreshers |-> NoList]
    /\ probing = NoProbe
    /\ outcomes = <<>> /\ now = 0
    /\ barred = [n \in Nodes |-> 0]

-----------------------------------------------------------------------------
(* Refresh *)

\* ListRuntimeProxyNodes, before the lock; the listing remembers the moment.
ListNodes(f) ==
    /\ listing[f] = NoList
    /\ LET usable == {n \in Nodes : stored[n] # NoNode /\ stored[n].enabled
                                     /\ stored[n].status \in {"healthy", "cooling"}}
       IN  listing' = [listing EXCEPT ![f] = [at |-> now, rows |-> [n \in usable |-> stored[n]]]]
    /\ UNCHANGED <<stored, nodes, lease, inUse, probing, outcomes, now, barred>>

\* Mutant: the rebuilt node takes the cooldown of the listing.
RebuiltFromListing(n, list) ==
    IF n \in DOMAIN list.rows
    THEN [status |-> list.rows[n].status, enabled |-> TRUE, until |-> list.rows[n].until,
          inflight |-> IF nodes[n] = NoNode THEN 0 ELSE nodes[n].inflight]
    ELSE IF nodes[n] # NoNode /\ nodes[n].inflight > 0
    THEN [nodes[n] EXCEPT !.status = "cooling"]
    ELSE NoNode

\* Mutant: a node that is not listed is forgotten although it is leased.
RebuiltListedOnly(n, list) ==
    IF n \notin DOMAIN list.rows THEN NoNode
    ELSE LET old == nodes[n]
             cools == old # NoNode /\ old.until > list.at
         IN  [status   |-> IF cools THEN old.status ELSE list.rows[n].status,
              enabled  |-> TRUE,
              until    |-> IF cools THEN old.until ELSE list.rows[n].until,
              inflight |-> IF old = NoNode THEN 0 ELSE old.inflight]

\* The node after a Refresh: leases and a cooldown that has not ended are taken
\* from the node in memory; one that is leased stays although it is not listed.
Rebuilt(n, list) ==
    LET old == nodes[n]
        cools == old # NoNode /\ old.until > list.at
    IN  IF n \in DOMAIN list.rows
        THEN [status   |-> IF cools THEN old.status ELSE list.rows[n].status,
              enabled  |-> TRUE,
              until    |-> IF cools THEN old.until ELSE list.rows[n].until,
              inflight |-> IF old = NoNode THEN 0 ELSE old.inflight]
        ELSE IF old # NoNode /\ old.inflight > 0
        THEN [old EXCEPT !.status = "cooling"]
        ELSE NoNode

Refresh(f) ==
    /\ listing[f] # NoList
    /\ nodes' = [n \in Nodes |-> Rebuilt(n, listing[f])]
    /\ listing' = [listing EXCEPT ![f] = NoList]
    /\ barred' = [n \in Nodes |-> IF nodes'[n] = NoNode THEN 0 ELSE barred[n]]
    /\ UNCHANGED <<stored, lease, inUse, probing, outcomes, now>>

-----------------------------------------------------------------------------
(* Leases *)

\* proxyAvailableLocked.
Available(n) ==
    /\ nodes[n] # NoNode
    /\ nodes[n].enabled /\ nodes[n].inflight < MaxPerNode
    /\ nodes[n].status \in {"healthy", "cooling"}
    /\ nodes[n].until <= now
    /\ nodes[n].status = "cooling" => nodes[n].until > 0

Acquire(b, n) ==
    /\ lease[b] = NoNode /\ Available(n)
    /\ lease' = [lease EXCEPT ![b] = n]
    /\ nodes' = [nodes EXCEPT ![n].inflight = @ + 1]
    /\ inUse' = inUse + 1
    /\ UNCHANGED <<stored, listing, probing, outcomes, now, barred>>

\* nextFailureState: a cooldown that runs is kept; 0 is none.
NextCooldowns(until) == IF until > now THEN {until} ELSE {0} \cup (now + 1 .. now + MaxCooldown)

\* RecordProxyOutcome.
Outcome(n, w, o) ==
    IF w = NoNode THEN w
    ELSE IF o.success THEN [w EXCEPT !.status = "healthy", !.until = 0]
    ELSE [w EXCEPT !.status = IF o.until = 0 THEN @ ELSE "cooling", !.until = o.until]

\* enqueueOutcome: one that finds the queue full is written at once, or lost.
Enqueue(o) ==
    IF Len(outcomes) < OutcomeQueue
    THEN outcomes' = Append(outcomes, o) /\ UNCHANGED stored
    ELSE /\ \/ stored' = [stored EXCEPT ![o.node] = Outcome(o.node, @, o)]
            \/ UNCHANGED stored
         /\ UNCHANGED outcomes

\* completeLease, for a success or a failure of the node.
CompleteLease(b) ==
    LET n == lease[b]
        released == [nodes[n] EXCEPT !.inflight = IF @ > 0 THEN @ - 1 ELSE 0]
    IN
    /\ n # NoNode
    /\ lease' = [lease EXCEPT ![b] = NoNode]
    /\ inUse' = IF inUse > 0 THEN inUse - 1 ELSE 0
    /\ \/ /\ nodes[n] = NoNode
          /\ \E s \in BOOLEAN : Enqueue([node |-> n, success |-> s, until |-> 0])
          /\ UNCHANGED <<nodes, barred>>
       \/ /\ nodes[n] # NoNode
          /\ nodes' = [nodes EXCEPT ![n] = [released EXCEPT !.status = "healthy", !.until = 0]]
          /\ barred' = [barred EXCEPT ![n] = 0]
          /\ Enqueue([node |-> n, success |-> TRUE, until |-> 0])
       \/ /\ nodes[n] # NoNode
          /\ \E t \in NextCooldowns(nodes[n].until) :
               /\ nodes' = [nodes EXCEPT ![n] =
                              [released EXCEPT !.status = IF t = 0 THEN @ ELSE "cooling",
                                               !.until = t]]
               /\ barred' = [barred EXCEPT ![n] = t]
               /\ Enqueue([node |-> n, success |-> FALSE, until |-> t])
       \/ \* the target failed, or the outcome does not count
          /\ nodes[n] # NoNode
          /\ nodes' = [nodes EXCEPT ![n] = released]
          /\ UNCHANGED <<barred, stored, outcomes>>
    /\ UNCHANGED <<listing, probing, now>>

\* outcomeLoop writes the next outcome, or gives it up after its retries.
PersistOutcome ==
    /\ outcomes # <<>>
    /\ outcomes' = Tail(outcomes)
    /\ LET o == Head(outcomes) IN
       \/ stored' = [stored EXCEPT ![o.node] = Outcome(o.node, @, o)]
       \/ UNCHANGED stored
    /\ UNCHANGED <<nodes, lease, inUse, listing, probing, now, barred>>

-----------------------------------------------------------------------------
(* Probes *)

\* ListProxyProbeCandidates.
ProbeNode(n) ==
    /\ probing = NoProbe
    /\ stored[n] # NoNode /\ stored[n].enabled
    /\ stored[n].status \in {"pending", "healthy", "cooling"}
    /\ stored[n].status = "cooling" => stored[n].until <= now
    /\ probing' = [node |-> n, row |-> stored[n], recorded |-> "no"]
    /\ UNCHANGED <<stored, nodes, lease, inUse, listing, outcomes, now, barred>>

\* RecordProxyProbe, before the node in memory is touched; an error ends it.
RecordProbe ==
    /\ probing # NoProbe /\ probing.recorded = "no"
    /\ \/ probing' = NoProbe /\ UNCHANGED stored
       \/ LET n == probing.node
              w == stored[n]
          IN
          \E success \in BOOLEAN, t \in NextCooldowns(probing.row.until) :
            /\ probing' = [probing EXCEPT !.recorded = IF success THEN "alive" ELSE "dead"]
            /\ stored' = [stored EXCEPT ![n] =
                 IF w = NoNode THEN w
                 ELSE IF success THEN [w EXCEPT !.status = "healthy", !.until = 0]
                 ELSE [w EXCEPT !.status = IF t = 0 THEN "pending" ELSE "cooling", !.until = t]]
    /\ UNCHANGED <<nodes, lease, inUse, listing, outcomes, now, barred>>

\* The rest of recordProbeResult, under the lock: a node that is alive is put
\* into memory as the probe knew it, a dead one that nobody leases is removed.
ProbeResult ==
    LET n == probing.node
        old == nodes[n]
    IN
    /\ probing.recorded \in {"alive", "dead"}
    /\ probing' = NoProbe
    /\ \/ /\ probing.recorded = "alive"
          /\ nodes' = [nodes EXCEPT ![n] =
               [status |-> "healthy", enabled |-> probing.row.enabled, until |-> 0,
                inflight |-> IF old = NoNode THEN 0 ELSE old.inflight]]
       \/ /\ probing.recorded = "dead"
          /\ nodes' = [nodes EXCEPT ![n] =
               IF old # NoNode /\ old.inflight > 0 THEN [old EXCEPT !.status = "cooling"]
               ELSE NoNode]
    /\ barred' = [barred EXCEPT ![n] =
                    IF probing.recorded = "alive" \/ nodes'[n] = NoNode THEN 0 ELSE @]
    /\ UNCHANGED <<stored, lease, inUse, listing, outcomes, now>>

-----------------------------------------------------------------------------
\* SetNodeEnabled and DeleteNode write the row; the Refresh they call may come
\* at any time, and its errors are ignored.
SetEnabled(n, on) ==
    /\ stored[n] # NoNode /\ stored[n].enabled # on
    /\ stored' = [stored EXCEPT ![n].enabled = on,
                                ![n].status = IF on THEN "pending" ELSE "disabled"]
    /\ UNCHANGED <<nodes, lease, inUse, listing, probing, outcomes, now, barred>>

DeleteNode(n) ==
    /\ stored[n] # NoNode
    /\ stored' = [stored EXCEPT ![n] = NoNode]
    /\ UNCHANGED <<nodes, lease, inUse, listing, probing, outcomes, now, barred>>

Tick ==
    /\ now < MaxNow /\ now' = now + 1
    /\ UNCHANGED <<stored, nodes, lease, inUse, listing, probing, outcomes, barred>>

Next ==
    \/ \E f \in Refreshers : ListNodes(f) \/ Refresh(f)
    \/ \E b \in Borrowers : CompleteLease(b) \/ \E n \in Nodes : Acquire(b, n)
    \/ PersistOutcome \/ RecordProbe \/ ProbeResult \/ Tick
    \/ \E n \in Nodes : ProbeNode(n) \/ DeleteNode(n) \/ \E on \in BOOLEAN : SetEnabled(n, on)

-----------------------------------------------------------------------------
(* Properties *)

\* The count of leases survives every rebuild: a node in memory counts exactly
\* the requests that use it, which are never more than the limit, no request
\* uses a node that memory has lost, and the total is right.
InflightExact ==
    /\ \A n \in Nodes :
         IF nodes[n] = NoNode THEN Leases(n) = {}
         ELSE nodes[n].inflight = Cardinality(Leases(n)) /\ nodes[n].inflight <= MaxPerNode
    /\ inUse = Cardinality({b \in Borrowers : lease[b] # NoNode})

\* A cooldown is served: as long as the node stays in memory, no Refresh from a
\* listing read before the failure hands it out again before its cooldown ends.
CooldownServed == \A n \in Nodes : barred[n] > now => ~Available(n)
=============================================================================
