------------------------------- MODULE SyncJobs -------------------------------
(***************************************************************************)
(* What the synchronisation of API keyword sources promises, without       *)
(* workers, leases, iterations or failures: a source has at most one job   *)
(* waiting and at most one running, a job's result is applied at most      *)
(* once, and results are applied in the order the jobs were made, so that  *)
(* an older job never overwrites the result of a newer one.                *)
(***************************************************************************)
EXTENDS Integers

CONSTANTS Jobs, Sources

VARIABLES
    phase,  \* where each job is
    of      \* the source a job belongs to, meaningful once it exists

vars == <<phase, of>>

Phases == {"absent", "queued", "running", "applied", "dropped"}

InPhase(s, p) == {j \in Jobs : of[j] = s /\ phase[j] = p}

Init ==
    /\ phase = [j \in Jobs |-> "absent"]
    /\ of \in [Jobs -> Sources]

\* A new job j of s starts in phase p; a job that was waiting is dropped.
Create(j, s, p) ==
    /\ phase[j] = "absent"
    /\ p = "running" => InPhase(s, "running") = {}
    /\ phase' = [k \in Jobs |-> IF k = j THEN p
                                ELSE IF k \in InPhase(s, "queued") THEN "dropped"
                                ELSE phase[k]]
    /\ of' = [of EXCEPT ![j] = s]

Claim(j) ==
    /\ phase[j] = "queued" /\ InPhase(of[j], "running") = {}
    /\ phase' = [phase EXCEPT ![j] = "running"]
    /\ UNCHANGED of

Apply(j) ==
    /\ phase[j] = "running"
    /\ \A k \in InPhase(of[j], "applied") : k < j
    /\ phase' = [phase EXCEPT ![j] = "applied"]
    /\ UNCHANGED of

Drop(j) ==
    /\ phase[j] = "running"
    /\ phase' = [phase EXCEPT ![j] = "dropped"]
    /\ UNCHANGED of

Next ==
    \E j \in Jobs :
      \/ \E s \in Sources, p \in {"queued", "running"} : Create(j, s, p)
      \/ Claim(j) \/ Apply(j) \/ Drop(j)

Spec == Init /\ [][Next]_vars
=============================================================================
