----------------------------- MODULE ResourceChecks -----------------------------
(***************************************************************************)
(* The check status of stored resources (storage/resources.go): results of *)
(* link checks are written in batches that the queue of LinkCheckQueue has *)
(* collected, a negative result first becomes a candidate and is confirmed *)
(* by another one at least an hour later, and retention deletes resources  *)
(* whose status is negative (storage/resource_retention.go).  The queue    *)
(* holds at most one check of a resource, which LinkCheckQueue shows.      *)
(*                                                                         *)
(* Of the nine statuses four stand for their classes: "pending" and        *)
(* "valid" need a confirmation, "invalid" is a definitive negative, and    *)
(* "unsupported" is neither: a negative result after it counts at once.    *)
(***************************************************************************)
EXTENDS Integers

CONSTANTS
    Stored,      \* resources in the library
    Hour,        \* the confirmation delay
    Interval,    \* the interval of the link check policy
    MaxTime      \* bound: the last moment

VARIABLES
    row,         \* of a resource: its check columns, or Deleted
    probed,      \* results of checks that are not written yet
    time,        \* the clock
    evidence,    \* ghost: the times of the negative results written since another one
    excused      \* ghost: the resources of which that other one was "unsupported"

checkVars == <<row, probed, time, evidence, excused>>

Deleted == [status |-> "deleted"]
Never   == -1

\* definitiveNegativeCheckStatus.
Negative(status) == status = "invalid"

\* checkStatusNeedsNegativeConfirmation.
NeedsConfirmation(status) == status \in {"pending", "valid"}

Exists(r) == row[r] # Deleted

Init ==
    /\ row = [r \in Stored |-> [status |-> "pending", candidate |-> FALSE,
                                candidateAt |-> Never, checkedAt |-> Never]]
    /\ probed = {} /\ time = 0
    /\ evidence = [r \in Stored |-> {}] /\ excused = {}

-----------------------------------------------------------------------------
\* resourcesDueForCheckWhere, with every status in the policy.
Due(r) ==
    LET w == row[r] IN
    \/ w.status = "pending" /\ ~w.candidate
    \/ w.candidate /\ w.candidateAt <= time - Hour
    \/ ~w.candidate /\ w.checkedAt <= time - Interval

\* A due resource is checked.
Probe(r) ==
    /\ Exists(r) /\ Due(r) /\ \A p \in probed : p.res # r
    /\ \E s \in {"valid", "invalid", "unsupported"} :
         probed' = probed \cup {[res |-> r, status |-> s, at |-> time]}
    /\ UNCHANGED <<row, time, evidence, excused>>

\* Mutant: another result than a negative one leaves the candidate.
KeepsCandidate(w, p) ==
    LET settled == [status |-> p.status, candidate |-> FALSE, candidateAt |-> Never,
                    checkedAt |-> p.at]
    IN  IF ~Negative(p.status) THEN [w EXCEPT !.status = p.status, !.checkedAt = p.at]
        ELSE IF ~NeedsConfirmation(w.status) THEN settled
        ELSE IF w.candidate /\ p.at >= w.candidateAt + Hour THEN settled
        ELSE IF w.candidate THEN [w EXCEPT !.checkedAt = p.at]
        ELSE [w EXCEPT !.checkedAt = p.at, !.candidate = TRUE, !.candidateAt = p.at]

\* completeResourceCheckTx: the row after the result p.
Completed(w, p) ==
    LET settled == [status |-> p.status, candidate |-> FALSE, candidateAt |-> Never,
                    checkedAt |-> p.at]
    IN  IF ~Negative(p.status) \/ ~NeedsConfirmation(w.status) THEN settled
        ELSE IF w.candidate /\ p.at >= w.candidateAt + Hour THEN settled
        ELSE IF w.candidate THEN [w EXCEPT !.checkedAt = p.at]
        ELSE [w EXCEPT !.checkedAt = p.at, !.candidate = TRUE, !.candidateAt = p.at]

\* CompleteResourceChecks: one missing resource rolls the whole batch back, and
\* the queue does not write it again; neither when the database fails.
Complete ==
    \E batch \in (SUBSET probed) \ {{}} :
      /\ probed' = probed \ batch
      /\ \/ UNCHANGED <<row, evidence, excused>>
         \/ /\ \A p \in batch : Exists(p.res)
            /\ LET Of(r) == CHOOSE p \in batch : p.res = r
                   hit   == {p.res : p \in batch}
               IN
               /\ row' = [r \in Stored |-> IF r \in hit THEN Completed(row[r], Of(r)) ELSE row[r]]
               /\ evidence' = [r \in Stored |->
                    IF r \notin hit THEN evidence[r]
                    ELSE IF Negative(Of(r).status) THEN evidence[r] \cup {Of(r).at} ELSE {}]
               /\ excused' = {r \in Stored :
                    IF r \in hit /\ ~Negative(Of(r).status) THEN Of(r).status = "unsupported"
                    ELSE r \in excused}
      /\ UNCHANGED time

\* DeleteTerminalResources: rows that are locked are skipped.
Retention ==
    \E doomed \in SUBSET {r \in Stored : Negative(row[r].status)} \ {{}} :
      /\ row' = [r \in Stored |-> IF r \in doomed THEN Deleted ELSE row[r]]
      /\ UNCHANGED <<probed, time, evidence, excused>>

Tick == time < MaxTime /\ time' = time + 1 /\ UNCHANGED <<row, probed, evidence, excused>>

Next ==
    \/ \E r \in Stored : Probe(r)
    \/ Complete \/ Retention \/ Tick

-----------------------------------------------------------------------------
(* Properties *)

\* A resource is shown as dead, and deleted, only on the word of two checks at
\* least an hour apart with no better result between them, however late the
\* results are written and whichever batches are rolled back; one check is enough
\* only after a result that said nothing about the link ("unsupported").
NegativeIsConfirmed ==
    \A r \in Stored : row[r].status \in {"invalid", "deleted"} =>
        \/ \E first, last \in evidence[r] : last - first >= Hour
        \/ r \in excused /\ evidence[r] # {}
=============================================================================
