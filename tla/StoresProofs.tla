----------------------------- MODULE StoresProofs -----------------------------
(***************************************************************************)
(* Proofs about the components of Stores, for any number of resources,     *)
(* credentials' writers, proxy nodes, requests, merges, readers and files. *)
(* Each component has an inductive invariant, preserved by its own steps;  *)
(* a step of another component leaves its variables alone.                 *)
(***************************************************************************)
EXTENDS Stores, Sequences, FiniteSetTheorems, TLAPS

-----------------------------------------------------------------------------
(* Resource checks *)

CheckRow == [status : {"pending", "valid", "unsupported", "invalid"}, candidate : BOOLEAN,
             candidateAt : Int, checkedAt : Int]

CheckResult == [res : Stored, status : {"valid", "unsupported", "invalid"}, at : Int]

\* A dead resource has the evidence it needs, given whether it is excused.
Confirmed(E, x) == (\E first, last \in E : last - first >= Hour) \/ (x /\ E # {})

\* A candidate is as old as a negative result that still counts, and a resource that
\* is shown as unsupported is excused.
CheckInv ==
    /\ row \in [Stored -> CheckRow \cup {Checks!Deleted}]
    /\ probed \subseteq CheckResult
    /\ time \in Int
    /\ evidence \in [Stored -> SUBSET Int]
    /\ \A r \in Stored : row[r] \in CheckRow /\ row[r].candidate
                           => row[r].candidateAt \in evidence[r]
    /\ \A r \in Stored : row[r].status = "unsupported" => r \in excused
    /\ NegativeIsConfirmed

LEMMA ChecksStart == Checks!Init => CheckInv
  BY DEF Checks!Init, Checks!Never, CheckInv, CheckRow, NegativeIsConfirmed, Checks!NegativeIsConfirmed

\* A row is the mark of a deleted one exactly when its status says so.
LEMMA RowOrDeleted ==
    /\ \A w \in CheckRow : w.status # "deleted" /\ w # Checks!Deleted
    /\ Checks!Deleted.status = "deleted"
  BY DEF CheckRow, Checks!Deleted

\* The evidence for a row after a result, and whether the row is excused.
EvidenceAfter(E, p) == IF Checks!Negative(p.status) THEN E \cup {p.at} ELSE {}
ExcusedAfter(x, p)  == IF ~Checks!Negative(p.status) THEN p.status = "unsupported" ELSE x

\* One result, written to one row, keeps what is said of the row.
LEMMA CompletedRow ==
    ASSUME NEW w \in CheckRow, NEW p \in CheckResult, NEW E \in SUBSET Int, NEW x \in BOOLEAN,
           w.candidate => w.candidateAt \in E,
           w.status = "unsupported" => x,
           w.status = "invalid" => Confirmed(E, x)
    PROVE  LET v == Checks!Completed(w, p)
               F == EvidenceAfter(E, p)
               y == ExcusedAfter(x, p)
           IN
           /\ v \in CheckRow
           /\ F \subseteq Int
           /\ v.candidate => v.candidateAt \in F
           /\ v.status = "unsupported" => y
           /\ v.status = "invalid" => Confirmed(F, y)
  <1> DEFINE v == Checks!Completed(w, p)
             F == EvidenceAfter(E, p)
             y == ExcusedAfter(x, p)
             settled == [status |-> p.status, candidate |-> FALSE,
                         candidateAt |-> Checks!Never, checkedAt |-> p.at]
  <1>0. settled \in CheckRow /\ settled.status = p.status /\ settled.candidate = FALSE
    BY DEF CheckRow, CheckResult, Checks!Never
  <1>1. F \subseteq Int
    BY DEF CheckResult, EvidenceAfter
  <1>2. CASE p.status # "invalid"
    BY <1>0, <1>1, <1>2 DEF Checks!Completed, Checks!Negative, EvidenceAfter, ExcusedAfter
  <1>3. CASE p.status = "invalid" /\ w.status \in {"invalid", "unsupported"}
    <2>1. v = settled /\ F = E \cup {p.at} /\ y = x
      BY <1>3 DEF Checks!Completed, Checks!Negative, Checks!NeedsConfirmation, EvidenceAfter, ExcusedAfter
    <2>2. Confirmed(F, y)
      BY <1>3, <2>1 DEF Confirmed
    <2> QED BY <1>0, <1>1, <1>3, <2>1, <2>2
  <1>4. CASE p.status = "invalid" /\ w.status \notin {"invalid", "unsupported"} /\ w.candidate
                /\ p.at >= w.candidateAt + Hour
    <2>1. v = settled /\ w.candidateAt \in F /\ p.at \in F
      BY <1>4 DEF Checks!Completed, Checks!Negative, EvidenceAfter
    <2>2. p.at - w.candidateAt >= Hour
      BY <1>4, StoresAssumption DEF CheckRow, CheckResult
    <2>3. Confirmed(F, y)
      BY <2>1, <2>2 DEF Confirmed
    <2> QED BY <1>0, <1>1, <1>4, <2>1, <2>3
  <1>5. CASE p.status = "invalid" /\ w.status \notin {"invalid", "unsupported"} /\ w.candidate
                /\ ~(p.at >= w.candidateAt + Hour)
    <2>0. Checks!NeedsConfirmation(w.status)
      BY <1>5 DEF CheckRow, Checks!NeedsConfirmation
    <2>1. v = [w EXCEPT !.checkedAt = p.at] /\ E \subseteq F
      BY <1>5, <2>0 DEF Checks!Completed, Checks!Negative, EvidenceAfter
    <2>2. v \in CheckRow /\ v.status = w.status /\ v.candidateAt = w.candidateAt
      BY <2>1 DEF CheckRow, CheckResult
    <2> QED BY <1>1, <1>5, <2>1, <2>2
  <1>6. CASE p.status = "invalid" /\ w.status \notin {"invalid", "unsupported"} /\ ~w.candidate
    <2>0. Checks!NeedsConfirmation(w.status)
      BY <1>6 DEF CheckRow, Checks!NeedsConfirmation
    <2>1. /\ v = [w EXCEPT !.checkedAt = p.at, !.candidate = TRUE, !.candidateAt = p.at]
          /\ p.at \in F
      BY <1>6, <2>0 DEF Checks!Completed, Checks!Negative, EvidenceAfter
    <2>2. v \in CheckRow /\ v.status = w.status /\ v.candidateAt = p.at
      BY <2>1 DEF CheckRow, CheckResult
    <2> QED BY <1>1, <1>6, <2>1, <2>2
  <1> QED BY <1>2, <1>3, <1>4, <1>5, <1>6 DEF CheckRow, CheckResult

\* The property, row by row.
LEMMA ConfirmedRows ==
    NegativeIsConfirmed <=>
      \A r \in Stored : row[r].status \in {"invalid", "deleted"} => Confirmed(evidence[r], r \in excused)
  BY DEF NegativeIsConfirmed, Checks!NegativeIsConfirmed, Confirmed

\* Every step of a resource's checks keeps the invariant.
LEMMA ChecksStep == CheckInv /\ Checks!Next => CheckInv'
  <1> SUFFICES ASSUME CheckInv, Checks!Next PROVE CheckInv'
    OBVIOUS
  <1> USE RowOrDeleted DEF CheckInv
  <1>1. ASSUME NEW r \in Stored, Checks!Probe(r) PROVE CheckInv'
    <2>1. probed' \subseteq CheckResult
      BY <1>1 DEF Checks!Probe, CheckResult
    <2> QED BY <1>1, <2>1 DEF Checks!Probe, NegativeIsConfirmed, Checks!NegativeIsConfirmed
  <1>2. CASE Checks!Complete
    <2>1. PICK batch \in (SUBSET probed) \ {{}} :
              /\ probed' = probed \ batch
              /\ \/ UNCHANGED <<row, evidence, excused>>
                 \/ /\ \A p \in batch : Checks!Exists(p.res)
                    /\ LET Of(r) == CHOOSE p \in batch : p.res = r
                           hit   == {p.res : p \in batch}
                       IN
                       /\ row' = [r \in Stored |-> IF r \in hit THEN Checks!Completed(row[r], Of(r))
                                                  ELSE row[r]]
                       /\ evidence' = [r \in Stored |->
                            IF r \notin hit THEN evidence[r]
                            ELSE IF Checks!Negative(Of(r).status) THEN evidence[r] \cup {Of(r).at}
                                 ELSE {}]
                       /\ excused' = {r \in Stored :
                            IF r \in hit /\ ~Checks!Negative(Of(r).status)
                            THEN Of(r).status = "unsupported" ELSE r \in excused}
              /\ UNCHANGED time
      BY <1>2 DEF Checks!Complete
    <2>2. CASE UNCHANGED <<row, evidence, excused>>
      BY <2>1, <2>2 DEF NegativeIsConfirmed, Checks!NegativeIsConfirmed
    <2>3. CASE ~UNCHANGED <<row, evidence, excused>>
      <3> DEFINE Of(r) == CHOOSE p \in batch : p.res = r
                 hit   == {p.res : p \in batch}
      <3>1. /\ \A p \in batch : Checks!Exists(p.res)
            /\ row' = [r \in Stored |-> IF r \in hit THEN Checks!Completed(row[r], Of(r)) ELSE row[r]]
            /\ evidence' = [r \in Stored |-> IF r \notin hit THEN evidence[r]
                                            ELSE EvidenceAfter(evidence[r], Of(r))]
            /\ excused' = {r \in Stored : IF r \in hit THEN ExcusedAfter(r \in excused, Of(r))
                                          ELSE r \in excused}
        BY <2>1, <2>3 DEF EvidenceAfter, ExcusedAfter
      <3>2. ASSUME NEW r \in Stored, r \in hit
            PROVE  /\ row'[r] \in CheckRow
                   /\ evidence'[r] \subseteq Int
                   /\ row'[r].candidate => row'[r].candidateAt \in evidence'[r]
                   /\ row'[r].status = "unsupported" => r \in excused'
                   /\ row'[r].status = "invalid" => Confirmed(evidence'[r], r \in excused')
        <4>1. Of(r) \in batch /\ Of(r).res = r
          BY <3>2
        <4>2. Of(r) \in CheckResult
          BY <2>1, <4>1
        <4>3. row[r] \in CheckRow
          BY <3>1, <4>1 DEF Checks!Exists
        <4>4. /\ row'[r] = Checks!Completed(row[r], Of(r))
              /\ evidence'[r] = EvidenceAfter(evidence[r], Of(r))
          BY <3>1, <3>2
        <4>5. (r \in excused') = ExcusedAfter(r \in excused, Of(r))
          BY <3>1, <3>2 DEF ExcusedAfter
        <4>6. evidence[r] \in SUBSET Int
          OBVIOUS
        <4>7. /\ row[r].candidate => row[r].candidateAt \in evidence[r]
              /\ row[r].status = "unsupported" => r \in excused
              /\ row[r].status = "invalid" => Confirmed(evidence[r], r \in excused)
          BY <4>3, ConfirmedRows
        <4> DEFINE x == r \in excused
        <4>8. x \in BOOLEAN
          OBVIOUS
        <4> HIDE DEF Of, hit, CheckInv, x
        <4>9. /\ row[r].status = "unsupported" => x
              /\ row[r].status = "invalid" => Confirmed(evidence[r], x)
              /\ (r \in excused') = ExcusedAfter(x, Of(r))
          BY <4>5, <4>7 DEF x
        <4> DEFINE v == Checks!Completed(row[r], Of(r))
                   F == EvidenceAfter(evidence[r], Of(r))
                   y == ExcusedAfter(x, Of(r))
        <4>10. /\ v \in CheckRow
               /\ F \subseteq Int
               /\ v.candidate => v.candidateAt \in F
               /\ v.status = "unsupported" => y
               /\ v.status = "invalid" => Confirmed(F, y)
          BY <4>2, <4>3, <4>6, <4>7, <4>8, <4>9, CompletedRow
        <4>11. row'[r] = v /\ evidence'[r] = F
          BY <4>4
        <4>12. (r \in excused') = y
          BY <4>9
        <4> HIDE DEF v, F, y
        <4>13. Confirmed(F, y) => Confirmed(F, r \in excused')
          BY <4>12 DEF Confirmed
        <4> QED BY <4>10, <4>11, <4>12, <4>13
      <3>3. ASSUME NEW r \in Stored, r \notin hit
            PROVE  row'[r] = row[r] /\ evidence'[r] = evidence[r] /\ (r \in excused' <=> r \in excused)
        BY <3>1, <3>3
      <3>4. row' \in [Stored -> CheckRow \cup {Checks!Deleted}]
        <4>1. DOMAIN row' = Stored /\ row' = [r \in Stored |-> row'[r]]
          BY <3>1
        <4>2. \A r \in Stored : row'[r] \in CheckRow \cup {Checks!Deleted}
          BY <3>2, <3>3
        <4> QED BY <4>1, <4>2
      <3>5. evidence' \in [Stored -> SUBSET Int]
        <4>1. evidence' = [r \in Stored |-> evidence'[r]]
          BY <3>1
        <4>2. \A r \in Stored : evidence'[r] \in SUBSET Int
          BY <3>2, <3>3
        <4> QED BY <4>1, <4>2
      <3>6. \A r \in Stored : row'[r] \in CheckRow /\ row'[r].candidate
                               => row'[r].candidateAt \in evidence'[r]
        BY <3>2, <3>3
      <3>7. \A r \in Stored : row'[r].status = "unsupported" => r \in excused'
        BY <3>2, <3>3
      <3>8. \A r \in Stored : row'[r].status \in {"invalid", "deleted"} =>
                               Confirmed(evidence'[r], r \in excused')
        <4> TAKE r \in Stored
        <4>1. CASE r \in hit
          BY <3>2, <4>1
        <4>2. CASE r \notin hit
          BY <3>3, <4>2, ConfirmedRows DEF Confirmed
        <4> QED BY <4>1, <4>2
      <3>9. NegativeIsConfirmed'
        BY <3>8 DEF NegativeIsConfirmed, Checks!NegativeIsConfirmed, Confirmed
      <3> QED BY <2>1, <3>4, <3>5, <3>6, <3>7, <3>9
    <2> QED BY <2>2, <2>3
  <1>3. CASE Checks!Retention
    <2>1. PICK doomed \in SUBSET {r \in Stored : Checks!Negative(row[r].status)} \ {{}} :
              /\ row' = [r \in Stored |-> IF r \in doomed THEN Checks!Deleted ELSE row[r]]
              /\ UNCHANGED <<probed, time, evidence, excused>>
      BY <1>3 DEF Checks!Retention
    <2>2. \A r \in doomed : row[r].status = "invalid"
      BY DEF Checks!Negative
    <2> QED BY <2>1, <2>2 DEF NegativeIsConfirmed, Checks!NegativeIsConfirmed
  <1>4. CASE Checks!Tick
    BY <1>4 DEF Checks!Tick, NegativeIsConfirmed, Checks!NegativeIsConfirmed
  <1> QED BY <1>1, <1>2, <1>3, <1>4 DEF Checks!Next

\* A resource is called dead, or deleted by the retention, only after two negative
\* results an hour or more apart with no better one between them, or after one that
\* follows an "unsupported", for every delay and however the batches of
\* CompleteResourceChecks are formed, delayed or rolled back.
THEOREM DeadIsConfirmed == StoresSpec => []NegativeIsConfirmed
  <1>1. StoresInit => CheckInv
    BY ChecksStart DEF StoresInit
  <1>2. CheckInv /\ [StoresNext]_storeVars => CheckInv'
    <2> SUFFICES ASSUME CheckInv, [StoresNext]_storeVars PROVE CheckInv'
      OBVIOUS
    <2>1. Checks!Next \/ UNCHANGED checkVars
      BY DEF StoresNext, storeVars
    <2>2. CASE UNCHANGED checkVars
      BY <2>2 DEF checkVars, CheckInv, NegativeIsConfirmed, Checks!NegativeIsConfirmed
    <2> QED BY <2>1, <2>2, ChecksStep
  <1>3. CheckInv => NegativeIsConfirmed
    BY DEF CheckInv
  <1> QED BY <1>1, <1>2, <1>3, PTL DEF StoresSpec

-----------------------------------------------------------------------------
(* Credentials *)

CredentialRow == [revision : Nat \ {0}, scope : Scopes, secret : Nat, label : Nat,
                  status : {"active", "invalid"}]

Call == [kind : {"refresh", "replace", "scope", "metadata"}, secret : Nat, attempt : {1, 2},
         read : CredentialRow \cup {Creds!Gone}]

\* The part of a row that calls change on purpose.
Same(a, b) == a.scope = b.scope /\ a.secret = b.secret /\ a.label = b.label

\* What a call has read is no newer than the row, and is the row where the revisions
\* agree, up to the status, which is written without a new revision.
CredentialInv ==
    /\ cred \in CredentialRow \cup {Creds!Gone}
    /\ op \in [Writers -> Call \cup {Creds!Idle}]
    /\ logins \in Nat
    /\ NoUpdateLost
    /\ \A w \in Writers : op[w] \in Call /\ op[w].read \in CredentialRow /\ cred \in CredentialRow =>
         /\ op[w].read.revision <= cred.revision
         /\ op[w].read.revision = cred.revision => Same(op[w].read, cred)

LEMMA CredentialKinds ==
    /\ \A c \in CredentialRow : c # Creds!Gone
    /\ \A c \in Call : c # Creds!Idle
  BY DEF CredentialRow, Creds!Gone, Call, Creds!Idle

LEMMA CredentialsStart == Creds!Init => CredentialInv
  BY CredentialKinds
  DEF Creds!Init, CredentialInv, CredentialRow, NoUpdateLost, Creds!NoUpdateLost

\* The row that a call wants is a row.
LEMMA ReplacementRow ==
    ASSUME NEW w \in Writers, op[w] \in Call, op[w].read \in CredentialRow
    PROVE  Creds!Replacement(w) \in CredentialRow
  <1> DEFINE o == op[w]
  <1>1. CASE o.kind = "refresh"
    BY <1>1 DEF Creds!Replacement, CredentialRow, Call
  <1>2. CASE o.kind = "replace"
    BY <1>2 DEF Creds!Replacement, CredentialRow, Call
  <1>3. CASE o.kind = "scope"
    BY <1>3, StoresAssumption DEF Creds!Replacement, CredentialRow, Call
  <1>4. CASE o.kind = "metadata"
    BY <1>4 DEF Creds!Replacement, CredentialRow, Call
  <1> QED BY <1>1, <1>2, <1>3, <1>4 DEF Call

\* The row changes nothing but what the call intends, on top of what it has read.
LEMMA ReplacementIntended ==
    ASSUME NEW w \in Writers, op[w] \in Call, op[w].read \in CredentialRow,
           Same(op[w].read, intended)
    PROVE  Same(Creds!Replacement(w), Creds!Intends(w))
  <1> DEFINE o == op[w]
  <1>1. CASE o.kind = "refresh"
    BY <1>1 DEF Creds!Replacement, Creds!Intends, CredentialRow, Call, Same
  <1>2. CASE o.kind = "replace"
    BY <1>2 DEF Creds!Replacement, Creds!Intends, CredentialRow, Call, Same
  <1>3. CASE o.kind = "scope"
    BY <1>3 DEF Creds!Replacement, Creds!Intends, CredentialRow, Call, Same
  <1>4. CASE o.kind = "metadata"
    BY <1>4 DEF Creds!Replacement, Creds!Intends, CredentialRow, Call, Same
  <1> QED BY <1>1, <1>2, <1>3, <1>4 DEF Call

\* A step that leaves the row alone and lets one call read it, or nothing, keeps the
\* invariant.
LEMMA CallMoves ==
    ASSUME CredentialInv, NEW w \in Writers, NEW c \in Call \cup {Creds!Idle},
           op' = [op EXCEPT ![w] = c], cred' = cred, intended' = intended, logins' \in Nat,
           c \in Call => c.read = Creds!Gone \/ c.read = cred
    PROVE  CredentialInv'
  <1>1. op' \in [Writers -> Call \cup {Creds!Idle}]
    BY DEF CredentialInv
  <1>2. NoUpdateLost'
    BY DEF CredentialInv, NoUpdateLost, Creds!NoUpdateLost
  <1>3. ASSUME NEW v \in Writers, op'[v] \in Call, op'[v].read \in CredentialRow,
               cred \in CredentialRow
        PROVE  /\ op'[v].read.revision <= cred.revision
               /\ op'[v].read.revision = cred.revision => Same(op'[v].read, cred)
    <2>1. CASE v = w
      <3>1. op'[v].read = cred
        BY <1>3, <2>1, CredentialKinds DEF CredentialInv
      <3>2. cred.revision \in Nat
        BY <1>3 DEF CredentialRow
      <3> QED BY <3>1, <3>2 DEF Same
    <2>2. CASE v # w
      BY <1>3, <2>2 DEF CredentialInv
    <2> QED BY <2>1, <2>2
  <1> QED BY <1>1, <1>2, <1>3 DEF CredentialInv

\* Every step of a credential keeps the invariant.
LEMMA CredentialsStep == CredentialInv /\ Creds!Next => CredentialInv'
  <1> SUFFICES ASSUME CredentialInv, Creds!Next PROVE CredentialInv'
    OBVIOUS
  <1>a. \A w \in Writers : op[w] # Creds!Idle => op[w] \in Call
    BY DEF CredentialInv
  <1>1. ASSUME NEW w \in Writers, NEW kind \in {"refresh", "replace"}, Creds!Login(w, kind)
        PROVE  CredentialInv'
    <2> DEFINE c == [kind |-> kind, secret |-> logins + 1, attempt |-> 1, read |-> Creds!Gone]
    <2>1. c \in Call /\ logins + 1 \in Nat /\ c.read = Creds!Gone
      BY DEF Call, CredentialInv
    <2>2. op' = [op EXCEPT ![w] = c] /\ cred' = cred /\ intended' = intended /\ logins' = logins + 1
      BY <1>1 DEF Creds!Login
    <2> HIDE DEF c
    <2> QED BY <2>1, <2>2, CallMoves
  <1>2. ASSUME NEW w \in Writers, NEW kind \in {"scope", "metadata"}, Creds!Edit(w, kind)
        PROVE  CredentialInv'
    <2> DEFINE c == [kind |-> kind, secret |-> 0, attempt |-> 1, read |-> Creds!Gone]
    <2>1. c \in Call /\ c.read = Creds!Gone
      BY DEF Call
    <2>2. op' = [op EXCEPT ![w] = c] /\ cred' = cred /\ intended' = intended /\ logins' \in Nat
      BY <1>2 DEF Creds!Edit, CredentialInv
    <2> HIDE DEF c
    <2> QED BY <2>1, <2>2, CallMoves
  <1>3. ASSUME NEW w \in Writers, Creds!Get(w) PROVE CredentialInv'
    <2> DEFINE c == IF cred = Creds!Gone THEN Creds!Idle ELSE [op[w] EXCEPT !.read = cred]
    <2>1. op[w] \in Call /\ cred \in CredentialRow \cup {Creds!Gone}
      BY <1>3, <1>a DEF Creds!Get, CredentialInv
    <2>2. c \in Call \cup {Creds!Idle}
      BY <2>1 DEF Call
    <2>3. c \in Call => c.read = cred
      BY <2>1, CredentialKinds DEF Call
    <2>4. op' = [op EXCEPT ![w] = c] /\ cred' = cred /\ intended' = intended /\ logins' \in Nat
      BY <1>3 DEF Creds!Get, CredentialInv
    <2> HIDE DEF c
    <2> QED BY <2>2, <2>3, <2>4, CallMoves
  <1>4. ASSUME NEW w \in Writers, Creds!ReplaceEnvelopeCAS(w) PROVE CredentialInv'
    <2> DEFINE o == op[w]
               new == Creds!Replacement(w)
    <2>1. o \in Call /\ o.read \in CredentialRow /\ cred \in CredentialRow
          /\ o.read.revision = cred.revision
      BY <1>4, <1>a, CredentialKinds DEF Creds!ReplaceEnvelopeCAS, Creds!MatchesRevision, CredentialInv, Call
    <2>2. Same(o.read, cred)
      BY <2>1 DEF CredentialInv
    <2>3. Same(cred, intended)
      BY <2>1, CredentialKinds DEF CredentialInv, NoUpdateLost, Creds!NoUpdateLost, Same
    <2>4. new \in CredentialRow
      BY <2>1, ReplacementRow
    <2>5. Same(new, Creds!Intends(w))
      BY <2>1, <2>2, <2>3, ReplacementIntended DEF Same
    <2>6. /\ cred' = [new EXCEPT !.revision = cred.revision + 1]
          /\ intended' = Creds!Intends(w)
          /\ op' = [op EXCEPT ![w] = Creds!Idle]
          /\ logins' = logins
      BY <1>4 DEF Creds!ReplaceEnvelopeCAS
    <2> HIDE DEF new, o
    <2>7. cred' \in CredentialRow /\ cred'.revision = cred.revision + 1 /\ Same(cred', new)
      BY <2>1, <2>4, <2>6 DEF CredentialRow, Same
    <2>8. NoUpdateLost'
      BY <2>5, <2>6, <2>7 DEF NoUpdateLost, Creds!NoUpdateLost, Same
    <2>9. ASSUME NEW v \in Writers, op'[v] \in Call, op'[v].read \in CredentialRow
          PROVE  op'[v].read.revision < cred'.revision
      <3>1. op'[v] = op[v]
        BY <2>6, <2>9, CredentialKinds DEF CredentialInv
      <3>2. op[v].read.revision <= cred.revision
        BY <2>1, <2>9, <3>1 DEF CredentialInv
      <3>3. op[v].read.revision \in Nat /\ cred.revision \in Nat
        BY <2>1, <2>9, <3>1 DEF CredentialRow
      <3> QED BY <2>7, <3>1, <3>2, <3>3
    <2>10. op' \in [Writers -> Call \cup {Creds!Idle}] /\ logins' \in Nat
      BY <2>6 DEF CredentialInv
    <2>11. \A v \in Writers : op'[v] \in Call /\ op'[v].read \in CredentialRow /\ cred' \in CredentialRow =>
             /\ op'[v].read.revision <= cred'.revision
             /\ op'[v].read.revision = cred'.revision => Same(op'[v].read, cred')
      BY <2>7, <2>9 DEF CredentialRow
    <2> QED BY <2>7, <2>8, <2>10, <2>11 DEF CredentialInv
  <1>5. ASSUME NEW w \in Writers, Creds!Conflict(w) PROVE CredentialInv'
    <2> DEFINE c == IF cred # Creds!Gone /\ op[w].kind = "refresh" /\ op[w].attempt < 2
                    THEN [op[w] EXCEPT !.attempt = 2, !.read = Creds!Gone] ELSE Creds!Idle
    <2>1. op[w] \in Call
      BY <1>5, <1>a DEF Creds!Conflict
    <2>2. c \in Call \cup {Creds!Idle}
      BY <2>1 DEF Call
    <2>3. c \in Call => c.read = Creds!Gone
      BY <2>1, CredentialKinds DEF Call
    <2>4. op' = [op EXCEPT ![w] = c] /\ cred' = cred /\ intended' = intended /\ logins' \in Nat
      BY <1>5 DEF Creds!Conflict, CredentialInv
    <2> HIDE DEF c
    <2> QED BY <2>2, <2>3, <2>4, CallMoves
  <1>6. ASSUME NEW st \in {"active", "invalid"}, Creds!RecordStatus(st) PROVE CredentialInv'
    <2>1. cred \in CredentialRow /\ cred' = [cred EXCEPT !.status = st]
      BY <1>6 DEF Creds!RecordStatus, CredentialInv
    <2>2. cred' \in CredentialRow /\ cred'.revision = cred.revision /\ Same(cred', cred)
      BY <2>1 DEF CredentialRow, Same
    <2> QED BY <1>6, <2>1, <2>2, CredentialKinds
            DEF Creds!RecordStatus, CredentialInv, NoUpdateLost, Creds!NoUpdateLost, Same
  <1>7. CASE Creds!DeleteCredential
    BY <1>7, CredentialKinds
    DEF Creds!DeleteCredential, CredentialInv, NoUpdateLost, Creds!NoUpdateLost
  <1> QED BY <1>1, <1>2, <1>3, <1>4, <1>5, <1>6, <1>7 DEF Creds!Next

\* No refresh, replacement or edit of a credential undoes what another one wrote in
\* between, for any number of concurrent calls: the compare-and-swap on the revision
\* is enough, although health checks and failures write the row without one.
THEOREM CompareAndSwapHolds == StoresSpec => []NoUpdateLost
  <1>1. StoresInit => CredentialInv
    BY CredentialsStart DEF StoresInit
  <1>2. CredentialInv /\ [StoresNext]_storeVars => CredentialInv'
    <2> SUFFICES ASSUME CredentialInv, [StoresNext]_storeVars PROVE CredentialInv'
      OBVIOUS
    <2>1. Creds!Next \/ UNCHANGED credVars
      BY DEF StoresNext, storeVars
    <2>2. CASE UNCHANGED credVars
      BY <2>2 DEF credVars, CredentialInv, NoUpdateLost, Creds!NoUpdateLost
    <2> QED BY <2>1, <2>2, CredentialsStep
  <1>3. CredentialInv => NoUpdateLost
    BY DEF CredentialInv
  <1> QED BY <1>1, <1>2, <1>3, PTL DEF StoresSpec

-----------------------------------------------------------------------------
(* The proxy pool *)

NodeStatus == {"pending", "healthy", "cooling", "disabled"}
NodeRow    == [status : NodeStatus, enabled : BOOLEAN, until : Nat]
PoolNode   == [status : NodeStatus, enabled : BOOLEAN, until : Nat, inflight : Nat]
Listing    == [at : Nat, rows : UNION {[U -> NodeRow] : U \in SUBSET Nodes}]
NodeProbe  == [node : Nodes, row : NodeRow, recorded : {"no", "alive", "dead"}]
NodeResult == [node : Nodes, success : BOOLEAN, until : Nat]

\* The rows, the listings and whatever is on its way to the rows.
RowsTyped ==
    /\ stored \in [Nodes -> NodeRow \cup {Pool!NoNode}]
    /\ listing \in [Refreshers -> Listing \cup {Pool!NoList}]
    /\ probing \in NodeProbe \cup {Pool!NoProbe}
    /\ outcomes \in Seq(NodeResult)
    /\ now \in Nat

\* The nodes in memory and the requests that use them.
NodesTyped ==
    /\ nodes \in [Nodes -> PoolNode \cup {Pool!NoNode}]
    /\ lease \in [Borrowers -> Nodes \cup {Pool!NoNode}]
    /\ inUse \in Nat
    /\ barred \in [Nodes -> Nat]

\* A node counts its leases.
Counted(n) ==
    IF nodes[n] = Pool!NoNode THEN Pool!Leases(n) = {}
    ELSE nodes[n].inflight = Cardinality(Pool!Leases(n)) /\ nodes[n].inflight <= MaxPerNode

\* A node that owes a cooldown is in memory, with the end of the cooldown.
Owes(n) ==
    barred[n] > now => nodes[n] # Pool!NoNode /\ nodes[n].until = barred[n]

InUse == {b \in Borrowers : lease[b] # Pool!NoNode}

\* No listing is from the future: a Refresh keeps every cooldown that still runs.
ListingsPast ==
    \A f \in Refreshers : listing[f] # Pool!NoList => listing[f].at <= now

PoolInv ==
    /\ RowsTyped /\ NodesTyped /\ ListingsPast
    /\ \A n \in Nodes : Counted(n) /\ Owes(n)
    /\ inUse = Cardinality(InUse)

LEMMA NodeOrNone ==
    /\ \A w \in NodeRow \cup PoolNode : w # Pool!NoNode
    /\ \A n \in Nodes : n # Pool!NoNode
    /\ Pool!NoProbe.recorded = "no"
  BY StoresAssumption DEF NodeRow, PoolNode, NodeStatus, Pool!NoNode, Pool!NoProbe

\* The pool counts with the operator of FiniteSets.
LEMMA PoolCardinality == \A S : Pool!Cardinality(S) = Cardinality(S)
  BY DEF Pool!Cardinality, Cardinality

LEMMA PoolMeans == PoolInv => InflightExact /\ CooldownServed
  <1> SUFFICES ASSUME PoolInv PROVE InflightExact /\ CooldownServed
    OBVIOUS
  <1>1. InflightExact
    BY PoolCardinality DEF PoolInv, InflightExact, Pool!InflightExact, Counted, InUse
  <1>2. ASSUME NEW n \in Nodes, barred[n] > now PROVE ~Pool!Available(n)
    <2>1. barred[n] \in Nat /\ now \in Nat
      BY DEF PoolInv, RowsTyped, NodesTyped
    <2> QED BY <1>2, <2>1 DEF PoolInv, Owes, Pool!Available
  <1> QED BY <1>1, <1>2 DEF CooldownServed, Pool!CooldownServed

LEMMA PoolStarts == Pool!Init => PoolInv
  <1> SUFFICES ASSUME Pool!Init PROVE PoolInv
    OBVIOUS
  <1>1. RowsTyped
    BY DEF Pool!Init, RowsTyped, NodeRow, NodeStatus
  <1>2. NodesTyped
    BY DEF Pool!Init, NodesTyped
  <1>3. ListingsPast
    BY DEF Pool!Init, ListingsPast
  <1>4. \A n \in Nodes : Counted(n) /\ Owes(n)
    BY NodeOrNone DEF Pool!Init, Counted, Owes, Pool!Leases
  <1>5. InUse = {}
    BY DEF Pool!Init, InUse
  <1> QED BY <1>1, <1>2, <1>3, <1>4, <1>5, FS_EmptySet DEF PoolInv, Pool!Init

\* Requests are finitely many.
LEMMA LeasesFinite ==
    /\ \A n : IsFiniteSet(Pool!Leases(n)) /\ Cardinality(Pool!Leases(n)) \in Nat
    /\ IsFiniteSet(InUse) /\ Cardinality(InUse) \in Nat
  BY StoresAssumption, FS_Subset, FS_CardinalityType DEF Pool!Leases, InUse

\* A request that leases a node joins the ones that use it.
LEMMA LeaseTaken ==
    ASSUME NodesTyped, NEW b \in Borrowers, NEW n \in Nodes, lease[b] = Pool!NoNode,
           lease' = [lease EXCEPT ![b] = n]
    PROVE  /\ Cardinality(Pool!Leases(n)') = Cardinality(Pool!Leases(n)) + 1
           /\ \A m \in Nodes \ {n} : Pool!Leases(m)' = Pool!Leases(m)
           /\ Cardinality(InUse') = Cardinality(InUse) + 1
  <1>1. Pool!Leases(n)' = Pool!Leases(n) \cup {b} /\ b \notin Pool!Leases(n)
    BY NodeOrNone DEF Pool!Leases, NodesTyped
  <1>2. InUse' = InUse \cup {b} /\ b \notin InUse
    BY NodeOrNone DEF InUse, NodesTyped
  <1>3. \A m \in Nodes \ {n} : Pool!Leases(m)' = Pool!Leases(m)
    BY NodeOrNone DEF Pool!Leases, NodesTyped
  <1> QED BY <1>1, <1>2, <1>3, LeasesFinite, FS_AddElement

\* A request that gives its node back leaves them.
LEMMA LeaseReturned ==
    ASSUME NodesTyped, NEW b \in Borrowers, NEW n \in Nodes, lease[b] = n,
           lease' = [lease EXCEPT ![b] = Pool!NoNode]
    PROVE  /\ Cardinality(Pool!Leases(n)') = Cardinality(Pool!Leases(n)) - 1
           /\ Pool!Leases(n) # {} /\ Cardinality(Pool!Leases(n)) > 0
           /\ \A m \in Nodes \ {n} : Pool!Leases(m)' = Pool!Leases(m)
           /\ Cardinality(InUse') = Cardinality(InUse) - 1 /\ Cardinality(InUse) > 0
  <1>1. Pool!Leases(n)' = Pool!Leases(n) \ {b} /\ b \in Pool!Leases(n)
    BY NodeOrNone DEF Pool!Leases, NodesTyped
  <1>2. InUse' = InUse \ {b} /\ b \in InUse
    BY NodeOrNone DEF InUse, NodesTyped
  <1>3. \A m \in Nodes \ {n} : Pool!Leases(m)' = Pool!Leases(m)
    BY NodeOrNone DEF Pool!Leases, NodesTyped
  <1>4. Cardinality(Pool!Leases(n)) # 0 /\ Cardinality(InUse) # 0
    BY <1>1, <1>2, LeasesFinite, FS_EmptySet
  <1>5. Cardinality(Pool!Leases(n)') = Cardinality(Pool!Leases(n)) - 1
    BY <1>1, LeasesFinite, FS_RemoveElement
  <1>6. Cardinality(InUse') = Cardinality(InUse) - 1
    BY <1>2, LeasesFinite, FS_RemoveElement
  <1> QED BY <1>1, <1>3, <1>4, <1>5, <1>6, LeasesFinite

\* A row stays a row under an outcome, whichever it is.
LEMMA OutcomeRow ==
    ASSUME NEW n, NEW w \in NodeRow \cup {Pool!NoNode}, NEW o \in NodeResult
    PROVE  Pool!Outcome(n, w, o) \in NodeRow \cup {Pool!NoNode}
  <1>1. CASE w = Pool!NoNode
    BY <1>1 DEF Pool!Outcome
  <1>2. CASE w \in NodeRow /\ o.success
    BY <1>2, NodeOrNone DEF Pool!Outcome, NodeRow, NodeStatus
  <1>3. CASE w \in NodeRow /\ ~o.success
    BY <1>3, NodeOrNone DEF Pool!Outcome, NodeRow, NodeStatus, NodeResult
  <1> QED BY <1>1, <1>2, <1>3

\* An outcome is queued, written or lost.
LEMMA EnqueueTyped ==
    ASSUME RowsTyped, NEW o \in NodeResult, Pool!Enqueue(o),
           listing' = listing, probing' = probing, now' = now
    PROVE  RowsTyped'
  <1>1. outcomes' \in Seq(NodeResult)
    BY DEF Pool!Enqueue, RowsTyped
  <1>2. stored' \in [Nodes -> NodeRow \cup {Pool!NoNode}]
    <2>1. o.node \in Nodes
      BY DEF NodeResult
    <2>2. Pool!Outcome(o.node, stored[o.node], o) \in NodeRow \cup {Pool!NoNode}
      BY <2>1, OutcomeRow DEF RowsTyped
    <2> QED BY <2>1, <2>2 DEF Pool!Enqueue, RowsTyped
  <1> QED BY <1>1, <1>2 DEF RowsTyped

\* A cooldown that a failure leaves is one that runs, or ends later, or none.
LEMMA CooldownTyped ==
    ASSUME now \in Nat, NEW until \in Nat, NEW t \in Pool!NextCooldowns(until)
    PROVE  t \in Nat
  BY DEF Pool!NextCooldowns

\* The steps that touch neither the nodes in memory nor the leases.
LEMMA RowsStep ==
    ASSUME PoolInv, RowsTyped', ListingsPast', now' >= now,
           nodes' = nodes, lease' = lease, inUse' = inUse, barred' = barred
    PROVE  PoolInv'
  <1>1. now \in Nat /\ now' \in Nat
    BY DEF PoolInv, RowsTyped
  <1>2. NodesTyped'
    BY DEF PoolInv, NodesTyped
  <1>3. \A n \in Nodes : Counted(n)'
    BY DEF PoolInv, Counted, Pool!Leases
  <1>4. \A n \in Nodes : Owes(n)'
    BY <1>1 DEF PoolInv, Owes, NodesTyped
  <1>5. inUse' = Cardinality(InUse)'
    BY DEF PoolInv, InUse
  <1> QED BY <1>2, <1>3, <1>4, <1>5 DEF PoolInv

\* The steps that change one node in memory, and perhaps a lease of it.
LEMMA OneNode ==
    ASSUME PoolInv, RowsTyped', ListingsPast', now' = now,
           NEW n \in Nodes, NEW v \in PoolNode \cup {Pool!NoNode}, NEW e \in Nat,
           nodes' = [nodes EXCEPT ![n] = v], barred' = [barred EXCEPT ![n] = e],
           lease' \in [Borrowers -> Nodes \cup {Pool!NoNode}],
           \A m \in Nodes \ {n} : Pool!Leases(m)' = Pool!Leases(m),
           inUse' \in Nat, inUse' = Cardinality(InUse'),
           IF v = Pool!NoNode THEN Pool!Leases(n)' = {}
           ELSE v.inflight = Cardinality(Pool!Leases(n)') /\ v.inflight <= MaxPerNode,
           e > now => v # Pool!NoNode /\ v.until = e
    PROVE  PoolInv'
  <1>0. nodes \in [Nodes -> PoolNode \cup {Pool!NoNode}] /\ barred \in [Nodes -> Nat]
    BY DEF PoolInv, NodesTyped
  <1>1. NodesTyped'
    BY <1>0 DEF NodesTyped
  <1>2. ASSUME NEW m \in Nodes PROVE Counted(m)' /\ Owes(m)'
    <2>1. CASE m = n
      BY <1>0, <2>1 DEF Counted, Owes
    <2>2. CASE m # n
      <3>1. nodes'[m] = nodes[m] /\ barred'[m] = barred[m] /\ Pool!Leases(m)' = Pool!Leases(m)
        BY <1>0, <2>2
      <3> QED BY <3>1 DEF PoolInv, Counted, Owes
    <2> QED BY <2>1, <2>2
  <1> QED BY <1>1, <1>2 DEF PoolInv

\* A Refresh rebuilds a node from a listing of the past without losing a lease or
\* the end of a cooldown.
LEMMA RebuiltNode ==
    ASSUME PoolInv, NEW n \in Nodes, NEW list \in Listing, list.at <= now
    PROVE  LET v == Pool!Rebuilt(n, list) IN
           /\ v \in PoolNode \cup {Pool!NoNode}
           /\ IF v = Pool!NoNode THEN Pool!Leases(n) = {}
              ELSE v.inflight = Cardinality(Pool!Leases(n)) /\ v.inflight <= MaxPerNode
           /\ barred[n] > now /\ v # Pool!NoNode => v.until = barred[n]
  <1> DEFINE old == nodes[n]
             v == Pool!Rebuilt(n, list)
             cools == old # Pool!NoNode /\ old.until > list.at
  <1> SUFFICES /\ v \in PoolNode \cup {Pool!NoNode}
               /\ IF v = Pool!NoNode THEN Pool!Leases(n) = {}
                  ELSE v.inflight = Cardinality(Pool!Leases(n)) /\ v.inflight <= MaxPerNode
               /\ barred[n] > now /\ v # Pool!NoNode => v.until = barred[n]
    OBVIOUS
  <1>0. /\ old \in PoolNode \cup {Pool!NoNode} /\ barred[n] \in Nat /\ now \in Nat /\ list.at \in Nat
        /\ MaxPerNode \in Nat
        /\ Counted(n) /\ Owes(n)
    BY StoresAssumption DEF PoolInv, NodesTyped, RowsTyped, Listing
  <1>1. old = Pool!NoNode => Cardinality(Pool!Leases(n)) = 0
    BY <1>0, FS_EmptySet DEF Counted
  <1>2. CASE n \in DOMAIN list.rows
    <2>1. list.rows[n] \in NodeRow
      BY <1>2 DEF Listing
    <2>2. v = [status   |-> IF cools THEN old.status ELSE list.rows[n].status,
               enabled  |-> TRUE,
               until    |-> IF cools THEN old.until ELSE list.rows[n].until,
               inflight |-> IF old = Pool!NoNode THEN 0 ELSE old.inflight]
      BY <1>2 DEF Pool!Rebuilt
    <2>3. v \in PoolNode
      BY <1>0, <2>1, <2>2 DEF PoolNode, NodeRow
    <2>4. v # Pool!NoNode
      BY <2>3, NodeOrNone
    <2>5. v.inflight = Cardinality(Pool!Leases(n)) /\ v.inflight <= MaxPerNode
      BY <1>0, <1>1, <2>2 DEF Counted
    <2>6. barred[n] > now => v.until = barred[n]
      <3> SUFFICES ASSUME barred[n] > now PROVE v.until = barred[n]
        OBVIOUS
      <3>1. old # Pool!NoNode /\ old.until = barred[n]
        BY <1>0 DEF Owes
      <3>2. cools
        BY <1>0, <3>1
      <3> QED BY <2>2, <3>1, <3>2
    <2> HIDE DEF v
    <2> QED BY <2>3, <2>4, <2>5, <2>6
  <1>3. CASE n \notin DOMAIN list.rows /\ old # Pool!NoNode /\ old.inflight > 0
    <2>1. v = [old EXCEPT !.status = "cooling"] /\ old \in PoolNode
      BY <1>0, <1>3 DEF Pool!Rebuilt
    <2>2. v \in PoolNode /\ v.inflight = old.inflight /\ v.until = old.until
      BY <2>1 DEF PoolNode, NodeStatus
    <2> HIDE DEF v
    <2> QED BY <1>0, <1>3, <2>2, NodeOrNone DEF Counted, Owes
  <1>4. CASE n \notin DOMAIN list.rows /\ ~(old # Pool!NoNode /\ old.inflight > 0)
    <2>1. v = Pool!NoNode
      BY <1>4 DEF Pool!Rebuilt
    <2>2. CASE old = Pool!NoNode
      BY <1>0, <2>1, <2>2 DEF Counted
    <2>3. CASE old # Pool!NoNode
      <3>1. old.inflight = 0
        BY <1>0, <1>4, <2>3 DEF PoolNode
      <3>2. Pool!Leases(n) = {}
        BY <1>0, <2>3, <3>1, LeasesFinite, FS_EmptySet DEF Counted
      <3> QED BY <2>1, <3>2
    <2> QED BY <2>2, <2>3
  <1> QED BY <1>2, <1>3, <1>4

\* Refresh keeps the pool's invariant.
LEMMA RefreshStep ==
    ASSUME PoolInv, NEW f \in Refreshers, Pool!Refresh(f) PROVE PoolInv'
  <1>0. /\ nodes' = [n \in Nodes |-> Pool!Rebuilt(n, listing[f])]
        /\ barred' = [n \in Nodes |-> IF nodes'[n] = Pool!NoNode THEN 0 ELSE barred[n]]
        /\ listing' = [listing EXCEPT ![f] = Pool!NoList]
        /\ UNCHANGED <<stored, lease, inUse, probing, outcomes, now>>
    BY DEF Pool!Refresh
  <1>1. listing[f] \in Listing /\ listing[f].at <= now /\ now \in Nat
    BY DEF Pool!Refresh, PoolInv, RowsTyped, ListingsPast
  <1>2. RowsTyped' /\ ListingsPast'
    BY <1>0 DEF PoolInv, RowsTyped, ListingsPast
  <1>3. ASSUME NEW n \in Nodes
        PROVE  /\ nodes'[n] \in PoolNode \cup {Pool!NoNode} /\ barred'[n] \in Nat
               /\ Counted(n)' /\ Owes(n)'
    <2>1. nodes'[n] = Pool!Rebuilt(n, listing[f])
          /\ barred'[n] = IF nodes'[n] = Pool!NoNode THEN 0 ELSE barred[n]
      BY <1>0
    <2>2. Pool!Leases(n)' = Pool!Leases(n)
      BY <1>0 DEF Pool!Leases
    <2>3. barred[n] \in Nat
      BY DEF PoolInv, NodesTyped
    <2>4. /\ nodes'[n] \in PoolNode \cup {Pool!NoNode}
          /\ IF nodes'[n] = Pool!NoNode THEN Pool!Leases(n) = {}
             ELSE nodes'[n].inflight = Cardinality(Pool!Leases(n)) /\ nodes'[n].inflight <= MaxPerNode
          /\ barred[n] > now /\ nodes'[n] # Pool!NoNode => nodes'[n].until = barred[n]
      BY <1>1, <2>1, RebuiltNode
    <2>5. Counted(n)'
      BY <2>2, <2>4 DEF Counted
    <2>6. Owes(n)'
      BY <1>0, <1>1, <2>1, <2>3, <2>4 DEF Owes
    <2> QED BY <2>1, <2>3, <2>4, <2>5, <2>6
  <1>4. NodesTyped'
    <2>1. nodes' = [n \in Nodes |-> nodes'[n]] /\ barred' = [n \in Nodes |-> barred'[n]]
      BY <1>0
    <2>2. nodes' \in [Nodes -> PoolNode \cup {Pool!NoNode}] /\ barred' \in [Nodes -> Nat]
      BY <1>3, <2>1
    <2> QED BY <1>0, <2>2 DEF PoolInv, NodesTyped
  <1>5. inUse' = Cardinality(InUse)'
    BY <1>0 DEF PoolInv, InUse
  <1> QED BY <1>2, <1>3, <1>4, <1>5 DEF PoolInv

\* A lease keeps the pool's invariant.
LEMMA AcquireStep ==
    ASSUME PoolInv, NEW b \in Borrowers, NEW n \in Nodes, Pool!Acquire(b, n) PROVE PoolInv'
  <1> DEFINE old == nodes[n]
             v == [old EXCEPT !.inflight = @ + 1]
             e == barred[n]
  <1>0. /\ NodesTyped /\ RowsTyped /\ Counted(n) /\ Owes(n) /\ e \in Nat
        /\ old \in PoolNode /\ old.inflight < MaxPerNode /\ MaxPerNode \in Nat
    BY StoresAssumption DEF PoolInv, NodesTyped, Pool!Acquire, Pool!Available
  <1>1. /\ lease[b] = Pool!NoNode /\ lease' = [lease EXCEPT ![b] = n] /\ inUse' = inUse + 1
        /\ UNCHANGED <<stored, listing, probing, outcomes, now, barred>>
    BY DEF Pool!Acquire
  <1>2. /\ nodes' = [nodes EXCEPT ![n] = v] /\ barred' = [barred EXCEPT ![n] = e]
        /\ lease' \in [Borrowers -> Nodes \cup {Pool!NoNode}]
    BY <1>0, <1>1 DEF Pool!Acquire, NodesTyped
  <1>3. v \in PoolNode /\ v.inflight = old.inflight + 1 /\ v.until = old.until
    BY <1>0 DEF PoolNode
  <1>4. old # Pool!NoNode
    BY <1>0, NodeOrNone
  <1>5. RowsTyped' /\ ListingsPast'
    BY <1>1 DEF PoolInv, RowsTyped, ListingsPast
  <1>6. /\ Cardinality(Pool!Leases(n)') = Cardinality(Pool!Leases(n)) + 1
        /\ \A m \in Nodes \ {n} : Pool!Leases(m)' = Pool!Leases(m)
        /\ Cardinality(InUse') = Cardinality(InUse) + 1
    BY <1>0, <1>1, LeaseTaken
  <1>7. inUse' \in Nat /\ inUse' = Cardinality(InUse')
    BY <1>0, <1>1, <1>6 DEF PoolInv, NodesTyped
  <1>8. old.inflight = Cardinality(Pool!Leases(n)) /\ old.inflight \in Nat
    BY <1>0, <1>4 DEF Counted, PoolNode
  <1>9. v.inflight = Cardinality(Pool!Leases(n)') /\ v.inflight <= MaxPerNode
    BY <1>0, <1>3, <1>6, <1>8
  <1>10. e > now => v.until = e
    BY <1>0, <1>3 DEF Owes
  <1>11. v # Pool!NoNode /\ v \in PoolNode \cup {Pool!NoNode} /\ now' = now
    BY <1>1, <1>3, NodeOrNone
  <1> HIDE DEF v, e, old
  <1> QED BY <1>0, <1>2, <1>5, <1>6, <1>7, <1>9, <1>10, <1>11, OneNode

\* The end of a lease, whatever the node is told about the request, keeps it.
LEMMA ReturnStep ==
    ASSUME PoolInv, NEW b \in Borrowers, Pool!CompleteLease(b),
           NEW n \in Nodes, n = lease[b]
    PROVE  PoolInv'
  <1> DEFINE old == nodes[n]
             left == [old EXCEPT !.inflight = IF @ > 0 THEN @ - 1 ELSE 0]
  <1>0. /\ RowsTyped /\ NodesTyped /\ Counted(n) /\ Owes(n) /\ now \in Nat
        /\ MaxPerNode \in Nat /\ barred[n] \in Nat
    BY StoresAssumption DEF PoolInv, NodesTyped, RowsTyped
  <1>1. /\ lease' = [lease EXCEPT ![b] = Pool!NoNode]
        /\ inUse' = IF inUse > 0 THEN inUse - 1 ELSE 0
        /\ UNCHANGED <<listing, probing, now>>
    BY DEF Pool!CompleteLease
  <1>2. /\ Cardinality(Pool!Leases(n)') = Cardinality(Pool!Leases(n)) - 1
        /\ Pool!Leases(n) # {} /\ Cardinality(Pool!Leases(n)) > 0
        /\ \A m \in Nodes \ {n} : Pool!Leases(m)' = Pool!Leases(m)
        /\ Cardinality(InUse') = Cardinality(InUse) - 1 /\ Cardinality(InUse) > 0
    BY <1>0, <1>1, LeaseReturned
  <1>3. inUse' \in Nat /\ inUse' = Cardinality(InUse')
    BY <1>0, <1>1, <1>2 DEF PoolInv, NodesTyped
  <1>4. old # Pool!NoNode
    BY <1>0, <1>2 DEF Counted
  <1>5. old \in PoolNode /\ old.inflight = Cardinality(Pool!Leases(n)) /\ old.inflight <= MaxPerNode
    BY <1>0, <1>4 DEF Counted, NodesTyped
  <1>6. old.inflight \in Nat
    BY <1>5 DEF PoolNode
  <1>7. left \in PoolNode /\ left.inflight = old.inflight - 1 /\ left.until = old.until
    <2>1. left \in PoolNode
      BY <1>5 DEF PoolNode
    <2>2. left.inflight = old.inflight - 1 /\ left.until = old.until
      BY <1>2, <1>5, <1>6 DEF PoolNode
    <2> QED BY <2>1, <2>2
  <1>8. /\ lease' \in [Borrowers -> Nodes \cup {Pool!NoNode}] /\ ListingsPast' /\ now' = now
    BY <1>0, <1>1 DEF NodesTyped, PoolInv, ListingsPast
  \* The node that comes of it counts one lease less and owes what it should.
  <1>9. ASSUME NEW v \in PoolNode, NEW e \in Nat, v.inflight = left.inflight,
               nodes' = [nodes EXCEPT ![n] = v], barred' = [barred EXCEPT ![n] = e],
               e > now => v.until = e, RowsTyped'
        PROVE  PoolInv'
    <2>1. v.inflight = Cardinality(Pool!Leases(n)') /\ v.inflight <= MaxPerNode
      BY <1>0, <1>2, <1>5, <1>6, <1>7, <1>9
    <2>2. v # Pool!NoNode /\ v \in PoolNode \cup {Pool!NoNode}
      BY NodeOrNone
    <2> HIDE DEF old, left
    <2> QED BY <1>2, <1>3, <1>8, <1>9, <2>1, <2>2, OneNode
  <1> DEFINE healthy == [left EXCEPT !.status = "healthy", !.until = 0]
             failed(t) == [left EXCEPT !.status = IF t = 0 THEN @ ELSE "cooling", !.until = t]
  <1>10. CASE /\ nodes' = [nodes EXCEPT ![n] = healthy]
              /\ barred' = [barred EXCEPT ![n] = 0]
              /\ Pool!Enqueue([node |-> n, success |-> TRUE, until |-> 0])
    <2> HIDE DEF left, old
    <2>1. healthy \in PoolNode /\ healthy.inflight = left.inflight /\ healthy.until = 0
      BY <1>7 DEF PoolNode, NodeStatus
    <2>2. [node |-> n, success |-> TRUE, until |-> 0] \in NodeResult
      BY DEF NodeResult
    <2>3. RowsTyped'
      BY <1>0, <1>1, <1>10, <2>2, EnqueueTyped
    <2>4. 0 \in Nat
      OBVIOUS
    <2>5. 0 > now => healthy.until = 0
      BY <2>1
    <2> HIDE DEF healthy
    <2> QED BY <1>9, <1>10, <2>1, <2>3, <2>4, <2>5
  <1>11. ASSUME NEW t \in Pool!NextCooldowns(old.until),
                nodes' = [nodes EXCEPT ![n] = failed(t)],
                barred' = [barred EXCEPT ![n] = t],
                Pool!Enqueue([node |-> n, success |-> FALSE, until |-> t])
         PROVE  PoolInv'
    <2>0. t \in Nat
      <3>1. old.until \in Nat
        BY <1>5 DEF PoolNode
      <3> QED BY <1>0, <3>1, CooldownTyped
    <2> HIDE DEF left, old
    <2>1. failed(t) \in PoolNode /\ failed(t).inflight = left.inflight /\ failed(t).until = t
      BY <1>7, <2>0 DEF PoolNode, NodeStatus
    <2>2. [node |-> n, success |-> FALSE, until |-> t] \in NodeResult
      BY <2>0 DEF NodeResult
    <2>3. RowsTyped'
      BY <1>0, <1>1, <1>11, <2>2, EnqueueTyped
    <2> HIDE DEF failed
    <2> QED BY <1>9, <1>11, <2>0, <2>1, <2>3
  <1>12. CASE nodes' = [nodes EXCEPT ![n] = left] /\ UNCHANGED <<barred, stored, outcomes>>
    <2>1. RowsTyped'
      BY <1>0, <1>1, <1>12 DEF RowsTyped
    <2>2. barred' = [barred EXCEPT ![n] = barred[n]]
      BY <1>0, <1>12 DEF NodesTyped
    <2>3. barred[n] > now => left.until = barred[n]
      BY <1>0, <1>7 DEF Owes
    <2> HIDE DEF left
    <2> QED BY <1>0, <1>7, <1>9, <1>12, <2>1, <2>2, <2>3
  <1> QED
    <2>1. \/ /\ nodes' = [nodes EXCEPT ![n] = healthy]
             /\ barred' = [barred EXCEPT ![n] = 0]
             /\ Pool!Enqueue([node |-> n, success |-> TRUE, until |-> 0])
          \/ \E t \in Pool!NextCooldowns(old.until) :
               /\ nodes' = [nodes EXCEPT ![n] = failed(t)]
               /\ barred' = [barred EXCEPT ![n] = t]
               /\ Pool!Enqueue([node |-> n, success |-> FALSE, until |-> t])
          \/ nodes' = [nodes EXCEPT ![n] = left] /\ UNCHANGED <<barred, stored, outcomes>>
      BY <1>4, Zenon DEF Pool!CompleteLease
    <2> QED BY <1>10, <1>11, <1>12, <2>1

\* The result of a probe, applied to the node in memory, keeps it.
LEMMA ProbeStep ==
    ASSUME PoolInv, Pool!ProbeResult, NEW n \in Nodes, n = probing.node PROVE PoolInv'
  <1> DEFINE old == nodes[n]
             alive == [status |-> "healthy", enabled |-> probing.row.enabled, until |-> 0,
                       inflight |-> IF old = Pool!NoNode THEN 0 ELSE old.inflight]
             dead == IF old # Pool!NoNode /\ old.inflight > 0 THEN [old EXCEPT !.status = "cooling"]
                     ELSE Pool!NoNode
  <1>0. /\ RowsTyped /\ NodesTyped /\ Counted(n) /\ Owes(n) /\ now \in Nat /\ barred[n] \in Nat
        /\ MaxPerNode \in Nat /\ old \in PoolNode \cup {Pool!NoNode}
        /\ inUse \in Nat /\ inUse = Cardinality(InUse)
    BY StoresAssumption DEF PoolInv, NodesTyped, RowsTyped
  <1>1. probing \in NodeProbe
    BY <1>0, NodeOrNone DEF Pool!ProbeResult, RowsTyped
  <1>2. UNCHANGED <<stored, lease, inUse, listing, outcomes, now>> /\ probing' = Pool!NoProbe
    BY DEF Pool!ProbeResult
  <1>3. /\ \A m \in Nodes : Pool!Leases(m)' = Pool!Leases(m)
        /\ InUse' = InUse
        /\ lease' \in [Borrowers -> Nodes \cup {Pool!NoNode}]
        /\ RowsTyped' /\ ListingsPast'
    BY <1>0, <1>2 DEF Pool!Leases, InUse, NodesTyped, RowsTyped, ListingsPast, PoolInv
  <1>4. old = Pool!NoNode => Cardinality(Pool!Leases(n)) = 0
    BY <1>0, FS_EmptySet DEF Counted
  \* The node keeps its leases and owes what it should.
  <1>5. ASSUME NEW v \in PoolNode \cup {Pool!NoNode}, NEW e \in Nat,
               nodes' = [nodes EXCEPT ![n] = v], barred' = [barred EXCEPT ![n] = e],
               IF v = Pool!NoNode THEN Pool!Leases(n) = {}
               ELSE v.inflight = Cardinality(Pool!Leases(n)) /\ v.inflight <= MaxPerNode,
               e > now => v # Pool!NoNode /\ v.until = e
        PROVE  PoolInv'
    <2>1. inUse' \in Nat /\ inUse' = Cardinality(InUse') /\ now' = now
      BY <1>0, <1>2, <1>3
    <2>2. Pool!Leases(n)' = Pool!Leases(n) /\ \A m \in Nodes \ {n} : Pool!Leases(m)' = Pool!Leases(m)
      BY <1>3
    <2> QED BY <1>3, <1>5, <2>1, <2>2, OneNode
  <1>6. CASE probing.recorded = "alive"
    <2>1. nodes' = [nodes EXCEPT ![n] = alive] /\ barred' = [barred EXCEPT ![n] = 0]
      BY <1>6 DEF Pool!ProbeResult
    <2>2. alive \in PoolNode
      BY <1>0, <1>1 DEF PoolNode, NodeStatus, NodeProbe, NodeRow
    <2>3. alive.inflight = Cardinality(Pool!Leases(n)) /\ alive.inflight <= MaxPerNode
      BY <1>0, <1>4 DEF Counted
    <2>4. 0 \in Nat /\ ~(0 > now) /\ alive # Pool!NoNode
      BY <1>0, <2>2, NodeOrNone
    <2> HIDE DEF alive, old
    <2> QED BY <1>5, <2>1, <2>2, <2>3, <2>4
  <1>7. CASE probing.recorded = "dead" /\ old # Pool!NoNode /\ old.inflight > 0
    <2>1. dead = [old EXCEPT !.status = "cooling"] /\ old \in PoolNode
      BY <1>0, <1>7
    <2>2. dead \in PoolNode /\ dead.inflight = old.inflight /\ dead.until = old.until
      BY <2>1 DEF PoolNode, NodeStatus
    <2>3. dead # Pool!NoNode
      BY <2>2, NodeOrNone
    <2>4. nodes' = [nodes EXCEPT ![n] = dead]
      BY <1>7 DEF Pool!ProbeResult
    <2>5. nodes'[n] = dead
      BY <1>0, <2>4 DEF NodesTyped
    <2>6. barred' = [barred EXCEPT ![n] = barred[n]]
      BY <1>7, <2>3, <2>5 DEF Pool!ProbeResult
    <2>7. dead.inflight = Cardinality(Pool!Leases(n)) /\ dead.inflight <= MaxPerNode
      BY <1>0, <1>7, <2>2 DEF Counted
    <2>8. barred[n] > now => dead.until = barred[n]
      BY <1>0, <2>2 DEF Owes
    <2> HIDE DEF dead, old
    <2> QED BY <1>0, <1>5, <2>2, <2>3, <2>4, <2>6, <2>7, <2>8
  <1>8. CASE probing.recorded = "dead" /\ ~(old # Pool!NoNode /\ old.inflight > 0)
    <2>1. nodes' = [nodes EXCEPT ![n] = Pool!NoNode]
      BY <1>8 DEF Pool!ProbeResult
    <2>2. nodes'[n] = Pool!NoNode
      BY <1>0, <2>1 DEF NodesTyped
    <2>3. barred' = [barred EXCEPT ![n] = 0]
      BY <1>8, <2>2 DEF Pool!ProbeResult
    <2>4. Pool!Leases(n) = {}
      <3>1. CASE old = Pool!NoNode
        BY <1>0, <3>1 DEF Counted
      <3>2. CASE old # Pool!NoNode
        <4>1. old.inflight = 0
          BY <1>0, <1>8, <3>2 DEF PoolNode
        <4> QED BY <1>0, <3>2, <4>1, LeasesFinite, FS_EmptySet DEF Counted
      <3> QED BY <3>1, <3>2
    <2>5. 0 \in Nat /\ ~(0 > now)
      BY <1>0
    <2> QED BY <1>5, <2>1, <2>3, <2>4, <2>5
  <1> QED BY <1>6, <1>7, <1>8 DEF Pool!ProbeResult

\* Every step of the pool keeps the invariant.
LEMMA PoolStep == PoolInv /\ Pool!Next => PoolInv'
  <1> SUFFICES ASSUME PoolInv, Pool!Next PROVE PoolInv'
    OBVIOUS
  <1>0. RowsTyped /\ NodesTyped /\ ListingsPast /\ now \in Nat
    BY DEF PoolInv, RowsTyped
  <1>1. ASSUME NEW f \in Refreshers, Pool!ListNodes(f) PROVE PoolInv'
    <2> DEFINE usable == {n \in Nodes : stored[n] # Pool!NoNode /\ stored[n].enabled
                                          /\ stored[n].status \in {"healthy", "cooling"}}
               list == [at |-> now, rows |-> [n \in usable |-> stored[n]]]
    <2>1. listing' = [listing EXCEPT ![f] = list]
          /\ UNCHANGED <<stored, nodes, lease, inUse, probing, outcomes, now, barred>>
      BY <1>1 DEF Pool!ListNodes
    <2>2. [n \in usable |-> stored[n]] \in [usable -> NodeRow] /\ usable \in SUBSET Nodes
      BY <1>0 DEF RowsTyped
    <2>3. list \in Listing /\ list.at = now
      BY <1>0, <2>2 DEF Listing
    <2> HIDE DEF list
    <2>4. RowsTyped'
      BY <1>0, <2>1, <2>3 DEF RowsTyped
    <2>5. ListingsPast'
      BY <1>0, <2>1, <2>3 DEF ListingsPast, RowsTyped
    <2> QED BY <1>0, <2>1, <2>4, <2>5, RowsStep
  <1>2. ASSUME NEW b \in Borrowers, Pool!CompleteLease(b) PROVE PoolInv'
    <2>1. PICK n \in Nodes : n = lease[b]
      BY <1>0, <1>2 DEF NodesTyped, Pool!CompleteLease
    <2> QED BY <1>2, <2>1, ReturnStep
  <1>3. CASE Pool!PersistOutcome
    <2> DEFINE o == Head(outcomes)
    <2>1. o \in NodeResult /\ o.node \in Nodes /\ Tail(outcomes) \in Seq(NodeResult)
      <3>1. outcomes \in Seq(NodeResult) /\ outcomes # <<>>
        BY <1>0, <1>3 DEF Pool!PersistOutcome, RowsTyped
      <3>2. Head(outcomes) \in NodeResult /\ Tail(outcomes) \in Seq(NodeResult)
        BY <3>1
      <3> QED BY <3>2 DEF NodeResult
    <2>2. Pool!Outcome(o.node, stored[o.node], o) \in NodeRow \cup {Pool!NoNode}
      BY <1>0, <2>1, OutcomeRow DEF RowsTyped
    <2>3. /\ outcomes' = Tail(outcomes)
          /\ \/ stored' = [stored EXCEPT ![o.node] = Pool!Outcome(o.node, stored[o.node], o)]
             \/ stored' = stored
          /\ UNCHANGED <<nodes, lease, inUse, listing, probing, now, barred>>
      BY <1>3 DEF Pool!PersistOutcome
    <2> HIDE DEF o
    <2>4. RowsTyped' /\ ListingsPast'
      BY <1>0, <2>1, <2>2, <2>3 DEF RowsTyped, ListingsPast
    <2> QED BY <1>0, <2>3, <2>4, RowsStep
  <1>4. CASE Pool!RecordProbe
    <2>1. probing \in NodeProbe
      BY <1>0, <1>4 DEF Pool!RecordProbe, RowsTyped
    <2>2. probing' \in NodeProbe \cup {Pool!NoProbe}
      BY <1>4, <2>1 DEF Pool!RecordProbe, NodeProbe
    <2>3. stored' \in [Nodes -> NodeRow \cup {Pool!NoNode}]
      <3>1. CASE stored' = stored
        BY <1>0, <3>1 DEF RowsTyped
      <3>2. ASSUME NEW success \in BOOLEAN, NEW t \in Pool!NextCooldowns(probing.row.until),
                   NEW n \in Nodes, n = probing.node,
                   stored' = [stored EXCEPT ![n] =
                     IF stored[n] = Pool!NoNode THEN stored[n]
                     ELSE IF success THEN [stored[n] EXCEPT !.status = "healthy", !.until = 0]
                     ELSE [stored[n] EXCEPT !.status = IF t = 0 THEN "pending" ELSE "cooling",
                                            !.until = t]]
            PROVE  stored' \in [Nodes -> NodeRow \cup {Pool!NoNode}]
        <4>1. t \in Nat
          <5>1. probing.row.until \in Nat
            BY <2>1 DEF NodeProbe, NodeRow
          <5> QED BY <1>0, <5>1, CooldownTyped
        <4>2. stored[n] \in NodeRow \cup {Pool!NoNode}
          BY <1>0 DEF RowsTyped
        <4>3. stored[n] # Pool!NoNode =>
                [stored[n] EXCEPT !.status = "healthy", !.until = 0] \in NodeRow
          BY <4>2 DEF NodeRow, NodeStatus
        <4>4. stored[n] # Pool!NoNode =>
                [stored[n] EXCEPT !.status = IF t = 0 THEN "pending" ELSE "cooling", !.until = t]
                  \in NodeRow
          BY <4>1, <4>2 DEF NodeRow, NodeStatus
        <4> QED BY <1>0, <3>2, <4>2, <4>3, <4>4 DEF RowsTyped
      <3>3. PICK n \in Nodes : n = probing.node
        BY <2>1 DEF NodeProbe
      <3> QED BY <1>4, <3>1, <3>2, <3>3 DEF Pool!RecordProbe
    <2>4. UNCHANGED <<nodes, lease, inUse, listing, outcomes, now, barred>>
      BY <1>4 DEF Pool!RecordProbe
    <2>5. RowsTyped' /\ ListingsPast'
      BY <1>0, <2>2, <2>3, <2>4 DEF RowsTyped, ListingsPast
    <2> QED BY <1>0, <2>4, <2>5, RowsStep
  <1>5. CASE Pool!ProbeResult
    <2>1. probing \in NodeProbe
      BY <1>0, <1>5, NodeOrNone DEF Pool!ProbeResult, RowsTyped
    <2>2. PICK n \in Nodes : n = probing.node
      BY <2>1 DEF NodeProbe
    <2> QED BY <1>5, <2>2, ProbeStep
  <1>6. CASE Pool!Tick
    <2>1. RowsTyped' /\ ListingsPast' /\ now' >= now
      BY <1>0, <1>6 DEF Pool!Tick, RowsTyped, ListingsPast, Listing
    <2> QED BY <1>6, <2>1, RowsStep DEF Pool!Tick
  <1>7. ASSUME NEW n \in Nodes, Pool!ProbeNode(n) PROVE PoolInv'
    <2>1. [node |-> n, row |-> stored[n], recorded |-> "no"] \in NodeProbe
      BY <1>0, <1>7 DEF Pool!ProbeNode, NodeProbe, RowsTyped
    <2>2. RowsTyped' /\ ListingsPast'
      BY <1>0, <1>7, <2>1 DEF Pool!ProbeNode, RowsTyped, ListingsPast
    <2> QED BY <1>0, <1>7, <2>2, RowsStep DEF Pool!ProbeNode
  <1>8. ASSUME NEW n \in Nodes, Pool!DeleteNode(n) PROVE PoolInv'
    <2>1. RowsTyped' /\ ListingsPast'
      BY <1>0, <1>8 DEF Pool!DeleteNode, RowsTyped, ListingsPast
    <2> QED BY <1>0, <1>8, <2>1, RowsStep DEF Pool!DeleteNode
  <1>9. ASSUME NEW n \in Nodes, NEW on \in BOOLEAN, Pool!SetEnabled(n, on) PROVE PoolInv'
    <2>1. stored[n] \in NodeRow
      BY <1>0, <1>9 DEF Pool!SetEnabled, RowsTyped
    <2>2. /\ stored' = [stored EXCEPT ![n].enabled = on,
                                      ![n].status = IF on THEN "pending" ELSE "disabled"]
          /\ UNCHANGED <<nodes, lease, inUse, listing, probing, outcomes, now, barred>>
      BY <1>9 DEF Pool!SetEnabled
    <2>3. stored' = [stored EXCEPT ![n] = [[stored[n] EXCEPT !.enabled = on] EXCEPT
                                              !.status = IF on THEN "pending" ELSE "disabled"]]
      BY <1>0, <2>2 DEF RowsTyped
    <2>4. [[stored[n] EXCEPT !.enabled = on] EXCEPT !.status = IF on THEN "pending" ELSE "disabled"]
            \in NodeRow
      BY <2>1 DEF NodeRow, NodeStatus
    <2>5. stored' \in [Nodes -> NodeRow \cup {Pool!NoNode}]
      BY <1>0, <2>3, <2>4 DEF RowsTyped
    <2>6. RowsTyped' /\ ListingsPast'
      BY <1>0, <2>2, <2>5 DEF RowsTyped, ListingsPast
    <2> QED BY <1>0, <2>2, <2>6, RowsStep
  <1> QED
    BY <1>1, <1>2, <1>3, <1>4, <1>5, <1>6, <1>7, <1>8, <1>9, RefreshStep, AcquireStep
    DEF Pool!Next

\* The pool's invariant holds of every behaviour.
LEMMA PoolInvariant == StoresSpec => []PoolInv
  <1>1. StoresInit => PoolInv
    BY PoolStarts DEF StoresInit
  <1>2. PoolInv /\ [StoresNext]_storeVars => PoolInv'
    <2> SUFFICES ASSUME PoolInv, [StoresNext]_storeVars PROVE PoolInv'
      OBVIOUS
    <2>1. Pool!Next \/ UNCHANGED poolVars
      BY DEF StoresNext, storeVars
    <2>2. CASE UNCHANGED poolVars
      <3>1. now' >= now /\ RowsTyped' /\ ListingsPast'
        BY <2>2 DEF poolVars, PoolInv, RowsTyped, ListingsPast
      <3> QED BY <2>2, <3>1, RowsStep DEF poolVars
    <2> QED BY <2>1, <2>2, PoolStep
  <1> QED BY <1>1, <1>2, PTL DEF StoresSpec

\* The counts of leases are exact for any number of nodes and requests, however a
\* Refresh, a probe, a deletion and the ends of leases meet: no rebuild of the nodes
\* forgets a lease, none goes below zero or above the limit.
THEOREM LeasesCounted == StoresSpec => []InflightExact
  BY PoolInvariant, PoolMeans, PTL

\* A node that owes a cooldown is not handed out before its end, although a Refresh
\* rebuilds the nodes from rows that it has read before the failure was known.
THEOREM CooldownsServed == StoresSpec => []CooldownServed
  BY PoolInvariant, PoolMeans, PTL

-----------------------------------------------------------------------------
(* The main cache *)

Entry == (SUBSET Results) \cup Cache!Absent

CacheClient == [pc : {"idle", "read", "promote", "store", "both"},
                data : (SUBSET Results) \cup {Torn}, new : SUBSET Results]

CacheTyped ==
    /\ mem \in Entry /\ disk \in Entry
    /\ client \in [Cache!Clients -> CacheClient]
    /\ saving \in [Savers -> Entry]
    /\ merged \subseteq Results
    /\ \A r \in Readers : client[r].pc \notin {"store", "both"}
    /\ \A m \in Mergers : client[m].pc \in {"store", "both"}
                            => client[m].data # Torn /\ client[m].new \subseteq client[m].data

\* The lock of the key: one merge at a time.
OneMerges ==
    \A m, n \in Mergers : client[m].pc # "idle" /\ client[n].pc # "idle" => m = n

\* Without a loss, both levels have what was merged, the memory also what the merge
\* between its two stores adds, and a merge goes on from all of it.
MemoryKept ==
    mem \notin Cache!Absent =>
        /\ merged \subseteq mem
        /\ \A m \in Mergers : client[m].pc = "both" => client[m].new \subseteq mem
DiskKept == disk \notin Cache!Absent => merged \subseteq disk
BaseKept ==
    \A m \in Mergers : client[m].pc \in {"promote", "store", "both"} /\ client[m].data # Torn
                         => merged \subseteq client[m].data

NothingLost == losses = {} => MemoryKept /\ DiskKept /\ BaseKept

CacheInv == CacheTyped /\ OneMerges /\ NothingLost

LEMMA EntriesApart == /\ None # Torn
                      /\ \A e \in SUBSET Results : e # None /\ e # Torn
                      /\ Mergers \cap Readers = {}
  BY StoresAssumption

LEMMA CacheStarts == Cache!Init => CacheInv
  <1> SUFFICES ASSUME Cache!Init PROVE CacheInv
    OBVIOUS
  <1>1. \A c \in Cache!Clients : client[c].pc = "idle"
    BY DEF Cache!Init, Cache!Idle
  <1>2. CacheTyped
    BY <1>1 DEF Cache!Init, CacheTyped, CacheClient, Cache!Idle, Entry, Cache!Absent, Cache!Clients
  <1>3. OneMerges /\ NothingLost
    BY <1>1 DEF Cache!Init, OneMerges, NothingLost, MemoryKept, DiskKept, BaseKept, Cache!Absent,
                Cache!Clients
  <1> QED BY <1>2, <1>3 DEF CacheInv

\* A version that is not older has all that is merged and all that is about to be.
LEMMA NotOlder ==
    ASSUME NEW data, data # Torn, ~Cache!Older(data)
    PROVE  /\ merged \subseteq data
           /\ \A m \in Mergers : client[m].pc = "both" => client[m].new \subseteq data
  BY DEF Cache!Older, Cache!Newest

\* When neither level has the entry nothing is said of it; otherwise the ghosts are
\* as the step accounts for them.
LEMMA Accounted ==
    ASSUME NEW all, NEW events, Cache!Account(all, events),
           losses = {} /\ events = {} /\ merged' = all => MemoryKept' /\ DiskKept' /\ BaseKept'
    PROVE  NothingLost'
  <1>1. CASE mem' = None /\ disk' = None
    BY <1>1 DEF Cache!Account, NothingLost, MemoryKept, DiskKept, BaseKept, Cache!Absent
  <1>2. CASE ~(mem' = None /\ disk' = None)
    BY <1>2 DEF Cache!Account, NothingLost
  <1> QED BY <1>1, <1>2

LEMMA AccountTyped ==
    ASSUME NEW all \in SUBSET Results, NEW events, Cache!Account(all, events)
    PROVE  merged' \subseteq Results
  BY DEF Cache!Account

\* One client moves.
LEMMA ClientMoves ==
    ASSUME CacheTyped, NEW c \in Cache!Clients, NEW v \in CacheClient,
           client' = [client EXCEPT ![c] = v]
    PROVE  /\ client' \in [Cache!Clients -> CacheClient]
           /\ client'[c] = v
           /\ \A o \in Cache!Clients : o # c => client'[o] = client[o]
  BY DEF CacheTyped

\* A client that stays busy, or becomes idle, does not disturb the lock.
LEMMA LockKept ==
    ASSUME CacheInv, NEW c \in Cache!Clients,
           \A o \in Cache!Clients : o # c => client'[o] = client[o],
           client'[c].pc = "idle" \/ client[c].pc # "idle" \/ c \notin Mergers
    PROVE  OneMerges'
  BY DEF CacheInv, OneMerges, Cache!Clients

LEMMA LookupKeeps ==
    ASSUME CacheInv, NEW m \in Mergers, NEW new \in SUBSET Results, Cache!Merge(m, new)
    PROVE  CacheInv'
  <1> DEFINE v == IF mem = None
                  THEN [pc |-> "read", data |-> {}, new |-> new]
                  ELSE [pc |-> "store", data |-> mem \cup new, new |-> new]
  <1>1. /\ mem # Torn /\ client' = [client EXCEPT ![m] = v]
        /\ UNCHANGED <<mem, disk, saving, merged, losses>>
        /\ \A o \in Mergers : client[o].pc = "idle"
    BY DEF Cache!Merge, Cache!Lookup, Cache!Idle
  <1>2. mem = None \/ mem \in SUBSET Results
    BY <1>1 DEF CacheInv, CacheTyped, Entry, Cache!Absent
  <1>3. /\ v \in CacheClient /\ v.pc \in {"read", "store"} /\ v.data # Torn
        /\ v.pc = "store" => new \subseteq v.data /\ mem \subseteq v.data /\ mem \notin Cache!Absent
        /\ v.new = new
    BY <1>1, <1>2, EntriesApart DEF CacheClient, Cache!Absent
  <1> HIDE DEF v
  <1>4. m \in Cache!Clients /\ m \notin Readers
    BY EntriesApart DEF Cache!Clients
  <1>5. /\ client' \in [Cache!Clients -> CacheClient]
        /\ client'[m] = v
        /\ \A o \in Cache!Clients : o # m => client'[o] = client[o]
    BY <1>1, <1>3, <1>4, ClientMoves DEF CacheInv
  <1>6. CacheTyped'
    BY <1>1, <1>3, <1>4, <1>5 DEF CacheInv, CacheTyped, Cache!Clients
  <1>7. OneMerges'
    BY <1>1, <1>5 DEF OneMerges, Cache!Clients
  <1>8. NothingLost'
    BY <1>1, <1>3, <1>5 DEF CacheInv, NothingLost, MemoryKept, DiskKept, BaseKept, Cache!Clients
  <1> QED BY <1>6, <1>7, <1>8 DEF CacheInv

LEMMA ReadKeeps ==
    ASSUME CacheInv, NEW c \in Cache!Clients,
           (c \in Readers /\ Cache!Read(c)) \/ Cache!ReadDisk(c)
    PROVE  CacheInv'
  <1>0. client[c] \in CacheClient /\ client \in [Cache!Clients -> CacheClient]
    BY DEF CacheInv, CacheTyped
  <1>1. PICK v \in CacheClient :
            /\ client' = [client EXCEPT ![c] = v]
            /\ v.pc \in {"read", "promote"}
            /\ v.pc = "promote" => v.data \in {disk, Torn}
            /\ client[c].pc # "idle" \/ c \in Readers
    <2>1. CASE c \in Readers /\ Cache!Read(c)
      <3>1. client' = [client EXCEPT ![c] = [client[c] EXCEPT !.pc = "read"]]
        BY <2>1 DEF Cache!Read
      <3>2. [client[c] EXCEPT !.pc = "read"] \in CacheClient
        BY <1>0 DEF CacheClient
      <3>3. [client[c] EXCEPT !.pc = "read"].pc = "read"
        BY <1>0 DEF CacheClient
      <3> QED BY <2>1, <3>1, <3>2, <3>3
    <2>2. CASE Cache!ReadDisk(c)
      <3>1. PICK data \in {disk, Torn} :
                client' = [client EXCEPT ![c] = [pc |-> "promote", data |-> data,
                                                 new |-> client[c].new]]
        BY <2>2 DEF Cache!ReadDisk
      <3>2. data \in (SUBSET Results) \cup {Torn}
        BY <2>2, <3>1 DEF CacheInv, CacheTyped, Entry, Cache!Absent, Cache!ReadDisk
      <3> DEFINE w == [pc |-> "promote", data |-> data, new |-> client[c].new]
      <3>3. client' = [client EXCEPT ![c] = w]
        BY <3>1
      <3>4. w \in CacheClient
        BY <1>0, <3>2 DEF CacheClient
      <3>5. client[c].pc = "read"
        BY <2>2 DEF Cache!ReadDisk
      <3> QED BY <3>1, <3>3, <3>4, <3>5
    <2> QED BY <2>1, <2>2
  <1>2. UNCHANGED <<mem, disk, saving, merged, losses>>
    BY DEF Cache!Read, Cache!ReadDisk
  <1>3. /\ client' \in [Cache!Clients -> CacheClient]
        /\ client'[c] = v
        /\ \A o \in Cache!Clients : o # c => client'[o] = client[o]
    BY <1>1, ClientMoves DEF CacheInv
  <1>4. CacheTyped'
    BY <1>1, <1>2, <1>3 DEF CacheInv, CacheTyped, Cache!Clients
  <1>5. OneMerges'
    BY <1>1, <1>3, LockKept, EntriesApart
  <1>6. v.pc = "promote" /\ v.data # Torn => v.data = disk /\ disk \notin Cache!Absent
    BY <1>1, EntriesApart DEF CacheClient, Cache!Absent
  <1>7. NothingLost'
    BY <1>1, <1>2, <1>3, <1>6 DEF CacheInv, NothingLost, MemoryKept, DiskKept, BaseKept, Cache!Clients
  <1> QED BY <1>4, <1>5, <1>7 DEF CacheInv

LEMMA MissKeeps ==
    ASSUME CacheInv, NEW c \in Cache!Clients, Cache!MissDisk(c)
    PROVE  CacheInv'
  <1> DEFINE v == IF c \in Readers THEN Cache!Idle
                  ELSE [pc |-> "store", data |-> client[c].new, new |-> client[c].new]
             events == Cache!Events("miss", c \in Mergers /\ (mem # None \/ disk # None))
  <1>0. client[c] \in CacheClient
    BY DEF CacheInv, CacheTyped
  <1>1. /\ client[c].pc = "read" /\ client' = [client EXCEPT ![c] = v]
        /\ UNCHANGED <<mem, disk, saving>>
        /\ Cache!Account(merged, events)
    BY DEF Cache!MissDisk
  <1>2. /\ v \in CacheClient /\ v.data # Torn /\ v.new \subseteq v.data
        /\ v.pc \in {"idle", "store"} /\ (c \in Readers => v.pc = "idle")
    BY <1>0, EntriesApart DEF CacheClient, Cache!Idle
  <1>3. events = {} => c \in Readers \/ (mem = None /\ disk = None)
    BY DEF Cache!Events, Cache!Clients
  <1> HIDE DEF v, events
  <1>4. /\ client' \in [Cache!Clients -> CacheClient]
        /\ client'[c] = v
        /\ \A o \in Cache!Clients : o # c => client'[o] = client[o]
    BY <1>1, <1>2, ClientMoves DEF CacheInv
  <1>5. merged' \subseteq Results
    BY <1>1, AccountTyped DEF CacheInv, CacheTyped
  <1>6. CacheTyped'
    BY <1>1, <1>2, <1>4, <1>5 DEF CacheInv, CacheTyped, Cache!Clients
  <1>7. OneMerges'
    BY <1>1, <1>4, LockKept
  <1>8. ASSUME losses = {}, events = {}, merged' = merged PROVE MemoryKept' /\ DiskKept' /\ BaseKept'
    <2>1. CASE mem = None /\ disk = None
      <3>1. merged' = {}
        BY <1>1, <2>1 DEF Cache!Account
      <3> QED BY <1>1, <2>1, <3>1 DEF MemoryKept, DiskKept, BaseKept, Cache!Absent
    <2>2. CASE c \in Readers
      BY <1>1, <1>2, <1>4, <1>8, <2>2 DEF CacheInv, NothingLost, MemoryKept, DiskKept, BaseKept, Cache!Clients
    <2> QED BY <1>3, <1>8, <2>1, <2>2
  <1>9. NothingLost'
    BY <1>1, <1>8, Accounted
  <1> QED BY <1>6, <1>7, <1>9 DEF CacheInv

LEMMA PromoteKeeps ==
    ASSUME CacheInv, NEW c \in Cache!Clients, Cache!Promote(c)
    PROVE  CacheInv'
  <1> DEFINE data == client[c].data
             v == IF c \in Readers \/ data = Torn THEN Cache!Idle
                  ELSE [pc |-> "store", data |-> data \cup client[c].new, new |-> client[c].new]
             events == Cache!Events("promotion", Cache!Fits(data) /\ Cache!Older(data))
  <1>0. client[c] \in CacheClient
    BY DEF CacheInv, CacheTyped
  <1>1. /\ client[c].pc = "promote" /\ client' = [client EXCEPT ![c] = v]
        /\ mem' = IF Cache!Fits(data) THEN data ELSE mem
        /\ UNCHANGED <<disk, saving>>
        /\ Cache!Account(merged, events)
    BY DEF Cache!Promote
  <1>2. /\ v \in CacheClient /\ v.data # Torn /\ v.new \subseteq v.data
        /\ v.pc \in {"idle", "store"} /\ (c \in Readers => v.pc = "idle")
        /\ v.pc = "store" => data # Torn /\ data \subseteq v.data
    BY <1>0, EntriesApart DEF CacheClient, Cache!Idle
  <1>3. events = {} /\ Cache!Fits(data) => ~Cache!Older(data)
    BY DEF Cache!Events
  <1>4. data \in (SUBSET Results) \cup {Torn}
    BY <1>0 DEF CacheClient
  <1> HIDE DEF v, events, data
  <1>5. /\ client' \in [Cache!Clients -> CacheClient]
        /\ client'[c] = v
        /\ \A o \in Cache!Clients : o # c => client'[o] = client[o]
    BY <1>1, <1>2, ClientMoves DEF CacheInv
  <1>6. merged' \subseteq Results
    BY <1>1, AccountTyped DEF CacheInv, CacheTyped
  <1>7. CacheTyped'
    BY <1>1, <1>2, <1>4, <1>5, <1>6 DEF CacheInv, CacheTyped, Cache!Clients, Entry, Cache!Absent
  <1>8. OneMerges'
    BY <1>1, <1>5, LockKept
  <1>9. ASSUME losses = {}, events = {}, merged' = merged PROVE MemoryKept' /\ DiskKept' /\ BaseKept'
    <2>0. MemoryKept /\ DiskKept /\ BaseKept
      BY <1>9 DEF CacheInv, NothingLost
    <2>1. \A m \in Mergers : client'[m].pc = "both" => client'[m] = client[m] /\ client[m].pc = "both"
      BY <1>2, <1>5 DEF Cache!Clients
    <2>2. MemoryKept'
      <3>1. CASE Cache!Fits(data) /\ data # Torn
        <4>1. /\ merged \subseteq data
              /\ \A m \in Mergers : client[m].pc = "both" => client[m].new \subseteq data
          BY <1>3, <1>9, <3>1, NotOlder
        <4> QED BY <1>1, <1>9, <2>1, <3>1, <4>1 DEF MemoryKept
      <3>2. CASE Cache!Fits(data) /\ data = Torn
        BY <1>1, <3>2 DEF MemoryKept, Cache!Absent
      <3>3. CASE ~Cache!Fits(data)
        BY <1>1, <1>9, <2>0, <2>1, <3>3 DEF MemoryKept
      <3> QED BY <3>1, <3>2, <3>3
    <2>3. DiskKept'
      BY <1>1, <1>9, <2>0 DEF DiskKept
    <2>4. c \in Mergers /\ data # Torn => merged \subseteq data
      BY <1>1, <2>0 DEF BaseKept, data
    <2>5. BaseKept'
      BY <1>2, <1>5, <1>9, <2>0, <2>4 DEF BaseKept, Cache!Clients
    <2> QED BY <2>2, <2>3, <2>5
  <1>10. NothingLost'
    BY <1>1, <1>9, Accounted
  <1> QED BY <1>7, <1>8, <1>10 DEF CacheInv

LEMMA StoreMemoryKeeps ==
    ASSUME CacheInv, NEW m \in Mergers, Cache!StoreMemory(m)
    PROVE  CacheInv'
  <1> DEFINE data == client[m].data
             v == [pc |-> "both", data |-> data, new |-> client[m].new]
             events == Cache!Events("refusal", ~Cache!Fits(data) /\ mem \notin Cache!Absent)
  <1>0. m \in Cache!Clients /\ m \notin Readers /\ client[m] \in CacheClient
    BY EntriesApart DEF CacheInv, CacheTyped, Cache!Clients
  <1>1. /\ client[m].pc = "store" /\ client' = [client EXCEPT ![m] = v]
        /\ mem' = IF Cache!Fits(data) THEN data ELSE mem
        /\ UNCHANGED <<disk, saving>>
        /\ Cache!Account(merged, events)
    <2>1. [client[m] EXCEPT !.pc = "both"] = v
      BY <1>0 DEF CacheClient
    <2> HIDE DEF v
    <2> QED BY <2>1 DEF Cache!StoreMemory
  <1>2. data \in SUBSET Results /\ data # Torn /\ client[m].new \subseteq data
    BY <1>0, <1>1 DEF CacheInv, CacheTyped, CacheClient
  <1>3. v \in CacheClient /\ v.pc = "both" /\ v.data = data /\ v.new = client[m].new
    BY <1>0 DEF CacheClient
  <1>4. events = {} /\ ~Cache!Fits(data) => mem \in Cache!Absent
    BY DEF Cache!Events
  <1> HIDE DEF v, events, data
  <1>5. /\ client' \in [Cache!Clients -> CacheClient]
        /\ client'[m] = v
        /\ \A o \in Cache!Clients : o # m => client'[o] = client[o]
    BY <1>0, <1>1, <1>3, ClientMoves DEF CacheInv
  <1>6. merged' \subseteq Results
    BY <1>1, AccountTyped DEF CacheInv, CacheTyped
  <1>7. CacheTyped'
    BY <1>0, <1>1, <1>2, <1>3, <1>5, <1>6 DEF CacheInv, CacheTyped, Cache!Clients, Entry, Cache!Absent
  <1>8. OneMerges'
    BY <1>0, <1>1, <1>5, LockKept
  <1>9. ASSUME losses = {}, events = {}, merged' = merged PROVE MemoryKept' /\ DiskKept' /\ BaseKept'
    <2>0. MemoryKept /\ DiskKept /\ BaseKept
      BY <1>9 DEF CacheInv, NothingLost
    <2>1. \A o \in Mergers : client'[o].pc = "both" => o = m
      BY <1>0, <1>1, <1>5 DEF CacheInv, OneMerges, Cache!Clients
    <2>2. merged \subseteq data
      BY <1>1, <1>2, <2>0 DEF BaseKept, data
    <2>3. MemoryKept'
      BY <1>1, <1>2, <1>3, <1>4, <1>5, <1>9, <2>1, <2>2 DEF MemoryKept
    <2>4. DiskKept' /\ BaseKept'
      BY <1>1, <1>3, <1>5, <1>9, <2>0, <2>2 DEF DiskKept, BaseKept, Cache!Clients
    <2> QED BY <2>3, <2>4
  <1>10. NothingLost'
    BY <1>1, <1>9, Accounted
  <1> QED BY <1>7, <1>8, <1>10 DEF CacheInv

LEMMA StoreDiskKeeps ==
    ASSUME CacheInv, NEW m \in Mergers, Cache!StoreDisk(m)
    PROVE  CacheInv'
  <1> DEFINE data == client[m].data
             new == client[m].new
  <1>0. m \in Cache!Clients /\ client[m] \in CacheClient
    BY DEF CacheInv, CacheTyped, Cache!Clients
  <1>1. /\ client[m].pc = "both" /\ client' = [client EXCEPT ![m] = Cache!Idle]
        /\ UNCHANGED <<mem, saving>>
        /\ \/ disk' = data /\ Cache!Account(merged \cup new, {})
           \/ Cache!DiskSetFails /\ Cache!Account(merged, {})
    BY DEF Cache!StoreDisk
  <1>2. data \in SUBSET Results /\ data # Torn /\ new \subseteq data /\ new \subseteq Results
    BY <1>0, <1>1 DEF CacheInv, CacheTyped, CacheClient
  <1>3. Cache!Idle \in CacheClient /\ Cache!Idle.pc = "idle"
    BY DEF CacheClient, Cache!Idle
  <1>4. /\ client' \in [Cache!Clients -> CacheClient]
        /\ client'[m] = Cache!Idle
        /\ \A o \in Cache!Clients : o # m => client'[o] = client[o]
    BY <1>0, <1>1, <1>3, ClientMoves DEF CacheInv
  <1>5. \A o \in Mergers : client'[o].pc = "idle"
    BY <1>0, <1>1, <1>3, <1>4 DEF CacheInv, OneMerges, Cache!Clients
  <1>6. disk' \in Entry
    BY <1>1, <1>2 DEF CacheInv, CacheTyped, Entry, Cache!Absent, Cache!DiskSetFails
  <1>7. merged' \subseteq Results
    <2>1. merged \subseteq Results /\ merged \cup new \subseteq Results
      BY <1>2 DEF CacheInv, CacheTyped
    <2> QED BY <1>1, <2>1, AccountTyped
  <1>8. CacheTyped'
    BY <1>1, <1>3, <1>4, <1>5, <1>6, <1>7 DEF CacheInv, CacheTyped, Cache!Clients
  <1>9. OneMerges'
    BY <1>5 DEF OneMerges
  <1>10. BaseKept'
    BY <1>5 DEF BaseKept
  <1>11. ASSUME losses = {} PROVE MemoryKept /\ DiskKept /\ BaseKept
    BY <1>11 DEF CacheInv, NothingLost
  <1>12. CASE disk' = data /\ Cache!Account(merged \cup new, {})
    <2>1. ASSUME losses = {}, merged' = merged \cup new PROVE MemoryKept' /\ DiskKept'
      <3>1. merged \subseteq data
        BY <1>1, <1>2, <1>11, <2>1 DEF BaseKept
      <3>2. DiskKept'
        BY <1>2, <1>12, <2>1, <3>1 DEF DiskKept
      <3>3. mem \notin Cache!Absent => merged \subseteq mem /\ new \subseteq mem
        BY <1>1, <1>11, <2>1 DEF MemoryKept
      <3> HIDE DEF new
      <3>4. MemoryKept'
        BY <1>1, <1>5, <2>1, <3>3 DEF MemoryKept
      <3> QED BY <3>2, <3>4
    <2>2. NothingLost'
      BY <1>10, <1>12, <2>1, Accounted
    <2> QED BY <1>8, <1>9, <2>2 DEF CacheInv
  <1>13. CASE Cache!DiskSetFails /\ Cache!Account(merged, {})
    <2>1. ASSUME losses = {}, merged' = merged PROVE MemoryKept' /\ DiskKept'
      BY <1>1, <1>5, <1>11, <1>13, <2>1 DEF MemoryKept, DiskKept, Cache!DiskSetFails, Cache!Absent
    <2>2. NothingLost'
      BY <1>10, <1>13, <2>1, Accounted
    <2> QED BY <1>8, <1>9, <2>2 DEF CacheInv
  <1> QED BY <1>1, <1>12, <1>13

\* What moves entries between the levels, or drops them, while the clients stand still.
LEMMA LevelsKeep ==
    ASSUME CacheInv, NEW events, Cache!Account(merged, events), UNCHANGED client,
           mem' \in {mem, None}, saving' \in [Savers -> Entry],
           disk' \in Entry,
           losses = {} /\ events = {} => disk' \in {disk} \cup Cache!Absent \/ merged \subseteq disk'
    PROVE  CacheInv'
  <1>1. merged' \subseteq Results
    BY AccountTyped DEF CacheInv, CacheTyped
  <1>2. CacheTyped'
    BY <1>1 DEF CacheInv, CacheTyped, Entry, Cache!Absent
  <1>3. OneMerges'
    BY DEF CacheInv, OneMerges
  <1>4. ASSUME losses = {}, events = {}, merged' = merged PROVE MemoryKept' /\ DiskKept' /\ BaseKept'
    BY <1>4 DEF CacheInv, NothingLost, MemoryKept, DiskKept, BaseKept, Cache!Absent
  <1>5. NothingLost'
    BY <1>4, Accounted
  <1> QED BY <1>2, <1>3, <1>5 DEF CacheInv

LEMMA SaverKeeps ==
    ASSUME CacheInv, NEW f \in Savers,
           Cache!Evict(f) \/ Cache!FlushMemoryToDisk(f) \/ Cache!Save(f)
    PROVE  CacheInv'
  <1>0. /\ mem \in Entry /\ disk \in Entry /\ None \in Entry /\ Torn \in Entry
        /\ saving \in [Savers -> Entry]
    BY DEF CacheInv, CacheTyped, Entry, Cache!Absent
  <1>1. CASE Cache!Evict(f)
    <2>1. /\ saving' \in [Savers -> Entry] /\ mem' = None /\ UNCHANGED <<disk, client>>
          /\ Cache!Account(merged, {})
      BY <1>0, <1>1 DEF Cache!Evict
    <2> QED BY <1>0, <2>1, LevelsKeep
  <1>2. CASE Cache!FlushMemoryToDisk(f)
    <2>1. saving' \in [Savers -> Entry] /\ UNCHANGED <<mem, disk, client, merged, losses>>
      BY <1>0, <1>2 DEF Cache!FlushMemoryToDisk
    <2> QED BY <2>1 DEF CacheInv, CacheTyped, OneMerges, NothingLost, MemoryKept, DiskKept, BaseKept
  <1>3. CASE Cache!Save(f)
    <2>1. saving' \in [Savers -> Entry] /\ UNCHANGED <<mem, client>>
      BY <1>0, <1>3 DEF Cache!Save
    <2>2. CASE Cache!DiskSetFails /\ Cache!Account(merged, {})
      <3>1. disk' \in Entry /\ disk' \in {disk} \cup Cache!Absent
        BY <1>0, <2>2 DEF Cache!DiskSetFails, Cache!Absent
      <3> QED BY <2>1, <2>2, <3>1, LevelsKeep
    <2>3. CASE disk' = saving[f] /\ Cache!Account(merged, Cache!Events("save", Cache!Older(saving[f])))
      <3> DEFINE events == Cache!Events("save", Cache!Older(saving[f]))
      <3>1. disk' \in Entry
        BY <1>0, <2>3
      <3>2. events = {} => ~Cache!Older(saving[f])
        BY DEF Cache!Events
      <3>3. events = {} => disk' \in {disk} \cup Cache!Absent \/ merged \subseteq disk'
        BY <2>3, <3>2, NotOlder DEF Cache!Absent
      <3>4. Cache!Account(merged, events)
        BY <2>3
      <3> HIDE DEF events
      <3> QED BY <2>1, <3>1, <3>3, <3>4, LevelsKeep
    <2> QED BY <1>3, <2>2, <2>3 DEF Cache!Save
  <1> QED BY <1>1, <1>2, <1>3

LEMMA RestartKeeps == ASSUME CacheInv, Cache!Restart PROVE CacheInv'
  <1>1. /\ mem' = None /\ disk' = disk /\ client' = [c \in Cache!Clients |-> Cache!Idle]
        /\ saving' = [f \in Savers |-> None] /\ Cache!Account(merged, {})
    BY DEF Cache!Restart
  <1>2. Cache!Idle \in CacheClient /\ Cache!Idle.pc = "idle"
    BY DEF CacheClient, Cache!Idle
  <1>3. \A c \in Cache!Clients : client'[c].pc = "idle"
    BY <1>1, <1>2
  <1>4. merged' \subseteq Results
    BY <1>1, AccountTyped DEF CacheInv, CacheTyped
  <1>5. /\ client' \in [Cache!Clients -> CacheClient] /\ saving' \in [Savers -> Entry]
        /\ mem' \in Entry /\ disk' \in Entry
    BY <1>1, <1>2 DEF CacheInv, CacheTyped, Entry, Cache!Absent
  <1>6. CacheTyped'
    BY <1>3, <1>4, <1>5 DEF CacheTyped, Cache!Clients
  <1>7. OneMerges'
    BY <1>3 DEF OneMerges, Cache!Clients
  <1>8. ASSUME losses = {}, merged' = merged PROVE MemoryKept' /\ DiskKept' /\ BaseKept'
    BY <1>1, <1>3, <1>8 DEF CacheInv, NothingLost, MemoryKept, DiskKept, BaseKept, Cache!Absent, Cache!Clients
  <1>9. NothingLost'
    BY <1>1, <1>8, Accounted
  <1> QED BY <1>6, <1>7, <1>9 DEF CacheInv

LEMMA CacheStep == CacheInv /\ Cache!Next => CacheInv'
  <1> SUFFICES ASSUME CacheInv, Cache!Next PROVE CacheInv'
    OBVIOUS
  <1>1. CASE Cache!ExpireMemory
    <2>1. /\ mem' = None /\ UNCHANGED <<disk, client, saving>> /\ Cache!Account(merged, {})
          /\ saving \in [Savers -> Entry] /\ disk \in Entry
      BY <1>1 DEF Cache!ExpireMemory, CacheInv, CacheTyped
    <2> QED BY <2>1, LevelsKeep
  <1>2. CASE Cache!DropDisk
    <2>1. /\ disk' = None /\ UNCHANGED <<mem, client, saving>> /\ Cache!Account(merged, {})
          /\ saving \in [Savers -> Entry] /\ None \in Entry /\ None \in Cache!Absent
      BY <1>2 DEF Cache!DropDisk, CacheInv, CacheTyped, Entry, Cache!Absent
    <2> QED BY <2>1, LevelsKeep
  <1>3. CASE \E m \in Mergers : \E new \in SUBSET Results : Cache!Merge(m, new)
    BY <1>3, LookupKeeps
  <1>4. CASE \E m \in Mergers : Cache!StoreMemory(m) \/ Cache!StoreDisk(m)
    BY <1>4, StoreMemoryKeeps, StoreDiskKeeps
  <1>5. CASE \E r \in Readers : Cache!Read(r)
    BY <1>5, ReadKeeps DEF Cache!Clients
  <1>6. CASE \E c \in Cache!Clients : Cache!ReadDisk(c) \/ Cache!MissDisk(c) \/ Cache!Promote(c)
    BY <1>6, ReadKeeps, MissKeeps, PromoteKeeps
  <1>7. CASE \E f \in Savers : Cache!Evict(f) \/ Cache!FlushMemoryToDisk(f) \/ Cache!Save(f)
    BY <1>7, SaverKeeps
  <1> QED BY <1>1, <1>2, <1>3, <1>4, <1>5, <1>6, <1>7, RestartKeeps DEF Cache!Next

\* A search that can read an entry of the main cache finds all that was merged into
\* it (mergeAndStoreCachedSearch), for any number of merges, readers and saves under
\* way, whatever expires, is evicted, fails or restarts: only a promotion, a save, a
\* refused store or a missed read of an older version takes something back.
THEOREM NothingUnmerged == StoresSpec => []MergedStays
  <1>1. StoresInit => CacheInv
    BY CacheStarts DEF StoresInit
  <1>2. CacheInv /\ [StoresNext]_storeVars => CacheInv'
    <2> SUFFICES ASSUME CacheInv, [StoresNext]_storeVars PROVE CacheInv'
      OBVIOUS
    <2>1. Cache!Next \/ UNCHANGED cacheVars
      BY DEF StoresNext, storeVars
    <2>2. CASE UNCHANGED cacheVars
      BY <2>2 DEF cacheVars, CacheInv, CacheTyped, OneMerges, NothingLost, MemoryKept, DiskKept, BaseKept
    <2> QED BY <2>1, <2>2, CacheStep
  <1>3. CacheInv => MergedStays
    BY DEF CacheInv, NothingLost, MemoryKept, DiskKept, MergedStays, Cache!MergedStays, Cache!Visible,
           Cache!Absent
  <1> QED BY <1>1, <1>2, <1>3, PTL DEF StoresSpec

-----------------------------------------------------------------------------
(* Disk cache *)

\* Every file is as large as its metadata says, so that what is subtracted for a key
\* is at least what its file took.
DiskInv ==
    /\ file \in [CacheKeys -> 0..Capacity]
    /\ meta \in [CacheKeys -> 0..Capacity]
    /\ \A k \in CacheKeys : file[k] = 0 \/ file[k] = meta[k]
    /\ currSize \in Int
    /\ DiskLosesNoSpace

LEMMA DiskCardinality == \A S : Disk!Cardinality(S) = Cardinality(S)
  BY DEF Disk!Cardinality, Cardinality

\* What lies in the space of some keys.
LEMMA InSpace ==
    ASSUME NEW f, NEW S, NEW u
    PROVE  u \in Disk!Space(f, S) <=>
             \E k \in CacheKeys : \E i \in 1..f[k] : k \in S /\ u = <<k, i>>
  BY DEF Disk!Space

LEMMA SpaceFinite ==
    ASSUME NEW f \in [CacheKeys -> 0..Capacity], NEW S
    PROVE  IsFiniteSet(Disk!Space(f, S)) /\ Disk!Taken(f, S) \in Nat
           /\ Disk!Taken(f, S) = Cardinality(Disk!Space(f, S))
  <1>1. IsFiniteSet(CacheKeys) /\ IsFiniteSet(1..Capacity)
    BY StoresAssumption, FS_Interval
  <1>2. IsFiniteSet(CacheKeys \X (1..Capacity))
    BY <1>1, FS_Product
  <1>3. ASSUME NEW u \in Disk!Space(f, S) PROVE u \in CacheKeys \X (1..Capacity)
    <2>1. PICK k \in CacheKeys : \E i \in 1..f[k] : k \in S /\ u = <<k, i>>
      BY InSpace
    <2>2. f[k] \in 0..Capacity /\ Capacity \in Nat
      BY StoresAssumption
    <2> QED BY <2>1, <2>2
  <1>4. IsFiniteSet(Disk!Space(f, S))
    BY <1>2, <1>3, FS_Subset
  <1> QED BY <1>4, FS_CardinalityType, DiskCardinality DEF Disk!Taken

\* Clearing the keys in S leaves the space of the others, and frees no more than theirs.
LEMMA ClearedTaken ==
    ASSUME NEW f \in [CacheKeys -> 0..Capacity], NEW S
    PROVE  /\ Disk!Cleared(f, S) \in [CacheKeys -> 0..Capacity]
           /\ Disk!Total(Disk!Cleared(f, S)) \in Nat
           /\ Disk!Total(f) = Disk!Total(Disk!Cleared(f, S)) + Disk!Taken(f, S)
  <1> DEFINE g == Disk!Cleared(f, S)
  <1>1. g \in [CacheKeys -> 0..Capacity]
    BY StoresAssumption DEF Disk!Cleared
  <1>2. \A k \in CacheKeys : g[k] = IF k \in S THEN 0 ELSE f[k]
    BY DEF Disk!Cleared
  <1> HIDE DEF g
  <1>a. \A u : u \in Disk!Space(g, CacheKeys) <=>
                 \E k \in CacheKeys : \E i \in 1..g[k] : k \in CacheKeys /\ u = <<k, i>>
    BY InSpace
  <1>b. \A u : u \in Disk!Space(f, CacheKeys) <=>
                 \E k \in CacheKeys : \E i \in 1..f[k] : k \in CacheKeys /\ u = <<k, i>>
    BY InSpace
  <1>c. \A u : u \in Disk!Space(f, S) <=>
                 \E k \in CacheKeys : \E i \in 1..f[k] : k \in S /\ u = <<k, i>>
    BY InSpace
  <1>3. Disk!Space(f, CacheKeys) = Disk!Space(g, CacheKeys) \cup Disk!Space(f, S)
    <2>1. ASSUME NEW k \in CacheKeys, NEW i
          PROVE  i \in 1..f[k] <=> i \in 1..g[k] \/ (k \in S /\ i \in 1..f[k])
      <3>1. CASE k \in S
        <4>1. g[k] = 0 BY <1>2, <3>1
        <4> QED BY <3>1, <4>1
      <3>2. CASE k \notin S
        BY <1>2, <3>2
      <3> QED BY <3>1, <3>2
    <2>2. ASSUME NEW u PROVE u \in Disk!Space(f, CacheKeys) <=>
                               u \in Disk!Space(g, CacheKeys) \cup Disk!Space(f, S)
      BY <1>a, <1>b, <1>c, <2>1, Zenon
    <2> QED BY <2>2
  <1>4. Disk!Space(g, CacheKeys) \cap Disk!Space(f, S) = {}
    <2>1. ASSUME NEW u \in Disk!Space(g, CacheKeys), u \in Disk!Space(f, S) PROVE FALSE
      <3>1. PICK k \in CacheKeys : \E i \in 1..g[k] : u = <<k, i>>
        BY <1>a
      <3>2. PICK i \in 1..g[k] : u = <<k, i>>
        BY <3>1
      <3>3. PICK l \in CacheKeys : l \in S /\ \E j \in 1..f[l] : u = <<l, j>>
        BY <1>c, <2>1
      <3>4. k = l BY <3>2, <3>3
      <3>5. g[k] = 0 BY <1>2, <3>3, <3>4
      <3> QED BY <3>2, <3>5
    <2> QED BY <2>1
  <1>5. IsFiniteSet(Disk!Space(g, CacheKeys)) /\ IsFiniteSet(Disk!Space(f, S))
    BY <1>1, SpaceFinite
  <1>6. Cardinality(Disk!Space(f, CacheKeys)) =
          Cardinality(Disk!Space(g, CacheKeys)) + Cardinality(Disk!Space(f, S)) - Cardinality({})
    BY <1>3, <1>4, <1>5, FS_Union
  <1>7. Cardinality({}) = 0
    BY FS_EmptySet
  <1>8. /\ Disk!Total(f) = Cardinality(Disk!Space(f, CacheKeys))
        /\ Disk!Total(g) = Cardinality(Disk!Space(g, CacheKeys)) /\ Disk!Total(g) \in Nat
        /\ Disk!Taken(f, S) = Cardinality(Disk!Space(f, S)) /\ Disk!Taken(f, S) \in Nat
    BY <1>1, SpaceFinite DEF Disk!Total
  <1> QED BY <1>1, <1>6, <1>7, <1>8 DEF g

\* The files of some keys take no more than their metadata say.
LEMMA FilesWithinMeta ==
    ASSUME DiskInv, NEW S
    PROVE  Disk!Taken(file, S) <= Disk!Taken(meta, S)
  <1>1. ASSUME NEW u \in Disk!Space(file, S) PROVE u \in Disk!Space(meta, S)
    <2>1. PICK k \in CacheKeys : \E i \in 1..file[k] : k \in S /\ u = <<k, i>>
      BY InSpace
    <2>2. PICK i \in 1..file[k] : k \in S /\ u = <<k, i>>
      BY <2>1
    <2>3. i \in 1..meta[k]
      BY <2>2 DEF DiskInv
    <2> QED BY <2>2, <2>3, InSpace
  <1>2. /\ IsFiniteSet(Disk!Space(meta, S))
        /\ Disk!Taken(file, S) = Cardinality(Disk!Space(file, S))
        /\ Disk!Taken(meta, S) = Cardinality(Disk!Space(meta, S))
    BY SpaceFinite DEF DiskInv
  <1> QED BY <1>1, <1>2, FS_Subset

\* A key's own size, and what is taken by two sets of keys together.
LEMMA TakenByOne ==
    ASSUME NEW f \in [CacheKeys -> 0..Capacity], NEW k \in CacheKeys
    PROVE  Disk!Taken(f, {k}) = f[k]
  <1>0. f[k] \in Nat
    BY StoresAssumption
  <1>1. IsFiniteSet(1..f[k]) /\ Cardinality(1..f[k]) = f[k]
    BY <1>0, FS_Interval
  <1>2. Disk!Space(f, {k}) = {k} \X (1..f[k])
    BY DEF Disk!Space
  <1>3. IsFiniteSet({k}) /\ Cardinality({k}) = 1
    BY FS_Singleton
  <1>4. Cardinality({k} \X (1..f[k])) = 1 * f[k]
    BY <1>1, <1>3, FS_Product
  <1>5. Disk!Taken(f, {k}) = Cardinality({k} \X (1..f[k]))
    BY <1>2, SpaceFinite
  <1> QED BY <1>0, <1>4, <1>5

LEMMA TakenTogether ==
    ASSUME NEW f \in [CacheKeys -> 0..Capacity], NEW S, NEW T
    PROVE  Disk!Taken(f, S \cup T) <= Disk!Taken(f, S) + Disk!Taken(f, T)
  <1>1. Disk!Space(f, S \cup T) = Disk!Space(f, S) \cup Disk!Space(f, T)
    BY DEF Disk!Space
  <1>2. /\ IsFiniteSet(Disk!Space(f, S)) /\ Disk!Taken(f, S) = Cardinality(Disk!Space(f, S))
        /\ IsFiniteSet(Disk!Space(f, T)) /\ Disk!Taken(f, T) = Cardinality(Disk!Space(f, T))
        /\ Disk!Taken(f, S \cup T) = Cardinality(Disk!Space(f, S \cup T))
        /\ Disk!Taken(f, S) \in Nat /\ Disk!Taken(f, T) \in Nat
    BY SpaceFinite
  <1>3. IsFiniteSet(Disk!Space(f, S) \cap Disk!Space(f, T))
    BY <1>2, FS_Subset
  <1>4. Cardinality(Disk!Space(f, S) \cap Disk!Space(f, T)) \in Nat
    BY <1>3, FS_CardinalityType
  <1>5. Cardinality(Disk!Space(f, S) \cup Disk!Space(f, T)) =
          Cardinality(Disk!Space(f, S)) + Cardinality(Disk!Space(f, T))
            - Cardinality(Disk!Space(f, S) \cap Disk!Space(f, T))
    BY <1>2, FS_Union
  <1>6. Disk!Taken(f, S \cup T) =
          Disk!Taken(f, S) + Disk!Taken(f, T)
            - Cardinality(Disk!Space(f, S) \cap Disk!Space(f, T))
    BY <1>1, <1>2, <1>5
  <1> QED BY <1>2, <1>4, <1>6

\* Writing a key that has no file adds its size.
LEMMA WrittenTotal ==
    ASSUME NEW f \in [CacheKeys -> 0..Capacity], NEW g \in [CacheKeys -> 0..Capacity],
           NEW k \in CacheKeys, f[k] = 0, \A l \in CacheKeys : l # k => g[l] = f[l]
    PROVE  Disk!Total(g) = Disk!Total(f) + g[k]
  <1>1. Disk!Cleared(g, {k}) = f
    BY DEF Disk!Cleared
  <1>2. Disk!Total(g) = Disk!Total(f) + Disk!Taken(g, {k})
    BY <1>1, ClearedTaken
  <1> QED BY <1>2, TakenByOne

LEMMA DiskStarts == Disk!Init => DiskInv
  <1> SUFFICES ASSUME Disk!Init PROVE DiskInv
    OBVIOUS
  <1>1. file \in [CacheKeys -> 0..Capacity] /\ meta \in [CacheKeys -> 0..Capacity]
        /\ currSize = 0
    BY StoresAssumption DEF Disk!Init
  <1>2. Disk!Total(file) \in Nat
    BY <1>1, SpaceFinite DEF Disk!Total
  <1> QED BY <1>1, <1>2 DEF DiskInv, Disk!Init, DiskLosesNoSpace, Disk!DiskLosesNoSpace

\* Dropping the keys in S, with their metadata, keeps the invariant.
LEMMA DroppedKeeps ==
    ASSUME DiskInv, NEW S,
           file' = Disk!Cleared(file, S), meta' = Disk!Cleared(meta, S),
           currSize' = Disk!Dropped(S, currSize)
    PROVE  DiskInv'
  <1>1. /\ file' \in [CacheKeys -> 0..Capacity] /\ meta' \in [CacheKeys -> 0..Capacity]
        /\ Disk!Total(file) = Disk!Total(file') + Disk!Taken(file, S)
        /\ Disk!Total(file') \in Nat
    BY ClearedTaken DEF DiskInv
  <1>2. \A k \in CacheKeys : file'[k] = 0 \/ file'[k] = meta'[k]
    BY DEF DiskInv, Disk!Cleared
  <1>3. /\ Disk!Taken(file, S) <= Disk!Taken(meta, S)
        /\ Disk!Taken(meta, S) \in Nat /\ Disk!Taken(file, S) \in Nat
    BY FilesWithinMeta, SpaceFinite DEF DiskInv
  <1>4. currSize \in Int /\ currSize <= Disk!Total(file)
    BY DEF DiskInv, DiskLosesNoSpace, Disk!DiskLosesNoSpace
  <1>5. currSize' \in Int /\ currSize' <= Disk!Total(file')
    BY <1>1, <1>3, <1>4 DEF Disk!Dropped
  <1> QED BY <1>1, <1>2, <1>5 DEF DiskInv, DiskLosesNoSpace, Disk!DiskLosesNoSpace

\* Set: what is subtracted for the old version and for the evicted keys, even twice
\* for a key that is both, is at least what their files took.
LEMMA SetKeeps ==
    ASSUME DiskInv, NEW k \in CacheKeys, NEW s \in Sizes, Disk!Set(k, s)
    PROVE  DiskInv'
  <1> DEFINE size == Disk!Replaced(k)
             out  == Disk!Evicted(size, s)
             gone == out \cup {k}
             rest == Disk!Cleared(file, gone)
  <1>t. file \in [CacheKeys -> 0..Capacity] /\ meta \in [CacheKeys -> 0..Capacity]
        /\ currSize \in Int /\ currSize <= Disk!Total(file)
    BY DEF DiskInv, DiskLosesNoSpace, Disk!DiskLosesNoSpace
  <1>s. s \in 0..Capacity /\ s \in Nat
    BY StoresAssumption DEF Disk!Set
  <1>1. \/ /\ file' = [Disk!Cleared(file, out) EXCEPT ![k] = s]
           /\ meta' = [Disk!Cleared(meta, out) EXCEPT ![k] = s]
           /\ currSize' = Disk!Dropped(out, size) + s
        \/ /\ file' = rest /\ meta' = Disk!Cleared(meta, out)
           /\ currSize' = Disk!Dropped(out, size)
    BY DEF Disk!Set
  <1>2. Disk!Dropped(out, size) = currSize - meta[k] - Disk!Taken(meta, out)
    BY DEF Disk!Dropped, Disk!Replaced
  <1> HIDE DEF out, size
  <1>3. /\ rest \in [CacheKeys -> 0..Capacity] /\ Disk!Total(rest) \in Nat
        /\ Disk!Total(file) = Disk!Total(rest) + Disk!Taken(file, gone)
    BY <1>t, ClearedTaken
  <1>4. /\ Disk!Taken(meta, gone) <= Disk!Taken(meta, out) + Disk!Taken(meta, {k})
        /\ Disk!Taken(meta, {k}) = meta[k]
        /\ Disk!Taken(file, gone) <= Disk!Taken(meta, gone)
    BY <1>t, TakenTogether, TakenByOne, FilesWithinMeta
  <1>5. /\ Disk!Taken(meta, out) \in Nat /\ Disk!Taken(meta, gone) \in Nat
        /\ Disk!Taken(file, gone) \in Nat /\ meta[k] \in Nat
    BY <1>t, SpaceFinite, StoresAssumption
  <1>6. Disk!Dropped(out, size) \in Int /\ Disk!Dropped(out, size) <= Disk!Total(rest)
    BY <1>t, <1>2, <1>3, <1>4, <1>5
  <1>7. Disk!Cleared(meta, out) \in [CacheKeys -> 0..Capacity]
    BY <1>t, ClearedTaken
  <1>8. CASE /\ file' = [Disk!Cleared(file, out) EXCEPT ![k] = s]
             /\ meta' = [Disk!Cleared(meta, out) EXCEPT ![k] = s]
             /\ currSize' = Disk!Dropped(out, size) + s
    <2>1. file' \in [CacheKeys -> 0..Capacity]
      BY <1>8, <1>s, <1>t, ClearedTaken
    <2>a. rest[k] = 0 /\ file'[k] = s /\ \A l \in CacheKeys : l # k => file'[l] = rest[l]
      BY <1>8 DEF Disk!Cleared
    <2>2. Disk!Total(file') = Disk!Total(rest) + s
      <3> HIDE DEF rest
      <3> QED BY <1>3, <2>1, <2>a, WrittenTotal
    <2>3. meta' \in [CacheKeys -> 0..Capacity]
      BY <1>7, <1>8, <1>s
    <2>4. \A l \in CacheKeys : file'[l] = 0 \/ file'[l] = meta'[l]
      BY <1>8 DEF DiskInv, Disk!Cleared
    <2>5. currSize' \in Int /\ currSize' <= Disk!Total(file')
      BY <1>3, <1>6, <1>8, <1>s, <2>2
    <2> QED BY <2>1, <2>3, <2>4, <2>5 DEF DiskInv, DiskLosesNoSpace, Disk!DiskLosesNoSpace
  <1>9. CASE /\ file' = rest /\ meta' = Disk!Cleared(meta, out)
             /\ currSize' = Disk!Dropped(out, size)
    <2>1. \A l \in CacheKeys : file'[l] = 0 \/ file'[l] = meta'[l]
      BY <1>9 DEF DiskInv, Disk!Cleared
    <2> QED BY <1>3, <1>6, <1>7, <1>9, <2>1 DEF DiskInv, DiskLosesNoSpace, Disk!DiskLosesNoSpace
  <1> QED BY <1>1, <1>8, <1>9

\* Every step of a shard keeps the invariant.
LEMMA DiskStep == DiskInv /\ Disk!Next => DiskInv'
  <1> SUFFICES ASSUME DiskInv, Disk!Next PROVE DiskInv'
    OBVIOUS
  <1>1. ASSUME NEW k \in CacheKeys, Disk!Delete(k) PROVE DiskInv'
    BY <1>1, DroppedKeeps DEF Disk!Delete
  <1>2. ASSUME NEW k \in CacheKeys, Disk!Hit(k) \/ Disk!Expire(k) PROVE DiskInv'
    BY <1>2 DEF Disk!Hit, Disk!Expire, DiskInv, DiskLosesNoSpace, Disk!DiskLosesNoSpace,
                Disk!Total, Disk!Taken, Disk!Space
  <1>3. CASE Disk!CleanExpired
    BY <1>3, DroppedKeeps DEF Disk!CleanExpired
  <1>4. CASE Disk!LoadMetadata
    <2>1. file' = file /\ meta' = file /\ currSize' = Disk!Total(file)
      BY <1>4 DEF Disk!LoadMetadata
    <2>2. file \in [CacheKeys -> 0..Capacity] /\ Disk!Total(file) \in Nat
      BY SpaceFinite DEF DiskInv, Disk!Total
    <2>3. Disk!Total(file') = Disk!Total(file)
      BY <2>1
    <2> QED BY <2>1, <2>2, <2>3 DEF DiskInv, DiskLosesNoSpace, Disk!DiskLosesNoSpace
  <1> QED BY <1>1, <1>2, <1>3, <1>4, SetKeeps DEF Disk!Next

\* The space counter of a shard never exceeds what lies on the disk (disk_cache.go):
\* replacements, failed writes, evictions and restarts shrink no cache, for any keys,
\* sizes and capacity.
THEOREM DiskKeepsSpace == StoresSpec => []DiskLosesNoSpace
  <1>1. StoresInit => DiskInv
    BY DiskStarts DEF StoresInit
  <1>2. DiskInv /\ [StoresNext]_storeVars => DiskInv'
    <2> SUFFICES ASSUME DiskInv, [StoresNext]_storeVars PROVE DiskInv'
      OBVIOUS
    <2>1. Disk!Next \/ UNCHANGED diskVars
      BY DEF StoresNext, storeVars
    <2>2. CASE UNCHANGED diskVars
      BY <2>2 DEF diskVars, DiskInv, DiskLosesNoSpace, Disk!DiskLosesNoSpace
    <2> QED BY <2>1, <2>2, DiskStep
  <1>3. DiskInv => DiskLosesNoSpace
    BY DEF DiskInv
  <1> QED BY <1>1, <1>2, <1>3, PTL DEF StoresSpec
=============================================================================
