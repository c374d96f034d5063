------------------------------ MODULE Credentials ------------------------------
(***************************************************************************)
(* One credential of a search plugin (credential/service.go,               *)
(* storage/plugin_credentials.go).  Search adapters store what a new login *)
(* gave them (Refresh), its owner replaces it after a login, administrators*)
(* change its scope and metadata, and searches and health checks record    *)
(* its state; each reads the row, encrypts on its own, and replaces the    *)
(* envelope when the revision is still the one that was read.              *)
(*                                                                         *)
(* A secret is the number of the login that produced it.                   *)
(***************************************************************************)
EXTENDS Integers

CONSTANTS
    Writers,     \* concurrent calls
    Scopes,      \* admin_private and public_shared
    MaxLogins,   \* bound: logins
    MaxEdits     \* bound: changes of scope and metadata

VARIABLES
    cred,        \* the row, or Gone
    op,          \* of a call: what it does and what it has read
    logins,      \* logins so far
    credEdits,   \* changes of scope and metadata so far
    intended     \* ghost: the values that were last written on purpose

credVars == <<cred, op, logins, credEdits, intended>>

Gone == [revision |-> 0]
Idle == [kind |-> "idle"]

Init ==
    /\ \E s \in Scopes :
         cred = [revision |-> 1, scope |-> s, secret |-> 0, label |-> 0, status |-> "active"]
    /\ op = [w \in Writers |-> Idle]
    /\ logins = 0 /\ credEdits = 0
    /\ intended = [scope |-> cred.scope, secret |-> 0, label |-> 0]

-----------------------------------------------------------------------------
\* Somebody logs in upstream: an adapter that searches, or the owner.
Login(w, kind) ==
    /\ op[w] = Idle /\ logins < MaxLogins
    /\ logins' = logins + 1
    /\ op' = [op EXCEPT ![w] = [kind |-> kind, secret |-> logins + 1, attempt |-> 1,
                                read |-> Gone]]
    /\ UNCHANGED <<cred, credEdits, intended>>

\* An administrator asks for another scope or other metadata.
Edit(w, kind) ==
    /\ op[w] = Idle /\ credEdits < MaxEdits
    /\ credEdits' = credEdits + 1
    /\ op' = [op EXCEPT ![w] = [kind |-> kind, secret |-> 0, attempt |-> 1, read |-> Gone]]
    /\ UNCHANGED <<cred, logins, intended>>

\* GetPluginCredentialByPublicID; a credential that is gone ends the call.
Get(w) ==
    /\ op[w] # Idle /\ op[w].read = Gone
    /\ op' = [op EXCEPT ![w] = IF cred = Gone THEN Idle ELSE [@ EXCEPT !.read = cred]]
    /\ UNCHANGED <<cred, logins, credEdits, intended>>

\* The row that the call wants: its own change on what it has read.
Replacement(w) ==
    LET o == op[w] IN
    CASE o.kind = "refresh"  -> [o.read EXCEPT !.secret = o.secret]
      [] o.kind = "replace"  -> [o.read EXCEPT !.secret = o.secret, !.label = o.secret,
                                               !.status = "active"]
      [] o.kind = "scope"    -> [o.read EXCEPT !.scope = CHOOSE s \in Scopes : s # @]
      [] o.kind = "metadata" -> [o.read EXCEPT !.label = @ + 1]

\* What the call means to change.
Intends(w) ==
    LET r == Replacement(w) IN
    [scope  |-> IF op[w].kind = "scope" THEN r.scope ELSE intended.scope,
     secret |-> IF op[w].kind \in {"refresh", "replace"} THEN r.secret ELSE intended.secret,
     label  |-> IF op[w].kind \in {"replace", "metadata"} THEN r.label ELSE intended.label]

\* Mutant: the update does not ask for the revision.
MatchesId(w) == cred # Gone

\* WHERE public_id=$1 AND revision=$2.
MatchesRevision(w) == cred # Gone /\ cred.revision = op[w].read.revision

ReplaceEnvelopeCAS(w) ==
    /\ op[w] # Idle /\ op[w].read # Gone
    /\ MatchesRevision(w)
    /\ cred' = [Replacement(w) EXCEPT !.revision = cred.revision + 1]
    /\ intended' = Intends(w)
    /\ op' = [op EXCEPT ![w] = Idle]
    /\ UNCHANGED <<logins, credEdits>>

\* ErrConflict, after which Refresh reads and writes once more, or ErrNotFound.
Conflict(w) ==
    /\ op[w] # Idle /\ op[w].read # Gone
    /\ ~MatchesRevision(w)
    /\ op' = [op EXCEPT ![w] =
                IF cred # Gone /\ op[w].kind = "refresh" /\ op[w].attempt < 2
                THEN [@ EXCEPT !.attempt = 2, !.read = Gone] ELSE Idle]
    /\ UNCHANGED <<cred, logins, credEdits, intended>>

\* RecordPluginCredentialFailure, and RecordPluginCredentialHealth, which may
\* also find the credential active again: neither asks for a revision.
RecordStatus(s) ==
    /\ cred # Gone /\ cred.status # s
    /\ cred' = [cred EXCEPT !.status = s]
    /\ UNCHANGED <<op, logins, credEdits, intended>>

DeleteCredential ==
    /\ cred # Gone /\ cred' = Gone
    /\ UNCHANGED <<op, logins, credEdits, intended>>

Next ==
    \/ \E w \in Writers :
         \/ \E kind \in {"refresh", "replace"} : Login(w, kind)
         \/ \E kind \in {"scope", "metadata"} : Edit(w, kind)
         \/ Get(w) \/ ReplaceEnvelopeCAS(w) \/ Conflict(w)
    \/ \E s \in {"active", "invalid"} : RecordStatus(s)
    \/ DeleteCredential

Spec == Init /\ [][Next]_credVars

-----------------------------------------------------------------------------
(* Properties *)

\* No call undoes another: the scope is the one that was last asked for, not one
\* that a refresh had read before (a private credential is not shared again), an
\* edit never brings a replaced secret back, and no metadata is lost.
NoUpdateLost ==
    cred # Gone => /\ cred.scope = intended.scope
                   /\ cred.secret = intended.secret
                   /\ cred.label = intended.label

\* "CAS prevents an older concurrent login from overwriting a newer credential
\* revision": what Refresh stores comes from a later login than what was there.
NewerLoginStays ==
    [][\A w \in Writers :
         op[w].kind = "refresh" /\ op'[w] = Idle /\ cred' # cred /\ cred' # Gone
         => cred'.secret > cred.secret]_credVars
=============================================================================
