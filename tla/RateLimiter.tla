------------------------------ MODULE RateLimiter ------------------------------
(***************************************************************************)
(* The rate limiter of /api/search (usage/limiter.go) for one user, as     *)
(* SearchAccessMiddleware (api/search_access.go) calls it: a request is    *)
(* authenticated, which reads the user's limits, and decided later with    *)
(* the limits that it read.  The clock is the number of the current        *)
(* second.                                                                 *)
(***************************************************************************)
EXTENDS Integers

CONSTANTS
    Requests,          \* requests of the user
    Limits,            \* LimitConfig values: records with rps and rpm
    Unlimited,         \* the LimitConfig without limits
    SecondsPerMinute,
    MaxSecond,         \* bound: the last second
    MaxEdits           \* bound: changes of the user's limits

VARIABLES
    phase,      \* of a request: "new", "decide", "done"
    principal,  \* of a request: the limits that authentication read
    account,    \* the user's limits in the database
    edits,      \* changes of the limits that are left
    second,     \* the clock
    limitState, \* states[userID]: config, windows and counts; NoState without one
    passed,     \* ghost: requests let through in the current second and minute
    decided     \* ghost: configurations decided with in them

limiterVars == <<limitState, passed, decided>>
vars        == <<phase, principal, account, edits, second, limiterVars>>

NoState == [config |-> Unlimited, secondWindow |-> -1, secondCount |-> 0,
            minuteWindow |-> -1, minuteCount |-> 0]

Minute == second \div SecondsPerMinute

Init ==
    /\ phase = [r \in Requests |-> "new"]
    /\ principal = [r \in Requests |-> Unlimited]
    /\ account \in Limits /\ edits = MaxEdits /\ second = 0
    /\ limitState = NoState
    /\ passed = [second |-> 0, minute |-> 0]
    /\ decided = [second |-> {}, minute |-> {}]

-----------------------------------------------------------------------------
\* Authentication reads the user with its limits.
Authenticate(r) ==
    /\ phase[r] = "new"
    /\ phase' = [phase EXCEPT ![r] = "decide"]
    /\ principal' = [principal EXCEPT ![r] = account]
    /\ UNCHANGED <<account, edits, second, limiterVars>>

\* An administrator changes the user's limits.
UpdateUser(c) ==
    /\ edits > 0 /\ c # account
    /\ account' = c /\ edits' = edits - 1
    /\ UNCHANGED <<phase, principal, second, limiterVars>>

\* Mutant: a new second starts both counts again.
RolledTogether(c) ==
    LET s == IF limitState.config = c THEN limitState ELSE [NoState EXCEPT !.config = c]
    IN  [config       |-> c,
         secondWindow |-> second,
         secondCount  |-> IF s.secondWindow = second THEN s.secondCount ELSE 0,
         minuteWindow |-> Minute,
         minuteCount  |-> IF s.secondWindow = second THEN s.minuteCount ELSE 0]

\* The user's state for a decision with c now: a new one when the limits are
\* others, and counts of windows that have passed start again.
Rolled(c) ==
    LET s == IF limitState.config = c THEN limitState ELSE [NoState EXCEPT !.config = c]
    IN  [config       |-> c,
         secondWindow |-> second,
         secondCount  |-> IF s.secondWindow = second THEN s.secondCount ELSE 0,
         minuteWindow |-> Minute,
         minuteCount  |-> IF s.minuteWindow = Minute THEN s.minuteCount ELSE 0]

\* AllowWithConfig: neither window may be full; both count what passes.
AllowWithConfig(r) ==
    LET c == principal[r]
        s == Rolled(c)
        allowed == c = Unlimited \/ (s.secondCount < c.rps /\ s.minuteCount < c.rpm)
    IN
    /\ phase[r] = "decide"
    /\ phase' = [phase EXCEPT ![r] = "done"]
    /\ limitState' = IF c = Unlimited THEN NoState
                     ELSE IF allowed
                     THEN [s EXCEPT !.secondCount = @ + 1, !.minuteCount = @ + 1]
                     ELSE s
    /\ passed' = IF allowed THEN [second |-> passed.second + 1, minute |-> passed.minute + 1]
                 ELSE passed
    /\ decided' = [second |-> decided.second \cup {c}, minute |-> decided.minute \cup {c}]
    /\ UNCHANGED <<principal, account, edits, second>>

Tick ==
    /\ second < MaxSecond
    /\ second' = second + 1
    /\ LET sameMinute == (second + 1) \div SecondsPerMinute = Minute IN
       /\ passed' = [second |-> 0, minute |-> IF sameMinute THEN passed.minute ELSE 0]
       /\ decided' = [second |-> {}, minute |-> IF sameMinute THEN decided.minute ELSE {}]
    /\ UNCHANGED <<phase, principal, account, edits, limitState>>

-----------------------------------------------------------------------------
Next ==
    \/ \E r \in Requests : Authenticate(r) \/ AllowWithConfig(r)
    \/ \E c \in Limits \cup {Unlimited} : UpdateUser(c)
    \/ Tick

Spec == Init /\ [][Next]_vars

-----------------------------------------------------------------------------
(* Properties *)

\* While the requests of a window are all decided with the same limits, no more
\* pass than these allow, at the edges of both windows too.
PassedWithinLimits ==
    \A c \in Limits :
        /\ decided.second = {c} => passed.second <= c.rps
        /\ decided.minute = {c} => passed.minute <= c.rpm
=============================================================================
