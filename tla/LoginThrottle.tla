---------------------------- MODULE LoginThrottle ---------------------------
(***************************************************************************)
(* The throttling of failed logins (internal/auth/session.go, handleLogin  *)
(* of api/http/handlers.go): requests that check the lock, compare, count  *)
(* and lock in separate steps on two atomics.  A lock ends at any moment.  *)
(***************************************************************************)
EXTENDS Integers, FiniteSets

CONSTANTS Logins,        \* requests handled at the same time
          MaxAttempts,   \* maxLoginAttempts
          MaxLogins      \* bound: attempts to log in

ASSUME ThrottleAssumption ==
    /\ MaxAttempts \in Nat \ {0} /\ MaxLogins \in Nat
    /\ IsFiniteSet(Logins)

VARIABLES
  failCnt, locked,   \* the counter; lockUntil lies in the future
  login,             \* position of each request
  logins,            \* attempts so far
  guesses            \* history: failures since a lock ended or was lifted

throttleVars == <<failCnt, locked, login, logins, guesses>>

ThrottleTypeOK ==
    /\ failCnt \in 0..MaxLogins /\ guesses \in 0..MaxLogins
    /\ logins \in 0..MaxLogins /\ locked \in BOOLEAN
    /\ login \in [Logins -> {"idle", "compare", "failed", "lift"}]

ThrottleInit ==
    /\ failCnt = 0 /\ locked = FALSE /\ logins = 0 /\ guesses = 0
    /\ login = [r \in Logins |-> "idle"]

LoginFromTo(r, p, q) == login[r] = p /\ login' = [login EXCEPT ![r] = q]

\* handleLogin: a locked account is refused before anything is compared.
CheckLocked(r) ==
    /\ LoginFromTo(r, "idle", "compare") /\ ~locked
    /\ logins < MaxLogins /\ logins' = logins + 1
    /\ UNCHANGED <<failCnt, locked, guesses>>

\* Mutant: only the first failures count.
RecordFirstFailures(r) ==
    /\ LoginFromTo(r, "compare",
                   IF failCnt + 1 = MaxAttempts THEN "failed" ELSE "idle")
    /\ failCnt' = failCnt + 1 /\ guesses' = guesses + 1
    /\ UNCHANGED <<locked, logins>>

\* RecordLoginFailure counts, and at every multiple of the threshold ...
RecordLoginFailure(r) ==
    /\ LoginFromTo(r, "compare",
                   IF (failCnt + 1) % MaxAttempts = 0 THEN "failed" ELSE "idle")
    /\ failCnt' = failCnt + 1 /\ guesses' = guesses + 1
    /\ UNCHANGED <<locked, logins>>

\* ... locks.
Lock(r) ==
    /\ LoginFromTo(r, "failed", "idle") /\ locked' = TRUE
    /\ UNCHANGED <<failCnt, logins, guesses>>

LockEnds ==
    /\ locked /\ locked' = FALSE /\ guesses' = 0
    /\ UNCHANGED <<failCnt, login, logins>>

\* ResetLoginFailures after the right password: the count, then the lock.
ResetCount(r) ==
    /\ LoginFromTo(r, "compare", "lift") /\ failCnt' = 0
    /\ UNCHANGED <<locked, logins, guesses>>

LiftLock(r) ==
    /\ LoginFromTo(r, "lift", "idle") /\ locked' = FALSE /\ guesses' = 0
    /\ UNCHANGED <<failCnt, logins>>

ThrottleNext ==
    \/ \E r \in Logins : \/ CheckLocked(r) \/ RecordLoginFailure(r) \/ Lock(r)
                         \/ ResetCount(r) \/ LiftLock(r)
    \/ LockEnds

-----------------------------------------------------------------------------
\* However logins are interleaved, the failures between two locks are bounded:
\* a request delayed between its count and its lock holds back that lock only,
\* and the next multiple of the threshold sets another.
LoginsAreThrottled == guesses <= MaxAttempts * Cardinality(Logins)
=============================================================================
