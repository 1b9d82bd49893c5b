---------------------------- MODULE LoginLockout ----------------------------
(***************************************************************************)
(* The lockout of one identity (an e-mail address at a client address):    *)
(* the login handler of routers/auth.py and LockoutService                 *)
(* (services/lockout.py), which keep a counter of failures and a lock in   *)
(* Redis.                                                                  *)
(*                                                                         *)
(* Logins run in the thread pool, so that the Redis commands of several    *)
(* interleave, and a command that fails ends its request where it stands.  *)
(***************************************************************************)
EXTENDS Naturals, FiniteSets

CONSTANTS
  Logins,         \* login requests of the identity that may be in progress
  MaxAttempts,    \* max_attempts
  MaxLogins,      \* bound: login requests
  MaxLoginFaults  \* bound: requests a Redis error or a crash cuts short

ASSUME LoginAssumption ==
  MaxAttempts \in Nat /\ MaxAttempts > 1 /\ IsFiniteSet(Logins)

VARIABLES
  redis,    \* the service found Redis when the process started
  count,    \* lockout:count, 0 without the key
  expiry,   \* the counter has a time to live
  locked,   \* lockout:locked
  login,    \* where each request is
  logins,   \* requests so far
  cut       \* requests cut short while they recorded a failure

lVars == <<redis, count, expiry, locked, login, logins, cut>>

Recording == {"expire", "lock", "clear"}

LInit ==
  /\ redis \in BOOLEAN
  /\ count = 0
  /\ expiry = FALSE
  /\ locked = FALSE
  /\ login = [a \in Logins |-> "idle"]
  /\ logins = 0
  /\ cut = 0

LGoto(a, pc) == login' = [login EXCEPT ![a] = pc]

-----------------------------------------------------------------------------

\* check_locked: a locked identity is refused before its password is read,
\* and without Redis nobody is.
LCheck(a) ==
  /\ login[a] = "idle"
  /\ logins < MaxLogins
  /\ logins' = logins + 1
  /\ LGoto(a, IF redis /\ locked THEN "idle" ELSE "verify")
  /\ UNCHANGED <<redis, count, expiry, locked, cut>>

\* Mutant: the limit itself does not lock.
LocksBeyond(n) == n > MaxAttempts

LocksAt(n) == n >= MaxAttempts

\* Mutant: the window starts with the lock only.
NoWindow(n) == IF LocksAt(n) THEN "lock" ELSE "idle"

\* What record_failure does after INCR has answered n.
AfterIncr(n) ==
  IF n = 1 THEN "expire" ELSE IF LocksAt(n) THEN "lock" ELSE "idle"

\* A wrong password, or no such user: INCR.
LFail(a) ==
  /\ login[a] = "verify"
  /\ IF redis
       THEN count' = count + 1 /\ LGoto(a, AfterIncr(count + 1))
       ELSE LGoto(a, "idle") /\ UNCHANGED count
  /\ UNCHANGED <<redis, expiry, locked, logins, cut>>

\* EXPIRE, which does nothing to a key that is gone.
LExpire(a) ==
  /\ login[a] = "expire"
  /\ expiry' = (count > 0)
  /\ LGoto(a, "idle")
  /\ UNCHANGED <<redis, count, locked, logins, cut>>

\* SETEX
LLock(a) ==
  /\ login[a] = "lock"
  /\ locked' = TRUE
  /\ LGoto(a, "clear")
  /\ UNCHANGED <<redis, count, expiry, logins, cut>>

LDeleteCounter == count' = 0 /\ expiry' = FALSE

LClear(a) ==
  /\ login[a] = "clear"
  /\ LDeleteCounter
  /\ LGoto(a, "idle")
  /\ UNCHANGED <<redis, locked, logins, cut>>

\* The password is right: reset deletes both keys in one command.
LPass(a) ==
  /\ login[a] = "verify"
  /\ IF redis
       THEN LDeleteCounter /\ locked' = FALSE
       ELSE UNCHANGED <<count, expiry, locked>>
  /\ LGoto(a, "idle")
  /\ UNCHANGED <<redis, logins, cut>>

\* The account is inactive: refused, and neither counted nor reset.
LInactive(a) ==
  /\ login[a] = "verify"
  /\ LGoto(a, "idle")
  /\ UNCHANGED <<redis, count, expiry, locked, logins, cut>>

\* A Redis error or the end of the process between two commands.
LCut(a) ==
  /\ login[a] \in Recording
  /\ cut < MaxLoginFaults
  /\ cut' = cut + 1
  /\ LGoto(a, "idle")
  /\ UNCHANGED <<redis, count, expiry, locked, logins>>

\* Redis: a time to live runs out.
LWindowEnds ==
  /\ expiry
  /\ LDeleteCounter
  /\ UNCHANGED <<redis, locked, login, logins, cut>>

LLockEnds ==
  /\ locked
  /\ locked' = FALSE
  /\ UNCHANGED <<redis, count, expiry, login, logins, cut>>

LRecord(a) == LExpire(a) \/ LLock(a) \/ LClear(a)

LNext ==
  \/ \E a \in Logins :
       \/ LCheck(a)
       \/ LFail(a)
       \/ LPass(a)
       \/ LInactive(a)
       \/ LRecord(a)
       \/ LCut(a)
  \/ LWindowEnds
  \/ LLockEnds

LSpec == LInit /\ [][LNext]_lVars

-----------------------------------------------------------------------------
(* Properties.                                                             *)

LTypeOK ==
  /\ redis \in BOOLEAN
  /\ count \in Nat
  /\ expiry \in BOOLEAN
  /\ locked \in BOOLEAN
  /\ login \in [Logins -> {"idle", "verify"} \cup Recording]
  /\ logins \in Nat
  /\ cut \in Nat

(* A counter of failures has a time to live or the request that created it  *)
(* is about to give it one, whatever requests delete and create it in       *)
(* between: old failures never add up to a lock.  Only a request cut short  *)
(* between INCR and EXPIRE leaves a counter for ever.                       *)
CounterExpires ==
  cut = 0 /\ count > 0 /\ ~expiry => \E a \in Logins : login[a] = "expire"

(* Interleaved failures carry the counter past the limit, but each one that *)
(* does so is a request that still has to lock the identity or clear the    *)
(* counter, or was cut short there: nobody reaches the limit for nothing.   *)
Lockers == {a \in Logins : login[a] \in {"lock", "clear"}}

LimitBecomesLock == count < MaxAttempts + Cardinality(Lockers) + cut

=============================================================================
