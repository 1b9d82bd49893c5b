------------------------ MODULE RequestHandlersProofs ------------------------
(***************************************************************************)
(* Theorems about what concurrent requests do to a few rows or keys: the   *)
(* login lockout, accounts and invitations, tracking and alert feedback,   *)
(* and the admission of proposals.                                         *)
(***************************************************************************)
EXTENDS LoginLockout, Accounts, ProposalTracking, ProposalAdmission, FiniteSetTheorems, TLAPS

-----------------------------------------------------------------------------
(* Theorems about the login lockout, for every limit of attempts and any    *)
(* number of concurrent logins.                                             *)

(* Where a failed login goes after INCR.                                    *)
LEMMA AfterIncrCases ==
  ASSUME NEW n \in Nat \ {0}
  PROVE  /\ AfterIncr(n) \in {"expire", "lock", "idle"}
         /\ n = 1 => AfterIncr(n) = "expire"
         /\ n >= MaxAttempts => AfterIncr(n) = "lock"
BY LoginAssumption DEF AfterIncr, LocksAt

-----------------------------------------------------------------------------

(* The Boolean part of the type invariant, and the rest.                    *)
Flags == redis \in BOOLEAN /\ expiry \in BOOLEAN /\ locked \in BOOLEAN

Counts ==
  /\ count \in Nat
  /\ login \in [Logins -> {"idle", "verify"} \cup Recording]
  /\ logins \in Nat
  /\ cut \in Nat

LEMMA TypeParts == LTypeOK <=> Flags /\ Counts
BY DEF LTypeOK, Flags, Counts

LEMMA LoginInitTypes == LInit => LTypeOK
<1>1. LInit => Flags
  BY Zenon DEF LInit, Flags
<1>2. LInit => Counts
  BY DEF LInit, Counts
<1> QED BY <1>1, <1>2, TypeParts

LEMMA NextFlags == Flags /\ [LNext]_lVars => Flags'
<1> SUFFICES ASSUME Flags, [LNext]_lVars PROVE Flags'
  OBVIOUS
<1> USE DEF Flags
<1>1. ASSUME NEW a \in Logins, LCheck(a) \/ LFail(a) \/ LInactive(a) \/ LCut(a) PROVE Flags'
  BY <1>1, Zenon DEF LCheck, LFail, LInactive, LCut
<1>2. ASSUME NEW a \in Logins, LPass(a) PROVE Flags'
  BY <1>2, Zenon DEF LPass, LDeleteCounter
<1>3. ASSUME NEW a \in Logins, LExpire(a) PROVE Flags'
  <2>1. (count > 0) \in BOOLEAN
    OBVIOUS
  <2> QED BY <1>3, <2>1, Zenon DEF LExpire
<1>4. ASSUME NEW a \in Logins, LLock(a) \/ LClear(a) PROVE Flags'
  BY <1>4, Zenon DEF LLock, LClear, LDeleteCounter
<1>5. CASE LWindowEnds \/ LLockEnds
  BY <1>5, Zenon DEF LWindowEnds, LLockEnds, LDeleteCounter
<1>6. CASE UNCHANGED lVars
  BY <1>6, Zenon DEF lVars
<1> QED BY <1>1, <1>2, <1>3, <1>4, <1>5, <1>6, Zenon DEF LNext, LRecord

LEMMA NextCounts == Counts /\ [LNext]_lVars => Counts'
<1> SUFFICES ASSUME Counts, [LNext]_lVars PROVE Counts'
  OBVIOUS
<1> USE DEF Counts, LGoto, LDeleteCounter, Recording
<1>1. ASSUME NEW a \in Logins, LCheck(a) PROVE Counts'
  BY <1>1 DEF LCheck
<1>2. ASSUME NEW a \in Logins, LFail(a) PROVE Counts'
  <2>1. AfterIncr(count + 1) \in {"expire", "lock", "idle"}
    BY AfterIncrCases
  <2> QED BY <1>2, <2>1 DEF LFail
<1>3. ASSUME NEW a \in Logins, LPass(a) PROVE Counts'
  <2>1. CASE redis
    BY <1>3, <2>1 DEF LPass
  <2>2. CASE ~redis
    BY <1>3, <2>2 DEF LPass
  <2> QED BY <2>1, <2>2
<1>4. ASSUME NEW a \in Logins, LInactive(a) \/ LRecord(a) \/ LCut(a) PROVE Counts'
  BY <1>4 DEF LInactive, LRecord, LExpire, LLock, LClear, LCut
<1>5. CASE LWindowEnds \/ LLockEnds \/ UNCHANGED lVars
  BY <1>5 DEF LWindowEnds, LLockEnds, lVars
<1> QED BY <1>1, <1>2, <1>3, <1>4, <1>5 DEF LNext

LEMMA LoginNextTypes == LTypeOK /\ [LNext]_lVars => LTypeOK'
<1>1. LTypeOK' <=> Flags' /\ Counts'
  BY DEF LTypeOK, Flags, Counts
<1> QED BY <1>1, TypeParts, NextFlags, NextCounts

(* The keys and the requests stay in their declared domains.                *)
THEOREM LoginTypeCorrect == LSpec => []LTypeOK
BY LoginInitTypes, LoginNextTypes, PTL DEF LSpec

-----------------------------------------------------------------------------
(* A step of a request that is not recording leaves those that are alone.   *)

LEMMA NextCounter == LTypeOK /\ CounterExpires /\ [LNext]_lVars => CounterExpires'
<1> SUFFICES ASSUME LTypeOK, CounterExpires, [LNext]_lVars,
                    cut' = 0, count' > 0, ~expiry'
             PROVE  \E a \in Logins : login'[a] = "expire"
  BY DEF CounterExpires
<1> USE TypeParts DEF Counts, LGoto
<1>1. ASSUME NEW a \in Logins, LFail(a) PROVE \E b \in Logins : login'[b] = "expire"
  <2>1. CASE redis /\ count = 0
    <3>1. login'[a] = "expire"
      BY <1>1, <2>1, AfterIncrCases DEF LFail
    <3> QED BY <3>1
  <2>2. CASE ~(redis /\ count = 0)
    <3>1. PICK b \in Logins : login[b] = "expire"
      BY <1>1, <2>2 DEF LFail, CounterExpires
    <3>2. login'[b] = "expire"
      BY <1>1, <3>1 DEF LFail
    <3> QED BY <3>2
  <2> QED BY <2>1, <2>2
<1>2. ASSUME NEW a \in Logins, LCheck(a) \/ LPass(a) \/ LInactive(a) \/ LLock(a)
      PROVE  \E b \in Logins : login'[b] = "expire"
  <2>1. count > 0 /\ ~expiry /\ cut = 0
    BY <1>2 DEF LCheck, LPass, LInactive, LLock, LDeleteCounter
  <2>2. PICK b \in Logins : login[b] = "expire"
    BY <2>1 DEF CounterExpires
  <2>3. login'[b] = "expire"
    BY <1>2, <2>2 DEF LCheck, LPass, LInactive, LLock
  <2> QED BY <2>3
<1>3. ASSUME NEW a \in Logins, LExpire(a) \/ LClear(a) \/ LCut(a) PROVE FALSE
  <2>1. CASE LExpire(a)
    <3>1. count > 0 /\ expiry' = (count > 0)
      BY <2>1 DEF LExpire
    <3> QED BY <3>1, Zenon
  <2>2. CASE LClear(a) \/ LCut(a)
    BY <2>2 DEF LClear, LCut, LDeleteCounter
  <2> QED BY <1>3, <2>1, <2>2
<1>4. ASSUME LWindowEnds PROVE FALSE
  BY <1>4 DEF LWindowEnds, LDeleteCounter
<1>5. CASE LLockEnds \/ UNCHANGED lVars
  BY <1>5 DEF LLockEnds, lVars, CounterExpires
<1> QED BY <1>1, <1>2, <1>3, <1>4, <1>5 DEF LNext, LRecord

(* While no request is cut short, a counter of failures has a lifetime or a *)
(* request that is about to give it one, for any number of logins.          *)
THEOREM CountersExpire == LSpec => []CounterExpires
<1>1. LInit => CounterExpires
  BY DEF LInit, CounterExpires
<1> QED BY <1>1, LoginTypeCorrect, NextCounter, PTL DEF LSpec

-----------------------------------------------------------------------------

LEMMA LockersCount ==
  ASSUME NEW S, NEW T, S \subseteq Logins, T \subseteq Logins
  PROVE  /\ Cardinality(S) \in Nat
         /\ S \subseteq T => Cardinality(S) <= Cardinality(T)
         /\ \A a \in Logins \ S : S \cup {a} \subseteq T => Cardinality(S) + 1 <= Cardinality(T)
         /\ \A a : S \subseteq T \cup {a} => Cardinality(S) <= Cardinality(T) + 1
<1>1. IsFiniteSet(S) /\ IsFiniteSet(T)
  BY LoginAssumption, FS_Subset
<1>2. Cardinality(S) \in Nat /\ Cardinality(T) \in Nat
  BY <1>1, FS_CardinalityType
<1>3. S \subseteq T => Cardinality(S) <= Cardinality(T)
  BY <1>1, FS_Subset
<1>4. ASSUME NEW a \in Logins \ S, S \cup {a} \subseteq T PROVE Cardinality(S) + 1 <= Cardinality(T)
  <2>1. Cardinality(S \cup {a}) = Cardinality(S) + 1
    BY <1>1, FS_AddElement
  <2>2. Cardinality(S \cup {a}) <= Cardinality(T)
    BY <1>1, <1>4, FS_Subset
  <2> QED BY <2>1, <2>2
<1>5. ASSUME NEW a, S \subseteq T \cup {a} PROVE Cardinality(S) <= Cardinality(T) + 1
  <2>1. /\ IsFiniteSet(T \cup {a})
        /\ Cardinality(T \cup {a}) = Cardinality(T) \/ Cardinality(T \cup {a}) = Cardinality(T) + 1
    BY <1>1, FS_AddElement
  <2>2. Cardinality(S) <= Cardinality(T \cup {a})
    BY <1>5, <2>1, FS_Subset
  <2> QED BY <1>2, <2>1, <2>2
<1> QED BY <1>2, <1>3, <1>4, <1>5

LEMMA NextLimit == LTypeOK /\ LimitBecomesLock /\ [LNext]_lVars => LimitBecomesLock'
<1> SUFFICES ASSUME LTypeOK, LimitBecomesLock, [LNext]_lVars
             PROVE  count' < MaxAttempts + Cardinality(Lockers') + cut'
  BY DEF LimitBecomesLock
<1>0. /\ count \in Nat /\ cut \in Nat /\ login \in [Logins -> {"idle", "verify"} \cup Recording]
      /\ count < MaxAttempts + Cardinality(Lockers) + cut
      /\ MaxAttempts \in Nat /\ MaxAttempts > 1
  BY TypeParts, LoginAssumption DEF Counts, LimitBecomesLock
<1>s. Lockers \subseteq Logins /\ Lockers' \subseteq Logins
  BY DEF Lockers
<1>c. /\ Cardinality(Lockers) \in Nat /\ Cardinality(Lockers') \in Nat
      /\ Lockers \subseteq Lockers' => Cardinality(Lockers) <= Cardinality(Lockers')
      /\ \A a \in Logins \ Lockers : Lockers \cup {a} \subseteq Lockers'
           => Cardinality(Lockers) + 1 <= Cardinality(Lockers')
      /\ \A a : Lockers \subseteq Lockers' \cup {a}
           => Cardinality(Lockers) <= Cardinality(Lockers') + 1
  BY <1>s, LockersCount
<1>1. ASSUME count' <= count, cut' = cut, Lockers \subseteq Lockers', count' \in Nat
      PROVE  count' < MaxAttempts + Cardinality(Lockers') + cut'
  BY <1>0, <1>c, <1>1
<1>2. ASSUME count' = 0, cut' = cut
      PROVE  count' < MaxAttempts + Cardinality(Lockers') + cut'
  BY <1>0, <1>c, <1>2
<1>3. ASSUME NEW a \in Logins, LFail(a)
      PROVE  count' < MaxAttempts + Cardinality(Lockers') + cut'
  <2>1. login[a] = "verify" /\ cut' = cut /\ a \notin Lockers
    BY <1>3 DEF LFail, Lockers
  <2>2. \A b \in Logins \ {a} : login'[b] = login[b]
    BY <1>0, <1>3 DEF LFail, LGoto
  <2>3. Lockers \subseteq Lockers'
    BY <2>1, <2>2 DEF Lockers
  <2>4. CASE ~redis
    BY <1>0, <1>1, <1>3, <2>1, <2>3, <2>4 DEF LFail
  <2>5. CASE redis /\ count + 1 < MaxAttempts
    <3>1. count' = count + 1
      BY <1>3, <2>5 DEF LFail
    <3> QED BY <1>0, <1>c, <2>1, <2>5, <3>1
  <2>6. CASE redis /\ count + 1 >= MaxAttempts
    <3>1. count' = count + 1 /\ login'[a] = "lock"
      BY <1>0, <1>3, <2>6, AfterIncrCases DEF LFail, LGoto
    <3>2. Lockers \cup {a} \subseteq Lockers'
      BY <2>3, <3>1 DEF Lockers
    <3>3. Cardinality(Lockers) + 1 <= Cardinality(Lockers')
      BY <1>c, <2>1, <3>2
    <3> QED BY <1>0, <1>c, <2>1, <3>1, <3>3
  <2> QED BY <1>0, <2>4, <2>5, <2>6
<1>4. ASSUME NEW a \in Logins, LCheck(a) \/ LInactive(a) \/ LExpire(a) \/ LLock(a)
      PROVE  count' < MaxAttempts + Cardinality(Lockers') + cut'
  <2>1. count' = count /\ cut' = cut
    BY <1>4 DEF LCheck, LInactive, LExpire, LLock
  <2>2. Lockers \subseteq Lockers'
    BY <1>0, <1>4 DEF LCheck, LInactive, LExpire, LLock, LGoto, Lockers
  <2> QED BY <1>0, <1>1, <2>1, <2>2
<1>5. ASSUME NEW a \in Logins, LPass(a)
      PROVE  count' < MaxAttempts + Cardinality(Lockers') + cut'
  <2>1. Lockers \subseteq Lockers' /\ cut' = cut
    BY <1>0, <1>5 DEF LPass, LGoto, Lockers
  <2>2. count' = count \/ count' = 0
    BY <1>5 DEF LPass, LDeleteCounter
  <2> QED BY <1>0, <1>1, <1>2, <2>1, <2>2
<1>6. ASSUME NEW a \in Logins, LClear(a)
      PROVE  count' < MaxAttempts + Cardinality(Lockers') + cut'
  BY <1>2, <1>6 DEF LClear, LDeleteCounter
<1>7. ASSUME NEW a \in Logins, LCut(a)
      PROVE  count' < MaxAttempts + Cardinality(Lockers') + cut'
  <2>1. count' = count /\ cut' = cut + 1
    BY <1>7 DEF LCut
  <2>2. Lockers \subseteq Lockers' \cup {a}
    BY <1>0, <1>7 DEF LCut, LGoto, Lockers
  <2>3. Cardinality(Lockers) <= Cardinality(Lockers') + 1
    BY <1>c, <2>2
  <2> QED BY <1>0, <1>c, <2>1, <2>3
<1>8. CASE LWindowEnds
  BY <1>2, <1>8 DEF LWindowEnds, LDeleteCounter
<1>9. CASE LLockEnds \/ UNCHANGED lVars
  <2>1. count' = count /\ cut' = cut /\ Lockers' = Lockers
    BY <1>9 DEF LLockEnds, lVars, Lockers
  <2> QED BY <1>0, <1>1, <2>1
<1> QED BY <1>3, <1>4, <1>5, <1>6, <1>7, <1>8, <1>9 DEF LNext, LRecord

(* The failures counted beyond the limit are no more than the requests that *)
(* are locking the identity and those cut short, for any number of logins.  *)
THEOREM LimitsLock == LSpec => []LimitBecomesLock
<1>1. LInit => LimitBecomesLock
  <2> SUFFICES ASSUME LInit PROVE LimitBecomesLock
    OBVIOUS
  <2>1. Lockers \subseteq Logins
    BY DEF Lockers
  <2>2. Cardinality(Lockers) \in Nat
    BY <2>1, LockersCount
  <2> QED BY <2>2, LoginAssumption DEF LInit, LimitBecomesLock
<1> QED BY <1>1, LoginTypeCorrect, NextLimit, PTL DEF LSpec

-----------------------------------------------------------------------------
(* Theorems about users and invitations, for any addresses, organisations    *)
(* and number of concurrent registrations.                                   *)

LEMMA AccountIdleIsNotBusy == ~Idle.busy
BY Zenon DEF Idle

LEMMA BusyIsRegistering ==
  ASSUME NEW x \in Registering \cup {Idle}, x.busy
  PROVE  x \in Registering
<1>1. x # Idle
  BY AccountIdleIsNotBusy, Zenon
<1> QED BY <1>1

LEMMA BusyIsScripting ==
  ASSUME NEW x \in Scripting \cup {Idle}, x.busy
  PROVE  x \in Scripting
<1>1. x # Idle
  BY AccountIdleIsNotBusy, Zenon
<1> QED BY <1>1

-----------------------------------------------------------------------------
(* The invariants.  An organisation with an invitation has a user, since an  *)
(* administrator of it made the invitation and users are never deleted.      *)

Invited(i) == invitation[i] # NoInvitation

InvitedByMember ==
  \A i \in Emails : Invited(i) =>
    \E e \in Emails : user[e] # NoUser /\ user[e].org = invitation[i].org

HeldIsInvited ==
  \A r \in Registrations : registering[r].busy => Invited(registering[r].invited)

HeldAsViewer ==
  \A r \in Registrations : registering[r].busy => registering[r].role = "VIEWER"

(* Requests that hold an uncontested invitation have one address, and once   *)
(* the invitation has made a user that address is taken.                     *)
OneAddress ==
  \A i \in Emails \ contested : \A r, q \in Registrations :
    Holds(r, i) /\ Holds(q, i) => registering[r].email = registering[q].email

UsedIsTaken ==
  \A i \in Emails \ contested : made[i] >= 1 =>
    /\ Invited(i)
    /\ ~IsOpen(i)
    /\ \A r \in Registrations : Holds(r, i) => user[registering[r].email] # NoUser

AInv ==
  /\ ATypeOK
  /\ InvitedByMember
  /\ HeldIsInvited
  /\ HeldAsViewer
  /\ AdminsFromScript
  /\ OneAddress
  /\ UsedIsTaken
  /\ OneUserPerInvitation

-----------------------------------------------------------------------------
(* Types.                                                                   *)

LEMMA AccountInitTypes == AInit => ATypeOK
BY DEF AInit, ATypeOK

LEMMA AccountNextTypes == ATypeOK /\ HeldIsInvited /\ [ANext]_aVars => ATypeOK'
<1> SUFFICES ASSUME ATypeOK, HeldIsInvited, [ANext]_aVars PROVE ATypeOK'
  OBVIOUS
<1> USE DEF ATypeOK
<1>1. ASSUME NEW e \in Emails, NEW o \in Orgs, ScriptOrganization(e, o) PROVE ATypeOK'
  <2>1. script' \in Scripting
    BY <1>1 DEF ScriptOrganization, Scripting
  <2> QED BY <1>1, <2>1 DEF ScriptOrganization
<1>2. CASE ScriptUser
  <2>1. script \in Scripting
    BY <1>2, BusyIsScripting DEF ScriptUser
  <2>2. [role |-> "ADMIN", org |-> script.org, by |-> "script"] \in User
    BY <2>1 DEF Scripting, User, Role
  <2> QED BY <1>2, <2>1, <2>2 DEF ScriptUser
<1>3. CASE ScriptStops
  BY <1>3 DEF ScriptStops
<1>4. ASSUME NEW a \in Emails, NEW e \in Emails, NEW o \in Orgs, CreateInvitation(a, e, o)
      PROVE  ATypeOK'
  <2>1. [org |-> o, state |-> "open"] \in Invitation
    BY DEF Invitation
  <2> QED BY <1>4, <2>1 DEF CreateInvitation
<1>5. ASSUME NEW i \in Emails, InvitationExpires(i) PROVE ATypeOK'
  <2>1. invitation[i] \in Invitation
    BY <1>5 DEF InvitationExpires, IsOpen
  <2>2. [invitation[i] EXCEPT !.state = "expired"] \in Invitation
    BY <2>1 DEF Invitation
  <2> QED BY <1>5, <2>2 DEF InvitationExpires
<1>6. ASSUME NEW r \in Registrations, NEW i \in Emails, NEW e \in Emails, RegisterCheck(r, i, e)
      PROVE  ATypeOK'
  <2>1. [busy |-> TRUE, invited |-> i, email |-> e, role |-> FirstRole(invitation[i].org)]
          \in Registering
    BY DEF Registering, FirstRole, Role
  <2> QED BY <1>6, <2>1 DEF RegisterCheck
<1>7. ASSUME NEW r \in Registrations, RegisterCommit(r) PROVE ATypeOK'
  <2> DEFINE reg == registering[r]
  <2>1. reg \in Registering
    BY <1>7, BusyIsRegistering DEF RegisterCommit
  <2>2. CASE ~EmailFree(reg.email)
    BY <1>7, <2>2 DEF RegisterCommit
  <2>3. CASE EmailFree(reg.email)
    <3> DEFINE new == [role |-> reg.role, org |-> invitation[reg.invited].org,
                       by |-> "invitation"]
    <3>1. invitation[reg.invited] \in Invitation /\ reg.email \in Emails /\ reg.invited \in Emails
      BY <1>7, <2>1 DEF RegisterCommit, HeldIsInvited, Invited, Registering
    <3>2. new \in User
      BY <2>1, <3>1 DEF Registering, Invitation, User
    <3>3. MarkUsed(reg.invited)[reg.invited] \in Invitation
      BY <3>1 DEF MarkUsed, Invitation
    <3>4. invitation' \in [Emails -> Invitation \cup {NoInvitation}]
      BY <1>7, <2>3, <3>1, <3>3 DEF RegisterCommit, MarkUsed
    <3> QED BY <1>7, <2>3, <3>1, <3>2, <3>4 DEF RegisterCommit
  <2> QED BY <2>2, <2>3
<1>8. CASE UNCHANGED aVars
  BY <1>8 DEF aVars
<1> QED BY <1>1, <1>2, <1>3, <1>4, <1>5, <1>6, <1>7, <1>8 DEF ANext


-----------------------------------------------------------------------------
(* What every step keeps.                                                   *)

LEMMA HolderType ==
  ASSUME ATypeOK, NEW r \in Registrations, registering[r].busy
  PROVE  registering[r].invited \in Emails /\ registering[r].email \in Emails
<1>1. registering[r] \in Registering
  BY BusyIsRegistering DEF ATypeOK
<1> QED BY <1>1 DEF Registering

LEMMA UsersStay ==
  ASSUME ATypeOK, HeldIsInvited, [ANext]_aVars, NEW e \in Emails, user[e] # NoUser
  PROVE  user'[e] = user[e]
<1> USE DEF ATypeOK
<1>1. CASE ScriptUser
  BY <1>1 DEF ScriptUser, EmailFree
<1>2. ASSUME NEW r \in Registrations, RegisterCommit(r) PROVE user'[e] = user[e]
  BY <1>2 DEF RegisterCommit, EmailFree
<1>3. CASE user' = user
  BY <1>3
<1> QED BY <1>1, <1>2, <1>3 DEF ANext, aVars, ScriptOrganization, ScriptStops, CreateInvitation,
            InvitationExpires, RegisterCheck

LEMMA InvitationsStay ==
  ASSUME ATypeOK, HeldIsInvited, [ANext]_aVars, NEW i \in Emails, Invited(i)
  PROVE  Invited(i)' /\ invitation'[i].org = invitation[i].org
<1> USE AccountsAssumption DEF ATypeOK, Invited
<1>1. ASSUME NEW a \in Emails, NEW e \in Emails, NEW o \in Orgs, CreateInvitation(a, e, o)
      PROVE  invitation'[i] = invitation[i]
  BY <1>1 DEF CreateInvitation
<1>2. invitation[i] \in Invitation
  OBVIOUS
<1>3. ASSUME NEW state \in {"expired", "used"}, NEW j \in Emails,
             invitation' = [invitation EXCEPT ![j].state = state]
      PROVE  Invited(i)' /\ invitation'[i].org = invitation[i].org
  <2>1. [invitation[i] EXCEPT !.state = state] \in Invitation
    BY <1>2 DEF Invitation
  <2>2. [invitation[i] EXCEPT !.state = state].org = invitation[i].org
    BY <1>2 DEF Invitation
  <2>3. invitation'[i] = IF j = i THEN [invitation[i] EXCEPT !.state = state] ELSE invitation[i]
    BY <1>3
  <2> QED BY <2>1, <2>2, <2>3
<1>4. ASSUME NEW j \in Emails, InvitationExpires(j)
      PROVE  Invited(i)' /\ invitation'[i].org = invitation[i].org
  BY <1>3, <1>4 DEF InvitationExpires
<1>5. ASSUME NEW r \in Registrations, RegisterCommit(r)
      PROVE  Invited(i)' /\ invitation'[i].org = invitation[i].org
  <2>1. registering[r].invited \in Emails
    BY <1>5, HolderType DEF RegisterCommit
  <2>2. CASE EmailFree(registering[r].email)
    BY <1>3, <1>5, <2>1, <2>2 DEF RegisterCommit, MarkUsed
  <2>3. CASE ~EmailFree(registering[r].email)
    BY <1>5, <2>3 DEF RegisterCommit
  <2> QED BY <2>2, <2>3
<1>6. CASE invitation' = invitation
  BY <1>6
<1> QED BY <1>1, <1>4, <1>5, <1>6 DEF ANext, aVars, ScriptOrganization, ScriptUser, ScriptStops,
            RegisterCheck

(* A request is left alone, has just read its invitation, or is over.       *)
LEMMA RegistrationSteps ==
  ASSUME ATypeOK, [ANext]_aVars, NEW r \in Registrations, registering'[r].busy
  PROVE  \/ registering'[r] = registering[r]
         \/ \E i, e \in Emails :
              /\ RegisterCheck(r, i, e)
              /\ registering'[r] = [busy |-> TRUE, invited |-> i, email |-> e,
                                    role |-> FirstRole(invitation[i].org)]
<1> USE DEF ATypeOK
<1>1. ASSUME NEW q \in Registrations, NEW i \in Emails, NEW e \in Emails, RegisterCheck(q, i, e)
      PROVE  \/ registering'[r] = registering[r]
             \/ /\ r = q
                /\ registering'[r] = [busy |-> TRUE, invited |-> i, email |-> e,
                                      role |-> FirstRole(invitation[i].org)]
  BY <1>1 DEF RegisterCheck
<1>2. ASSUME NEW q \in Registrations, RegisterCommit(q)
      PROVE  registering'[r] = registering[r]
  BY <1>2, AccountIdleIsNotBusy DEF RegisterCommit
<1>3. CASE registering' = registering
  BY <1>3
<1> QED BY <1>1, <1>2, <1>3 DEF ANext, aVars, ScriptOrganization, ScriptUser, ScriptStops,
            CreateInvitation, InvitationExpires

-----------------------------------------------------------------------------
(* Administrators.                                                          *)

LEMMA NextMember == AInv /\ [ANext]_aVars => InvitedByMember'
<1> SUFFICES ASSUME AInv, [ANext]_aVars, NEW i \in Emails, Invited(i)'
             PROVE  \E e \in Emails : user'[e] # NoUser /\ user'[e].org = invitation'[i].org
  BY DEF InvitedByMember
<1> USE DEF AInv
<1>1. CASE Invited(i)
  <2>1. PICK e \in Emails : user[e] # NoUser /\ user[e].org = invitation[i].org
    BY <1>1 DEF InvitedByMember
  <2>2. user'[e] = user[e]
    BY <2>1, UsersStay
  <2>3. invitation'[i].org = invitation[i].org
    BY <1>1, InvitationsStay
  <2> QED BY <2>1, <2>2, <2>3
<1>2. CASE ~Invited(i)
  <2>1. ASSUME NEW a \in Emails, NEW e \in Emails, NEW o \in Orgs, CreateInvitation(a, e, o)
        PROVE  user'[a] # NoUser /\ user'[a].org = invitation'[i].org
    <3>1. invitation' = [invitation EXCEPT ![e] = [org |-> o, state |-> "open"]]
      BY <2>1 DEF CreateInvitation
    <3>2. i = e /\ invitation'[i].org = o
      BY <1>2, <3>1 DEF Invited, ATypeOK
    <3> QED BY <2>1, <3>2 DEF CreateInvitation, MayInvite
  <2>2. ASSUME NEW j \in Emails, InvitationExpires(j) PROVE FALSE
    BY <1>2, <2>2 DEF InvitationExpires, IsOpen, Invited, ATypeOK
  <2>3. ASSUME NEW r \in Registrations, RegisterCommit(r) PROVE FALSE
    <3>1. registering[r].busy /\ Invited(registering[r].invited)
      BY <2>3 DEF RegisterCommit, HeldIsInvited
    <3> QED BY <1>2, <2>3, <3>1, HolderType DEF RegisterCommit, MarkUsed, Invited, ATypeOK
  <2>4. invitation' # invitation
    BY <1>2 DEF Invited
  <2> QED BY <2>1, <2>2, <2>3, <2>4 DEF ANext, aVars, ScriptOrganization, ScriptUser,
              ScriptStops, RegisterCheck
<1> QED BY <1>1, <1>2

LEMMA NextHeld == AInv /\ [ANext]_aVars => (HeldIsInvited /\ HeldAsViewer)'
<1> SUFFICES ASSUME AInv, [ANext]_aVars, NEW r \in Registrations, registering'[r].busy
             PROVE  /\ invitation'[registering'[r].invited] # NoInvitation
                    /\ registering'[r].role = "VIEWER"
  BY DEF HeldIsInvited, HeldAsViewer, Invited
<1> USE DEF AInv
<1>1. CASE registering'[r] = registering[r]
  BY <1>1, HolderType, InvitationsStay DEF HeldIsInvited, HeldAsViewer, Invited
<1>2. ASSUME NEW i \in Emails, NEW e \in Emails, RegisterCheck(r, i, e),
             registering'[r] = [busy |-> TRUE, invited |-> i, email |-> e,
                                role |-> FirstRole(invitation[i].org)]
      PROVE  /\ invitation'[registering'[r].invited] # NoInvitation
             /\ registering'[r].role = "VIEWER"
  <2>1. Invited(i)
    BY <1>2 DEF RegisterCheck, IsOpen, Invited
  <2>2. FirstRole(invitation[i].org) = "VIEWER"
    BY <2>1 DEF InvitedByMember, FirstRole
  <2>3. Invited(i)'
    BY <2>1, InvitationsStay
  <2> QED BY <1>2, <2>2, <2>3 DEF Invited
<1> QED BY <1>1, <1>2, RegistrationSteps

LEMMA NextAdmins == AInv /\ [ANext]_aVars => AdminsFromScript'
<1> SUFFICES ASSUME AInv, [ANext]_aVars, NEW e \in Emails,
                    user'[e] # NoUser, user'[e].role = "ADMIN"
             PROVE  user'[e].by = "script"
  BY DEF AdminsFromScript
<1> USE DEF AInv
<1>1. CASE user[e] # NoUser
  BY <1>1, UsersStay DEF AdminsFromScript
<1>2. CASE user[e] = NoUser
  <2>1. CASE ScriptUser
    <3>1. user'[e] = [role |-> "ADMIN", org |-> script.org, by |-> "script"]
      BY <1>2, <2>1 DEF ScriptUser, ATypeOK
    <3> QED BY <3>1
  <2>2. ASSUME NEW r \in Registrations, RegisterCommit(r) PROVE FALSE
    <3>1. user'[e].role = registering[r].role
      BY <1>2, <2>2 DEF RegisterCommit, ATypeOK
    <3>2. registering[r].role = "VIEWER"
      BY <2>2 DEF RegisterCommit, HeldAsViewer
    <3> QED BY <3>1, <3>2
  <2>3. user' # user
    BY <1>2
  <2> QED BY <2>1, <2>2, <2>3 DEF ANext, aVars, ScriptOrganization, ScriptStops,
              CreateInvitation, InvitationExpires, RegisterCheck
<1> QED BY <1>1, <1>2

-----------------------------------------------------------------------------
(* Invitations.                                                             *)

LEMMA ContestedStays == [ANext]_aVars => contested \subseteq contested'
BY DEF ANext, aVars, ScriptOrganization, ScriptUser, ScriptStops, CreateInvitation,
       InvitationExpires, RegisterCheck, RegisterCommit

(* Who holds an uncontested invitation after a step held it before, or has  *)
(* just read it while it was open.                                          *)
LEMMA AccountHolderSteps ==
  ASSUME AInv, [ANext]_aVars, NEW i \in Emails \ contested',
         NEW r \in Registrations, Holds(r, i)'
  PROVE  \/ Holds(r, i) /\ registering'[r].email = registering[r].email
         \/ /\ IsOpen(i)
            /\ user[registering'[r].email] = NoUser
            /\ \A q \in Registrations : Holds(q, i) => registering[q].email = registering'[r].email
            /\ \A q \in Registrations \ {r} : registering'[q] = registering[q]
<1> USE DEF Holds, AInv
<1>1. CASE registering'[r] = registering[r]
  BY <1>1
<1>2. ASSUME NEW j \in Emails, NEW e \in Emails, RegisterCheck(r, j, e),
             registering'[r] = [busy |-> TRUE, invited |-> j, email |-> e,
                                role |-> FirstRole(invitation[j].org)]
      PROVE  /\ IsOpen(i)
             /\ user[registering'[r].email] = NoUser
             /\ \A q \in Registrations : Holds(q, i) => registering[q].email = registering'[r].email
             /\ \A q \in Registrations \ {r} : registering'[q] = registering[q]
  <2>1. i = j /\ registering'[r].email = e
    BY <1>2
  <2>2. IsOpen(i) /\ user[e] = NoUser
    BY <1>2, <2>1 DEF RegisterCheck
  <2>3. \A q \in Registrations : Holds(q, i) => registering[q].email = e
    BY <1>2, <2>1 DEF RegisterCheck
  <2>4. \A q \in Registrations \ {r} : registering'[q] = registering[q]
    BY <1>2 DEF RegisterCheck, ATypeOK
  <2> QED BY <2>1, <2>2, <2>3, <2>4
<1> QED BY <1>1, <1>2, RegistrationSteps

LEMMA NextAddress == AInv /\ [ANext]_aVars => OneAddress'
<1> SUFFICES ASSUME AInv, [ANext]_aVars, NEW i \in Emails \ contested',
                    NEW r \in Registrations, NEW q \in Registrations,
                    Holds(r, i)', Holds(q, i)'
             PROVE  registering'[r].email = registering'[q].email
  BY DEF OneAddress, Holds
<1>1. i \in Emails \ contested
  BY ContestedStays
<1>2. CASE registering'[r].email = registering[r].email /\ Holds(r, i)
  <2>1. CASE registering'[q].email = registering[q].email /\ Holds(q, i)
    BY <1>1, <1>2, <2>1 DEF AInv, OneAddress
  <2>2. CASE ~(registering'[q].email = registering[q].email /\ Holds(q, i))
    BY <1>2, <2>2, AccountHolderSteps
  <2> QED BY <2>1, <2>2
<1>3. CASE ~(registering'[r].email = registering[r].email /\ Holds(r, i))
  <2>1. \A p \in Registrations : Holds(p, i) => registering[p].email = registering'[r].email
    BY <1>3, AccountHolderSteps
  <2>2. \A p \in Registrations \ {r} : registering'[p] = registering[p]
    BY <1>3, AccountHolderSteps
  <2>3. CASE q # r
    BY <2>1, <2>2, <2>3 DEF Holds
  <2> QED BY <2>3
<1> QED BY <1>2, <1>3

LEMMA NeverReopened ==
  ASSUME AInv, [ANext]_aVars, NEW i \in Emails, Invited(i), ~IsOpen(i)
  PROVE  ~IsOpen(i)'
<1> USE DEF AInv, ATypeOK
<1>1. ASSUME NEW a \in Emails, NEW e \in Emails, NEW o \in Orgs, CreateInvitation(a, e, o)
      PROVE  invitation'[i] = invitation[i]
  BY <1>1 DEF CreateInvitation, Invited
<1>2. ASSUME NEW j \in Emails, InvitationExpires(j) PROVE invitation'[i] = invitation[i]
  BY <1>2 DEF InvitationExpires
<1>3. ASSUME NEW r \in Registrations, RegisterCommit(r) PROVE ~IsOpen(i)'
  <2>1. \/ invitation' = MarkUsed(registering[r].invited)
        \/ invitation' = invitation
    BY <1>3 DEF RegisterCommit
  <2>2. CASE invitation' = MarkUsed(registering[r].invited)
    <3>1. invitation[i] \in Invitation
      BY DEF Invited
    <3>2. invitation'[i] = invitation[i] \/ invitation'[i] = [invitation[i] EXCEPT !.state = "used"]
      BY <2>2 DEF MarkUsed
    <3> QED BY <3>1, <3>2 DEF IsOpen, Invitation
  <2> QED BY <2>1, <2>2 DEF IsOpen
<1>4. CASE invitation' = invitation
  BY <1>4 DEF IsOpen
<1> QED BY <1>1, <1>2, <1>3, <1>4 DEF ANext, aVars, ScriptOrganization, ScriptUser, ScriptStops,
            RegisterCheck, IsOpen

(* Only a commit makes a user of an invitation.                             *)
LEMMA MadeSteps ==
  ASSUME AInv, [ANext]_aVars, NEW i \in Emails, made'[i] # made[i]
  PROVE  \E r \in Registrations :
           /\ RegisterCommit(r)
           /\ Holds(r, i)
           /\ EmailFree(registering[r].email)
           /\ made'[i] = made[i] + 1
<1>1. made' # made
  OBVIOUS
<1>2. PICK r \in Registrations : RegisterCommit(r)
  BY <1>1 DEF ANext, aVars, ScriptOrganization, ScriptUser, ScriptStops, CreateInvitation,
              InvitationExpires, RegisterCheck
<1>3. EmailFree(registering[r].email)
  BY <1>1, <1>2 DEF RegisterCommit
<1>4. made' = [made EXCEPT ![registering[r].invited] = @ + 1]
  BY <1>2, <1>3 DEF RegisterCommit
<1>5. registering[r].invited = i /\ made'[i] = made[i] + 1
  BY <1>4 DEF AInv, ATypeOK
<1> QED BY <1>2, <1>3, <1>5 DEF Holds, RegisterCommit

LEMMA NextUsed == AInv /\ [ANext]_aVars => (UsedIsTaken /\ OneUserPerInvitation)'
<1> SUFFICES ASSUME AInv, [ANext]_aVars, NEW i \in Emails \ contested'
             PROVE  /\ made'[i] <= 1
                    /\ made'[i] >= 1 =>
                         /\ invitation'[i] # NoInvitation
                         /\ ~IsOpen(i)'
                         /\ \A r \in Registrations :
                              Holds(r, i)' => user'[registering'[r].email] # NoUser
  BY DEF UsedIsTaken, OneUserPerInvitation, Holds, Invited
<1>1. i \in Emails \ contested /\ made[i] \in Nat /\ made[i] <= 1
  BY ContestedStays DEF AInv, ATypeOK, OneUserPerInvitation
<1>2. CASE made[i] = 1
  <2>1. /\ Invited(i) /\ ~IsOpen(i)
        /\ \A r \in Registrations : Holds(r, i) => user[registering[r].email] # NoUser
    BY <1>1, <1>2 DEF AInv, UsedIsTaken
  <2>2. made'[i] = 1
    BY <1>2, <2>1, MadeSteps DEF EmailFree
  <2>3. invitation'[i] # NoInvitation /\ ~IsOpen(i)'
    BY <2>1, InvitationsStay, NeverReopened DEF AInv, Invited
  <2>4. ASSUME NEW r \in Registrations, Holds(r, i)'
        PROVE  user'[registering'[r].email] # NoUser
    <3>1. Holds(r, i) /\ registering'[r].email = registering[r].email
      BY <2>1, <2>4, AccountHolderSteps
    <3>2. user[registering[r].email] # NoUser /\ registering[r].email \in Emails
      BY <2>1, <3>1, HolderType DEF AInv, Holds
    <3> QED BY <3>1, <3>2, UsersStay DEF AInv
  <2> QED BY <2>2, <2>3, <2>4
<1>3. CASE made[i] = 0
  <2>1. CASE made'[i] = made[i]
    BY <1>3, <2>1
  <2>2. CASE made'[i] # made[i]
    <3>1. PICK r \in Registrations : /\ RegisterCommit(r)
                                    /\ Holds(r, i)
                                    /\ EmailFree(registering[r].email)
                                    /\ made'[i] = made[i] + 1
      BY <2>2, MadeSteps
    <3> DEFINE e == registering[r].email
    <3>2. e \in Emails /\ invitation[i] \in Invitation
      BY <3>1, HolderType DEF AInv, Holds, HeldIsInvited, Invited, ATypeOK
    <3>3. invitation'[i] = [invitation[i] EXCEPT !.state = "used"]
      BY <3>1 DEF RegisterCommit, MarkUsed, Holds, AInv, ATypeOK
    <3>4. [invitation[i] EXCEPT !.state = "used"] \in Invitation /\ ~IsOpen(i)'
      BY <3>2, <3>3 DEF Invitation, IsOpen
    <3>5. invitation'[i] # NoInvitation
      BY <3>3, <3>4, AccountsAssumption
    <3>6. user'[e] # NoUser
      <4>1. registering[r].role \in Role
        <5>1. registering[r] \in Registering
          BY <3>1, BusyIsRegistering DEF Holds, AInv, ATypeOK
        <5> QED BY <5>1 DEF Registering
      <4>2. [role |-> registering[r].role, org |-> invitation[i].org, by |-> "invitation"] \in User
        BY <3>2, <4>1 DEF Invitation, User
      <4>3. user'[e] = [role |-> registering[r].role, org |-> invitation[i].org,
                        by |-> "invitation"]
        BY <3>1, <3>2 DEF RegisterCommit, Holds, AInv, ATypeOK
      <4> QED BY <4>2, <4>3, AccountsAssumption
    <3>7. ASSUME NEW q \in Registrations, Holds(q, i)'
          PROVE  registering'[q].email = e
      <4>1. registering' = [registering EXCEPT ![r] = Idle]
        BY <3>1 DEF RegisterCommit
      <4>2. registering'[q] = registering[q]
        BY <3>7, <4>1, AccountIdleIsNotBusy DEF Holds, AInv, ATypeOK
      <4>3. Holds(q, i)
        BY <3>7, <4>2 DEF Holds
      <4> QED BY <1>1, <3>1, <4>2, <4>3 DEF AInv, OneAddress
    <3> QED BY <1>3, <3>1, <3>4, <3>5, <3>6, <3>7
  <2> QED BY <2>1, <2>2
<1> QED BY <1>1, <1>2, <1>3

-----------------------------------------------------------------------------

LEMMA InitInv == AInit => AInv
<1> SUFFICES ASSUME AInit PROVE AInv
  OBVIOUS
<1>1. \A r \in Registrations : ~registering[r].busy
  BY AccountIdleIsNotBusy DEF AInit
<1>2. HeldIsInvited /\ HeldAsViewer /\ OneAddress
  BY <1>1 DEF HeldIsInvited, HeldAsViewer, OneAddress, Holds
<1>3. InvitedByMember /\ AdminsFromScript /\ UsedIsTaken /\ OneUserPerInvitation
  BY DEF AInit, InvitedByMember, Invited, AdminsFromScript, UsedIsTaken, OneUserPerInvitation
<1> QED BY <1>2, <1>3, AccountInitTypes DEF AInv

LEMMA NextInv == AInv /\ [ANext]_aVars => AInv'
BY AccountNextTypes, NextMember, NextHeld, NextAdmins, NextAddress, NextUsed DEF AInv

LEMMA InvHolds == ASpec => []AInv
BY InitInv, NextInv, PTL DEF ASpec

(* Users, invitations and requests stay in their declared domains: no       *)
(* commit stores a user of an invitation that does not exist.               *)
THEOREM AccountsTypeCorrect == ASpec => []ATypeOK
<1>1. AInv => ATypeOK
  BY DEF AInv
<1> QED BY InvHolds, <1>1, PTL

(* Whatever registrations, invitations and runs of the script overlap, only *)
(* the script makes administrators.                                         *)
THEOREM OnlyScriptMakesAdmins == ASpec => []AdminsFromScript
<1>1. AInv => AdminsFromScript
  BY DEF AInv
<1> QED BY InvHolds, <1>1, PTL

(* For any number of overlapping registrations an invitation makes one user, *)
(* unless two of them hold it in two spellings of its address.              *)
THEOREM InvitationMakesOneUser == ASpec => []OneUserPerInvitation
<1>1. AInv => OneUserPerInvitation
  BY DEF AInv
<1> QED BY InvHolds, <1>1, PTL

-----------------------------------------------------------------------------
(* Theorems about tracking and feedback, for any number of users and of      *)
(* concurrent requests.                                                      *)

(* The values of the first transaction and of the constants.                *)
LEMMA InitialValues ==
  NewApplication \in Application /\ NotTracking \in Tracking /\ NoPost \in Post
<1>1. NewApplication \in Application
  BY DEF NewApplication, Application, ApplicationStatus
<1>2. NotTracking \in Tracking
  BY <1>1 DEF NotTracking, Tracking, ApplicationStatus
<1>3. 0 \in Weeks
  BY WeekAssumption DEF Weeks
<1>4. NoPost \in Post
  BY <1>3 DEF NoPost, Post
<1> QED BY <1>1, <1>2, <1>4

LEMMA TrackingIdleIsNotBusy == ~NotTracking.busy
BY Zenon DEF NotTracking

LEMMA DatedIsBoolean ==
  ASSUME NEW to, NEW read, NEW now \in BOOLEAN
  PROVE  Dated(to, read, now) \in BOOLEAN
BY Zenon DEF Dated

LEMMA TrackingIncrementType ==
  ASSUME NEW S, NEW f \in [S -> Nat], NEW x
  PROVE  [f EXCEPT ![x] = @ + 1] \in [S -> Nat]
<1>1. ASSUME NEW y \in S PROVE [f EXCEPT ![x] = @ + 1][y] \in Nat
  OBVIOUS
<1> QED BY <1>1

LEMMA TrackingInitTypes == TInit => TTypeOK
<1> SUFFICES ASSUME TInit PROVE TTypeOK
  OBVIOUS
<1>1. application \in Application /\ tracking \in [Trackers -> Tracking]
      /\ posting \in [Posts -> Post] /\ week \in Weeks
      /\ feedback \in [Raters -> [Weeks -> Nat]]
  BY InitialValues, WeekAssumption DEF TInit, Weeks
<1>2. crossed \in BOOLEAN /\ ready \in BOOLEAN
  BY Zenon DEF TInit
<1> QED BY <1>1, <1>2 DEF TTypeOK

LEMMA TrackingNextTypes == TTypeOK /\ [TNext]_tVars => TTypeOK'
<1> SUFFICES ASSUME TTypeOK, [TNext]_tVars PROVE TTypeOK'
  OBVIOUS
<1> USE DEF TTypeOK
<1>1. ASSUME NEW r \in Trackers, NEW to \in ApplicationStatus, TrackRead(r, to) PROVE TTypeOK'
  <2>1. [busy |-> TRUE, read |-> application, to |-> to] \in Tracking
    BY DEF Tracking
  <2> QED BY <1>1, <2>1 DEF TrackRead
<1>2. ASSUME NEW r \in Trackers, TrackCommit(r) PROVE TTypeOK'
  <2> DEFINE t == tracking[r]
             new == [status |-> t.to, dated |-> Dated(t.to, t.read.dated, application.dated)]
  <2>1. t.to \in ApplicationStatus /\ application.dated \in BOOLEAN
    BY DEF Tracking, Application
  <2>2. new \in Application
    BY <2>1, DatedIsBoolean DEF Application
  <2>3. (crossed \/ application # t.read) \in BOOLEAN
    BY Zenon
  <2>4. crossed' \in BOOLEAN
    BY <1>2, <2>3, Zenon DEF TrackCommit
  <2> QED BY <1>2, <2>2, <2>4, InitialValues DEF TrackCommit
<1>3. CASE GenerationChanges
  <2>1. ready' \in BOOLEAN
    BY <1>3, Zenon DEF GenerationChanges
  <2> QED BY <1>3, <2>1 DEF GenerationChanges
<1>4. CASE WeekTurns
  BY <1>4, WeekAssumption DEF WeekTurns, Weeks
<1>5. ASSUME NEW p \in Posts, NEW u \in Raters, FeedbackRead(p, u) PROVE TTypeOK'
  <2>1. [rater |-> u, week |-> week] \in Post
    BY DEF Post
  <2> QED BY <1>5, <2>1 DEF FeedbackRead
<1>6. ASSUME NEW p \in Posts, FeedbackCommit(p) PROVE TTypeOK'
  <2>1. posting' \in [Posts -> Post]
    BY <1>6, InitialValues DEF FeedbackCommit
  <2>2. feedback' \in [Raters -> [Weeks -> Nat]]
    <3> DEFINE u == posting[p].rater
               w == posting[p].week
    <3>1. feedback' = feedback \/ feedback' = [feedback EXCEPT ![u][w] = @ + 1]
      BY <1>6 DEF FeedbackCommit
    <3>2. [feedback EXCEPT ![u][w] = @ + 1] \in [Raters -> [Weeks -> Nat]]
      <4>1. ASSUME NEW v \in Raters
            PROVE  [feedback[v] EXCEPT ![w] = @ + 1] \in [Weeks -> Nat]
        <5>1. feedback[v] \in [Weeks -> Nat]
          OBVIOUS
        <5> QED BY <5>1, TrackingIncrementType
      <4>2. [feedback EXCEPT ![u][w] = @ + 1] =
              [v \in Raters |-> IF v = u THEN [feedback[v] EXCEPT ![w] = @ + 1] ELSE feedback[v]]
        OBVIOUS
      <4> HIDE DEF u, w
      <4> QED BY <4>1, <4>2
    <3> QED BY <3>1, <3>2
  <2> QED BY <1>6, <2>1, <2>2 DEF FeedbackCommit
<1>7. CASE UNCHANGED tVars
  BY <1>7 DEF tVars
<1> QED BY <1>1, <1>2, <1>3, <1>4, <1>5, <1>6, <1>7 DEF TNext, TrackingNext, FeedbackNext

(* The proposal's columns and every request stay in their declared domains. *)
THEOREM TrackingTypeCorrect == TSpec => []TTypeOK
BY TrackingInitTypes, TrackingNextTypes, PTL DEF TSpec

-----------------------------------------------------------------------------
(* The outcome.                                                             *)

LegalTarget ==
  \A r \in Trackers : tracking[r].busy => tracking[r].to \in Transitions(tracking[r].read.status)

Consistent(app) ==
  /\ app.status \in {"submitted", "won", "lost"} => app.dated
  /\ app.status = "draft" => ~app.dated

(* One whole update keeps the date and the outcome together.                *)
LEMMA UpdateKeepsDate ==
  ASSUME NEW app \in Application, Consistent(app), NEW to \in Transitions(app.status)
  PROVE  Consistent([status |-> to, dated |-> Dated(to, app.dated, app.dated)])
<1>1. CASE app.status = "draft"
  BY <1>1, Zenon DEF Consistent, Transitions, Dated
<1>2. CASE app.status = "submitted"
  BY <1>2, Zenon DEF Consistent, Transitions, Dated
<1>3. CASE app.status \notin {"draft", "submitted"}
  BY <1>3, Zenon DEF Consistent, Transitions, Dated
<1> QED BY <1>1, <1>2, <1>3

LEMMA NextTarget == TTypeOK /\ LegalTarget /\ [TNext]_tVars => LegalTarget'
<1> SUFFICES ASSUME TTypeOK, LegalTarget, [TNext]_tVars PROVE LegalTarget'
  OBVIOUS
<1> USE DEF TTypeOK, LegalTarget
<1>1. ASSUME NEW r \in Trackers, NEW to \in ApplicationStatus, TrackRead(r, to)
      PROVE  LegalTarget'
  BY <1>1 DEF TrackRead
<1>2. ASSUME NEW r \in Trackers, TrackCommit(r) PROVE LegalTarget'
  BY <1>2, TrackingIdleIsNotBusy DEF TrackCommit
<1>3. CASE UNCHANGED tracking
  BY <1>3
<1> QED BY <1>1, <1>2, <1>3 DEF TNext, TrackingNext, FeedbackNext, tVars, GenerationChanges,
            WeekTurns, FeedbackRead, FeedbackCommit

LEMMA NextDate == TTypeOK /\ LegalTarget /\ OutcomeHasDate /\ [TNext]_tVars => OutcomeHasDate'
<1> SUFFICES ASSUME TTypeOK, LegalTarget, OutcomeHasDate, [TNext]_tVars PROVE OutcomeHasDate'
  OBVIOUS
<1>0. OutcomeHasDate <=> (~crossed => Consistent(application))
  BY DEF OutcomeHasDate, Consistent
<1>1. ASSUME NEW r \in Trackers, TrackCommit(r), ~crossed' PROVE Consistent(application')
  <2>1. ~crossed /\ application = tracking[r].read
    BY <1>1, Zenon DEF TrackCommit
  <2>2. tracking[r].to \in Transitions(application.status)
    BY <1>1, <2>1 DEF TrackCommit, LegalTarget
  <2>3. Consistent([status |-> tracking[r].to,
                    dated |-> Dated(tracking[r].to, application.dated, application.dated)])
    BY <1>0, <2>1, <2>2, UpdateKeepsDate DEF TTypeOK
  <2> QED BY <1>1, <2>1, <2>3 DEF TrackCommit
<1>2. CASE UNCHANGED <<application, crossed>>
  BY <1>2 DEF OutcomeHasDate
<1>3. OutcomeHasDate' <=> (~crossed' => Consistent(application'))
  BY DEF OutcomeHasDate, Consistent
<1> QED BY <1>1, <1>2, <1>3 DEF TNext, TrackingNext, FeedbackNext, tVars, TrackRead,
            GenerationChanges, WeekTurns, FeedbackRead, FeedbackCommit

(* Unless an update was written over one it had not read, the date of       *)
(* submission and the outcome agree, for any number of requests.            *)
THEOREM OutcomesHaveDates == TSpec => []OutcomeHasDate
<1>1. TInit => LegalTarget /\ OutcomeHasDate
  BY TrackingIdleIsNotBusy DEF TInit, LegalTarget, OutcomeHasDate, NewApplication
<1> QED BY <1>1, TrackingTypeCorrect, NextTarget, NextDate, PTL DEF TSpec

-----------------------------------------------------------------------------
(* Feedback.                                                                *)

LEMMA NextFeedback == TTypeOK /\ FeedbackOncePerWeek /\ [TNext]_tVars => FeedbackOncePerWeek'
<1> SUFFICES ASSUME TTypeOK, FeedbackOncePerWeek, [TNext]_tVars PROVE FeedbackOncePerWeek'
  OBVIOUS
<1>1. ASSUME NEW p \in Posts, FeedbackCommit(p) PROVE FeedbackOncePerWeek'
  BY <1>1 DEF FeedbackCommit, FirstFeedback, FeedbackOncePerWeek, TTypeOK, Post
<1>2. CASE UNCHANGED feedback
  BY <1>2 DEF FeedbackOncePerWeek
<1> QED BY <1>1, <1>2 DEF TNext, TrackingNext, FeedbackNext, tVars, TrackRead, TrackCommit,
            GenerationChanges, WeekTurns, FeedbackRead

(* A user rates a proposal once a week, for any number of requests.         *)
THEOREM OneFeedbackPerWeek == TSpec => []FeedbackOncePerWeek
<1>1. TInit => FeedbackOncePerWeek
  BY DEF TInit, FeedbackOncePerWeek
<1> QED BY <1>1, TrackingTypeCorrect, NextFeedback, PTL DEF TSpec

-----------------------------------------------------------------------------

(***************************************************************************)
(* Admission.                                                              *)
(***************************************************************************)

LEMMA IdleCreatorType == IdleCreator \in Creating /\ IdleCreator.pc = "idle"
BY AdmissionAssumption DEF IdleCreator, Creating, Months

LEMMA SetCreatorEffect ==
  ASSUME PTypeOK, NEW r \in Creators, NEW state \in Creating, SetCreator(r, state)
  PROVE  /\ creating' \in [Creators -> Creating]
         /\ creating'[r] = state
         /\ \A q \in Creators \ {r} : creating'[q] = creating[q]
<1>1. creating \in [Creators -> Creating]
  BY DEF PTypeOK
<1> QED BY <1>1 DEF SetCreator

CreateStep(r) ==
  CreateBegin(r) \/ CreateReadOrg(r) \/ CreateCount(r) \/ CreateCommit(r) \/ CreateEnds(r)

LEMMA NextIs ==
  ASSUME [PNext]_pVars
  PROVE  \/ \E r \in Creators : CreateStep(r)
         \/ MonthTurns
         \/ SubscriptionChanges
         \/ UNCHANGED pVars
BY Zenon DEF PNext, CreateStep

(* What a step of a request does to the request itself.                     *)
LEMMA CreatorSteps ==
  ASSUME PTypeOK, NEW r \in Creators, CreateStep(r)
  PROVE  /\ creating' \in [Creators -> Creating]
         /\ \A q \in Creators \ {r} : creating'[q] = creating[q]
         /\ \/ /\ CreateBegin(r)
               /\ creating'[r].pc = "begun"
               /\ creating'[r].stamp = month
               /\ UNCHANGED unlimited
            \/ /\ CreateReadOrg(r)
               /\ UNCHANGED unlimited
               /\ creating[r].pc = "begun"
               /\ creating'[r].pc = "limited"
               /\ creating'[r].stamp = creating[r].stamp
               /\ creating'[r].limit = Limit[tier]
            \/ /\ CreateCount(r)
               /\ creating[r].pc = "limited"
               /\ creating'[r].pc = "admitted"
               /\ creating'[r].stamp = creating[r].stamp
               /\ WithinLimit(creating[r].limit)
            \/ /\ CreateCommit(r)
               /\ creating[r].pc = "admitted"
               /\ creating'[r].pc = "idle"
            \/ /\ ~CreateCommit(r)
               /\ UNCHANGED unlimited
               /\ creating[r].pc # "idle"
               /\ creating'[r].pc = "idle"
<1>1. creating[r] \in Creating /\ month \in Months /\ tier \in Tiers
  BY DEF PTypeOK
<1>2. CASE CreateBegin(r)
  <2> DEFINE new == [IdleCreator EXCEPT !.pc = "begun", !.stamp = month]
  <2>1. new \in Creating /\ new.pc = "begun" /\ new.stamp = month
    BY <1>1, IdleCreatorType DEF Creating
  <2> QED BY <1>2, <2>1, SetCreatorEffect DEF CreateBegin
<1>3. CASE CreateReadOrg(r)
  <2> DEFINE new == [creating[r] EXCEPT !.pc = "limited", !.limit = Limit[tier]]
  <2>1. /\ new \in Creating
        /\ new.pc = "limited" /\ new.stamp = creating[r].stamp /\ new.limit = Limit[tier]
    BY <1>1, AdmissionAssumption DEF Creating
  <2> QED
    BY <1>3, <2>1, IdleCreatorType, SetCreatorEffect DEF CreateReadOrg, CreateCommit
<1>4. CASE CreateCount(r)
  <2> DEFINE new == [creating[r] EXCEPT !.pc = "admitted"]
  <2>1. new \in Creating /\ new.pc = "admitted" /\ new.stamp = creating[r].stamp
    BY <1>1 DEF Creating
  <2> QED
    BY <1>4, <2>1, IdleCreatorType, SetCreatorEffect DEF CreateCount, CreateCommit
<1>5. CASE CreateCommit(r)
  BY <1>5, IdleCreatorType, SetCreatorEffect DEF CreateCommit
<1>6. CASE CreateEnds(r) /\ ~CreateCommit(r)
  BY <1>6, IdleCreatorType, SetCreatorEffect DEF CreateEnds
<1> QED BY <1>2, <1>3, <1>4, <1>5, <1>6 DEF CreateStep

LEMMA InitAdmissionTypes == PInit => PTypeOK
<1> SUFFICES ASSUME PInit PROVE PTypeOK
  OBVIOUS
<1>1. month \in Months /\ proposals \in [Months -> Nat] /\ creating \in [Creators -> Creating]
  BY IdleCreatorType, AdmissionAssumption DEF PInit, Months
<1> QED BY <1>1, Zenon DEF PInit, PTypeOK

LEMMA NextAdmissionTypes == PTypeOK /\ [PNext]_pVars => PTypeOK'
<1> SUFFICES ASSUME PTypeOK, [PNext]_pVars PROVE PTypeOK'
  OBVIOUS
<1>1. ASSUME NEW r \in Creators, CreateStep(r) PROVE PTypeOK'
  <2>1. creating' \in [Creators -> Creating]
    BY <1>1, CreatorSteps
  <2>2. proposals' \in [Months -> Nat]
    BY <1>1 DEF PTypeOK, Creating, CreateStep, CreateBegin, CreateReadOrg, CreateCount,
       CreateCommit, CreateEnds
  <2>3. unlimited' \in BOOLEAN
    BY <1>1, Zenon DEF PTypeOK, CreateStep, CreateBegin, CreateReadOrg, CreateCount,
       CreateCommit, CreateEnds
  <2> QED
    BY <1>1, <2>1, <2>2, <2>3, Zenon DEF PTypeOK, CreateStep, CreateBegin, CreateReadOrg,
       CreateCount, CreateCommit, CreateEnds
<1>2. CASE MonthTurns
  <2>1. month' \in Months
    BY <1>2, AdmissionAssumption DEF PTypeOK, MonthTurns, Months
  <2> QED BY <1>2, <2>1, Zenon DEF PTypeOK, MonthTurns
<1>3. CASE SubscriptionChanges
  BY <1>3, Zenon DEF PTypeOK, SubscriptionChanges
<1>4. CASE UNCHANGED pVars
  BY <1>4, Zenon DEF PTypeOK, pVars
<1> QED BY <1>1, <1>2, <1>3, <1>4, NextIs

THEOREM AdmissionTypeCorrect == PSpec => []PTypeOK
BY InitAdmissionTypes, NextAdmissionTypes, PTL DEF PSpec

-----------------------------------------------------------------------------
(***************************************************************************)
(* The inductive invariant behind LimitOvershootBounded.  A request that   *)
(* is admitted will add a proposal to the month it began in, whatever is   *)
(* counted meanwhile; after the end of a month every request that began in *)
(* it may still be admitted.                                               *)
(***************************************************************************)
Admitted(m) == {r \in Creators : creating[r].pc = "admitted" /\ creating[r].stamp = m}
Going(m) == {r \in Creators : creating[r].pc # "idle" /\ creating[r].stamp = m}

BeganBefore == \A r \in Creators : creating[r].pc # "idle" => creating[r].stamp <= month

LimitIsKnown ==
  \A r \in Creators :
    creating[r].pc = "limited" /\ creating[r].limit # NoLimit => creating[r].limit <= LargestLimit

NothingYet == \A m \in Months : m > month => proposals[m] = 0

RoomNow ==
  ~unlimited => proposals[month] + Cardinality(Admitted(month)) < LargestLimit + Cardinality(Creators)

RoomBefore ==
  ~unlimited =>
    \A m \in Months :
      m < month =>
        proposals[m] + Cardinality(Going(m)) < LargestLimit + 2 * Cardinality(Creators)

AdmissionInv == BeganBefore /\ LimitIsKnown /\ NothingYet /\ RoomNow /\ RoomBefore

LEMMA Counted ==
  /\ Cardinality(Creators) \in Nat
  /\ \A S \in SUBSET Creators :
       IsFiniteSet(S) /\ Cardinality(S) \in Nat /\ Cardinality(S) <= Cardinality(Creators)
BY AdmissionAssumption, FS_Subset, FS_CardinalityType

LEMMA InitAdmission == PInit => AdmissionInv
<1> SUFFICES ASSUME PInit PROVE AdmissionInv
  OBVIOUS
<1>1. month = 0 /\ 0 \in Months /\ proposals[0] = 0
  BY AdmissionAssumption DEF PInit, Months
<1>2. Admitted(month) = {}
  BY IdleCreatorType DEF PInit, Admitted
<1>3. Cardinality(Admitted(month)) = 0
  BY <1>2, FS_EmptySet
<1> QED
  BY <1>1, <1>3, IdleCreatorType, Counted, AdmissionAssumption
  DEF PInit, AdmissionInv, BeganBefore, LimitIsKnown, NothingYet, RoomNow, RoomBefore, Months

(* A step that admits nobody and adds no proposal leaves the room there is.  *)
LEMMA RoomStays ==
  ASSUME PTypeOK, AdmissionInv, UNCHANGED <<month, proposals>>, unlimited' = unlimited,
         Admitted(month)' \subseteq Admitted(month),
         \A m \in Months : m < month => Going(m)' \subseteq Going(m)
  PROVE  (RoomNow /\ RoomBefore)'
<1>1. /\ Cardinality(Admitted(month)') <= Cardinality(Admitted(month))
      /\ Cardinality(Admitted(month)') \in Nat
      /\ Cardinality(Admitted(month)) \in Nat
  <2>1. Admitted(month) \in SUBSET Creators
    BY DEF Admitted
  <2> QED BY <2>1, Counted, FS_Subset, FS_CardinalityType
<1>2. ASSUME NEW m \in Months, m < month
      PROVE  /\ Cardinality(Going(m)') <= Cardinality(Going(m))
             /\ Cardinality(Going(m)') \in Nat
             /\ Cardinality(Going(m)) \in Nat
  <2>1. Going(m) \in SUBSET Creators
    BY DEF Going
  <2> QED BY <1>2, <2>1, Counted, FS_Subset, FS_CardinalityType
<1>3. proposals \in [Months -> Nat] /\ month \in Months
  BY DEF PTypeOK
<1> QED
  BY <1>1, <1>2, <1>3, Counted, AdmissionAssumption DEF AdmissionInv, RoomNow, RoomBefore

LEMMA RoomAfterCount ==
  ASSUME PTypeOK, AdmissionInv, NEW r \in Creators, CreateCount(r),
         creating[r].pc = "limited", creating'[r].pc = "admitted",
         creating'[r].stamp = creating[r].stamp, WithinLimit(creating[r].limit),
         \A q \in Creators \ {r} : creating'[q] = creating[q]
  PROVE  (RoomNow /\ RoomBefore)'
<1>1. UNCHANGED <<month, proposals>> /\ month \in Months /\ proposals \in [Months -> Nat]
  BY DEF CreateCount, PTypeOK
<1>2. unlimited' = (unlimited \/ creating[r].limit = NoLimit)
  <2>1. IdleCreator.pc = "idle" /\ creating \in [Creators -> Creating]
    BY IdleCreatorType DEF PTypeOK
  <2>2. CASE WithinLimit(creating[r].limit)
    BY <2>2, Zenon DEF CreateCount
  <2> QED BY <2>2
<1>3. ASSUME ~unlimited' PROVE RoomNow'
  <2>1. ~unlimited /\ creating[r].limit # NoLimit
    BY <1>2, <1>3
  <2>2. proposals[month] < creating[r].limit /\ creating[r].limit <= LargestLimit
    BY <2>1 DEF WithinLimit, AdmissionInv, LimitIsKnown
  <2>3. creating[r].limit \in Nat
    BY <2>1 DEF PTypeOK, Creating
  <2>4. /\ Cardinality(Admitted(month)') \in Nat
        /\ Cardinality(Admitted(month)') <= Cardinality(Creators)
    <3>1. Admitted(month)' \in SUBSET Creators
      BY DEF Admitted
    <3> QED BY <3>1, Counted
  <2> QED
    BY <1>1, <2>2, <2>3, <2>4, Counted, AdmissionAssumption DEF RoomNow
<1>4. \A m \in Months : Going(m)' = Going(m)
  BY DEF Going
<1>5. ASSUME ~unlimited' PROVE RoomBefore'
  <2>1. ~unlimited
    BY <1>2, <1>5
  <2> QED BY <1>1, <1>4, <2>1 DEF AdmissionInv, RoomBefore
<1> QED BY <1>3, <1>5 DEF RoomNow, RoomBefore

LEMMA RoomAfterCommit ==
  ASSUME PTypeOK, AdmissionInv, NEW r \in Creators, CreateCommit(r),
         creating[r].pc = "admitted", creating'[r].pc = "idle",
         \A q \in Creators \ {r} : creating'[q] = creating[q]
  PROVE  (NothingYet /\ RoomNow /\ RoomBefore)'
<1> DEFINE stamp == creating[r].stamp
<1>1. /\ UNCHANGED <<month, unlimited>>
      /\ month \in Months
      /\ stamp \in Months /\ stamp <= month
      /\ proposals \in [Months -> Nat]
      /\ proposals' = [proposals EXCEPT ![stamp] = @ + 1]
  BY DEF CreateCommit, PTypeOK, Creating, AdmissionInv, BeganBefore
<1>2. NothingYet'
  BY <1>1 DEF NothingYet, AdmissionInv, Months
<1>3. ASSUME NEW m \in Months
      PROVE  /\ Admitted(m)' = Admitted(m) \ {r}
             /\ Going(m)' = Going(m) \ {r}
             /\ r \in Admitted(m) <=> m = stamp
             /\ r \in Going(m) <=> m = stamp
             /\ Admitted(m) \in SUBSET Creators
             /\ Going(m) \in SUBSET Creators
  BY DEF Admitted, Going
<1>4. ASSUME NEW m \in Months
      PROVE  /\ proposals'[m] + Cardinality(Admitted(m)') = proposals[m] + Cardinality(Admitted(m))
             /\ proposals'[m] + Cardinality(Going(m)') = proposals[m] + Cardinality(Going(m))
  <2>1. /\ Cardinality(Admitted(m) \ {r}) =
             IF m = stamp THEN Cardinality(Admitted(m)) - 1 ELSE Cardinality(Admitted(m))
        /\ Cardinality(Going(m) \ {r}) =
             IF m = stamp THEN Cardinality(Going(m)) - 1 ELSE Cardinality(Going(m))
        /\ Cardinality(Admitted(m)) \in Nat
        /\ Cardinality(Going(m)) \in Nat
    <3>1. IsFiniteSet(Admitted(m)) /\ IsFiniteSet(Going(m))
      BY <1>3, Counted
    <3> QED BY <1>3, <3>1, FS_RemoveElement, FS_CardinalityType
  <2>2. proposals[m] \in Nat /\ proposals'[m] = IF m = stamp THEN proposals[m] + 1 ELSE proposals[m]
    BY <1>1
  <2>3. /\ Cardinality(Admitted(m)') = Cardinality(Admitted(m) \ {r})
        /\ Cardinality(Going(m)') = Cardinality(Going(m) \ {r})
    BY <1>3
  <2>4. CASE m = stamp
    BY <2>1, <2>2, <2>3, <2>4
  <2>5. CASE m # stamp
    BY <2>1, <2>2, <2>3, <2>5
  <2> QED BY <2>4, <2>5
<1>5. RoomNow' /\ RoomBefore'
  <2>1. Admitted(month)' = {q \in Creators : creating'[q].pc = "admitted" /\ creating'[q].stamp = month}
    BY <1>1 DEF Admitted
  <2> QED BY <1>1, <1>4, <2>1 DEF AdmissionInv, RoomNow, RoomBefore, Admitted
<1> QED BY <1>2, <1>5

LEMMA RoomAfterMonth ==
  ASSUME PTypeOK, AdmissionInv, MonthTurns
  PROVE  AdmissionInv'
<1>1. /\ month' = month + 1
      /\ UNCHANGED <<proposals, creating, unlimited>>
      /\ month \in Months /\ month' \in Months
      /\ proposals \in [Months -> Nat]
      /\ creating \in [Creators -> Creating]
  BY AdmissionAssumption DEF MonthTurns, PTypeOK, Months
<1>2. BeganBefore' /\ LimitIsKnown' /\ NothingYet'
  BY <1>1 DEF AdmissionInv, BeganBefore, LimitIsKnown, NothingYet, Creating, Months
<1>3. RoomNow'
  <2>1. Admitted(month)' = {}
    BY <1>1 DEF Admitted, AdmissionInv, BeganBefore, Creating, Months
  <2>2. Cardinality(Admitted(month)') = 0
    BY <2>1, FS_EmptySet
  <2>3. proposals'[month'] = 0
    BY <1>1 DEF AdmissionInv, NothingYet, Months
  <2> QED BY <2>2, <2>3, Counted, AdmissionAssumption DEF RoomNow
<1>4. RoomBefore'
  <2> SUFFICES ASSUME ~unlimited, NEW m \in Months, m < month + 1
               PROVE  proposals[m] + Cardinality(Going(m)) < LargestLimit + 2 * Cardinality(Creators)
    BY <1>1 DEF RoomBefore, Going
  <2>1. CASE m < month
    BY <2>1 DEF AdmissionInv, RoomBefore
  <2>2. CASE m = month
    <3>1. /\ Cardinality(Going(m)) \in Nat /\ Cardinality(Going(m)) <= Cardinality(Creators)
          /\ Cardinality(Admitted(m)) \in Nat
      <4>1. Going(m) \in SUBSET Creators /\ Admitted(m) \in SUBSET Creators
        BY DEF Going, Admitted
      <4> QED BY <4>1, Counted
    <3>2. proposals[m] + Cardinality(Admitted(m)) < LargestLimit + Cardinality(Creators)
      BY <2>2 DEF AdmissionInv, RoomNow
    <3>3. proposals[m] \in Nat
      BY <1>1
    <3> QED BY <3>1, <3>2, <3>3, Counted, AdmissionAssumption
  <2> QED BY <1>1, <2>1, <2>2 DEF Months
<1> QED BY <1>2, <1>3, <1>4 DEF AdmissionInv

LEMMA NextAdmission == PTypeOK /\ AdmissionInv /\ [PNext]_pVars => AdmissionInv'
<1> SUFFICES ASSUME PTypeOK, AdmissionInv, [PNext]_pVars PROVE AdmissionInv'
  OBVIOUS
<1>1. ASSUME NEW r \in Creators, CreateStep(r) PROVE AdmissionInv'
  <2>1. month \in Months /\ UNCHANGED <<month, tier>>
    BY <1>1 DEF PTypeOK, CreateStep, CreateBegin, CreateReadOrg, CreateCount, CreateCommit, CreateEnds
  <2>2. BeganBefore'
    BY <1>1, <2>1, CreatorSteps DEF AdmissionInv, BeganBefore, Months
  <2>3. LimitIsKnown'
    <3>1. Limit[tier] # NoLimit => Limit[tier] <= LargestLimit
      BY AdmissionAssumption DEF PTypeOK
    <3> QED BY <1>1, <2>1, <3>1, CreatorSteps DEF AdmissionInv, LimitIsKnown
  <2>4. CASE CreateCommit(r)
    <3>1. creating[r].pc = "admitted" /\ creating'[r].pc = "idle"
      BY <1>1, <2>4, CreatorSteps, IdleCreatorType, SetCreatorEffect DEF CreateCommit
    <3> QED
      BY <1>1, <2>2, <2>3, <2>4, <3>1, CreatorSteps, RoomAfterCommit DEF AdmissionInv
  <2>5. CASE ~CreateCommit(r)
    <3>1. UNCHANGED proposals
      BY <1>1, <2>5 DEF CreateStep, CreateBegin, CreateReadOrg, CreateCount, CreateEnds
    <3>2. NothingYet'
      BY <2>1, <3>1 DEF AdmissionInv, NothingYet
    <3>3. CASE /\ CreateCount(r)
               /\ creating[r].pc = "limited"
               /\ creating'[r].pc = "admitted"
               /\ creating'[r].stamp = creating[r].stamp
               /\ WithinLimit(creating[r].limit)
      BY <1>1, <2>2, <2>3, <3>2, <3>3, CreatorSteps, RoomAfterCount DEF AdmissionInv
    <3>4. CASE /\ \/ creating'[r].pc = "begun" /\ creating'[r].stamp = month
                  \/ /\ creating[r].pc = "begun"
                     /\ creating'[r].pc = "limited"
                     /\ creating'[r].stamp = creating[r].stamp
                  \/ creating[r].pc # "idle" /\ creating'[r].pc = "idle"
               /\ UNCHANGED unlimited
      <4>1. \A q \in Creators \ {r} : creating'[q] = creating[q]
        BY <1>1, CreatorSteps
      <4>2. Admitted(month)' \subseteq Admitted(month)
        BY <2>1, <3>4, <4>1 DEF Admitted
      <4>3. \A m \in Months : m < month => Going(m)' \subseteq Going(m)
        BY <2>1, <3>4, <4>1 DEF Going, Months
      <4> QED BY <2>1, <2>2, <2>3, <3>1, <3>2, <3>4, <4>2, <4>3, RoomStays DEF AdmissionInv
    <3> QED BY <1>1, <2>5, <3>3, <3>4, CreatorSteps, Zenon
  <2> QED BY <2>4, <2>5
<1>2. CASE MonthTurns
  BY <1>2, RoomAfterMonth
<1>3. CASE UNCHANGED <<month, proposals, creating, unlimited>>
  BY <1>3
  DEF AdmissionInv, BeganBefore, LimitIsKnown, NothingYet, RoomNow, RoomBefore, Admitted, Going
<1> QED BY <1>1, <1>2, <1>3, NextIs DEF SubscriptionChanges, pVars

(***************************************************************************)
(* The limit of a month is passed by no more than the requests that were   *)
(* in progress: _count_monthly_proposals, for any limits and any number of *)
(* concurrent requests.                                                    *)
(***************************************************************************)
THEOREM OvershootIsBounded == PSpec => []LimitOvershootBounded
<1>1. PTypeOK /\ AdmissionInv => LimitOvershootBounded
  <2> SUFFICES ASSUME PTypeOK, AdmissionInv, ~unlimited, NEW m \in Months
               PROVE  proposals[m] < LargestLimit
                        + Cardinality(Creators) * (IF m = month THEN 1 ELSE 2)
    BY DEF LimitOvershootBounded
  <2>1. /\ Cardinality(Admitted(m)) \in Nat /\ Cardinality(Going(m)) \in Nat
        /\ proposals[m] \in Nat /\ month \in Nat /\ m \in Nat
    <3>1. Going(m) \in SUBSET Creators /\ Admitted(m) \in SUBSET Creators
      BY DEF Going, Admitted
    <3> QED BY <3>1, Counted DEF PTypeOK, Months
  <2>2. CASE m = month
    BY <2>1, <2>2, Counted, AdmissionAssumption DEF AdmissionInv, RoomNow
  <2>3. CASE m < month
    BY <2>1, <2>3, Counted, AdmissionAssumption DEF AdmissionInv, RoomBefore
  <2>4. CASE m > month
    BY <2>1, <2>4, Counted, AdmissionAssumption DEF AdmissionInv, NothingYet
  <2> QED BY <2>1, <2>2, <2>3, <2>4
<1> QED
  BY <1>1, InitAdmissionTypes, NextAdmissionTypes, InitAdmission, NextAdmission, PTL DEF PSpec

=============================================================================
