-------------------------- MODULE ProposalAdmission --------------------------
(***************************************************************************)
(* Admission of new proposals of one organisation: create_proposal in      *)
(* routers/proposals.py with its billing check and its monthly limit.      *)
(*                                                                         *)
(* The handler runs in the thread pool.  It counts the month's proposals   *)
(* and inserts its own later, and created_at is PostgreSQL's now(): the    *)
(* start of the transaction, which the lookup of the user begins.          *)
(***************************************************************************)
EXTENDS Naturals, FiniteSets

CONSTANTS
  Creators,      \* create requests that may be in progress at once
  Tiers,
  Limit,         \* _MONTHLY_LIMITS, by tier
  NoLimit,
  LargestLimit,  \* the largest limit of a tier that has one
  MaxMonth,      \* bound: months
  MaxProposals   \* bound: proposals of a month

ASSUME AdmissionAssumption ==
  /\ IsFiniteSet(Creators)
  /\ MaxMonth \in Nat
  /\ Limit \in [Tiers -> (Nat \ {0}) \cup {NoLimit}]
  /\ LargestLimit \in Nat \ {0}
  /\ NoLimit \notin Nat
  /\ \A t \in Tiers : Limit[t] # NoLimit => Limit[t] <= LargestLimit

VARIABLES
  month,
  tier,
  lapsed,     \* subscription_status is CANCELED or UNPAID
  proposals,  \* proposals by the month of their created_at
  creating,
  unlimited   \* some request was admitted without a limit

pVars == <<month, tier, lapsed, proposals, creating, unlimited>>

Months == 0..MaxMonth
Creating == [pc : {"idle", "begun", "limited", "admitted"}, stamp : Months,
             limit : Nat \cup {NoLimit}]
IdleCreator == [pc |-> "idle", stamp |-> 0, limit |-> NoLimit]

PInit ==
  /\ month = 0
  /\ tier \in Tiers
  /\ lapsed \in BOOLEAN
  /\ proposals = [m \in Months |-> 0]
  /\ creating = [r \in Creators |-> IdleCreator]
  /\ unlimited = FALSE

SetCreator(r, state) == creating' = [creating EXCEPT ![r] = state]

-----------------------------------------------------------------------------

\* get_current_user begins the transaction.
CreateBegin(r) ==
  /\ creating[r].pc = "idle"
  /\ SetCreator(r, [IdleCreator EXCEPT !.pc = "begun", !.stamp = month])
  /\ UNCHANGED <<month, tier, lapsed, proposals, unlimited>>

\* _ensure_billing_active and _usage_limit_for_tier, from one read of the
\* organisation.
CreateReadOrg(r) ==
  /\ creating[r].pc = "begun"
  /\ SetCreator(r, IF lapsed THEN IdleCreator
                   ELSE [creating[r] EXCEPT !.pc = "limited", !.limit = Limit[tier]])
  /\ UNCHANGED <<month, tier, lapsed, proposals, unlimited>>

\* Mutant: the limit itself is still admitted.
WithinLimitInclusive(limit) == limit = NoLimit \/ proposals[month] <= limit

\* _count_monthly_proposals counts from the start of the current month.
WithinLimit(limit) == limit = NoLimit \/ proposals[month] < limit

CreateCount(r) ==
  /\ creating[r].pc = "limited"
  /\ IF WithinLimit(creating[r].limit)
       THEN /\ SetCreator(r, [creating[r] EXCEPT !.pc = "admitted"])
            /\ unlimited' = (unlimited \/ creating[r].limit = NoLimit)
       ELSE SetCreator(r, IdleCreator) /\ UNCHANGED unlimited
  /\ UNCHANGED <<month, tier, lapsed, proposals>>

CreateCommit(r) ==
  /\ creating[r].pc = "admitted"
  /\ proposals[creating[r].stamp] < MaxProposals
  /\ proposals' = [proposals EXCEPT ![creating[r].stamp] = @ + 1]
  /\ SetCreator(r, IdleCreator)
  /\ UNCHANGED <<month, tier, lapsed, unlimited>>

\* A request ends before its commit: the grant or the user's organisation is
\* missing, or the connection is lost.
CreateEnds(r) ==
  /\ creating[r].pc # "idle"
  /\ SetCreator(r, IdleCreator)
  /\ UNCHANGED <<month, tier, lapsed, proposals, unlimited>>

\* A month is longer than a request lasts: no request sees two turns.
MonthTurns ==
  /\ month < MaxMonth
  /\ \A r \in Creators : creating[r].pc # "idle" => creating[r].stamp = month
  /\ month' = month + 1
  /\ UNCHANGED <<tier, lapsed, proposals, creating, unlimited>>

\* The billing webhook.
SubscriptionChanges ==
  /\ tier' \in Tiers
  /\ lapsed' \in BOOLEAN
  /\ UNCHANGED <<month, proposals, creating, unlimited>>

PNext ==
  \/ \E r \in Creators :
       \/ CreateBegin(r)
       \/ CreateReadOrg(r)
       \/ CreateCount(r)
       \/ CreateCommit(r)
       \/ CreateEnds(r)
  \/ MonthTurns
  \/ SubscriptionChanges

PSpec == PInit /\ [][PNext]_pVars

-----------------------------------------------------------------------------
(* Properties.                                                             *)

PTypeOK ==
  /\ month \in Months
  /\ tier \in Tiers
  /\ lapsed \in BOOLEAN
  /\ proposals \in [Months -> Nat]
  /\ creating \in [Creators -> Creating]
  /\ unlimited \in BOOLEAN

(* The limit can be passed, since requests count before any of them         *)
(* inserts, but only by the requests in progress: in the current month each *)
(* of them adds at most one beyond the last count, and after its end those  *)
(* that began in it, but counted the new month, add at most one more each.  *)
LimitOvershootBounded ==
  ~unlimited =>
    \A m \in Months :
      proposals[m] < LargestLimit + Cardinality(Creators) * (IF m = month THEN 1 ELSE 2)

=============================================================================
