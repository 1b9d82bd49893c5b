-------------------------- MODULE ProposalTracking --------------------------
(***************************************************************************)
(* What users record about one finished proposal: the outcome of the       *)
(* application (update_proposal_tracking in routers/proposals.py) and a    *)
(* rating a week (create_proposal_feedback).                               *)
(*                                                                         *)
(* Both handlers run in the thread pool and read the proposal without a    *)
(* lock.  The UPDATE that ends a tracking request has no condition on what *)
(* was read, and names the columns whose value the request changed.        *)
(***************************************************************************)
EXTENDS Naturals

CONSTANTS
  Trackers,   \* tracking requests that may be in progress at once
  Raters,     \* users of the organisation
  Posts,      \* feedback requests that may be in progress at once
  NoRater,
  MaxWeek     \* bound: weeks

ASSUME TrackingAssumption == NoRater \notin Raters
ASSUME WeekAssumption == MaxWeek \in Nat

ApplicationStatus == {"draft", "submitted", "won", "lost", "withdrawn"}

VARIABLES
  application,  \* application_status, and whether submitted_at is set
  tracking,
  crossed,      \* an update was written over one it had not read
  ready,        \* the proposal is completed, with or without errors
  week,
  feedback,     \* rows by user and week
  posting

tVars == <<application, tracking, crossed, ready, week, feedback, posting>>

Weeks == 0..MaxWeek
Application == [status : ApplicationStatus, dated : BOOLEAN]
NewApplication == [status |-> "draft", dated |-> FALSE]

Tracking == [busy : BOOLEAN, read : Application, to : ApplicationStatus]
NotTracking == [busy |-> FALSE, read |-> NewApplication, to |-> "draft"]

Post == [rater : Raters \cup {NoRater}, week : Weeks]
NoPost == [rater |-> NoRater, week |-> 0]

TInit ==
  /\ application = NewApplication
  /\ tracking = [r \in Trackers |-> NotTracking]
  /\ crossed = FALSE
  /\ ready = FALSE
  /\ week = 0
  /\ feedback = [u \in Raters |-> [w \in Weeks |-> 0]]
  /\ posting = [p \in Posts |-> NoPost]

-----------------------------------------------------------------------------
(* The outcome.                                                            *)

\* Mutant: a draft may be recorded as won.
TransitionsFromDraftToWon(from) ==
  CASE from = "draft" -> {"submitted", "won", "withdrawn"}
    [] from = "submitted" -> {"draft", "won", "lost", "withdrawn"}
    [] OTHER -> {"draft"}

\* _TRACKING_TRANSITIONS
Transitions(from) ==
  CASE from = "draft" -> {"submitted", "withdrawn"}
    [] from = "submitted" -> {"draft", "won", "lost", "withdrawn"}
    [] OTHER -> {"draft"}

\* A request for the status the proposal has, or for one it cannot get, is
\* answered without a write.
TrackRead(r, to) ==
  /\ ~tracking[r].busy
  /\ to \in Transitions(application.status)
  /\ tracking' = [tracking EXCEPT ![r] = [busy |-> TRUE, read |-> application, to |-> to]]
  /\ UNCHANGED <<application, crossed, ready, week, feedback, posting>>

\* submitted_at after the request, if the UPDATE names it.
Dated(to, read, now) ==
  CASE to = "submitted" -> TRUE
    [] to = "draft" /\ read -> FALSE
    [] OTHER -> now

TrackCommit(r) ==
  LET t == tracking[r]
  IN  /\ t.busy
      /\ application' = [status |-> t.to, dated |-> Dated(t.to, t.read.dated, application.dated)]
      /\ crossed' = (crossed \/ application # t.read)
      /\ tracking' = [tracking EXCEPT ![r] = NotTracking]
      /\ UNCHANGED <<ready, week, feedback, posting>>

-----------------------------------------------------------------------------
(* Feedback.                                                               *)

\* The generation of the proposal ends, or a regeneration reopens it.
GenerationChanges ==
  /\ ready' = ~ready
  /\ UNCHANGED <<application, tracking, crossed, week, feedback, posting>>

WeekTurns ==
  /\ week < MaxWeek
  /\ week' = week + 1
  /\ UNCHANGED <<application, tracking, crossed, ready, feedback, posting>>

FeedbackRead(p, u) ==
  /\ posting[p] = NoPost
  /\ ready
  /\ posting' = [posting EXCEPT ![p] = [rater |-> u, week |-> week]]
  /\ UNCHANGED <<application, tracking, crossed, ready, week, feedback>>

\* Mutant: proposal_feedback without its unique constraint.
AnyFeedback(u, w) == TRUE

\* uq_proposal_feedback_user_week
FirstFeedback(u, w) == feedback[u][w] = 0

FeedbackCommit(p) ==
  LET post == posting[p]
  IN  /\ post # NoPost
      /\ feedback' = IF FirstFeedback(post.rater, post.week)
                       THEN [feedback EXCEPT ![post.rater][post.week] = @ + 1]
                       ELSE feedback
      /\ posting' = [posting EXCEPT ![p] = NoPost]
      /\ UNCHANGED <<application, tracking, crossed, ready, week>>

-----------------------------------------------------------------------------

TrackingNext ==
  \/ \E r \in Trackers, to \in ApplicationStatus : TrackRead(r, to)
  \/ \E r \in Trackers : TrackCommit(r)

FeedbackNext ==
  \/ GenerationChanges
  \/ WeekTurns
  \/ \E p \in Posts, u \in Raters : FeedbackRead(p, u)
  \/ \E p \in Posts : FeedbackCommit(p)

TNext == TrackingNext \/ FeedbackNext

TSpec == TInit /\ [][TNext]_tVars

-----------------------------------------------------------------------------
(* Properties.                                                             *)

TTypeOK ==
  /\ application \in Application
  /\ tracking \in [Trackers -> Tracking]
  /\ crossed \in BOOLEAN
  /\ ready \in BOOLEAN
  /\ week \in Weeks
  /\ feedback \in [Raters -> [Weeks -> Nat]]
  /\ posting \in [Posts -> Post]

(* The date of submission and the outcome agree: what was submitted, won or *)
(* lost has a date, along every path of transitions, and a draft has none.  *)
(* Only an update written over one it had not read separates the two, since *)
(* the UPDATE leaves out a column its request did not change.               *)
OutcomeHasDate ==
  ~crossed =>
    /\ application.status \in {"submitted", "won", "lost"} => application.dated
    /\ application.status = "draft" => ~application.dated

(* A user rates the proposal once a week, also when two requests are sent   *)
(* together, over the end of a week, or while a regeneration reopens it.    *)
FeedbackOncePerWeek == \A u \in Raters, w \in Weeks : feedback[u][w] <= 1

=============================================================================
