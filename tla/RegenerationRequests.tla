------------------------ MODULE RegenerationRequests ------------------------
(***************************************************************************)
(* What the section editor is promised about regeneration, without queues, *)
(* workers, versions or retries: a request is made once, holds its section *)
(* until it publishes, is withdrawn, or a user's edit or a newer request   *)
(* takes the section from it, and only the holder ever publishes.  A       *)
(* request that has let go of its section never gets it back.              *)
(***************************************************************************)
EXTENDS Naturals

CONSTANTS Sections, Requests, None

VARIABLES
  asked,      \* requests made so far
  holder,     \* the request each section is waiting for
  published,  \* requests whose text became the section's text
  edits       \* user edits of each section

vars == <<asked, holder, published, edits>>

Init ==
  /\ asked = {}
  /\ holder = [k \in Sections |-> None]
  /\ published = {}
  /\ edits = [k \in Sections |-> 0]

Ask(r, k) ==
  /\ r \notin asked
  /\ asked' = asked \cup {r}
  /\ holder' = [holder EXCEPT ![k] = r]
  /\ UNCHANGED <<published, edits>>

Publish(r, k) ==
  /\ holder[k] = r
  /\ holder' = [holder EXCEPT ![k] = None]
  /\ published' = published \cup {r}
  /\ UNCHANGED <<asked, edits>>

Withdraw(k) ==
  /\ holder' = [holder EXCEPT ![k] = None]
  /\ UNCHANGED <<asked, published, edits>>

Edit(k) ==
  /\ holder' = [holder EXCEPT ![k] = None]
  /\ edits' = [edits EXCEPT ![k] = @ + 1]
  /\ UNCHANGED <<asked, published>>

Next ==
  \E k \in Sections :
    \/ Withdraw(k)
    \/ Edit(k)
    \/ \E r \in Requests : Ask(r, k) \/ Publish(r, k)

Spec == Init /\ [][Next]_vars

=============================================================================
