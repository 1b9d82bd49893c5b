------------------------------ MODULE Accounts ------------------------------
(***************************************************************************)
(* Users, organisations and invitations: the script create_admin.py and    *)
(* the handlers create_invitation and register of routers/auth.py, which   *)
(* run in the thread pool and check, hash a password and only then write.  *)
(*                                                                         *)
(* The database tells addresses apart by their spelling; register compares *)
(* the address of an invitation in lower case.                             *)
(***************************************************************************)
EXTENDS Naturals

CONSTANTS
  Emails,         \* addresses as they are written
  Lower,          \* each address in lower case
  Orgs,
  Registrations,  \* register requests that may be in progress at once
  NoUser,
  NoInvitation

VARIABLES
  orgs,        \* organisations in the database
  user,        \* the user of each address
  invitation,  \* the invitation of each address
  made,        \* users registered with each invitation
  contested,   \* invitations that two requests held at once in two spellings
  registering,
  script

aVars == <<orgs, user, invitation, made, contested, registering, script>>

Role == {"ADMIN", "WRITER", "VIEWER"}
User == [role : Role, org : Orgs, by : {"script", "invitation"}]
Invitation == [org : Orgs, state : {"open", "expired", "used"}]

ASSUME AccountsAssumption ==
  /\ Lower \in [Emails -> Emails]
  /\ NoUser \notin User
  /\ NoInvitation \notin Invitation

Idle == [busy |-> FALSE]
Registering == [busy : {TRUE}, invited : Emails, email : Emails, role : Role]
Scripting == [busy : {TRUE}, email : Emails, org : Orgs]

AInit ==
  /\ orgs = {}
  /\ user = [e \in Emails |-> NoUser]
  /\ invitation = [e \in Emails |-> NoInvitation]
  /\ made = [e \in Emails |-> 0]
  /\ contested = {}
  /\ registering = [r \in Registrations |-> Idle]
  /\ script = Idle

-----------------------------------------------------------------------------
(* create_admin.py                                                         *)

\* An address that has a user ends the script; an organisation that is
\* missing is committed before the user is.
ScriptOrganization(e, o) ==
  /\ ~script.busy
  /\ user[e] = NoUser
  /\ orgs' = orgs \cup {o}
  /\ script' = [busy |-> TRUE, email |-> e, org |-> o]
  /\ UNCHANGED <<user, invitation, made, contested, registering>>

\* ix_users_email
EmailFree(e) == user[e] = NoUser

ScriptUser ==
  /\ script.busy
  /\ user' = IF EmailFree(script.email)
               THEN [user EXCEPT ![script.email] =
                       [role |-> "ADMIN", org |-> script.org, by |-> "script"]]
               ELSE user
  /\ script' = Idle
  /\ UNCHANGED <<orgs, invitation, made, contested, registering>>

\* The operator stops the script: the organisation stays without a user.
ScriptStops ==
  /\ script.busy
  /\ script' = Idle
  /\ UNCHANGED <<orgs, user, invitation, made, contested, registering>>

-----------------------------------------------------------------------------
(* Invitations.                                                            *)

\* Mutant: an administrator invites to any organisation.
MayInviteAnywhere(a, o) == user[a] # NoUser /\ user[a].role = "ADMIN" /\ o \in orgs

\* require_role, and the comparison of the organisations.
MayInvite(a, o) == user[a] # NoUser /\ user[a].role = "ADMIN" /\ user[a].org = o

\* The address has a unique index and its row is never deleted: a used or
\* expired invitation is the last one of its address.
CreateInvitation(a, e, o) ==
  /\ MayInvite(a, o)
  /\ invitation[e] = NoInvitation
  /\ invitation' = [invitation EXCEPT ![e] = [org |-> o, state |-> "open"]]
  /\ UNCHANGED <<orgs, user, made, contested, registering, script>>

IsOpen(i) == invitation[i] # NoInvitation /\ invitation[i].state = "open"

\* Seven days pass.
InvitationExpires(i) ==
  /\ IsOpen(i)
  /\ invitation' = [invitation EXCEPT ![i].state = "expired"]
  /\ UNCHANGED <<orgs, user, made, contested, registering, script>>

Holds(r, i) == registering[r].busy /\ registering[r].invited = i

\* Mutant: later users get a role that RoleEnum does not have.
MemberRole(o) ==
  IF \E e \in Emails : user[e] # NoUser /\ user[e].org = o THEN "MEMBER" ELSE "ADMIN"

\* The role, from the users of the organisation the request can see.
FirstRole(o) ==
  IF \E e \in Emails : user[e] # NoUser /\ user[e].org = o THEN "VIEWER" ELSE "ADMIN"

\* register up to the hash of the password.
RegisterCheck(r, i, e) ==
  /\ ~registering[r].busy
  /\ IsOpen(i)
  /\ Lower[i] = Lower[e]
  /\ user[e] = NoUser
  /\ registering' = [registering EXCEPT ![r] =
       [busy |-> TRUE, invited |-> i, email |-> e, role |-> FirstRole(invitation[i].org)]]
  /\ contested' = IF \E q \in Registrations : Holds(q, i) /\ registering[q].email # e
                    THEN contested \cup {i}
                    ELSE contested
  /\ UNCHANGED <<orgs, user, invitation, made, script>>

\* Mutant: the invitation is not marked as used.
LeftOpen(i) == invitation

MarkUsed(i) == [invitation EXCEPT ![i].state = "used"]

\* The user and the used invitation in one commit; an address that was taken
\* in between is an IntegrityError and rolls both back.
RegisterCommit(r) ==
  LET reg == registering[r]
  IN  /\ reg.busy
      /\ IF EmailFree(reg.email)
           THEN /\ user' = [user EXCEPT ![reg.email] =
                     [role |-> reg.role, org |-> invitation[reg.invited].org, by |-> "invitation"]]
                /\ invitation' = MarkUsed(reg.invited)
                /\ made' = [made EXCEPT ![reg.invited] = @ + 1]
           ELSE UNCHANGED <<user, invitation, made>>
      /\ registering' = [registering EXCEPT ![r] = Idle]
      /\ UNCHANGED <<orgs, contested, script>>

-----------------------------------------------------------------------------

ANext ==
  \/ \E e \in Emails, o \in Orgs : ScriptOrganization(e, o)
  \/ ScriptUser
  \/ ScriptStops
  \/ \E a, e \in Emails, o \in Orgs : CreateInvitation(a, e, o)
  \/ \E i \in Emails : InvitationExpires(i)
  \/ \E r \in Registrations, i, e \in Emails : RegisterCheck(r, i, e)
  \/ \E r \in Registrations : RegisterCommit(r)

ASpec == AInit /\ [][ANext]_aVars

-----------------------------------------------------------------------------
(* Properties.                                                             *)

ATypeOK ==
  /\ orgs \subseteq Orgs
  /\ user \in [Emails -> User \cup {NoUser}]
  /\ invitation \in [Emails -> Invitation \cup {NoInvitation}]
  /\ made \in [Emails -> Nat]
  /\ contested \subseteq Emails
  /\ registering \in [Registrations -> Registering \cup {Idle}]
  /\ script \in Scripting \cup {Idle}

(* An invitation makes one user, although requests that carry it overlap:   *)
(* the unique address decides between them.  Two spellings of the address   *)
(* are two users, so the exception is a pair of requests in two spellings   *)
(* that both read the invitation before either committed.                   *)
OneUserPerInvitation == \A i \in Emails : made[i] <= 1 \/ i \in contested

(* Every administrator was made by the script: the branch of register that  *)
(* makes the first user of an organisation its administrator is never       *)
(* reached, since only an administrator of the organisation invites to it.  *)
AdminsFromScript ==
  \A e \in Emails :
    user[e] # NoUser /\ user[e].role = "ADMIN" => user[e].by = "script"

=============================================================================
