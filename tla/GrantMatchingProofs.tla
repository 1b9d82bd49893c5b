-------------------------- MODULE GrantMatchingProofs --------------------------
(* Theorems about grant matches and alerts, for every number of sweeps,     *)
(* dashboard requests and faults.                                           *)
EXTENDS GrantMatching, TLAPS

Scanned == {"scanned", "fabricated"}

(* What every step of a scanner does to the scanners' local states.         *)
LEMMA SetScannerEffect ==
  ASSUME TypeOK, NEW w \in Scanners, NEW state \in ScannerState, SetScanner(w, state)
  PROVE  /\ scanner' \in [Scanners -> ScannerState]
         /\ scanner'[w] = state
         /\ \A v \in Scanners : v # w => scanner'[v] = scanner[v]
BY DEF SetScanner, TypeOK

LEMMA IdleType == IdleScanner \in ScannerState /\ IdleReader \in ReaderState
BY DEF IdleScanner, IdleReader, ScannerState, ReaderState

LEMMA InitInv == Init => SafetyInv
<1> SUFFICES ASSUME Init PROVE SafetyInv
  OBVIOUS
<1>1. TypeOK
  BY IdleType DEF Init, TypeOK, Match
<1>2. \A w \in Scanners : scanner[w].pc = "idle"
  BY DEF Init, IdleScanner
<1>3. WorksOnGrant /\ MailsStored /\ OneMailer
  BY <1>2 DEF WorksOnGrant, MailsStored, OneMailer
<1>4. AlertHasMatch /\ AlertedOnce /\ StoredIsAlerted
  BY DEF Init, AlertHasMatch, AlertedOnce, StoredIsAlerted
<1> QED BY <1>1, <1>3, <1>4 DEF SafetyInv

(* A step after which the same scanners mail, and which touches neither the *)
(* table nor the mails, keeps all that is said about them.                  *)
LEMMA QuietStep ==
  ASSUME SafetyInv, TypeOK', WorksOnGrant', UNCHANGED <<match, mailed>>,
         faults' \in Nat, faults' # 0 \/ faults' = faults,
         \A w \in Scanners :
           \/ scanner'[w].pc # "mail"
           \/ scanner'[w] = scanner[w],
         \/ faults' # 0
         \/ \A w \in Scanners : scanner[w].pc = "mail" /\ scanner[w].to # {}
                                  => scanner'[w] = scanner[w]
  PROVE  SafetyInv'
<1> USE DEF SafetyInv
<1>1. MailsStored' /\ OneMailer'
  BY DEF MailsStored, OneMailer
<1>2. AlertHasMatch' /\ AlertedOnce'
  BY DEF AlertHasMatch, AlertedOnce
<1>3. StoredIsAlerted'
  <2> SUFFICES ASSUME faults' = 0, NEW g \in Grants, NEW u \in Users,
                      match[g] \in Scanned, mailed[u][g] # 1
               PROVE  \E w \in Scanners : Mailing(w, g, u)'
    BY DEF StoredIsAlerted, Scanned
  <2>1. PICK w \in Scanners : Mailing(w, g, u)
    BY DEF StoredIsAlerted, Scanned
  <2>2. scanner'[w] = scanner[w]
    BY <2>1 DEF Mailing
  <2> QED BY <2>1, <2>2 DEF Mailing
<1> QED BY <1>1, <1>2, <1>3

LEMMA ScanInsertInv ==
  ASSUME SafetyInv, NEW w \in Scanners, ScanInsert(w)
  PROVE  SafetyInv'
<1> DEFINE g == scanner[w].grant
           mailing == [scanner[w] EXCEPT !.pc = "mail", !.to = Recipients(g)]
           sweeping == [scanner[w] EXCEPT !.pc = "sweep"]
<1> USE DEF SafetyInv
<1>1. g \in Grants /\ scanner[w] \in ScannerState /\ scanner[w].pc = "insert"
  BY DEF ScanInsert, WorksOnGrant, TypeOK
<1>2. CASE InsertSucceeds(g)
  <2>1. mailing \in ScannerState /\ mailing.pc = "mail" /\ mailing.to = Users
        /\ mailing.grant = g
    BY <1>1 DEF ScannerState, Recipients
  <2>2. SetScanner(w, mailing) /\ match' = [match EXCEPT ![g] = scanner[w].as]
        /\ UNCHANGED <<mailed, scans, reader, begun, faults>>
    BY <1>2 DEF ScanInsert
  <2> HIDE DEF mailing
  <2>3. /\ scanner' \in [Scanners -> ScannerState]
        /\ scanner'[w] = mailing
        /\ \A v \in Scanners : v # w => scanner'[v] = scanner[v]
    BY <2>1, <2>2, SetScannerEffect
  <2>4. match[g] = "absent" /\ match'[g] \in Scanned
        /\ \A f \in Grants : f # g => match'[f] = match[f]
    BY <1>1, <1>2, <2>2 DEF InsertSucceeds, TypeOK, ScannerState, Scanned
  <2>5. \A u \in Users : mailed[u][g] = 0
    BY <1>1, <2>4 DEF AlertHasMatch, TypeOK
  <2>6. \A v \in Scanners : scanner[v].pc = "mail" => scanner[v].grant # g
    BY <2>4 DEF MailsStored
  <2>7. TypeOK'
    BY <1>1, <2>2, <2>3 DEF TypeOK, ScannerState, Match, Inserted
  <2>8. WorksOnGrant'
    BY <1>1, <2>1, <2>3 DEF WorksOnGrant
  <2>9. MailsStored'
    BY <1>1, <2>1, <2>2, <2>3, <2>4, <2>5, <2>6 DEF MailsStored, WorksOnGrant, Scanned
  <2>10. OneMailer'
    BY <2>1, <2>3, <2>6 DEF OneMailer
  <2>11. AlertHasMatch' /\ AlertedOnce'
    BY <1>1, <2>2, <2>4 DEF AlertHasMatch, AlertedOnce, Scanned
  <2>12. StoredIsAlerted'
    <3> SUFFICES ASSUME faults = 0, NEW f \in Grants, NEW u \in Users,
                        match'[f] \in Scanned, mailed[u][f] # 1
                 PROVE  \E v \in Scanners : Mailing(v, f, u)'
      BY <2>2 DEF StoredIsAlerted, Scanned
    <3>1. CASE f = g
      <4>1. Mailing(w, f, u)'
        BY <2>1, <2>3, <3>1 DEF Mailing
      <4> QED BY <4>1
    <3>2. CASE f # g
      <4>1. PICK v \in Scanners : Mailing(v, f, u)
        BY <2>4, <3>2 DEF StoredIsAlerted, Scanned
      <4>2. Mailing(v, f, u)'
        BY <1>1, <2>3, <4>1 DEF Mailing
      <4> QED BY <4>2
    <3> QED BY <3>1, <3>2
  <2> QED BY <2>7, <2>8, <2>9, <2>10, <2>11, <2>12
<1>3. CASE ~InsertSucceeds(g)
  <2>1. sweeping \in ScannerState /\ sweeping.pc = "sweep"
    BY <1>1 DEF ScannerState
  <2>2. SetScanner(w, sweeping) /\ UNCHANGED <<match, mailed, scans, reader, begun, faults>>
    BY <1>3 DEF ScanInsert
  <2> HIDE DEF sweeping
  <2>3. /\ scanner' \in [Scanners -> ScannerState]
        /\ scanner'[w] = sweeping
        /\ \A v \in Scanners : v # w => scanner'[v] = scanner[v]
    BY <2>1, <2>2, SetScannerEffect
  <2>4. TypeOK' /\ WorksOnGrant'
    BY <2>1, <2>2, <2>3 DEF TypeOK, WorksOnGrant
  <2> QED BY <1>1, <2>1, <2>2, <2>3, <2>4, QuietStep DEF TypeOK
<1> QED BY <1>2, <1>3

LEMMA ScanMailInv ==
  ASSUME SafetyInv, NEW w \in Scanners, NEW u \in Users, ScanMail(w, u)
  PROVE  SafetyInv'
<1> DEFINE g == scanner[w].grant
           state == [scanner[w] EXCEPT !.to = @ \ {u}]
<1> USE DEF SafetyInv
<1>1. scanner[w].pc = "mail" /\ u \in scanner[w].to /\ scanner[w] \in ScannerState
      /\ g \in Grants
  BY DEF ScanMail, WorksOnGrant, TypeOK
<1>2. state \in ScannerState /\ state.pc = "mail" /\ state.grant = g
      /\ state.to = scanner[w].to \ {u}
  BY <1>1 DEF ScannerState
<1>3. SetScanner(w, state) /\ UNCHANGED <<match, scans, reader, begun>>
  BY DEF ScanMail
<1> HIDE DEF state
<1>4. /\ scanner' \in [Scanners -> ScannerState]
      /\ scanner'[w] = state
      /\ \A v \in Scanners : v # w => scanner'[v] = scanner[v]
  BY <1>2, <1>3, SetScannerEffect
<1>5. mailed[u][g] = 0 /\ match[g] \in Scanned
  BY <1>1 DEF MailsStored, Scanned
<1>6. WorksOnGrant' /\ OneMailer'
  BY <1>1, <1>2, <1>4 DEF WorksOnGrant, OneMailer
<1>7. CASE mailed' = [mailed EXCEPT ![u][g] = @ + 1] /\ UNCHANGED faults
  <2>1. /\ mailed'[u][g] = 1
        /\ \A x \in Users, f \in Grants : x # u \/ f # g => mailed'[x][f] = mailed[x][f]
        /\ mailed' \in [Users -> [Grants -> Nat]]
    BY <1>1, <1>5, <1>7 DEF TypeOK
  <2>2. TypeOK'
    BY <1>3, <1>4, <1>7, <2>1 DEF TypeOK
  <2>3. MailsStored'
    <3> SUFFICES ASSUME NEW v \in Scanners, scanner'[v].pc = "mail"
                 PROVE  /\ match[scanner'[v].grant] \in Scanned
                        /\ \A x \in scanner'[v].to : mailed'[x][scanner'[v].grant] = 0
      BY <1>3 DEF MailsStored, Scanned
    <3>1. CASE v = w
      <4>1. \A x \in scanner[w].to : x \in Users /\ mailed[x][g] = 0
        BY <1>1 DEF MailsStored, ScannerState
      <4> QED BY <1>1, <1>2, <1>4, <1>5, <2>1, <3>1, <4>1
    <3>2. CASE v # w
      <4>1. scanner[v].pc = "mail" /\ scanner'[v] = scanner[v] /\ scanner[v].grant # g
        BY <1>1, <1>4, <3>2 DEF OneMailer
      <4>2. scanner[v].grant \in Grants /\ scanner[v].to \subseteq Users
        BY <4>1 DEF WorksOnGrant, TypeOK, ScannerState
      <4> QED BY <2>1, <4>1, <4>2 DEF MailsStored, Scanned
    <3> QED BY <3>1, <3>2
  <2>4. AlertHasMatch' /\ AlertedOnce'
    BY <1>3, <1>5, <2>1 DEF AlertHasMatch, AlertedOnce, Scanned
  <2>5. StoredIsAlerted'
    <3> SUFFICES ASSUME faults = 0, NEW f \in Grants, NEW x \in Users,
                        match[f] \in Scanned, mailed'[x][f] # 1
                 PROVE  \E v \in Scanners : Mailing(v, f, x)'
      BY <1>3, <1>7 DEF StoredIsAlerted, Scanned
    <3>1. (x # u \/ f # g) /\ mailed[x][f] # 1
      BY <2>1
    <3>2. PICK v \in Scanners : Mailing(v, f, x)
      BY <3>1 DEF StoredIsAlerted, Scanned
    <3>3. Mailing(v, f, x)'
      BY <1>2, <1>4, <3>1, <3>2 DEF Mailing
    <3> QED BY <3>3
  <2> QED BY <1>6, <2>2, <2>3, <2>4, <2>5
<1>8. CASE Fault /\ UNCHANGED mailed
  <2>1. faults' \in Nat /\ faults' # 0
    BY <1>8 DEF Fault, TypeOK
  <2>2. TypeOK'
    BY <1>3, <1>4, <1>8, <2>1 DEF TypeOK
  <2>3. MailsStored'
    BY <1>1, <1>2, <1>3, <1>4, <1>8 DEF MailsStored
  <2>4. AlertHasMatch' /\ AlertedOnce'
    BY <1>3, <1>8 DEF AlertHasMatch, AlertedOnce
  <2>5. StoredIsAlerted'
    BY <2>1 DEF StoredIsAlerted
  <2> QED BY <1>6, <2>2, <2>3, <2>4, <2>5
<1> QED BY <1>7, <1>8 DEF ScanMail, SendMatchAlert

(* Every other step of a scanner leaves the table and the mails alone and   *)
(* starts no mailing.                                                       *)
LEMMA ScannerInv ==
  ASSUME SafetyInv, NEW w \in Scanners, ScanStep(w) \/ ScanFails(w) \/ ScannerCrash(w)
  PROVE  SafetyInv'
<1> USE DEF SafetyInv
<1> DEFINE Moves(state) ==
             /\ state \in ScannerState
             /\ state.pc # "mail"
             /\ state.pc = "insert" => state.grant \in Grants
             /\ SetScanner(w, state)
             /\ scans' \in Nat
             /\ faults' \in Nat
             /\ \/ faults' # 0
                \/ faults' = faults /\ (scanner[w].pc = "mail" => scanner[w].to = {})
             /\ UNCHANGED <<match, mailed, reader, begun>>
<1>1. ASSUME NEW state, Moves(state)
      PROVE  SafetyInv'
  <2>1. /\ scanner' \in [Scanners -> ScannerState]
        /\ scanner'[w] = state
        /\ \A v \in Scanners : v # w => scanner'[v] = scanner[v]
    BY <1>1, SetScannerEffect
  <2>2. TypeOK' /\ WorksOnGrant'
    BY <1>1, <2>1 DEF TypeOK, WorksOnGrant
  <2> QED BY <1>1, <2>1, <2>2, QuietStep
<1>2. scans \in Nat /\ faults \in Nat /\ scanner[w] \in ScannerState
  BY DEF TypeOK
<1>3. CASE ScanStart(w)
  <2>1. PICK todo \in SUBSET Grants, as \in {"scanned", "fabricated"} :
          SetScanner(w, [IdleScanner EXCEPT !.pc = "sweep", !.todo = todo, !.as = as])
    BY <1>3 DEF ScanStart, Hits
  <2> DEFINE state == [IdleScanner EXCEPT !.pc = "sweep", !.todo = todo, !.as = as]
  <2>2. state \in ScannerState /\ state.pc = "sweep"
    BY DEF IdleScanner, ScannerState
  <2>3. Moves(state)
    BY <1>2, <1>3, <2>1, <2>2 DEF ScanStart
  <2> QED BY <1>1, <2>3
<1>4. ASSUME NEW g \in Grants, ScanLookup(w, g)
      PROVE  SafetyInv'
  <2> DEFINE state == [scanner[w] EXCEPT !.todo = @ \ {g}, !.grant = g,
                         !.pc = IF match[g] = "absent" THEN "insert" ELSE "sweep"]
  <2>1. state \in ScannerState /\ state.pc \in {"insert", "sweep"} /\ state.grant = g
    BY <1>2 DEF ScannerState
  <2>2. Moves(state)
    BY <1>2, <1>4, <2>1 DEF ScanLookup
  <2> HIDE DEF state, Moves
  <2> QED BY <1>1, <2>2
<1>5. CASE ScanMailed(w) \/ ScanEnd(w)
  <2>1. PICK state \in {[scanner[w] EXCEPT !.pc = "sweep"], IdleScanner} : SetScanner(w, state)
    BY <1>5 DEF ScanMailed, ScanEnd
  <2>2. state \in ScannerState /\ state.pc \in {"sweep", "idle"}
    BY <1>2, IdleType DEF ScannerState, IdleScanner
  <2>3. Moves(state)
    BY <1>2, <1>5, <2>1, <2>2 DEF ScanMailed, ScanEnd
  <2> QED BY <1>1, <2>3
<1>6. CASE ScanFails(w) \/ ScannerCrash(w)
  <2>1. IdleScanner \in ScannerState /\ IdleScanner.pc = "idle"
    BY IdleType DEF IdleScanner
  <2>2. faults' \in Nat /\ faults' # 0 /\ scans' \in Nat
    BY <1>2, <1>6 DEF ScanFails, ScannerCrash, Fault
  <2>3. Moves(IdleScanner)
    BY <1>6, <2>1, <2>2 DEF ScanFails, ScannerCrash
  <2> QED BY <1>1, <2>3
<1> QED BY <1>3, <1>4, <1>5, <1>6, ScanInsertInv, ScanMailInv DEF ScanStep

(* The dashboard adds rows only where none is, so no alert loses its match. *)
LEMMA DashboardInv ==
  ASSUME SafetyInv, NEW d \in Readers,
         DashboardLoad(d) \/ (\E g \in Grants : DashboardSave(d, g)) \/ DashboardEnd(d)
  PROVE  SafetyInv'
<1> USE DEF SafetyInv
<1>1. ASSUME NEW state \in ReaderState, SetReader(d, state),
             UNCHANGED <<match, mailed, scans, scanner, begun, faults>>
      PROVE  SafetyInv'
  <2>1. TypeOK' /\ WorksOnGrant'
    BY <1>1 DEF SetReader, TypeOK, WorksOnGrant
  <2> QED BY <1>1, <2>1, QuietStep DEF TypeOK
<1>2. CASE DashboardLoad(d)
  <2>1. PICK hits \in SUBSET Grants, as \in {"cached", "degraded"} :
          SetReader(d, [busy |-> TRUE, todo |-> {g \in hits : match[g] = "absent"}, as |-> as])
    BY <1>2 DEF DashboardLoad, Hits
  <2>2. [busy |-> TRUE, todo |-> {g \in hits : match[g] = "absent"}, as |-> as] \in ReaderState
    BY DEF ReaderState
  <2> QED BY <1>1, <1>2, <2>1, <2>2 DEF DashboardLoad
<1>3. CASE DashboardEnd(d)
  BY <1>1, <1>3, IdleType DEF DashboardEnd
<1>4. ASSUME NEW g \in Grants, DashboardSave(d, g)
      PROVE  SafetyInv'
  <2> DEFINE state == [reader[d] EXCEPT !.todo = @ \ {g}]
  <2>1. reader[d] \in ReaderState /\ state \in ReaderState
    BY DEF TypeOK, ReaderState
  <2>2. SetReader(d, state) /\ UNCHANGED <<mailed, scans, scanner, begun, faults>>
    BY <1>4 DEF DashboardSave
  <2> HIDE DEF state
  <2>3. CASE InsertSucceeds(g)
    <3>1. match[g] = "absent" /\ match'[g] \in {"cached", "degraded"}
          /\ match' \in [Grants -> Match]
          /\ \A f \in Grants : f # g => match'[f] = match[f]
      BY <1>4, <2>1, <2>3 DEF DashboardSave, InsertSucceeds, TypeOK, ReaderState, Match, Inserted
    <3>2. TypeOK' /\ WorksOnGrant' /\ OneMailer'
      BY <2>1, <2>2, <3>1 DEF TypeOK, SetReader, WorksOnGrant, OneMailer
    <3>3. MailsStored'
      BY <2>2, <3>1 DEF MailsStored, WorksOnGrant
    <3>4. AlertHasMatch' /\ AlertedOnce'
      BY <2>2, <3>1 DEF AlertHasMatch, AlertedOnce
    <3>5. StoredIsAlerted'
      BY <2>2, <3>1 DEF StoredIsAlerted, Mailing
    <3> QED BY <3>2, <3>3, <3>4, <3>5
  <2>4. CASE ~InsertSucceeds(g)
    BY <1>1, <1>4, <2>1, <2>2, <2>4 DEF DashboardSave
  <2> QED BY <2>3, <2>4
<1> QED BY <1>2, <1>3, <1>4

LEMMA NextInv == SafetyInv /\ [Next]_vars => SafetyInv'
<1> SUFFICES ASSUME SafetyInv, [Next]_vars PROVE SafetyInv'
  OBVIOUS
<1>1. CASE Beat
  <2>1. TypeOK' /\ WorksOnGrant'
    BY <1>1 DEF Beat, SafetyInv, TypeOK, WorksOnGrant
  <2> QED BY <1>1, <2>1, QuietStep DEF Beat, SafetyInv, TypeOK
<1>2. CASE UNCHANGED vars
  <2>1. TypeOK' /\ WorksOnGrant'
    BY <1>2 DEF vars, SafetyInv, TypeOK, WorksOnGrant
  <2> QED BY <1>2, <2>1, QuietStep DEF vars, SafetyInv, TypeOK
<1> QED BY <1>1, <1>2, ScannerInv, DashboardInv DEF Next

LEMMA InvHolds == Spec => []SafetyInv
BY InitInv, NextInv, PTL DEF Spec

(* Rows, queue, sweeps and dashboard requests stay in their domains.        *)
THEOREM TypeCorrect == Spec => []TypeOK
<1>1. SafetyInv => TypeOK
  BY DEF SafetyInv
<1> QED BY InvHolds, <1>1, PTL

(* No user gets two alerts about a grant, however many sweeps overlap, are  *)
(* repeated after a crash or race with the dashboard.                       *)
THEOREM AtMostOneAlert == Spec => []AlertedOnce
<1>1. SafetyInv => AlertedOnce
  BY DEF SafetyInv
<1> QED BY InvHolds, <1>1, PTL

(* Without a fault a sweep leaves no stored match that its users do not     *)
(* hear of.                                                                 *)
THEOREM StoredMatchesAreAlerted == Spec => []StoredIsAlerted
<1>1. SafetyInv => StoredIsAlerted
  BY DEF SafetyInv
<1> QED BY InvHolds, <1>1, PTL

=============================================================================
