--------------------------- MODULE IngestionProofs ---------------------------
(***************************************************************************)
(* Theorems about what the background tasks bring into the platform: the   *)
(* catalogue of grants and the documents of a profile.                     *)
(***************************************************************************)
EXTENDS GrantDiscovery, DocumentPipeline, FiniteSetTheorems, TLAPS

-----------------------------------------------------------------------------
(* Theorems about the grant catalogue, for any page, any number of sweeps    *)
(* and of changes and failures.                                              *)

LEMMA IdsAre == Fallback \in Ids /\ 1 \in Ids /\ (\A id \in Ids \ {Fallback} : id \in 1 .. Cards)
BY DiscoveryAssumption DEF Fallback, Ids

LEMMA ShownType ==
  ASSUME NEW p \in Pages
  PROVE  Shown(p) \in Listing
BY IdsAre, DiscoveryAssumption DEF Shown, Listing

LEMMA ListingTypes == Nothing \in Listing /\ SimulatedGrants \in Listing
<1>1. FallbackText \in Texts
  BY DiscoveryAssumption DEF FallbackText
<1> QED BY <1>1, IdsAre DEF Nothing, SimulatedGrants, Listing

LEMMA IdleSweeperType == IdleSweeper \in Sweeper /\ IdleSweeper.pc = "idle"
BY ListingTypes, IdsAre DEF IdleSweeper, Sweeper

LEMMA HandledType ==
  ASSUME NEW s \in Sweeper
  PROVE  Handled(s) \in Sweeper /\ Handled(s).pc = "sweep"
BY IdleSweeperType DEF Handled, Sweeper

(* What a step of a sweeper does to the sweepers.                           *)
LEMMA SetSweeperEffect ==
  ASSUME DTypeOK, NEW w \in Sweepers, NEW state \in Sweeper, SetSweeper(w, state)
  PROVE  /\ sweeper' \in [Sweepers -> Sweeper]
         /\ sweeper'[w] = state
         /\ \A v \in Sweepers \ {w} : sweeper'[v] = sweeper[v]
BY DEF DTypeOK, SetSweeper

LEMMA SweepFaultType ==
  ASSUME missed \in Nat, SweepFault
  PROVE  missed' \in Nat /\ missed' > 0
BY DEF SweepFault

LEMMA InitDiscoveryTypes == DInit => DTypeOK
BY ShownType, ListingTypes, IdleSweeperType DEF DInit, DTypeOK

(* A sweeper that starts has the page or the simulated grants before it.     *)
LEMMA StartType ==
  ASSUME DTypeOK
  PROVE  /\ [IdleSweeper EXCEPT !.pc = "sweep", !.found = Discovered] \in Sweeper
         /\ [IdleSweeper EXCEPT !.pc = "sweep", !.found = SimulatedGrants] \in Sweeper
<1>1. Discovered \in Listing
  BY ListingTypes DEF DTypeOK, Discovered
<1> QED BY <1>1, ListingTypes, IdleSweeperType DEF Sweeper

LEMMA NextDiscoveryTypes == DTypeOK /\ [DNext]_dVars => DTypeOK'
<1> SUFFICES ASSUME DTypeOK, [DNext]_dVars PROVE DTypeOK'
  OBVIOUS
<1> USE DEF DTypeOK
<1>1. CASE PageChanges
  BY <1>1, ShownType DEF PageChanges
<1>2. CASE ScrapeBeat
  BY <1>2 DEF ScrapeBeat
<1>3. ASSUME NEW w \in Sweepers, SweepStart(w) PROVE DTypeOK'
  <2>1. sweeper' \in [Sweepers -> Sweeper]
    BY <1>3, StartType, SetSweeperEffect DEF SweepStart
  <2>2. sweeps' \in Nat /\ missed' \in Nat
    BY <1>3, SweepFaultType DEF SweepStart
  <2> QED BY <1>3, <2>1, <2>2 DEF SweepStart
<1>4. ASSUME NEW w \in Sweepers, SweepFind(w) PROVE DTypeOK'
  <2> DEFINE s == sweeper[w]
  <2>1. s \in Sweeper
    OBVIOUS
  <2>2. PICK id \in Ids :
          /\ s.found[id] # NoText
          /\ SetSweeper(w, [s EXCEPT !.pc = IF row[id] = NoText THEN "insert" ELSE "update",
                                     !.found[id] = NoText, !.id = id,
                                     !.text = s.found[id], !.seen = row[id]])
    BY <1>4 DEF SweepFind
  <2>3. [s EXCEPT !.pc = IF row[id] = NoText THEN "insert" ELSE "update",
                  !.found[id] = NoText, !.id = id,
                  !.text = s.found[id], !.seen = row[id]] \in Sweeper
    BY <2>1 DEF Sweeper, Listing
  <2>4. sweeper' \in [Sweepers -> Sweeper]
    BY <2>2, <2>3, SetSweeperEffect
  <2>5. crowded' \subseteq Ids
    BY <1>4 DEF SweepFind
  <2> QED BY <1>4, <2>4, <2>5 DEF SweepFind
<1>5. ASSUME NEW w \in Sweepers, SweepUpdate(w) PROVE DTypeOK'
  <2>1. [sweeper[w] EXCEPT !.pc = "embed", !.text = NoText, !.seen = NoText] \in Sweeper
    BY DEF Sweeper
  <2>2. sweeper' \in [Sweepers -> Sweeper]
    BY <1>5, <2>1, SetSweeperEffect DEF SweepUpdate
  <2>3. row' \in Listing
    BY <1>5 DEF SweepUpdate, Updated, Listing, Sweeper
  <2> QED BY <1>5, <2>2, <2>3 DEF SweepUpdate
<1>6. ASSUME NEW w \in Sweepers, SweepInsert(w) PROVE DTypeOK'
  <2>1. [sweeper[w] EXCEPT !.pc = "embed", !.text = NoText, !.seen = NoText] \in Sweeper
    BY DEF Sweeper
  <2>2. sweeper' \in [Sweepers -> Sweeper]
    BY <1>6, <2>1, HandledType, SetSweeperEffect DEF SweepInsert
  <2>3. row' \in Listing
    BY <1>6 DEF SweepInsert, Listing, Sweeper
  <2> QED BY <1>6, <2>2, <2>3 DEF SweepInsert
<1>7. ASSUME NEW w \in Sweepers, SweepEmbed(w) PROVE DTypeOK'
  <2>1. [sweeper[w] EXCEPT !.pc = "upsert", !.text = row[sweeper[w].id]] \in Sweeper
    BY DEF Sweeper, Listing
  <2>2. sweeper' \in [Sweepers -> Sweeper]
    BY <1>7, <2>1, SetSweeperEffect DEF SweepEmbed
  <2> QED BY <1>7, <2>2 DEF SweepEmbed
<1>8. ASSUME NEW w \in Sweepers, SweepUpsert(w) PROVE DTypeOK'
  <2>1. sweeper' \in [Sweepers -> Sweeper]
    BY <1>8, HandledType, SetSweeperEffect DEF SweepUpsert
  <2>2. vector' \in Listing
    BY <1>8 DEF SweepUpsert, Upserted, Listing, Sweeper
  <2> QED BY <1>8, <2>1, <2>2 DEF SweepUpsert
<1>9. ASSUME NEW w \in Sweepers, SweepEnd(w) PROVE DTypeOK'
  BY <1>9, IdleSweeperType, SetSweeperEffect DEF SweepEnd
<1>10. ASSUME NEW w \in Sweepers, SweepSkips(w) PROVE DTypeOK'
  BY <1>10, HandledType, SetSweeperEffect, SweepFaultType DEF SweepSkips
<1>11. ASSUME NEW w \in Sweepers, SweeperLost(w) PROVE DTypeOK'
  BY <1>11, IdleSweeperType, SetSweeperEffect, SweepFaultType DEF SweeperLost
<1>12. CASE UNCHANGED dVars
  BY <1>12 DEF dVars
<1> QED
  BY <1>1, <1>2, <1>3, <1>4, <1>5, <1>6, <1>7, <1>8, <1>9, <1>10, <1>11, <1>12
  DEF DNext, SweepStep

-----------------------------------------------------------------------------
(***************************************************************************)
(* The inductive invariant behind IndexFollowsRow, of one grant.           *)
(***************************************************************************)

OneHandler(id) == \A v, w \in Sweepers : Handles(v, id) /\ Handles(w, id) => v = w

(* What a sweeper holds of the row is what the row says.                    *)
HandlerIsCurrent(id) ==
  \A w \in Sweepers :
    Handles(w, id) =>
      /\ sweeper[w].pc = "update" => sweeper[w].seen = row[id]
      /\ sweeper[w].pc = "insert" => row[id] = NoText
      /\ sweeper[w].pc = "upsert" => sweeper[w].text = row[id]

WillTell(w, id) == Handles(w, id) /\ sweeper[w].pc \in {"embed", "upsert"}

Follows(id) ==
  row[id] # NoText => vector[id] = row[id] \/ \E w \in Sweepers : WillTell(w, id)

GrantInv(id) == OneHandler(id) /\ HandlerIsCurrent(id) /\ Follows(id)

FollowInv == missed = 0 => \A id \in Ids \ crowded : GrantInv(id)

LEMMA InitFollows == DInit => FollowInv
BY IdleSweeperType
DEF DInit, FollowInv, GrantInv, OneHandler, HandlerIsCurrent, Follows, Handles, Nothing

(* A step of a sweeper that has nothing to do with the grant.               *)
LEMMA Bystander ==
  ASSUME NEW id \in Ids, GrantInv(id), NEW w \in Sweepers,
         \A v \in Sweepers \ {w} : sweeper'[v] = sweeper[v],
         ~Handles(w, id), ~Handles(w, id)',
         row'[id] = row[id], vector'[id] = vector[id]
  PROVE  GrantInv(id)'
BY DEF GrantInv, OneHandler, HandlerIsCurrent, Follows, WillTell, Handles

(* A step of the one sweeper that handles the grant before or after it.      *)
LEMMA OnlyHandler ==
  ASSUME NEW id \in Ids, NEW w \in Sweepers,
         \A v \in Sweepers \ {w} : sweeper'[v] = sweeper[v] /\ ~Handles(v, id),
         Handles(w, id)' =>
           /\ sweeper'[w].pc = "update" => sweeper'[w].seen = row'[id]
           /\ sweeper'[w].pc = "insert" => row'[id] = NoText
           /\ sweeper'[w].pc = "upsert" => sweeper'[w].text = row'[id],
         row'[id] # NoText => vector'[id] = row'[id] \/ WillTell(w, id)'
  PROVE  GrantInv(id)'
BY DEF GrantInv, OneHandler, HandlerIsCurrent, Follows, WillTell, Handles

LEMMA CrowdedGrows == [DNext]_dVars => crowded \subseteq crowded'
BY DEF DNext, dVars, PageChanges, ScrapeBeat, SweepStep, SweepStart, SweepFind, SweepUpdate,
   SweepInsert, SweepEmbed, SweepUpsert, SweepEnd, SweepSkips, SweeperLost

LEMMA FailureIsKept == DTypeOK /\ [DNext]_dVars /\ missed' = 0 => missed = 0
<1>1. DTypeOK /\ SweepFault => missed' # 0
  BY SweepFaultType DEF DTypeOK
<1> QED
  BY <1>1, Zenon
  DEF DNext, dVars, PageChanges, ScrapeBeat, SweepStep, SweepStart, SweepFind, SweepUpdate,
    SweepInsert, SweepEmbed, SweepUpsert, SweepEnd, SweepSkips, SweeperLost

(* The steps of a sweeper on the grant it handles.                          *)
LEMMA HandlerStep ==
  ASSUME DTypeOK, NEW id \in Ids, GrantInv(id), NEW w \in Sweepers, Handles(w, id),
         SweepUpdate(w) \/ SweepInsert(w) \/ SweepEmbed(w) \/ SweepUpsert(w)
  PROVE  GrantInv(id)'
<1>1. \A v \in Sweepers \ {w} : sweeper'[v] = sweeper[v] /\ ~Handles(v, id)
  BY DEF DTypeOK, GrantInv, OneHandler, SweepUpdate, SweepInsert, SweepEmbed, SweepUpsert,
     SetSweeper
<1>2. sweeper[w].id = id /\ sweeper[w] \in Sweeper
  BY DEF Handles, DTypeOK
<1>3. CASE SweepUpdate(w)
  <2>1. /\ sweeper'[w] = [sweeper[w] EXCEPT !.pc = "embed", !.text = NoText, !.seen = NoText]
        /\ sweeper[w].pc = "update"
    BY <1>3 DEF SweepUpdate, SetSweeper, DTypeOK
  <2>2. sweeper'[w].pc = "embed" /\ sweeper'[w].id = id
    BY <1>2, <2>1 DEF Sweeper
  <2> QED BY <1>1, <2>2, OnlyHandler DEF Handles, WillTell
<1>4. CASE SweepInsert(w)
  <2>1. row[id] = NoText
    BY <1>4 DEF SweepInsert, GrantInv, HandlerIsCurrent
  <2>2. sweeper'[w] = [sweeper[w] EXCEPT !.pc = "embed", !.text = NoText, !.seen = NoText]
    BY <1>2, <1>4, <2>1 DEF SweepInsert, SetSweeper, DTypeOK
  <2>3. sweeper'[w].pc = "embed" /\ sweeper'[w].id = id
    BY <1>2, <2>2 DEF Sweeper
  <2> QED BY <1>1, <2>3, OnlyHandler DEF Handles, WillTell
<1>5. CASE SweepEmbed(w)
  <2>1. sweeper'[w] = [sweeper[w] EXCEPT !.pc = "upsert", !.text = row[id]] /\ row' = row
    BY <1>2, <1>5 DEF SweepEmbed, SetSweeper, DTypeOK
  <2>2. sweeper'[w].pc = "upsert" /\ sweeper'[w].id = id /\ sweeper'[w].text = row[id]
    BY <1>2, <2>1 DEF Sweeper
  <2> QED BY <1>1, <2>1, <2>2, OnlyHandler DEF Handles, WillTell
<1>6. CASE SweepUpsert(w)
  <2>1. sweeper[w].pc = "upsert" /\ sweeper[w].text = row[id]
    BY <1>6 DEF SweepUpsert, GrantInv, HandlerIsCurrent
  <2>2. vector'[id] = row[id] /\ row' = row
    BY <1>2, <1>6, <2>1 DEF SweepUpsert, Upserted, DTypeOK, Listing
  <2>3. sweeper'[w].pc = "sweep"
    BY <1>2, <1>6, HandledType DEF SweepUpsert, SetSweeper, DTypeOK
  <2> QED BY <1>1, <2>2, <2>3, OnlyHandler DEF Handles
<1> QED BY <1>3, <1>4, <1>5, <1>6

LEMMA NextFollows == DTypeOK /\ FollowInv /\ [DNext]_dVars => FollowInv'
<1> SUFFICES ASSUME DTypeOK, FollowInv, [DNext]_dVars, missed' = 0, NEW id \in Ids, id \notin crowded'
             PROVE  GrantInv(id)'
  BY DEF FollowInv
<1>1. missed = 0 /\ id \notin crowded /\ GrantInv(id)
  BY CrowdedGrows, FailureIsKept DEF FollowInv
<1>2. CASE UNCHANGED <<row, vector, sweeper>>
  BY <1>1, <1>2
  DEF GrantInv, OneHandler, HandlerIsCurrent, Follows, WillTell, Handles
<1>3. ASSUME NEW w \in Sweepers, SweepFind(w) PROVE GrantInv(id)'
  <2>1. PICK other \in Ids :
          /\ SetSweeper(w, [sweeper[w] EXCEPT
                !.pc = IF row[other] = NoText THEN "insert" ELSE "update",
                !.found[other] = NoText, !.id = other,
                !.text = sweeper[w].found[other], !.seen = row[other]])
          /\ crowded' = IF \E v \in Sweepers : Handles(v, other) THEN crowded \cup {other}
                        ELSE crowded
    BY <1>3 DEF SweepFind
  <2>2. /\ \A v \in Sweepers \ {w} : sweeper'[v] = sweeper[v]
        /\ ~Handles(w, id)
        /\ row' = row
        /\ vector' = vector
        /\ sweeper[w] \in Sweeper
    BY <1>3, <2>1 DEF SweepFind, SetSweeper, Handles, DTypeOK
  <2>3. sweeper'[w] = [sweeper[w] EXCEPT
          !.pc = IF row[other] = NoText THEN "insert" ELSE "update",
          !.found[other] = NoText, !.id = other,
          !.text = sweeper[w].found[other], !.seen = row[other]]
    BY <2>1 DEF SetSweeper, DTypeOK
  <2>4. /\ sweeper'[w].id = other
        /\ sweeper'[w].seen = row[other]
        /\ sweeper'[w].pc = IF row[other] = NoText THEN "insert" ELSE "update"
    BY <2>2, <2>3 DEF Sweeper
  <2>5. CASE other # id
    BY <1>1, <2>2, <2>4, <2>5, Bystander DEF Handles
  <2>6. CASE other = id
    <3>1. \A v \in Sweepers : ~Handles(v, id)
      BY <2>1, <2>6
    <3>2. row[id] # NoText => vector[id] = row[id]
      BY <1>1, <3>1 DEF GrantInv, Follows, WillTell
    <3> QED BY <2>2, <2>4, <2>6, <3>1, <3>2, OnlyHandler
  <2> QED BY <2>5, <2>6
<1>4. ASSUME NEW w \in Sweepers,
             SweepUpdate(w) \/ SweepInsert(w) \/ SweepEmbed(w) \/ SweepUpsert(w)
      PROVE  GrantInv(id)'
  <2>1. CASE Handles(w, id)
    BY <1>1, <1>4, <2>1, HandlerStep
  <2>2. CASE ~Handles(w, id)
    <3>1. sweeper[w].id # id /\ sweeper[w] \in Sweeper
      BY <1>4, <2>2
      DEF Handles, SweepUpdate, SweepInsert, SweepEmbed, SweepUpsert, DTypeOK
    <3>2. row'[id] = row[id] /\ vector'[id] = vector[id]
      BY <1>4, <3>1
      DEF SweepUpdate, SweepInsert, SweepEmbed, SweepUpsert, Upserted, DTypeOK, Listing
    <3>3. \A v \in Sweepers \ {w} : sweeper'[v] = sweeper[v]
      BY <1>4
      DEF SweepUpdate, SweepInsert, SweepEmbed, SweepUpsert, SetSweeper, DTypeOK
    <3>4. sweeper'[w].id = sweeper[w].id \/ sweeper'[w].pc = "sweep"
      <4>1. \/ sweeper'[w] = [sweeper[w] EXCEPT !.pc = "embed", !.text = NoText, !.seen = NoText]
            \/ sweeper'[w] = [sweeper[w] EXCEPT !.pc = "upsert", !.text = row[sweeper[w].id]]
            \/ sweeper'[w] = Handled(sweeper[w])
        BY <1>4
        DEF SweepUpdate, SweepInsert, SweepEmbed, SweepUpsert, SetSweeper, DTypeOK
      <4> QED BY <3>1, <4>1, HandledType DEF Sweeper
    <3> QED BY <1>1, <2>2, <3>1, <3>2, <3>3, <3>4, Bystander DEF Handles
  <2> QED BY <2>1, <2>2
<1>5. ASSUME NEW w \in Sweepers, SweepStart(w) \/ SweepEnd(w) PROVE GrantInv(id)'
  <2>1. /\ \A v \in Sweepers \ {w} : sweeper'[v] = sweeper[v]
        /\ ~Handles(w, id)
        /\ sweeper'[w].pc \in {"idle", "sweep"}
        /\ row' = row
        /\ vector' = vector
    BY <1>5, IdleSweeperType
    DEF SweepStart, SweepEnd, SetSweeper, Handles, DTypeOK, Sweeper
  <2> QED BY <1>1, <2>1, Bystander DEF Handles
<1>6. ASSUME NEW w \in Sweepers, SweepSkips(w) \/ SweeperLost(w) PROVE FALSE
  BY <1>6, SweepFaultType DEF SweepSkips, SweeperLost, DTypeOK
<1> QED
  BY <1>2, <1>3, <1>4, <1>5, <1>6 DEF DNext, dVars, SweepStep, PageChanges, ScrapeBeat

LEMMA DiscoveryHolds == DInit /\ [][DNext]_dVars => [](DTypeOK /\ FollowInv)
BY InitDiscoveryTypes, NextDiscoveryTypes, InitFollows, NextFollows, PTL

(***************************************************************************)
(* The state of the catalogue and of the sweeps is well formed, for any    *)
(* page and any number of sweeps: scrape_grants.                           *)
(***************************************************************************)
THEOREM DiscoveryTypeCorrect == DSpec => []DTypeOK
BY DiscoveryHolds, PTL DEF DSpec

LEMMA IndexHolds == DInit /\ [][DNext]_dVars => []IndexFollowsRow
<1>1. FollowInv => IndexFollowsRow
  BY DEF FollowInv, GrantInv, Follows, WillTell, IndexFollowsRow
<1> QED BY <1>1, DiscoveryHolds, PTL

(***************************************************************************)
(* While nothing failed, the index holds what the database says of a grant *)
(* or is about to be told, unless two sweeps handled the grant at once.    *)
(***************************************************************************)
THEOREM IndexFollows == DSpec => []IndexFollowsRow
BY IndexHolds, PTL DEF DSpec

-----------------------------------------------------------------------------
(* Theorems about documents, for any number of uploads and workers.          *)

(* A worker has a document exactly while it is busy.                         *)
HasDocument ==
  \A w \in Processors : processor[w].pc = "idle" <=> processor[w].doc = NoDoc

LEMMA DocumentIdleType == IdleProcessor \in Processor
BY DEF IdleProcessor, Processor, Status

LEMMA DocumentIncrementType ==
  ASSUME NEW S, NEW f \in [S -> Nat], NEW x
  PROVE  [f EXCEPT ![x] = @ + 1] \in [S -> Nat]
<1>1. ASSUME NEW y \in S PROVE [f EXCEPT ![x] = @ + 1][y] \in Nat
  OBVIOUS
<1> QED BY <1>1

LEMMA BusyHasDocument ==
  ASSUME UTypeOK, HasDocument, NEW w \in Processors, processor[w].pc # "idle"
  PROVE  processor[w].doc \in Docs
BY DEF UTypeOK, HasDocument, Processor

-----------------------------------------------------------------------------
(* Types.                                                                   *)

LEMMA DocumentInitTypes == UInit => UTypeOK /\ HasDocument
<1> SUFFICES ASSUME UInit PROVE UTypeOK /\ HasDocument
  OBVIOUS
<1>1. processor \in [Processors -> Processor]
  BY DocumentIdleType DEF UInit
<1>2. document \in [Docs -> Status]
  BY DEF UInit, Status
<1>3. HasDocument
  BY DEF UInit, HasDocument, IdleProcessor
<1> QED BY <1>1, <1>2, <1>3 DEF UInit, UTypeOK

LEMMA StatusType ==
  ASSUME UTypeOK, NEW d, NEW loaded, NEW new \in Status, SetStatus(d, loaded, new)
  PROVE  document' \in [Docs -> Status]
BY DEF UTypeOK, SetStatus

LEMMA DocumentNextTypes == UTypeOK /\ HasDocument /\ [UNext]_uVars => UTypeOK'
<1> SUFFICES ASSUME UTypeOK, HasDocument, [UNext]_uVars PROVE UTypeOK'
  OBVIOUS
<1> USE DocumentIdleType DEF UTypeOK, SetProcessor, SetUpload
<1>1. ASSUME NEW d \in Docs, UploadStep(d) \/ UploadFails(d) PROVE UTypeOK'
  BY <1>1 DEF UploadStep, UploadStore, UploadFlush, UploadDispatch, UploadCommit, UploadFails,
              Outage, Status
<1>2. ASSUME NEW w \in Processors, NEW d \in Docs, ProcessStart(w, d) PROVE UTypeOK'
  <2>1. [pc |-> "extract", doc |-> d, loaded |-> document[d]] \in Processor
    BY DEF Processor
  <2>2. inbox[d] - 1 \in Nat
    BY <1>2 DEF ProcessStart
  <2> QED BY <1>2, <2>1, <2>2 DEF ProcessStart
<1>3. ASSUME NEW w \in Processors, ProcessExtract(w) \/ ProcessIndex(w) PROVE UTypeOK'
  <2>1. /\ [processor[w] EXCEPT !.pc = "index"] \in Processor
        /\ [processor[w] EXCEPT !.pc = "profile"] \in Processor
    BY DEF Processor
  <2> QED BY <1>3, <2>1 DEF ProcessExtract, ProcessIndex
<1>4. ASSUME NEW w \in Processors, ProcessProfile(w) PROVE UTypeOK'
  <2>1. /\ [processor[w] EXCEPT !.pc = "mark", !.loaded = "expired"] \in Processor
        /\ [processor[w] EXCEPT !.pc = "mark"] \in Processor
    BY DEF Processor
  <2>2. [applied EXCEPT ![processor[w].doc] = @ + 1] \in [Docs -> Nat]
    BY DocumentIncrementType
  <2> QED BY <1>4, <2>1, <2>2 DEF ProcessProfile
<1>5. ASSUME NEW w \in Processors, ProcessMark(w) \/ ProcessFail(w) PROVE UTypeOK'
  <2>1. document' \in [Docs -> Status]
    BY <1>5, StatusType DEF ProcessMark, ProcessFail, Status
  <2> QED BY <1>5, <2>1 DEF ProcessMark, ProcessFail
<1>6. ASSUME NEW w \in Processors, ProcessRaises(w) PROVE UTypeOK'
  <2>1. document[processor[w].doc] \in Status
    BY <1>6, BusyHasDocument DEF ProcessRaises
  <2>2. [processor[w] EXCEPT !.pc = "fail", !.loaded = document[processor[w].doc]] \in Processor
    BY <2>1 DEF Processor
  <2> QED BY <1>6, <2>2 DEF ProcessRaises
<1>7. ASSUME NEW w \in Processors, ProcessAgain(w) \/ ProcessRedelivered(w) PROVE UTypeOK'
  <2>1. [inbox EXCEPT ![processor[w].doc] = @ + 1] \in [Docs -> Nat]
    BY DocumentIncrementType
  <2> QED BY <1>7, <2>1 DEF ProcessAgain, ProcessRedelivered, Outage
<1>8. ASSUME NEW w \in Processors, ProcessTimesOut(w) PROVE UTypeOK'
  BY <1>8, BusyHasDocument DEF ProcessTimesOut, Outage
<1>9. CASE UNCHANGED uVars
  BY <1>9 DEF uVars
<1> QED BY <1>1, <1>2, <1>3, <1>4, <1>5, <1>6, <1>7, <1>8, <1>9 DEF UNext, ProcessStep

(* A worker is left alone, becomes idle, starts, or goes on with the same   *)
(* document.                                                                *)
GoesOn(w) ==
  /\ processor[w].pc # "idle"
  /\ processor'[w].pc # "idle"
  /\ processor'[w].doc = processor[w].doc
  /\ processor'[w].loaded \in {processor[w].loaded, "expired", document[processor[w].doc]}

Starts(w, d) ==
  /\ ProcessStart(w, d)
  /\ document[d] # "NONE"
  /\ processor'[w] = [pc |-> "extract", doc |-> d, loaded |-> document[d]]

LEMMA WorkerSteps ==
  ASSUME UTypeOK, [UNext]_uVars, NEW w \in Processors
  PROVE  \/ processor'[w] = processor[w]
         \/ processor'[w] = IdleProcessor
         \/ \E d \in Docs : Starts(w, d)
         \/ GoesOn(w)
<1> USE DEF UTypeOK, SetProcessor
<1>1. ASSUME NEW v \in Processors, NEW d \in Docs, ProcessStart(v, d)
      PROVE  processor'[w] = processor[w] \/ Starts(w, d)
  BY <1>1 DEF ProcessStart, Starts
<1>2. ASSUME NEW v \in Processors, ProcessExtract(v) \/ ProcessIndex(v)
      PROVE  processor'[w] = processor[w] \/ GoesOn(w)
  <2>1. CASE v = w
    <3>1. processor[w].pc # "idle"
      BY <1>2, <2>1 DEF ProcessExtract, ProcessIndex
    <3>2. \/ processor'[w] = [processor[w] EXCEPT !.pc = "index"]
          \/ processor'[w] = [processor[w] EXCEPT !.pc = "profile"]
      BY <1>2, <2>1 DEF ProcessExtract, ProcessIndex
    <3> QED BY <3>1, <3>2 DEF GoesOn, Processor
  <2> QED BY <1>2, <2>1 DEF ProcessExtract, ProcessIndex
<1>3. ASSUME NEW v \in Processors, ProcessProfile(v) \/ ProcessRaises(v)
      PROVE  processor'[w] = processor[w] \/ GoesOn(w)
  <2>1. CASE v = w
    <3>1. processor[w].pc # "idle"
      BY <1>3, <2>1 DEF ProcessProfile, ProcessRaises
    <3>2. \/ processor'[w] = [processor[w] EXCEPT !.pc = "mark", !.loaded = "expired"]
          \/ processor'[w] = [processor[w] EXCEPT !.pc = "mark"]
          \/ processor'[w] = [processor[w] EXCEPT !.pc = "fail",
                                                 !.loaded = document[processor[w].doc]]
      BY <1>3, <2>1 DEF ProcessProfile, ProcessRaises
    <3> QED BY <3>1, <3>2 DEF GoesOn, Processor
  <2> QED BY <1>3, <2>1 DEF ProcessProfile, ProcessRaises
<1>4. ASSUME NEW v \in Processors,
             ProcessMark(v) \/ ProcessFail(v) \/ ProcessAgain(v) \/ ProcessTimesOut(v)
      PROVE  processor'[w] = processor[w] \/ processor'[w] = IdleProcessor
  BY <1>4 DEF ProcessMark, ProcessFail, ProcessAgain, ProcessTimesOut
<1>5. CASE processor' = processor
  BY <1>5
<1> QED BY <1>1, <1>2, <1>3, <1>4, <1>5 DEF UNext, uVars, ProcessStep, UploadStep, UploadStore,
            UploadFlush, UploadDispatch, UploadCommit, UploadFails, ProcessRedelivered

LEMMA NextDocument == UTypeOK /\ HasDocument /\ [UNext]_uVars => HasDocument'
<1> SUFFICES ASSUME UTypeOK, HasDocument, [UNext]_uVars, NEW w \in Processors
             PROVE  processor'[w].pc = "idle" <=> processor'[w].doc = NoDoc
  BY DEF HasDocument
<1>1. processor[w].pc = "idle" <=> processor[w].doc = NoDoc
  BY DEF HasDocument
<1>2. CASE processor'[w] = IdleProcessor
  BY <1>2 DEF IdleProcessor
<1>3. ASSUME NEW d \in Docs, Starts(w, d)
      PROVE  processor'[w].pc # "idle" /\ processor'[w].doc # NoDoc
  BY <1>3, DocumentAssumption DEF Starts
<1> QED BY <1>1, <1>2, <1>3, WorkerSteps DEF GoesOn

LEMMA DocumentTypesHold == UInit /\ [][UNext]_uVars => [](UTypeOK /\ HasDocument)
BY DocumentInitTypes, DocumentNextTypes, NextDocument, PTL

(* Uploads, messages, workers and documents stay in their declared domains. *)
THEOREM PipelineTypeCorrect == USpec => []UTypeOK
BY DocumentTypesHold, PTL DEF USpec

-----------------------------------------------------------------------------
(* The row and the file.                                                    *)

(* The row is inserted when the request ends; until the message is sent no  *)
(* worker can have heard of the document, and the file is there before.     *)
RowComesLast == \A d \in Docs : upload[d] # "over" => document[d] = "NONE"

StoredFirst == \A d \in Docs : upload[d] \in {"stored", "flushed", "sent"} => d \in object

WorksOnRow ==
  \A w \in Processors, d \in Docs : processor[w].doc = d => document[d] # "NONE"

Settled == {"PROCESSED", "FAILED"}

LoadedIsOld ==
  \A w \in Processors, d \in Docs :
    processor[w].doc = d /\ processor[w].loaded \in Settled => document[d] \in Settled

DocumentHasFile == \A d \in Docs : document[d] # "NONE" => d \in object

RowInv == RowComesLast /\ StoredFirst /\ WorksOnRow /\ LoadedIsOld /\ DocumentHasFile

LEMMA RowSteps ==
  ASSUME UTypeOK, HasDocument, RowInv, [UNext]_uVars, NEW d \in Docs
  PROVE  \/ document'[d] = document[d]
         \/ UploadCommit(d) /\ document'[d] = "PENDING"
         \/ document[d] # "NONE" /\ document'[d] \in Settled
<1> USE DEF UTypeOK
<1>1. ASSUME NEW e \in Docs, UploadCommit(e)
      PROVE  document'[d] = document[d] \/ (UploadCommit(d) /\ document'[d] = "PENDING")
  BY <1>1 DEF UploadCommit
<1>2. ASSUME NEW w \in Processors, ProcessMark(w) \/ ProcessFail(w)
      PROVE  document'[d] = document[d] \/ (document[d] # "NONE" /\ document'[d] \in Settled)
  <2>1. \/ document' = document
        \/ document' = [document EXCEPT ![processor[w].doc] = "PROCESSED"]
        \/ document' = [document EXCEPT ![processor[w].doc] = "FAILED"]
    BY <1>2 DEF ProcessMark, ProcessFail, SetStatus
  <2>2. processor[w].doc = d => document[d] # "NONE"
    BY DEF RowInv, WorksOnRow
  <2> QED BY <2>1, <2>2 DEF Settled
<1>3. CASE document' = document
  BY <1>3
<1> QED BY <1>1, <1>2, <1>3 DEF UNext, uVars, ProcessStep, UploadStep, UploadStore, UploadFlush,
            UploadDispatch, UploadFails, ProcessStart, ProcessExtract, ProcessIndex, ProcessProfile,
            ProcessRaises, ProcessAgain, ProcessRedelivered, ProcessTimesOut

(* How the request that makes a document goes on.                           *)
LEMMA UploadSteps ==
  ASSUME UTypeOK, [UNext]_uVars, NEW d \in Docs
  PROVE  \/ upload'[d] = upload[d] /\ ~UploadCommit(d)
         \/ UploadStore(d)
         \/ UploadFlush(d)
         \/ UploadDispatch(d)
         \/ UploadCommit(d)
         \/ UploadFails(d)
<1> USE DEF UTypeOK, SetUpload
<1>1. ASSUME NEW e \in Docs, UploadStep(e) \/ UploadFails(e), e # d
      PROVE  upload'[d] = upload[d]
  BY <1>1 DEF UploadStep, UploadStore, UploadFlush, UploadDispatch, UploadCommit, UploadFails
<1>2. CASE upload' = upload
  BY <1>2
<1> QED BY <1>1, <1>2 DEF UNext, uVars, ProcessStep, UploadStep, ProcessStart, ProcessExtract,
            ProcessIndex, ProcessProfile, ProcessMark, ProcessRaises, ProcessFail, ProcessAgain,
            ProcessRedelivered, ProcessTimesOut

LEMMA FilesStay == [UNext]_uVars => object \subseteq object'
BY DEF UNext, uVars, ProcessStep, UploadStep, UploadStore, UploadFlush, UploadDispatch,
       UploadCommit, UploadFails, ProcessStart, ProcessExtract, ProcessIndex, ProcessProfile,
       ProcessMark, ProcessRaises, ProcessFail, ProcessAgain, ProcessRedelivered, ProcessTimesOut

LEMMA NextRow == UTypeOK /\ HasDocument /\ RowInv /\ [UNext]_uVars => RowInv'
<1> SUFFICES ASSUME UTypeOK, HasDocument, RowInv, [UNext]_uVars PROVE RowInv'
  OBVIOUS
<1>1. (RowComesLast /\ StoredFirst /\ DocumentHasFile)'
  <2> SUFFICES ASSUME NEW d \in Docs
               PROVE  /\ upload'[d] # "over" => document'[d] = "NONE"
                      /\ upload'[d] \in {"stored", "flushed", "sent"} => d \in object'
                      /\ document'[d] # "NONE" => d \in object'
    BY DEF RowComesLast, StoredFirst, DocumentHasFile
  <2>1. /\ upload[d] # "over" => document[d] = "NONE"
        /\ upload[d] \in {"stored", "flushed", "sent"} => d \in object
        /\ document[d] # "NONE" => d \in object
    BY DEF RowInv, RowComesLast, StoredFirst, DocumentHasFile
  <2>2. CASE UploadCommit(d)
    BY <2>1, <2>2, FilesStay DEF UploadCommit, SetUpload, UTypeOK
  <2>3. CASE ~UploadCommit(d)
    <3>1. document'[d] = document[d] \/ (document[d] # "NONE" /\ document'[d] \in Settled)
      BY <2>3, RowSteps
    <3>2. CASE upload'[d] = upload[d]
      BY <2>1, <3>1, <3>2, FilesStay
    <3>3. CASE UploadStore(d)
      BY <2>1, <3>3, FilesStay DEF UploadStore, SetUpload, UTypeOK
    <3>4. CASE UploadFlush(d) \/ UploadDispatch(d) \/ UploadFails(d)
      BY <2>1, <3>4, FilesStay DEF UploadFlush, UploadDispatch, UploadFails, SetUpload, UTypeOK
    <3> QED BY <2>3, <3>2, <3>3, <3>4, UploadSteps
  <2> QED BY <2>2, <2>3
<1>2. (WorksOnRow /\ LoadedIsOld)'
  <2> SUFFICES ASSUME NEW w \in Processors, NEW d \in Docs, processor'[w].doc = d
               PROVE  /\ document'[d] # "NONE"
                      /\ processor'[w].loaded \in Settled => document'[d] \in Settled
    BY DEF WorksOnRow, LoadedIsOld
  <2>1. ASSUME document[d] # "NONE"
        PROVE  document'[d] # "NONE" /\ (document[d] \in Settled => document'[d] \in Settled)
    <3>1. ~UploadCommit(d)
      BY <2>1 DEF UploadCommit, RowInv, RowComesLast
    <3> QED BY <2>1, <3>1, RowSteps DEF Settled
  <2>2. /\ processor[w].doc = d => document[d] # "NONE"
        /\ processor[w].doc = d /\ processor[w].loaded \in Settled => document[d] \in Settled
    BY DEF RowInv, WorksOnRow, LoadedIsOld
  <2>3. CASE processor'[w] = processor[w]
    BY <2>1, <2>2, <2>3
  <2>4. CASE processor'[w] = IdleProcessor
    BY <2>4, DocumentAssumption DEF IdleProcessor
  <2>5. ASSUME NEW e \in Docs, Starts(w, e)
        PROVE  document[d] # "NONE" /\ processor'[w].loaded = document[d]
    BY <2>5 DEF Starts
  <2>6. CASE GoesOn(w)
    BY <2>1, <2>2, <2>6 DEF GoesOn, Settled
  <2> QED BY <2>1, <2>3, <2>4, <2>5, <2>6, WorkerSteps
<1> QED BY <1>1, <1>2 DEF RowInv

LEMMA RowHolds == UInit /\ [][UNext]_uVars => [](UTypeOK /\ HasDocument /\ RowInv)
<1>1. UInit => RowInv
  BY DocumentAssumption DEF UInit, RowInv, RowComesLast, StoredFirst, WorksOnRow, LoadedIsOld,
     DocumentHasFile, IdleProcessor
<1> QED BY <1>1, DocumentTypesHold, NextRow, PTL

-----------------------------------------------------------------------------
(* Documents are in hand.                                                   *)

SentInHand == \A d \in Docs : upload[d] = "sent" => d \in unseen \/ inbox[d] > 0

Awaited == \A d \in Docs : document[d] = "PENDING" => d \in unseen \/ Ongoing(d)

LEMMA UnseenStays == [UNext]_uVars => unseen \subseteq unseen'
BY DEF UNext, uVars, ProcessStep, UploadStep, UploadStore, UploadFlush, UploadDispatch,
       UploadCommit, UploadFails, ProcessStart, ProcessExtract, ProcessIndex, ProcessProfile,
       ProcessMark, ProcessRaises, ProcessFail, ProcessAgain, ProcessRedelivered, ProcessTimesOut

(* A message leaves the queue for a worker, or unseen.                      *)
LEMMA MessageSteps ==
  ASSUME UTypeOK, HasDocument, [UNext]_uVars, NEW d \in Docs, inbox[d] > 0
  PROVE  \/ inbox'[d] > 0
         \/ d \in unseen'
         \/ document[d] # "NONE" /\ \E w \in Processors : processor'[w].doc = d
<1> USE DEF UTypeOK
<1>1. ASSUME NEW e \in Docs, UploadDispatch(e) PROVE inbox'[d] > 0
  BY <1>1 DEF UploadDispatch
<1>2. ASSUME NEW w \in Processors, NEW e \in Docs, ProcessStart(w, e)
      PROVE  \/ inbox'[d] > 0
             \/ d \in unseen'
             \/ document[d] # "NONE" /\ processor'[w].doc = d
  BY <1>2 DEF ProcessStart, SetProcessor
<1>3. ASSUME NEW w \in Processors, ProcessAgain(w) \/ ProcessRedelivered(w) PROVE inbox'[d] > 0
  <2>1. processor[w].doc \in Docs
    BY <1>3, BusyHasDocument DEF ProcessAgain, ProcessRedelivered
  <2> QED BY <1>3, <2>1 DEF ProcessAgain, ProcessRedelivered
<1>4. CASE inbox' = inbox
  BY <1>4
<1> QED BY <1>1, <1>2, <1>3, <1>4 DEF UNext, uVars, ProcessStep, UploadStep, UploadStore,
            UploadFlush, UploadCommit, UploadFails, ProcessExtract, ProcessIndex, ProcessProfile,
            ProcessMark, ProcessRaises, ProcessFail, ProcessTimesOut

(* A worker keeps its document, gives it back, or settles it.               *)
LEMMA DocumentHolderSteps ==
  ASSUME UTypeOK, HasDocument, RowInv, [UNext]_uVars,
         NEW w \in Processors, NEW d \in Docs, processor[w].doc = d
  PROVE  \/ processor'[w].doc = d
         \/ inbox'[d] > 0
         \/ d \in unseen'
         \/ document'[d] \in Settled
<1> USE DEF UTypeOK
<1>1. CASE ProcessMark(w) \/ ProcessFail(w)
  <2>1. processor[w].loaded \in Settled => document[d] \in Settled
    BY DEF RowInv, LoadedIsOld
  <2> QED BY <1>1, <2>1 DEF ProcessMark, ProcessFail, SetStatus, Settled
<1>2. CASE ProcessAgain(w)
  BY <1>2 DEF ProcessAgain
<1>3. CASE ProcessTimesOut(w)
  BY <1>3 DEF ProcessTimesOut
<1>4. ASSUME NEW v \in Processors \ {w},
             ProcessMark(v) \/ ProcessFail(v) \/ ProcessAgain(v) \/ ProcessTimesOut(v)
      PROVE  processor'[w].doc = d
  BY <1>4 DEF ProcessMark, ProcessFail, ProcessAgain, ProcessTimesOut, SetProcessor
<1>5. ASSUME NEW v \in Processors, NEW e \in Docs, ProcessStart(v, e)
      PROVE  processor'[w].doc = d
  BY <1>5, DocumentAssumption DEF ProcessStart, SetProcessor, HasDocument
<1>6. ASSUME NEW v \in Processors,
             ProcessExtract(v) \/ ProcessIndex(v) \/ ProcessProfile(v) \/ ProcessRaises(v)
      PROVE  processor'[w].doc = d
  <2>1. CASE v = w
    <3>1. \/ processor'[w] = [processor[w] EXCEPT !.pc = "index"]
          \/ processor'[w] = [processor[w] EXCEPT !.pc = "profile"]
          \/ processor'[w] = [processor[w] EXCEPT !.pc = "mark", !.loaded = "expired"]
          \/ processor'[w] = [processor[w] EXCEPT !.pc = "mark"]
          \/ processor'[w] = [processor[w] EXCEPT !.pc = "fail",
                                                 !.loaded = document[processor[w].doc]]
      BY <1>6, <2>1 DEF ProcessExtract, ProcessIndex, ProcessProfile, ProcessRaises, SetProcessor
    <3> QED BY <3>1 DEF Processor
  <2>2. CASE v # w
    BY <1>6, <2>2 DEF ProcessExtract, ProcessIndex, ProcessProfile, ProcessRaises, SetProcessor
  <2> QED BY <2>1, <2>2
<1>7. CASE processor' = processor
  BY <1>7
<1> QED BY <1>1, <1>2, <1>3, <1>4, <1>5, <1>6, <1>7 DEF UNext, uVars, ProcessStep, UploadStep,
            UploadStore, UploadFlush, UploadDispatch, UploadCommit, UploadFails, ProcessRedelivered

LEMMA NextHand ==
  UTypeOK /\ HasDocument /\ RowInv /\ SentInHand /\ Awaited /\ [UNext]_uVars
    => (SentInHand /\ Awaited)'
<1> SUFFICES ASSUME UTypeOK, HasDocument, RowInv, SentInHand, Awaited, [UNext]_uVars,
                    NEW d \in Docs
             PROVE  /\ upload'[d] = "sent" => d \in unseen' \/ inbox'[d] > 0
                    /\ document'[d] = "PENDING" => d \in unseen' \/ Ongoing(d)'
  BY DEF SentInHand, Awaited
<1> USE DEF UTypeOK
<1>1. ASSUME upload'[d] = "sent" PROVE d \in unseen' \/ inbox'[d] > 0
  <2>1. CASE upload[d] = "sent"
    <3>1. d \in unseen \/ inbox[d] > 0
      BY <2>1 DEF SentInHand
    <3>2. document[d] = "NONE"
      BY <2>1 DEF RowInv, RowComesLast
    <3> QED BY <3>1, <3>2, UnseenStays, MessageSteps
  <2>2. CASE upload[d] # "sent"
    <3>1. UploadDispatch(d)
      BY <1>1, <2>2, UploadSteps DEF UploadStore, UploadFlush, UploadCommit, UploadFails, SetUpload
    <3> QED BY <3>1 DEF UploadDispatch
  <2> QED BY <2>1, <2>2
<1>2. ASSUME document'[d] = "PENDING" PROVE d \in unseen' \/ Ongoing(d)'
  <2>1. CASE UploadCommit(d)
    BY <2>1 DEF UploadCommit, SentInHand, Ongoing
  <2>2. CASE ~UploadCommit(d)
    <3>1. document[d] = "PENDING" /\ document'[d] \notin Settled
      BY <1>2, <2>2, RowSteps DEF Settled
    <3>2. d \in unseen \/ Ongoing(d)
      BY <3>1 DEF Awaited
    <3>3. CASE d \in unseen
      BY <3>3, UnseenStays
    <3>4. CASE inbox[d] > 0
      BY <3>4, MessageSteps DEF Ongoing
    <3>5. ASSUME NEW w \in Processors, processor[w].doc = d
          PROVE  d \in unseen' \/ Ongoing(d)'
      BY <3>1, <3>5, DocumentHolderSteps DEF Ongoing
    <3> QED BY <3>2, <3>3, <3>4, <3>5 DEF Ongoing
  <2> QED BY <2>1, <2>2
<1> QED BY <1>1, <1>2

LEMMA HandHolds == UInit /\ [][UNext]_uVars => []PendingInHand
<1>1. UInit => SentInHand /\ Awaited
  BY DEF UInit, SentInHand, Awaited
<1>2. RowInv /\ Awaited => PendingInHand
  BY DEF RowInv, DocumentHasFile, Awaited, PendingInHand
<1> QED BY <1>1, <1>2, RowHolds, NextHand, PTL

(* A document that is PENDING has its file, and a message or a worker, or   *)
(* its message was lost in one of the two ways the property names.          *)
THEOREM PendingIsInHand == USpec => []PendingInHand
BY HandHolds, PTL DEF USpec

-----------------------------------------------------------------------------
(* The profile.  A message that is not sent yet, one in the queue and a     *)
(* worker that has not reached the profile may each overwrite it once.      *)

Early == {"extract", "index", "profile"}

Reading(d) == {w \in Processors : processor[w].doc = d /\ processor[w].pc \in Early}

Unsent(d) == IF upload[d] \in {"new", "stored", "flushed"} THEN 1 ELSE 0

DeliveryInv ==
  \A d \in Docs :
    applied[d] + Unsent(d) + inbox[d] + Cardinality(Reading(d)) <= 1 + outages

LEMMA ReadingCounts ==
  ASSUME NEW S, NEW T, S \subseteq Processors, T \subseteq Processors
  PROVE  /\ Cardinality(S) \in Nat
         /\ T \subseteq S => Cardinality(T) <= Cardinality(S)
         /\ \A w \in S : T \subseteq S \ {w} => Cardinality(T) + 1 <= Cardinality(S)
         /\ \A w : T \subseteq S \cup {w} => Cardinality(T) <= Cardinality(S) + 1
<1>1. IsFiniteSet(S) /\ IsFiniteSet(T)
  BY DocumentAssumption, FS_Subset
<1>2. Cardinality(S) \in Nat /\ Cardinality(T) \in Nat
  BY <1>1, FS_CardinalityType
<1>3. T \subseteq S => Cardinality(T) <= Cardinality(S)
  BY <1>1, FS_Subset
<1>4. ASSUME NEW w \in S, T \subseteq S \ {w} PROVE Cardinality(T) + 1 <= Cardinality(S)
  <2>1. IsFiniteSet(S \ {w}) /\ Cardinality(S \ {w}) = Cardinality(S) - 1
    BY <1>1, FS_RemoveElement
  <2>2. Cardinality(T) <= Cardinality(S \ {w})
    BY <1>4, <2>1, FS_Subset
  <2> QED BY <1>2, <2>1, <2>2
<1>5. ASSUME NEW w, T \subseteq S \cup {w} PROVE Cardinality(T) <= Cardinality(S) + 1
  <2>1. /\ IsFiniteSet(S \cup {w})
        /\ Cardinality(S \cup {w}) = Cardinality(S) \/ Cardinality(S \cup {w}) = Cardinality(S) + 1
    BY <1>1, FS_AddElement
  <2>2. Cardinality(T) <= Cardinality(S \cup {w})
    BY <1>5, <2>1, FS_Subset
  <2> QED BY <1>2, <2>1, <2>2
<1> QED BY <1>2, <1>3, <1>4, <1>5

(* A worker that did not start on the document does not begin to read it.   *)
LEMMA ReadersLeave ==
  ASSUME UTypeOK, [UNext]_uVars, NEW d \in Docs, \A w \in Processors : ~ProcessStart(w, d)
  PROVE  Reading(d)' \subseteq Reading(d)
<1> SUFFICES ASSUME NEW w \in Processors, processor'[w].doc = d, processor'[w].pc \in Early
             PROVE  processor[w].doc = d /\ processor[w].pc \in Early
  BY DEF Reading
<1> USE DEF UTypeOK, SetProcessor
<1>1. ASSUME NEW v \in Processors, ProcessExtract(v) \/ ProcessIndex(v) \/ ProcessRaises(v)
      PROVE  processor[w].doc = d /\ processor[w].pc \in Early
  <2>1. CASE v = w
    <3>1. /\ \/ processor[w].pc = "extract" /\ processor'[w] = [processor[w] EXCEPT !.pc = "index"]
             \/ processor[w].pc = "index" /\ processor'[w] = [processor[w] EXCEPT !.pc = "profile"]
             \/ processor'[w] = [processor[w] EXCEPT !.pc = "fail",
                                                    !.loaded = document[processor[w].doc]]
      BY <1>1, <2>1 DEF ProcessExtract, ProcessIndex, ProcessRaises
    <3> QED BY <3>1 DEF Processor, Early
  <2>2. CASE v # w
    BY <1>1, <2>2 DEF ProcessExtract, ProcessIndex, ProcessRaises
  <2> QED BY <2>1, <2>2
<1>2. ASSUME NEW v \in Processors, ProcessProfile(v)
      PROVE  processor[w].doc = d /\ processor[w].pc \in Early
  <2>1. CASE v = w
    <3>1. processor[w].pc = "profile" /\ processor'[w].doc = processor[w].doc
      <4>1. \/ processor'[w] = [processor[w] EXCEPT !.pc = "mark", !.loaded = "expired"]
            \/ processor'[w] = [processor[w] EXCEPT !.pc = "mark"]
        BY <1>2, <2>1 DEF ProcessProfile
      <4> QED BY <1>2, <2>1, <4>1 DEF ProcessProfile, Processor
    <3> QED BY <3>1 DEF Early
  <2>2. CASE v # w
    BY <1>2, <2>2 DEF ProcessProfile
  <2> QED BY <2>1, <2>2
<1>3. ASSUME NEW v \in Processors,
             ProcessMark(v) \/ ProcessFail(v) \/ ProcessAgain(v) \/ ProcessTimesOut(v)
      PROVE  processor[w].doc = d /\ processor[w].pc \in Early
  <2>1. processor'[v] = IdleProcessor /\ (v # w => processor'[w] = processor[w])
    BY <1>3 DEF ProcessMark, ProcessFail, ProcessAgain, ProcessTimesOut
  <2> QED BY <2>1 DEF IdleProcessor, Early
<1>4. ASSUME NEW v \in Processors, NEW e \in Docs, ProcessStart(v, e)
      PROVE  processor[w].doc = d /\ processor[w].pc \in Early
  <2>1. e # d
    BY <1>4
  <2>2. \/ processor'[w] = processor[w]
        \/ processor'[w] = [pc |-> "extract", doc |-> e, loaded |-> document[e]]
    BY <1>4 DEF ProcessStart
  <2> QED BY <2>1, <2>2
<1>5. CASE processor' = processor
  BY <1>5
<1> QED BY <1>1, <1>2, <1>3, <1>4, <1>5 DEF UNext, uVars, ProcessStep, UploadStep, UploadStore,
            UploadFlush, UploadDispatch, UploadCommit, UploadFails, ProcessRedelivered

LEMMA DeliveryTypes ==
  ASSUME UTypeOK, NEW d \in Docs
  PROVE  /\ applied[d] \in Nat /\ inbox[d] \in Nat /\ outages \in Nat
         /\ Unsent(d) \in {0, 1}
         /\ Cardinality(Reading(d)) \in Nat
<1>1. Reading(d) \subseteq Processors
  BY DEF Reading
<1>2. Cardinality(Reading(d)) \in Nat
  BY <1>1, ReadingCounts
<1> QED BY <1>2 DEF UTypeOK, Unsent

(* What a step passes from the upload to the queue, from the queue to a     *)
(* worker, and from a worker to the profile.                                *)
LEMMA MessagesPass ==
  ASSUME UTypeOK, HasDocument, [UNext]_uVars, NEW d \in Docs
  PROVE  \/ /\ applied'[d] = applied[d] /\ outages' >= outages
            /\ Unsent(d)' + inbox'[d] + outages <= Unsent(d) + inbox[d] + outages'
            /\ Reading(d)' \subseteq Reading(d)
         \/ /\ applied'[d] = applied[d] /\ outages' = outages /\ Unsent(d)' = Unsent(d)
            /\ inbox[d] > 0 /\ inbox'[d] = inbox[d] - 1
            /\ \E w \in Processors : Reading(d)' \subseteq Reading(d) \cup {w}
         \/ /\ applied'[d] = applied[d] + 1 /\ outages' = outages
            /\ Unsent(d)' = Unsent(d) /\ inbox'[d] = inbox[d]
            /\ \E w \in Reading(d) : Reading(d)' \subseteq Reading(d) \ {w}
<1> DEFINE Kept == /\ applied'[d] = applied[d] /\ outages' >= outages
                   /\ Unsent(d)' + inbox'[d] + outages <= Unsent(d) + inbox[d] + outages'
                   /\ Reading(d)' \subseteq Reading(d)
<1>0. /\ applied[d] \in Nat /\ inbox[d] \in Nat /\ outages \in Nat
      /\ Unsent(d) \in {0, 1} /\ Unsent(d)' \in {0, 1}
      /\ inbox \in [Docs -> Nat] /\ applied \in [Docs -> Nat]
      /\ upload \in [Docs -> {"new", "stored", "flushed", "sent", "over"}]
  BY DeliveryTypes DEF UTypeOK, Unsent
<1>a. UNCHANGED processor => Reading(d)' \subseteq Reading(d)
  BY DEF Reading
<1>1. ASSUME NEW e \in Docs, UploadDispatch(e) PROVE Kept
  <2>1. UNCHANGED <<applied, outages, processor>>
    BY <1>1 DEF UploadDispatch
  <2>2. CASE e = d
    <3>1. Unsent(d) = 1 /\ Unsent(d)' = 0 /\ inbox'[d] = inbox[d] + 1
      BY <1>0, <1>1, <2>2 DEF UploadDispatch, SetUpload, Unsent
    <3> QED BY <1>0, <1>a, <2>1, <3>1
  <2>3. CASE e # d
    <3>1. Unsent(d)' = Unsent(d) /\ inbox'[d] = inbox[d]
      BY <1>0, <1>1, <2>3 DEF UploadDispatch, SetUpload, Unsent
    <3> QED BY <1>0, <1>a, <2>1, <3>1
  <2> QED BY <2>2, <2>3
<1>2. ASSUME NEW e \in Docs,
             UploadStore(e) \/ UploadFlush(e) \/ UploadCommit(e) \/ UploadFails(e)
      PROVE  Kept
  <2>1. UNCHANGED <<applied, inbox, processor>> /\ outages' \in {outages, outages + 1}
    BY <1>2 DEF UploadStore, UploadFlush, UploadCommit, UploadFails, Outage
  <2>2. Unsent(d)' <= Unsent(d)
    <3>1. upload'[d] \in {"new", "stored", "flushed"} => upload[d] \in {"new", "stored", "flushed"}
      BY <1>0, <1>2 DEF UploadStore, UploadFlush, UploadCommit, UploadFails, SetUpload
    <3> QED BY <3>1 DEF Unsent
  <2> QED BY <1>0, <1>a, <2>1, <2>2
<1>3. ASSUME NEW w \in Processors, NEW e \in Docs, ProcessStart(w, e)
      PROVE  \/ Kept
             \/ /\ applied'[d] = applied[d] /\ outages' = outages /\ Unsent(d)' = Unsent(d)
                /\ inbox[d] > 0 /\ inbox'[d] = inbox[d] - 1
                /\ \E v \in Processors : Reading(d)' \subseteq Reading(d) \cup {v}
  <2>1. UNCHANGED <<applied, outages, upload>> /\ Unsent(d)' = Unsent(d)
    BY <1>3 DEF ProcessStart, Unsent
  <2>2. \A v \in Processors \ {w} : processor'[v] = processor[v]
    BY <1>3 DEF ProcessStart, SetProcessor, UTypeOK
  <2>3. Reading(d)' \subseteq Reading(d) \cup {w}
    BY <2>2 DEF Reading
  <2>4. CASE e = d
    <3>1. inbox[d] > 0 /\ inbox'[d] = inbox[d] - 1
      BY <1>0, <1>3, <2>4 DEF ProcessStart
    <3> QED BY <2>1, <2>3, <3>1
  <2>5. CASE e # d
    <3>1. inbox'[d] = inbox[d]
      BY <1>0, <1>3, <2>5 DEF ProcessStart
    <3>2. Reading(d)' \subseteq Reading(d)
      <4>1. processor'[w] = processor[w] \/ processor'[w].doc = e
        BY <1>3 DEF ProcessStart, SetProcessor, UTypeOK
      <4> QED BY <2>2, <2>5, <4>1 DEF Reading
    <3> QED BY <1>0, <2>1, <3>1, <3>2
  <2> QED BY <2>4, <2>5
<1>4. ASSUME NEW w \in Processors, ProcessExtract(w) \/ ProcessIndex(w) \/ ProcessRaises(w)
                                   \/ ProcessMark(w) \/ ProcessFail(w)
      PROVE  Kept
  <2>1. UNCHANGED <<applied, inbox, outages, upload>>
    BY <1>4 DEF ProcessExtract, ProcessIndex, ProcessRaises, ProcessMark, ProcessFail
  <2>2. Unsent(d)' = Unsent(d)
    BY <2>1 DEF Unsent
  <2>3. Reading(d)' \subseteq Reading(d)
    <3>1. \A v \in Processors : ~ProcessStart(v, d)
      BY <1>0, <2>1 DEF ProcessStart
    <3> QED BY <3>1, ReadersLeave
  <2> QED BY <1>0, <2>1, <2>2, <2>3
<1>5. ASSUME NEW w \in Processors, ProcessProfile(w)
      PROVE  \/ Kept
             \/ /\ applied'[d] = applied[d] + 1 /\ outages' = outages
                /\ Unsent(d)' = Unsent(d) /\ inbox'[d] = inbox[d]
                /\ \E v \in Reading(d) : Reading(d)' \subseteq Reading(d) \ {v}
  <2>1. UNCHANGED <<inbox, outages, upload>> /\ Unsent(d)' = Unsent(d)
    BY <1>5 DEF ProcessProfile, Unsent
  <2>2. Reading(d)' \subseteq Reading(d)
    <3>1. \A v \in Processors : ~ProcessStart(v, d)
      BY <1>0, <2>1 DEF ProcessStart
    <3> QED BY <3>1, ReadersLeave
  <2>3. CASE applied'[d] = applied[d]
    BY <1>0, <2>1, <2>2, <2>3
  <2>4. CASE applied'[d] # applied[d]
    <3>1. /\ processor[w].doc = d /\ applied'[d] = applied[d] + 1
          /\ processor[w].pc = "profile" /\ processor'[w].pc = "mark"
      <4>1. /\ processor[w].pc = "profile"
            /\ applied' = [applied EXCEPT ![processor[w].doc] = @ + 1]
            /\ processor'[w] = [processor[w] EXCEPT !.pc = "mark", !.loaded = "expired"]
        BY <1>5, <2>4 DEF ProcessProfile, SetProcessor, UTypeOK
      <4>2. processor[w].doc = d /\ applied'[d] = applied[d] + 1
        BY <1>0, <2>4, <4>1
      <4> QED BY <4>1, <4>2 DEF UTypeOK, Processor
    <3>2. w \in Reading(d) /\ w \notin Reading(d)'
      BY <3>1 DEF Reading, Early
    <3> QED BY <2>1, <2>2, <3>1, <3>2
  <2> QED BY <2>3, <2>4
<1>6. ASSUME NEW w \in Processors, ProcessAgain(w) \/ ProcessRedelivered(w) \/ ProcessTimesOut(w)
      PROVE  Kept
  <2>1. UNCHANGED <<applied, upload>> /\ outages' = outages + 1 /\ Unsent(d)' = Unsent(d)
    BY <1>6 DEF ProcessAgain, ProcessRedelivered, ProcessTimesOut, Outage, Unsent
  <2>2. inbox'[d] \in {inbox[d], inbox[d] + 1}
    BY <1>0, <1>6 DEF ProcessAgain, ProcessRedelivered, ProcessTimesOut
  <2>3. Reading(d)' \subseteq Reading(d)
    <3>1. \/ UNCHANGED processor
          \/ /\ processor'[w] = IdleProcessor
             /\ \A v \in Processors \ {w} : processor'[v] = processor[v]
      BY <1>6 DEF ProcessAgain, ProcessRedelivered, ProcessTimesOut, SetProcessor, UTypeOK
    <3> QED BY <1>a, <3>1 DEF Reading, IdleProcessor, Early
  <2> QED BY <1>0, <2>1, <2>2, <2>3
<1>7. CASE UNCHANGED uVars
  BY <1>0, <1>7 DEF uVars, Unsent, Reading
<1> QED BY <1>1, <1>2, <1>3, <1>4, <1>5, <1>6, <1>7 DEF UNext, UploadStep, ProcessStep

LEMMA NextDelivery ==
  UTypeOK /\ HasDocument /\ DeliveryInv /\ [UNext]_uVars /\ UTypeOK' => DeliveryInv'
<1> SUFFICES ASSUME UTypeOK, HasDocument, DeliveryInv, [UNext]_uVars, UTypeOK', NEW d \in Docs
             PROVE  applied'[d] + Unsent(d)' + inbox'[d] + Cardinality(Reading(d)')
                      <= 1 + outages'
  BY DEF DeliveryInv
<1>0. /\ applied[d] \in Nat /\ inbox[d] \in Nat /\ outages \in Nat
      /\ Unsent(d) \in {0, 1} /\ Cardinality(Reading(d)) \in Nat
      /\ applied[d] + Unsent(d) + inbox[d] + Cardinality(Reading(d)) <= 1 + outages
  BY DeliveryTypes DEF DeliveryInv
<1>s. Reading(d) \subseteq Processors /\ Reading(d)' \subseteq Processors
  BY DEF Reading
<1>1. /\ applied'[d] \in Nat /\ inbox'[d] \in Nat /\ outages' \in Nat
      /\ Unsent(d)' \in {0, 1} /\ Cardinality(Reading(d)') \in Nat
  <2>1. Cardinality(Reading(d)') \in Nat
    BY <1>s, ReadingCounts
  <2> QED BY <2>1 DEF UTypeOK, Unsent
<1>c. /\ Reading(d)' \subseteq Reading(d) => Cardinality(Reading(d)') <= Cardinality(Reading(d))
      /\ \A w \in Reading(d) : Reading(d)' \subseteq Reading(d) \ {w}
                             => Cardinality(Reading(d)') + 1 <= Cardinality(Reading(d))
      /\ \A w : Reading(d)' \subseteq Reading(d) \cup {w}
               => Cardinality(Reading(d)') <= Cardinality(Reading(d)) + 1
  BY <1>s, ReadingCounts
<1>2. CASE /\ applied'[d] = applied[d] /\ outages' >= outages
           /\ Unsent(d)' + inbox'[d] + outages <= Unsent(d) + inbox[d] + outages'
           /\ Reading(d)' \subseteq Reading(d)
  <2>1. Cardinality(Reading(d)') <= Cardinality(Reading(d))
    BY <1>c, <1>2
  <2> QED BY <1>0, <1>1, <1>2, <2>1
<1>3. ASSUME applied'[d] = applied[d], outages' = outages, Unsent(d)' = Unsent(d),
             inbox[d] > 0, inbox'[d] = inbox[d] - 1,
             NEW w \in Processors, Reading(d)' \subseteq Reading(d) \cup {w}
      PROVE  applied'[d] + Unsent(d)' + inbox'[d] + Cardinality(Reading(d)') <= 1 + outages'
  <2>1. Cardinality(Reading(d)') <= Cardinality(Reading(d)) + 1
    BY <1>c, <1>3
  <2> QED BY <1>0, <1>1, <1>3, <2>1
<1>4. ASSUME applied'[d] = applied[d] + 1, outages' = outages, Unsent(d)' = Unsent(d),
             inbox'[d] = inbox[d],
             NEW w \in Reading(d), Reading(d)' \subseteq Reading(d) \ {w}
      PROVE  applied'[d] + Unsent(d)' + inbox'[d] + Cardinality(Reading(d)') <= 1 + outages'
  <2>1. Cardinality(Reading(d)') + 1 <= Cardinality(Reading(d))
    BY <1>c, <1>4
  <2> QED BY <1>0, <1>1, <1>4, <2>1
<1> QED BY <1>2, <1>3, <1>4, MessagesPass

LEMMA DeliveryHolds == UInit /\ [][UNext]_uVars => []ProfileOncePerDelivery
<1>1. UInit => DeliveryInv
  <2> SUFFICES ASSUME UInit, NEW d \in Docs
               PROVE  applied[d] + Unsent(d) + inbox[d] + Cardinality(Reading(d)) <= 1 + outages
    BY DEF DeliveryInv
  <2>1. applied[d] = 0 /\ Unsent(d) = 1 /\ inbox[d] = 0 /\ outages = 0
    BY DEF UInit, Unsent
  <2>2. Reading(d) = {}
    BY DEF UInit, Reading, IdleProcessor, Early
  <2>3. Cardinality(Reading(d)) = 0
    BY <2>2, FS_EmptySet
  <2> QED BY <2>1, <2>3
<1>2. UTypeOK /\ DeliveryInv => ProfileOncePerDelivery
  <2> SUFFICES ASSUME UTypeOK, DeliveryInv, NEW d \in Docs PROVE applied[d] <= 1 + outages
    BY DEF ProfileOncePerDelivery
  <2>1. applied[d] + Unsent(d) + inbox[d] + Cardinality(Reading(d)) <= 1 + outages
    BY DEF DeliveryInv
  <2> QED BY <2>1, DeliveryTypes
<1> QED BY <1>1, <1>2, DocumentTypesHold, NextDelivery, PTL

(* However workers, crashes and redeliveries interleave, a document         *)
(* overwrites the profile once, and at most once more for every outage.     *)
THEOREM ProfileWrittenPerDelivery == USpec => []ProfileOncePerDelivery
BY DeliveryHolds, PTL DEF USpec

=============================================================================
