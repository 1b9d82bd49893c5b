---------------------------- MODULE PlatformProofs ----------------------------
(***************************************************************************)
(* Theorems about the parts side by side: the composition implements every *)
(* part, so what is proved of a part alone holds in it, whatever the       *)
(* constants.                                                              *)
(***************************************************************************)
EXTENDS MCPlatform, RequestHandlersProofs, IngestionProofs, SectionTextProofs,
        SchemaMigrationsProofs, TLAPS

(* What a part contributes, fairness left aside.                            *)
LoginPart == LInit /\ [][LNext]_lVars
AccountsPart == AInit /\ [][ANext]_aVars
AdmissionPart == PInit /\ [][PNext]_pVars
TrackingPart == TInit /\ [][TNext]_tVars
DiscoveryPart == DInit /\ [][DNext]_dVars
DocumentPart == UInit /\ [][UNext]_uVars
SnapshotPart == SInit /\ [][SNext]_sVars
MigrationPart == MInit /\ [][MNext]_mVars
WorkspacePart == WInit /\ [][WNext]_wVars

(* A step of the platform is a step of each part, or leaves it alone.       *)
LEMMA StepsOfParts ==
  ASSUME [Next]_vars
  PROVE  /\ [LNext]_lVars /\ [ANext]_aVars /\ [PNext]_pVars
         /\ [TNext]_tVars /\ [DNext]_dVars /\ [UNext]_uVars
         /\ [SNext]_sVars /\ [MNext]_mVars /\ [WNext]_wVars
<1>1. [TrackingNext]_tVars => [TNext]_tVars
  BY Zenon DEF TNext
<1>2. [FeedbackNext]_tVars => [TNext]_tVars
  BY Zenon DEF TNext
<1>3. CASE Next
  BY <1>1, <1>2, <1>3, Zenon DEF Next
<1>4. CASE UNCHANGED vars
  <2>1. UNCHANGED <<lVars, aVars, pVars, tVars, dVars, uVars, sVars, mVars, wVars>>
    BY <1>4, Zenon DEF vars
  <2> QED BY <2>1, Zenon
<1> QED BY <1>3, <1>4, Zenon

(* The platform implements each of its parts: initial states map to initial *)
(* states, and a step to a step of the part or to a stutter.                *)
THEOREM PlatformImplementsParts ==
  Spec => /\ LoginPart /\ AccountsPart /\ AdmissionPart
          /\ TrackingPart /\ DiscoveryPart /\ DocumentPart
          /\ SnapshotPart /\ MigrationPart /\ WorkspacePart
<1>1. Init => LInit /\ AInit /\ PInit /\ TInit /\ DInit /\ UInit /\ SInit /\ MInit /\ WInit
  BY Zenon DEF Init
<1> QED BY <1>1, StepsOfParts, PTL DEF Spec, LoginPart, AccountsPart, AdmissionPart, TrackingPart,
        DiscoveryPart, DocumentPart, SnapshotPart, MigrationPart, WorkspacePart

-----------------------------------------------------------------------------

(* Every part of the platform is well typed.                                *)
THEOREM PlatformTypeCorrect == Spec => []PlatformTypeOK
<1>1. LoginPart => []LTypeOK
  BY LoginTypeCorrect, PTL DEF LoginPart, LSpec
<1>2. AccountsPart => []ATypeOK
  BY AccountsTypeCorrect, PTL DEF AccountsPart, ASpec
<1>3. AdmissionPart => []PTypeOK
  BY AdmissionTypeCorrect, PTL DEF AdmissionPart, PSpec
<1>4. TrackingPart => []TTypeOK
  BY TrackingTypeCorrect, PTL DEF TrackingPart, TSpec
<1>5. DiscoveryPart => []DTypeOK
  BY DiscoveryHolds, PTL DEF DiscoveryPart
<1>6. DocumentPart => []UTypeOK
  BY DocumentTypesHold, PTL DEF DocumentPart
<1>7. SnapshotPart => []STypeOK
  BY SnapshotTypeCorrect, PTL DEF SnapshotPart, SSpec
<1>8. MigrationPart => []MTypeOK
  <2>1. MInv => MTypeOK
    BY Zenon DEF MInv
  <2> QED BY <2>1, MigrationsHold, PTL DEF MigrationPart
<1>9. WorkspacePart => []WTypeOK
  <2>1. WTypeInv => WTypeOK
    BY Zenon DEF WTypeInv
  <2> QED BY <2>1, WorkspaceHolds, PTL DEF WorkspacePart
<1>10. PlatformTypeOK <=> /\ LTypeOK /\ ATypeOK /\ PTypeOK
                          /\ TTypeOK /\ DTypeOK /\ UTypeOK
                          /\ STypeOK /\ MTypeOK /\ WTypeOK
  BY Zenon DEF PlatformTypeOK
<1> QED BY PlatformImplementsParts, <1>1, <1>2, <1>3, <1>4, <1>5, <1>6, <1>7, <1>8, <1>9, <1>10, PTL

-----------------------------------------------------------------------------

(* The invariants that the run checks of each part.                         *)
PlatformSafe ==
  /\ CounterExpires /\ LimitBecomesLock
  /\ OneUserPerInvitation /\ AdminsFromScript
  /\ LimitOvershootBounded
  /\ OutcomeHasDate /\ FeedbackOncePerWeek
  /\ IndexFollowsRow
  /\ PendingInHand /\ ProfileOncePerDelivery
  /\ SnapshotCurrent /\ MirrorCurrent /\ EditsDoNotDeadlock
  /\ SchemaMatchesVersion /\ ServesItsSchema
  /\ SaveReplacesSeen

(* With all parts side by side, each keeps the invariants proved of it.     *)
THEOREM PartsStaySafe == Spec => []PlatformSafe
<1>1. LoginPart => []CounterExpires /\ []LimitBecomesLock
  BY CountersExpire, LimitsLock, PTL DEF LoginPart, LSpec
<1>2. AccountsPart => []OneUserPerInvitation /\ []AdminsFromScript
  BY InvitationMakesOneUser, OnlyScriptMakesAdmins, PTL DEF AccountsPart, ASpec
<1>3. AdmissionPart => []LimitOvershootBounded
  BY OvershootIsBounded, PTL DEF AdmissionPart, PSpec
<1>4. TrackingPart => []OutcomeHasDate /\ []FeedbackOncePerWeek
  BY OutcomesHaveDates, OneFeedbackPerWeek, PTL DEF TrackingPart, TSpec
<1>5. DiscoveryPart => []IndexFollowsRow
  BY IndexHolds, PTL DEF DiscoveryPart
<1>6. DocumentPart => []PendingInHand /\ []ProfileOncePerDelivery
  BY HandHolds, DeliveryHolds, PTL DEF DocumentPart
<1>7. SnapshotPart => []SnapshotCurrent /\ []MirrorCurrent /\ []EditsDoNotDeadlock
  BY SnapshotIsCurrent, MirrorsAreCurrent, EditsNeverDeadlock, PTL DEF SnapshotPart, SSpec
<1>8. MigrationPart => []SchemaMatchesVersion /\ []ServesItsSchema
  <2>1. MInv => SchemaMatchesVersion /\ ServesItsSchema
    BY Zenon DEF MInv
  <2> QED BY <2>1, MigrationsHold, PTL DEF MigrationPart
<1>9. WorkspacePart => []SaveReplacesSeen
  BY SavesHold, PTL DEF WorkspacePart
<1>10. PlatformSafe <=>
         /\ CounterExpires /\ LimitBecomesLock /\ OneUserPerInvitation
         /\ AdminsFromScript /\ LimitOvershootBounded /\ OutcomeHasDate
         /\ FeedbackOncePerWeek /\ IndexFollowsRow /\ PendingInHand
         /\ ProfileOncePerDelivery /\ SnapshotCurrent
         /\ MirrorCurrent /\ EditsDoNotDeadlock /\ SchemaMatchesVersion
         /\ ServesItsSchema /\ SaveReplacesSeen
  BY Zenon DEF PlatformSafe
<1> QED BY PlatformImplementsParts, <1>1, <1>2, <1>3, <1>4, <1>5, <1>6, <1>7, <1>8, <1>9, <1>10, PTL

=============================================================================
