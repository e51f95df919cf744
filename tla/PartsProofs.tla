------------------------------ MODULE PartsProofs ------------------------------
(***************************************************************************)
(* MCParts puts parts side by side that share no state.  A behaviour of it *)
(* is, for the variables of each part, one of that part's specification:   *)
(* so what is proved of the parts holds of the composition, and what a run *)
(* of MCParts checks are instances of those theorems.                      *)
(***************************************************************************)
EXTENDS MCParts, IdentityProofs, StorageProofs, DesktopProofs, EnvGateProofs

\* A step of the composition is a step of each part or leaves the part alone.
LEMMA StepOfAPart ==
  ASSUME [PartsNext]_partsVars
  PROVE  /\ [Next]_vars
         /\ [ClosureNext]_closureVars
         /\ [PrincipalsNext]_principalVars
         /\ [ResolutionNext]_resolutionVars
         /\ [IngestNext]_ingestVars
         /\ [ScriptsNext]_scriptVars
         /\ [ListingNext]_listingVars
         /\ [UploadsNext]_uploadVars
         /\ [TreeNext]_treeVars
         /\ [KeysNext]_keyVars
         /\ [RegistryNext]_registryVars
         /\ [BridgeNext]_bridgeVars
         /\ [ResultsNext]_resultVars
         /\ [FormsNext]_formVars
         /\ [TabsNext]_tabVars
<1>1. CASE UNCHANGED partsVars
  BY <1>1 DEF partsVars, services, portal, hosted, paged
<1>2. CASE PartsNext
  BY <1>2 DEF PartsNext, services, portal, hosted, paged
<1>3. QED
  BY <1>1, <1>2

\* The specification of MCParts implements that of every part: what the run `gate` explores one part
\* after another is, part by part, the behaviour of the shell (EnvGateContext.tsx), the server's and
\* the portal's handlers, the hosted services and the pages, with nothing of one part seen by another.
THEOREM PartsAreTheirOwn ==
  PartsSpec =>
    /\ Spec
    /\ ClosureSpec
    /\ PrincipalsSpec
    /\ ResolutionSpec
    /\ IngestSpec
    /\ ScriptsSpec
    /\ ListingSpec
    /\ UploadsSpec
    /\ TreeSpec
    /\ KeysSpec
    /\ RegistrySpec
    /\ BridgeSpec
    /\ ResultsSpec
    /\ FormsSpec
    /\ TabsSpec
<1>1. PartsInit =>
        /\ Init
        /\ ClosureInit
        /\ PrincipalsInit
        /\ ResolutionInit
        /\ IngestInit
        /\ ScriptsInit
        /\ ListingInit
        /\ UploadsInit
        /\ TreeInit
        /\ KeysInit
        /\ RegistryInit
        /\ BridgeInit
        /\ ResultsInit
        /\ FormsInit
        /\ TabsInit
  BY DEF PartsInit
<1>2. PartsSpec => Spec
  <2>1. [PartsNext]_partsVars => [Next]_vars
    BY StepOfAPart
  <2>2. QED
    BY <1>1, <2>1, PTL DEF PartsSpec, Spec
<1>3. PartsSpec => ClosureSpec
  <2>1. [PartsNext]_partsVars => [ClosureNext]_closureVars
    BY StepOfAPart
  <2>2. QED
    BY <1>1, <2>1, PTL DEF PartsSpec, ClosureSpec
<1>4. PartsSpec => PrincipalsSpec
  <2>1. [PartsNext]_partsVars => [PrincipalsNext]_principalVars
    BY StepOfAPart
  <2>2. QED
    BY <1>1, <2>1, PTL DEF PartsSpec, PrincipalsSpec
<1>5. PartsSpec => ResolutionSpec
  <2>1. [PartsNext]_partsVars => [ResolutionNext]_resolutionVars
    BY StepOfAPart
  <2>2. QED
    BY <1>1, <2>1, PTL DEF PartsSpec, ResolutionSpec
<1>6. PartsSpec => IngestSpec
  <2>1. [PartsNext]_partsVars => [IngestNext]_ingestVars
    BY StepOfAPart
  <2>2. QED
    BY <1>1, <2>1, PTL DEF PartsSpec, IngestSpec
<1>7. PartsSpec => ScriptsSpec
  <2>1. [PartsNext]_partsVars => [ScriptsNext]_scriptVars
    BY StepOfAPart
  <2>2. QED
    BY <1>1, <2>1, PTL DEF PartsSpec, ScriptsSpec
<1>8. PartsSpec => ListingSpec
  <2>1. [PartsNext]_partsVars => [ListingNext]_listingVars
    BY StepOfAPart
  <2>2. QED
    BY <1>1, <2>1, PTL DEF PartsSpec, ListingSpec
<1>9. PartsSpec => UploadsSpec
  <2>1. [PartsNext]_partsVars => [UploadsNext]_uploadVars
    BY StepOfAPart
  <2>2. QED
    BY <1>1, <2>1, PTL DEF PartsSpec, UploadsSpec
<1>10. PartsSpec => TreeSpec
  <2>1. [PartsNext]_partsVars => [TreeNext]_treeVars
    BY StepOfAPart
  <2>2. QED
    BY <1>1, <2>1, PTL DEF PartsSpec, TreeSpec
<1>11. PartsSpec => KeysSpec
  <2>1. [PartsNext]_partsVars => [KeysNext]_keyVars
    BY StepOfAPart
  <2>2. QED
    BY <1>1, <2>1, PTL DEF PartsSpec, KeysSpec
<1>12. PartsSpec => RegistrySpec
  <2>1. [PartsNext]_partsVars => [RegistryNext]_registryVars
    BY StepOfAPart
  <2>2. QED
    BY <1>1, <2>1, PTL DEF PartsSpec, RegistrySpec
<1>13. PartsSpec => BridgeSpec
  <2>1. [PartsNext]_partsVars => [BridgeNext]_bridgeVars
    BY StepOfAPart
  <2>2. QED
    BY <1>1, <2>1, PTL DEF PartsSpec, BridgeSpec
<1>14. PartsSpec => ResultsSpec
  <2>1. [PartsNext]_partsVars => [ResultsNext]_resultVars
    BY StepOfAPart
  <2>2. QED
    BY <1>1, <2>1, PTL DEF PartsSpec, ResultsSpec
<1>15. PartsSpec => FormsSpec
  <2>1. [PartsNext]_partsVars => [FormsNext]_formVars
    BY StepOfAPart
  <2>2. QED
    BY <1>1, <2>1, PTL DEF PartsSpec, FormsSpec
<1>16. PartsSpec => TabsSpec
  <2>1. [PartsNext]_partsVars => [TabsNext]_tabVars
    BY StepOfAPart
  <2>2. QED
    BY <1>1, <2>1, PTL DEF PartsSpec, TabsSpec
<1>17. QED
  BY <1>2, <1>3, <1>4, <1>5, <1>6, <1>7, <1>8, <1>9, <1>10, <1>11, <1>12, <1>13, <1>14, <1>15, <1>16

\* PartsTypeOK: whatever the constants, the state of every part keeps the shape its module gives it.
THEOREM PartsTypesHold == PartsSpec => []PartsTypeOK
<1>1. ClosureSpec => []ClosureTypeOK
  <2>1. ClosureInv => ClosureTypeOK
    BY DEF ClosureInv
  <2>2. QED
    BY <2>1, ClosureInvariant, PTL
<1>2. PrincipalsSpec => []PrincipalsTypeOK
  <2>1. PrincipalsInv => PrincipalsTypeOK
    BY DEF PrincipalsInv
  <2>2. QED
    BY <2>1, PrincipalsInvariant, PTL
<1>3. ResolutionSpec => []ResolutionTypeOK
  <2>1. ResolutionInv => ResolutionTypeOK
    BY DEF ResolutionInv
  <2>2. QED
    BY <2>1, ResolutionInvariant, PTL
<1>4. IngestSpec => []IngestTypeOK
  <2>1. IngestInv => IngestTypeOK
    BY DEF IngestInv
  <2>2. QED
    BY <2>1, IngestInvariant, PTL
<1>5. ListingSpec => []ListingTypeOK
  <2>1. ListingInv => ListingTypeOK
    BY DEF ListingInv
  <2>2. QED
    BY <2>1, ListingInit_Inv, ListingNext_Inv, PTL DEF ListingSpec
<1>6. TreeSpec => []TreeTypeOK
  <2>1. TreeInv => TreeTypeOK
    BY DEF TreeInv
  <2>2. QED
    BY <2>1, TreeInvHolds, PTL
<1>7. KeysSpec => []KeysTypeOK
  <2>1. KeysInv => KeysTypeOK
    BY DEF KeysInv
  <2>2. QED
    BY <2>1, KeysInvariant, PTL
<1>8. ResultsSpec => []ResultsTypeOK
  <2>1. ResultsInv => ResultsTypeOK
    BY DEF ResultsInv
  <2>2. QED
    BY <2>1, ResultsInvHolds, PTL
<1>9. RegistrySpec => []RegistryTypeOK
  <2>1. RegistryInv => RegistryTypeOK
    BY DEF RegistryInv
  <2>2. QED
    BY <2>1, RegistryInit_Inv, RegistryStep, PTL DEF RegistrySpec
<1>10. BridgeSpec => []BridgeTypeOK
  <2>1. BridgeInv => BridgeTypeOK
    BY DEF BridgeInv
  <2>2. QED
    BY <2>1, BridgeInit_Inv, BridgeStep, PTL DEF BridgeSpec
<1>11. FormsSpec => []FormsTypeOK
  <2>1. FormsInv => FormsTypeOK
    BY DEF FormsInv
  <2>2. QED
    BY <2>1, FormsInvariant, PTL
<1>12. /\ TypeOK /\ ClosureTypeOK /\ PrincipalsTypeOK /\ ResolutionTypeOK /\ IngestTypeOK
       /\ ListingTypeOK /\ UploadsTypeOK /\ TreeTypeOK /\ ScriptsTypeOK /\ KeysTypeOK
       /\ ResultsTypeOK /\ RegistryTypeOK /\ BridgeTypeOK /\ FormsTypeOK
       /\ TabsTypeOK
       => PartsTypeOK
  BY DEF PartsTypeOK
<1>13. QED
  BY <1>1, <1>2, <1>3, <1>4, <1>5, <1>6, <1>7, <1>8, <1>9, <1>10, <1>11, <1>12, TypesHold,
     UploadsTypesHold, ScriptsTypesHold, TabsTypesHold, PartsAreTheirOwn, PTL

\* What the run `gate` checks of the parts, for every value of their constants.
KeepsItsProperties ==
  /\ ShellAgrees
  /\ AnswerIsAncestry /\ RunsAsItself /\ FreshWhenAlone /\ ScriptsAreWhole
  /\ AnswersAreTrue /\ WritesAreGoverned
  /\ WalksAreWhole /\ UploadsAreKept /\ ListingsAreTrue
  /\ KeyIsKept /\ RegistryIsKept /\ BridgeIsWhole
  /\ ResultsAreOfRuns /\ FormsAreTrue /\ TabsAreKept

\* The properties of the parts hold of the composition: what the run `gate` checks on a small instance
\* is true of MCParts whatever its environments, requests, stores, keys, tabs and documents are.
THEOREM PartsKeepTheirProperties ==
  PartsSpec => []KeepsItsProperties /\ OnlyEmptyDirectoriesGo
<1>1. /\ ShellAgrees
      /\ AnswerIsAncestry /\ RunsAsItself /\ FreshWhenAlone /\ ScriptsAreWhole
      /\ AnswersAreTrue /\ WritesAreGoverned
      /\ WalksAreWhole /\ UploadsAreKept /\ ListingsAreTrue
      /\ KeyIsKept /\ RegistryIsKept /\ BridgeIsWhole
      /\ ResultsAreOfRuns /\ FormsAreTrue /\ TabsAreKept
      => KeepsItsProperties
  BY DEF KeepsItsProperties
<1>2. PartsSpec => OnlyEmptyDirectoriesGo
  BY PartsAreTheirOwn, OnlyEmptyDirectoriesGoHolds
<1>3. QED
  BY <1>1, <1>2, PartsAreTheirOwn, ShellAgreesHolds, AnswerIsAncestryHolds, RunsAsItselfHolds,
     FreshWhenAloneHolds, ScriptsAreWholeHolds, AnswersAreTrueHolds, WritesAreGovernedHolds,
     WalksAreWholeHolds, UploadsAreKeptHolds, ListingsAreTrueHolds, KeyIsKeptHolds,
     RegistryIsKeptHolds, BridgeIsWholeHolds,
     ResultsAreOfRunsHolds, FormsAreTrueHolds, TabsAreKeptHolds, PTL

=============================================================================
