-------------------------------- MODULE MCParts --------------------------------
(***************************************************************************)
(* EnvGate and the components that share no state with it or with each     *)
(* other, in one instance: a behaviour is one of a single part, and the    *)
(* others rest in their initial states.                                    *)
(***************************************************************************)
EXTENDS EnvGate, GroupClosure, Principals, TableResolution, ManagedIngest, PagedListing,
        FileUploads, FileStores, SqlScripts, KeyStore, EnvRegistry, QueryResults,
        StreamBridge, ManagerForms, EditorTabs

CONSTANTS c1, c2, A, B, C, r1, r2, q1, q2, u1, u2, g1, g2, g3, k1

VARIABLE part

\* A directory in the root, a file in it, and a name beside it.
SomePaths == {<<"a">>, <<"a", "b">>, <<"c">>}

\* A name, and one whose slug is what the first gets when it is taken.
SomeSlugs == {<<"a">>, <<"a", 2>>}

PartsInit ==
  /\ part \in {"gate", "closure", "principals", "tables", "ingest", "listing", "uploads",
               "tree", "scripts", "keys", "results", "registry", "bridge", "forms", "tabs"}
  /\ Init /\ ClosureInit /\ PrincipalsInit /\ ResolutionInit /\ IngestInit
  /\ ListingInit /\ UploadsInit /\ TreeInit /\ ScriptsInit /\ KeysInit
  /\ ResultsInit /\ RegistryInit /\ BridgeInit /\ FormsInit /\ TabsInit
  /\ part # "bridge" => command.serves = "query"
  /\ part # "tree" => kind = "memory"
  /\ part # "tabs" => here = A
  /\ part # "forms" => form = "viewer" /\ created = {A} /\ selections = [p \in Profiles |-> NoSelection]

services == <<closureVars, principalVars, resolutionVars, ingestVars, scriptVars>>
portal == <<listingVars, uploadVars, treeVars>>
hosted == <<keyVars, registryVars, bridgeVars>>
paged == <<resultVars, formVars, tabVars>>

PartsNext ==
  \/ /\ part = "gate" /\ Next
     /\ UNCHANGED <<part, services, portal, hosted, paged>>
  \/ /\ part = "closure" /\ ClosureNext
     /\ UNCHANGED <<part, vars, principalVars, resolutionVars, ingestVars, scriptVars, portal, hosted, paged>>
  \/ /\ part = "principals" /\ PrincipalsNext
     /\ UNCHANGED <<part, vars, closureVars, resolutionVars, ingestVars, scriptVars, portal, hosted, paged>>
  \/ /\ part = "tables" /\ ResolutionNext
     /\ UNCHANGED <<part, vars, closureVars, principalVars, ingestVars, scriptVars, portal, hosted, paged>>
  \/ /\ part = "ingest" /\ IngestNext
     /\ UNCHANGED <<part, vars, closureVars, principalVars, resolutionVars, scriptVars, portal, hosted, paged>>
  \/ /\ part = "scripts" /\ ScriptsNext
     /\ UNCHANGED <<part, vars, closureVars, principalVars, resolutionVars, ingestVars, portal, hosted, paged>>
  \/ /\ part = "listing" /\ ListingNext
     /\ UNCHANGED <<part, vars, services, uploadVars, treeVars, hosted, paged>>
  \/ /\ part = "uploads" /\ UploadsNext
     /\ UNCHANGED <<part, vars, services, listingVars, treeVars, hosted, paged>>
  \/ /\ part = "tree" /\ TreeNext
     /\ UNCHANGED <<part, vars, services, listingVars, uploadVars, hosted, paged>>
  \/ /\ part = "keys" /\ KeysNext
     /\ UNCHANGED <<part, vars, services, portal, registryVars, bridgeVars, paged>>
  \/ /\ part = "registry" /\ RegistryNext
     /\ UNCHANGED <<part, vars, services, portal, keyVars, bridgeVars, paged>>
  \/ /\ part = "bridge" /\ BridgeNext
     /\ UNCHANGED <<part, vars, services, portal, keyVars, registryVars, paged>>
  \/ /\ part = "results" /\ ResultsNext
     /\ UNCHANGED <<part, vars, services, portal, hosted, formVars, tabVars>>
  \/ /\ part = "forms" /\ FormsNext
     /\ UNCHANGED <<part, vars, services, portal, hosted, resultVars, tabVars>>
  \/ /\ part = "tabs" /\ TabsNext
     /\ UNCHANGED <<part, vars, services, portal, hosted, resultVars, formVars>>

partsVars == <<part, vars, services, portal, hosted, paged>>

\* The type invariants of the parts.
PartsTypeOK ==
  /\ TypeOK /\ ClosureTypeOK /\ PrincipalsTypeOK /\ ResolutionTypeOK /\ IngestTypeOK
  /\ ListingTypeOK /\ UploadsTypeOK /\ TreeTypeOK /\ ScriptsTypeOK /\ KeysTypeOK
  /\ ResultsTypeOK /\ RegistryTypeOK /\ BridgeTypeOK /\ FormsTypeOK /\ TabsTypeOK

PartsSpec == PartsInit /\ [][PartsNext]_partsVars
=============================================================================
