------------------------------ MODULE ManagerForms ------------------------------
(***************************************************************************)
(* The environment manager: which environment its detail pane shows, and   *)
(* the forms on it for capabilities (CapabilitiesCard.tsx), the encryption *)
(* key (EnvironmentDetail.tsx) and the generated configuration             *)
(* (ConfigViewer.tsx).  React keeps a component, and with it its state,    *)
(* when the environment it shows changes.  The commands of the host run    *)
(* one after another on its main thread, in the order of the calls: a call *)
(* is done as it is made, and its answer comes later.  Which environment   *)
(* is up is the matter of EnvGate.  The forms share nothing but the        *)
(* environment, and a behaviour is one of a single form.                   *)
(***************************************************************************)
EXTENDS Naturals, FiniteSets

CONSTANTS Profiles,     \* environments there may be
          Capabilities, \* service modules
          NoProfile,
          MaxToggles    \* saves of a capability and calls for a key (bound)

ASSUME FormsAssumption ==
  /\ Profiles \cap {NoProfile, "default", "telemetry"} = {}
  /\ NoProfile \notin {"default", "telemetry"}
  /\ MaxToggles \in Nat

VARIABLES selections, \* of the registry: what is selected for each environment
          keyOf,      \* the status of each environment's key
          created,    \* the environments of the registry
          up,         \* the environment that runs
          manager,    \* the list the manager has, the item picked in it, the tab, the dialog
          form,       \* the form the behaviour is of
          card,       \* the capabilities card
          saves,      \* its saves in flight; the answer to a card that is gone does nothing
          keyCard,    \* the key status, and the calls in flight for it
          viewer,     \* the configuration viewer
          toggled,    \* (history) what the user asked for each environment
          crossed,    \* (history) a form was used, or its call answered, while it showed another environment's values
          toggles

registryState == <<selections, keyOf, created>>
forms == <<card, saves, keyCard, viewer>>
formVars == <<form, registryState, up, manager, forms, toggled, crossed, toggles>>

Selection == [modules : SUBSET Capabilities, observability : BOOLEAN]
NoSelection == [modules |-> {}, observability |-> FALSE]
Loads == {"none", "flight", "loaded", "failed"}
KeyStatuses == {"unconfigured", "keychain", "biometric"}

Save == [env : Profiles, field : {"modules", "observability"}, prev : Selection, ok : BOOLEAN]
KeyCall == [env : Profiles, next : KeyStatuses, ok : BOOLEAN, busy : BOOLEAN]
  \* busy: the card whose button it keeps busy is still mounted

FormsTypeOK ==
  /\ form \in {"capabilities", "key", "viewer"}
  /\ selections \in [Profiles -> Selection] /\ toggled \in [Profiles -> Selection]
  /\ keyOf \in [Profiles -> KeyStatuses]
  /\ created \subseteq Profiles
  /\ up \in Profiles \union {NoProfile}
  /\ manager \in [list : SUBSET Profiles, fetched : SUBSET Profiles, first : Profiles,
                  pick : Profiles \union {"default", "telemetry"}, tab : {"overview", "config", "admin"},
                  creating : Profiles \union {NoProfile}]
  /\ card \in [mounted : BOOLEAN, ready : BOOLEAN, shown : Selection, saving : BOOLEAN,
               load : Loads, read : Selection]
  /\ saves \subseteq Save
  /\ keyCard \in [shown : KeyStatuses \union {"unknown", "unavailable"}, load : Loads,
                  read : KeyStatuses, calls : SUBSET KeyCall]
  /\ viewer \in [load : Loads, shown : Selection, read : Selection]
  /\ crossed \in BOOLEAN /\ toggles \in 0..MaxToggles

-----------------------------------------------------------------------------
(* What the pane shows                                                      *)

\* The environment of the detail pane while u is up: by default that one or else the first of the list,
\* and none for one the list does not have yet.
Selected(m, u) ==
  LET i == IF m.pick # "default" THEN m.pick ELSE IF u # NoProfile THEN u ELSE m.first IN
  IF i \in m.list THEN i ELSE NoProfile

Shown == Selected(manager, up)
Editable == up # Shown

NoCard == [mounted |-> FALSE, ready |-> FALSE, shown |-> NoSelection, saving |-> FALSE,
           load |-> "none", read |-> NoSelection]
NoViewer == [load |-> "none", shown |-> NoSelection, read |-> NoSelection]

\* Mutant: the effect of the card does not depend on the environment.
CardOnce(e, m) ==
  IF form # "capabilities" \/ e = NoProfile \/ m.tab # "overview" THEN NoCard
  ELSE IF card.mounted THEN card
  ELSE [NoCard EXCEPT !.mounted = TRUE, !.load = "flight", !.read = selections[e]]

\* CapabilitiesCard: mounted on the overview; a new environment loads into what is there.
CardFor(e, m) ==
  IF form # "capabilities" \/ e = NoProfile \/ m.tab # "overview" THEN NoCard
  ELSE IF card.mounted /\ e = Shown THEN card
  ELSE [(IF card.mounted THEN card ELSE NoCard) EXCEPT
          !.mounted = TRUE, !.load = "flight", !.read = selections[e]]

\* useKeyStatus, of the detail pane itself; its calls, and what is busy with them.
KeyCardFor(e, m) ==
  IF form # "key" THEN keyCard ELSE
  [shown |-> IF e = NoProfile THEN "unknown" ELSE keyCard.shown,
   load |-> IF e = NoProfile THEN "none" ELSE IF e = Shown THEN keyCard.load ELSE "flight",
   read |-> IF e = NoProfile THEN "unconfigured" ELSE IF e = Shown THEN keyCard.read ELSE keyOf[e],
   calls |-> IF m.pick = "telemetry" THEN {}
             ELSE {[k EXCEPT !.busy = @ /\ e # NoProfile /\ m.tab = "overview"] : k \in keyCard.calls}]

\* ConfigViewer clears what it shows before it loads.
ViewerFor(e, m) ==
  IF form # "viewer" \/ e = NoProfile \/ m.tab # "config" THEN NoViewer
  ELSE IF viewer.load # "none" /\ e = Shown THEN viewer
  ELSE [NoViewer EXCEPT !.load = "flight", !.read = selections[e]]

\* The manager renders with m while u is up: components mount, unmount, or get another environment; a
\* tab of the administration falls back to the overview when its environment is not up.
Renders(m, u) ==
  LET e == Selected(m, u)
      settled == IF m.tab = "admin" /\ (e = NoProfile \/ u # e) THEN [m EXCEPT !.tab = "overview"] ELSE m IN
  /\ manager' = settled
  /\ card' = CardFor(e, settled)
  /\ saves' = IF card'.mounted THEN saves ELSE {}
  /\ keyCard' = KeyCardFor(e, settled)
  /\ viewer' = ViewerFor(e, settled)

\* A creation may have been unable to mint the key.
FormsInit ==
  /\ form \in {"capabilities", "key", "viewer"}
  /\ keyOf \in [Profiles -> IF form = "key" THEN {"unconfigured", "keychain"} ELSE {"keychain"}]
  /\ \E e \in Profiles :
       /\ created = {e}
       /\ manager = [list |-> {e}, fetched |-> {}, first |-> e, pick |-> "default",
                     tab |-> "overview", creating |-> NoProfile]
       /\ keyCard = [shown |-> "unknown", load |-> IF form = "key" THEN "flight" ELSE "none",
                     read |-> keyOf[e], calls |-> {}]
  /\ selections \in {f \in [Profiles -> {NoSelection, [modules |-> Capabilities, observability |-> TRUE]}] :
                      form = "viewer" \/ f = [p \in Profiles |-> NoSelection]}
  /\ toggled = selections
  /\ up = NoProfile
  /\ card = IF form = "capabilities" THEN [NoCard EXCEPT !.mounted = TRUE, !.load = "flight"] ELSE NoCard
  /\ saves = {} /\ viewer = NoViewer
  /\ crossed = FALSE /\ toggles = 0

-----------------------------------------------------------------------------
(* The user picks and creates                                               *)

\* EnvironmentList and AppServicesSection.  The detail pane, and its tab, go with the telemetry view.
PickItem(i) ==
  /\ i \in manager.list \union {"telemetry"} /\ i # manager.pick
  /\ Renders([manager EXCEPT !.pick = i, !.tab = IF i = "telemetry" THEN "overview" ELSE @], up)
  /\ UNCHANGED <<form, registryState, up, toggled, crossed, toggles>>

ChooseTab(t) ==
  /\ Shown # NoProfile /\ t # manager.tab
  /\ t = "admin" => ~Editable /\ form = "viewer"  \* the other forms only tell the overview from the rest
  /\ Renders([manager EXCEPT !.tab = t], up)
  /\ UNCHANGED <<form, registryState, up, toggled, crossed, toggles>>

\* CreateEnvironmentDialog: it may be closed while the call is in flight.
SubmitName(e) ==
  /\ manager.creating = NoProfile /\ e \notin created
  /\ created' = created \union {e}
  /\ manager' = [manager EXCEPT !.creating = e]
  /\ UNCHANGED <<form, selections, keyOf, up, forms, toggled, crossed, toggles>>

\* handleCreated: the list is fetched again, and the new environment picked.
EnvironmentCreated ==
  /\ manager.creating # NoProfile
  /\ Renders([manager EXCEPT !.creating = NoProfile, !.fetched = created, !.pick = manager.creating], up)
  /\ UNCHANGED <<form, registryState, up, toggled, crossed, toggles>>

ListFetched ==
  /\ manager.fetched # {}
  /\ Renders([manager EXCEPT !.fetched = {}, !.list = manager.fetched], up)
  /\ UNCHANGED <<form, registryState, up, toggled, crossed, toggles>>

\* An environment starts or stops.
UpChanges(u) ==
  /\ u \in manager.list \union {NoProfile} /\ u # up
  /\ up' = u
  /\ Renders(manager, u)
  /\ UNCHANGED <<form, registryState, toggled, crossed, toggles>>

-----------------------------------------------------------------------------
(* The capabilities card                                                    *)

\* Mutant: a card that is saving does not refuse another toggle.
UsableWhileSaving == card.ready /\ Editable

\* The checkboxes are there once a load has come, and disabled while the environment runs or a save is in flight.
Usable == card.ready /\ Editable /\ ~card.saving

\* Flipped on the screen at once; the host is sent the whole set.
SaveSelection(field, next, asked) ==
  LET e == Shown IN
  /\ Usable /\ toggles < MaxToggles
  /\ \E ok \in BOOLEAN :
       /\ saves' = saves \union {[env |-> e, field |-> field, prev |-> card.shown, ok |-> ok]}
       /\ selections' = IF ok THEN [selections EXCEPT ![e][field] = next] ELSE selections
       /\ toggled' = IF ok THEN [toggled EXCEPT ![e][field] = asked] ELSE toggled
  /\ card' = [card EXCEPT !.shown[field] = next, !.saving = TRUE]
  /\ crossed' = (crossed \/ card.load # "loaded")
  /\ toggles' = toggles + 1
  /\ UNCHANGED <<form, keyOf, created, up, manager, keyCard, viewer>>

Flip(set, c) == IF c \in set THEN set \ {c} ELSE set \union {c}

ToggleModule(c) ==
  SaveSelection("modules", Flip(card.shown.modules, c), Flip(toggled[Shown].modules, c))

ToggleObservability ==
  SaveSelection("observability", ~card.shown.observability, ~toggled[Shown].observability)

\* Rolled back when it failed, in the card as it is by then.
SaveAnswered(s) ==
  /\ saves' = saves \ {s}
  /\ card' = [card EXCEPT !.saving = FALSE, !.shown[s.field] = IF s.ok THEN @ ELSE s.prev[s.field]]
  /\ crossed' = (crossed \/ (~s.ok /\ s.env # Shown))
  /\ UNCHANGED <<form, registryState, up, manager, keyCard, viewer, toggled, toggles>>

CardLoaded ==
  /\ card.load = "flight"
  /\ card' \in {[card EXCEPT !.load = "loaded", !.read = NoSelection, !.ready = TRUE, !.shown = card.read],
                [card EXCEPT !.load = "failed", !.read = NoSelection]}
  /\ UNCHANGED <<form, registryState, up, manager, saves, keyCard, viewer, toggled, crossed, toggles>>

-----------------------------------------------------------------------------
(* The key                                                                  *)

\* A call about the key: its effect, what it will answer, whether it succeeds.
CallKey(next, can) ==
  /\ form = "key" /\ Shown # NoProfile /\ manager.tab = "overview" /\ Editable
  /\ (\A k \in keyCard.calls : ~k.busy) /\ toggles < MaxToggles
  /\ \E ok \in {FALSE, can} :
       /\ keyCard' = [keyCard EXCEPT !.calls = @ \union
            {[env |-> Shown, next |-> next, ok |-> ok, busy |-> TRUE]}]
       /\ keyOf' = IF ok THEN [keyOf EXCEPT ![Shown] = next] ELSE keyOf
  /\ crossed' = (crossed \/ keyCard.load # "loaded" \/ keyCard.calls # {})
  /\ toggles' = toggles + 1
  /\ UNCHANGED <<form, selections, created, up, manager, card, saves, viewer, toggled>>

\* toggleBiometric, offered for what is shown as a key of the keychain.
ToggleBiometric ==
  /\ keyCard.shown \in {"keychain", "biometric"}
  /\ CallKey(IF keyCard.shown = "biometric" THEN "keychain" ELSE "biometric", keyOf[Shown] # "unconfigured")

\* ConfigureKeyDialog; a key that is there already is confirmed.
ConfigureKey ==
  /\ keyCard.shown \in {"unconfigured", "unavailable"}
  /\ CallKey(IF keyOf[Shown] = "biometric" THEN "biometric" ELSE "keychain", TRUE)

\* The status is set in the pane as it is by then.
KeyAnswered(k) ==
  /\ keyCard' = [keyCard EXCEPT !.calls = @ \ {k}, !.shown = IF k.ok THEN k.next ELSE @]
  /\ crossed' = (crossed \/ (k.ok /\ k.env # Shown))
  /\ UNCHANGED <<form, registryState, up, manager, card, saves, viewer, toggled, toggles>>

\* A status that cannot be read is shown as a key that is unavailable.
KeyLoaded ==
  /\ keyCard.load = "flight"
  /\ keyCard' \in {[keyCard EXCEPT !.load = "loaded", !.read = "unconfigured", !.shown = keyCard.read],
                   [keyCard EXCEPT !.load = "failed", !.read = "unconfigured", !.shown = "unavailable"]}
  /\ UNCHANGED <<form, registryState, up, manager, card, saves, viewer, toggled, crossed, toggles>>

ViewerLoaded ==
  /\ viewer.load = "flight"
  /\ viewer' \in {[viewer EXCEPT !.load = "loaded", !.shown = viewer.read],
                  [viewer EXCEPT !.load = "failed"]}
  /\ UNCHANGED <<form, registryState, up, manager, card, saves, keyCard, toggled, crossed, toggles>>

FormsNext ==
  \/ \E i \in Profiles \union {"telemetry"} : PickItem(i)
  \/ \E t \in {"overview", "config", "admin"} : ChooseTab(t)
  \/ \E e \in Profiles : SubmitName(e)
  \/ EnvironmentCreated \/ ListFetched
  \/ \E u \in Profiles \union {NoProfile} : UpChanges(u)
  \/ \E c \in Capabilities : ToggleModule(c)
  \/ ToggleObservability
  \/ \E s \in saves : SaveAnswered(s)
  \/ CardLoaded \/ KeyLoaded \/ ViewerLoaded
  \/ ToggleBiometric \/ ConfigureKey
  \/ \E k \in keyCard.calls : KeyAnswered(k)

FormsSpec == FormsInit /\ [][FormsNext]_formVars

-----------------------------------------------------------------------------
\* The manager shows and saves what belongs to the environment it shows: the configuration and the
\* administration are of that environment; and while no form was used before its own environment's
\* values had come, nor answered in another one's place, the registry has for every environment just
\* what the user toggled there, and a form that rests shows what the host has.
FormsAreTrue ==
  /\ manager.tab = "admin" => Shown # NoProfile /\ up = Shown
  /\ viewer.load = "loaded" => viewer.shown = selections[Shown]
  /\ ~crossed =>
       /\ selections = toggled
       /\ card.load = "loaded" /\ ~card.saving => card.shown = selections[Shown]
       /\ keyCard.load = "loaded" /\ keyCard.calls = {} => keyCard.shown = keyOf[Shown]
=============================================================================
