---------------------------- MODULE EditorProofs ----------------------------
(***************************************************************************)
(* Proofs about Editor, for any number of pages, texts, models and         *)
(* openFile calls.  TypeOK is inductive by itself.  Over it, Provenance    *)
(* says that every text that may become a baseline has been in a store,    *)
(* and Tidiness what a page that left nothing behind has of the shared     *)
(* registry: only the mounted page acts on it, and the tab, the model and  *)
(* the status agree.                                                       *)
(***************************************************************************)
EXTENDS Editor, TLAPS

Provenance ==
    /\ SavedIsStored
    /\ \A g \in Pages : save[g].pc = "stored" => save[g].text \in stored
    /\ \A o \in Openers : open[o].pc = "read" => open[o].text \in stored

OnlyThePage ==
    /\ \A g \in Pages : ~leaving[g]
    /\ \A g \in Pages \ {page} : ~InFlight(g) /\ ~timer[g]
    /\ \A o \in Openers : open[o].pc # "idle" => open[o].page = page
    /\ Live => buf.listeners = {page}

Tidiness == tidy => OnlyThePage /\ (Live <=> tab # "none") /\ (tab \in {"clean", "saved"} => ~Dirty)

------------------------------------------------------------------------------
(* Types. *)

LEMMA Constants ==
    /\ 1 \in Pages /\ 1 \in Texts /\ 0 \in 0..MaxModels
    /\ NoModel \in Models /\ NoSave \in Saves /\ NoOpen \in Opens
BY EditorConstants DEF Pages, Texts, NoModel, Models, NoSave, Saves, NoOpen, Opens

LEMMA InitTypes == Init => TypeOK
<1> SUFFICES ASSUME Init PROVE TypeOK
    OBVIOUS
<1>1. texts \in Texts /\ models \in 0..MaxModels
    BY EditorConstants DEF Init, Texts
<1>2. QED
    BY <1>1, Constants DEF Init, TypeOK, Statuses

(* The parts of a step, each of which keeps the types of what it changes.  *)
LEMMA ReportTypes ==
    ASSUME TypeOK, NEW g \in Pages, NEW status \in Statuses, Report(g, status)
    PROVE  tab' \in Statuses
BY DEF TypeOK, Report

LEMMA FlushTypes ==
    ASSUME TypeOK, NEW g \in Pages, Flush(g)
    PROVE  timer' \in [Pages -> BOOLEAN] /\ save' \in [Pages -> Saves] /\ tab' \in Statuses
<1>1. timer' \in [Pages -> BOOLEAN]
    BY DEF TypeOK, Flush
<1>2. [pc |-> "sent", text |-> buf.text, id |-> buf.id] \in Saves
    BY DEF TypeOK, Models, Saves
<1>3. save' \in [Pages -> Saves]
    BY <1>2 DEF TypeOK, Flush
<1>4. "saving" \in Statuses
    BY DEF Statuses
<1>5. tab' \in Statuses
    BY <1>4, ReportTypes DEF TypeOK, Flush
<1>6. QED
    BY <1>1, <1>3, <1>5

LEMMA ChangedTypes ==
    ASSUME TypeOK, NEW text \in Texts, Changed(text)
    PROVE  buf' \in Models /\ timer' \in [Pages -> BOOLEAN] /\ tab' \in Statuses
<1>1. buf' \in Models
    BY DEF TypeOK, Changed, Models
<1>2. timer' \in [Pages -> BOOLEAN]
    BY DEF TypeOK, Changed
<1>3. page \in Pages /\ (IF text = buf.saved THEN "clean" ELSE "dirty") \in Statuses
    BY DEF TypeOK, Statuses
<1>4. tab' \in Statuses
    BY <1>3, ReportTypes DEF TypeOK, Changed
<1>5. QED
    BY <1>1, <1>2, <1>4

LEMMA DiscardTypes ==
    ASSUME TypeOK, NEW g \in Pages, Discard(g)
    PROVE  buf' \in Models /\ timer' \in [Pages -> BOOLEAN]
BY Constants DEF TypeOK, Discard

LEMMA EnsureModelTypes ==
    ASSUME TypeOK, NEW g \in Pages, NEW text \in Texts, EnsureModel(g, text)
    PROVE  buf' \in Models /\ models' \in 0..MaxModels
<1>1. CASE Live
    BY <1>1 DEF TypeOK, EnsureModel, Models
<1>2. CASE ~Live
    <2>1. models' \in 0..MaxModels
        BY <1>2, EditorConstants DEF TypeOK, EnsureModel
    <2>2. QED
        BY <1>2, <2>1 DEF TypeOK, EnsureModel, Models
<1>3. QED
    BY <1>1, <1>2

LEMMA TypeStep == TypeOK /\ [Next]_vars => TypeOK'
<1> SUFFICES ASSUME TypeOK, [Next]_vars PROVE TypeOK'
    OBVIOUS
<1>1. CASE Edit
    <2>1. texts' \in Texts
        BY <1>1, EditorConstants DEF TypeOK, Edit, Texts
    <2>2. QED
        BY <1>1, <2>1, ChangedTypes DEF TypeOK, Edit, Changed
<1>2. CASE Undo
    <2>1. buf.saved \in Texts
        BY DEF TypeOK, Models
    <2>2. QED
        BY <1>2, <2>1, ChangedTypes DEF TypeOK, Undo, Changed
<1>3. CASE RunActive
    BY <1>3, FlushTypes DEF TypeOK, RunActive
<1>4. CASE Close
    <2>1. CASE MaySave(page)
        BY <1>4, <2>1, FlushTypes DEF TypeOK, Close
    <2>2. CASE ~MaySave(page)
        <3>1. "none" \in Statuses
            BY DEF Statuses
        <3>2. QED
            BY <1>4, <2>2, <3>1, DiscardTypes DEF TypeOK, Close
    <2>3. QED
        BY <2>1, <2>2
<1>5. ASSUME NEW o \in Openers, OpenFile(o) PROVE TypeOK'
    <2>1. [NoOpen EXCEPT !.pc = "asked", !.page = page] \in Opens
        BY Constants DEF TypeOK, Opens, NoOpen
    <2>2. open' \in [Openers -> Opens]
        BY <1>5, <2>1 DEF TypeOK, OpenFile
    <2>3. QED
        BY <1>5, <2>2 DEF TypeOK, OpenFile
<1>6. ASSUME NEW g \in Pages, Upload(g) PROVE TypeOK'
    <2>1. save[g] \in Saves /\ save[g].text \in Texts
        BY DEF TypeOK, Saves
    <2>2. \A pc \in {"stored", "failed"} : [save EXCEPT ![g].pc = pc] \in [Pages -> Saves]
        BY <2>1 DEF TypeOK, Saves
    <2>3. save' \in [Pages -> Saves]
        BY <1>6, <2>2 DEF Upload
    <2>4. stored' \subseteq Texts
        BY <1>6, <2>1 DEF TypeOK, Upload
    <2>5. QED
        BY <1>6, <2>3, <2>4 DEF TypeOK, Upload
<1>7. ASSUME NEW o \in Openers, ReadFile(o) PROVE TypeOK'
    <2>1. open[o] \in Opens /\ stored \subseteq Texts
        BY DEF TypeOK
    <2>2. \A text \in stored : [open EXCEPT ![o].pc = "read", ![o].text = text] \in [Openers -> Opens]
        BY <2>1 DEF TypeOK, Opens
    <2>3. [open EXCEPT ![o] = NoOpen] \in [Openers -> Opens]
        BY Constants DEF TypeOK
    <2>4. QED
        BY <1>7, <2>2, <2>3 DEF TypeOK, ReadFile
<1>8. ASSUME NEW g \in Pages, TimerFires(g) PROVE TypeOK'
    BY <1>8, FlushTypes DEF TypeOK, TimerFires
<1>9. ASSUME NEW g \in Pages, Settle(g) PROVE TypeOK'
    <2>1. /\ save' \in [Pages -> Saves]
          /\ closing' \in [Pages -> BOOLEAN] /\ leaving' \in [Pages -> BOOLEAN]
        BY <1>9, Constants DEF TypeOK, Settle
    <2>2. {"none", "error", "saved", "dirty"} \subseteq Statuses
        BY DEF Statuses
    <2>3. CASE closing[g] \/ leaving[g]
        <3>1. Discard(g) /\ Report(g, "none")
            BY <1>9, <2>3 DEF Settle
        <3>2. QED
            BY <1>9, <2>1, <2>2, <3>1, DiscardTypes, ReportTypes DEF TypeOK, Settle
    <2>4. ASSUME Written(g) PROVE buf' \in Models /\ tab' \in Statuses
        <3>1. CASE save[g].id = buf.id
            <4>1. buf' \in Models
                BY <2>4, <3>1 DEF Written, MarkSaved, TypeOK, Models, Saves
            <4>2. (IF buf'.text = buf'.saved THEN "saved" ELSE "dirty") \in Statuses
                BY <2>2
            <4>3. Report(g, IF buf'.text = buf'.saved THEN "saved" ELSE "dirty")
                BY <2>4, <3>1 DEF Written
            <4>4. QED
                BY <4>1, <4>2, <4>3, ReportTypes
        <3>2. CASE save[g].id # buf.id
            BY <2>4, <3>2 DEF Written, TypeOK
        <3>3. QED
            BY <3>1, <3>2
    <2>5. ASSUME WriteFailed(g) PROVE buf' \in Models /\ tab' \in Statuses
        BY <2>2, <2>5, ReportTypes DEF WriteFailed, TypeOK
    <2>6. CASE ~(closing[g] \/ leaving[g])
        <3>1. (Written(g) \/ WriteFailed(g)) /\ UNCHANGED timer
            BY <1>9, <2>6 DEF Settle
        <3>2. QED
            BY <1>9, <2>1, <2>4, <2>5, <3>1 DEF TypeOK, Settle
    <2>7. QED
        BY <2>3, <2>6
<1>10. ASSUME NEW o \in Openers, Opened(o) PROVE TypeOK'
    <2>1. open[o].page \in Pages /\ open[o].text \in Texts
        BY DEF TypeOK, Opens
    <2>2. buf' \in Models /\ models' \in 0..MaxModels
        BY <1>10, <2>1, EnsureModelTypes DEF Opened
    <2>3. tab' \in Statuses /\ open' \in [Openers -> Opens]
        BY <1>10, Constants DEF TypeOK, Opened, Statuses
    <2>4. QED
        BY <1>10, <2>2, <2>3 DEF TypeOK, Opened
<1>11. CASE PageSwitches
    <2>1. page \in Pages /\ page' \in Pages /\ tab' \in Statuses /\ tidy' \in BOOLEAN
        BY <1>11, EditorConstants DEF TypeOK, PageSwitches, Statuses, Pages
    <2>2. CASE MustFlush(page)
        <3>1. [pc |-> "sent", text |-> buf.text, id |-> buf.id] \in Saves
            BY DEF TypeOK, Models, Saves
        <3>2. /\ save' \in [Pages -> Saves] /\ timer' \in [Pages -> BOOLEAN]
              /\ leaving' \in [Pages -> BOOLEAN] /\ buf' \in Models
            BY <1>11, <2>2, <3>1 DEF TypeOK, PageSwitches, Unmount
        <3>3. QED
            BY <1>11, <2>1, <3>2 DEF TypeOK, PageSwitches
    <2>3. CASE ~MustFlush(page)
        <3>1. Discard(page) /\ UNCHANGED <<save, leaving>>
            BY <1>11, <2>3 DEF PageSwitches, Unmount
        <3>2. QED
            BY <1>11, <2>1, <3>1, DiscardTypes DEF TypeOK, PageSwitches
    <2>4. QED
        BY <2>2, <2>3
<1>12. CASE UNCHANGED vars
    BY <1>12 DEF TypeOK, vars
<1>13. QED
    BY <1>1, <1>2, <1>3, <1>4, <1>5, <1>6, <1>7, <1>8, <1>9, <1>10, <1>11, <1>12
    DEF Next, User, Network, Tasks

(* The editor's state is always well typed.                                *)
THEOREM TypesHold == Spec => []TypeOK
<1>1. QED
    BY InitTypes, TypeStep, PTL DEF Spec

------------------------------------------------------------------------------
(* Provenance. *)

LEMMA ProvenanceInit == Init => Provenance
<1> SUFFICES ASSUME Init PROVE Provenance
    OBVIOUS
<1>1. ~Live
    BY DEF Init, Live, NoModel
<1>2. /\ \A g \in Pages : save[g].pc = "idle"
      /\ \A o \in Openers : open[o].pc = "idle"
    BY DEF Init, NoSave, NoOpen
<1>3. QED
    BY <1>1, <1>2 DEF Provenance, SavedIsStored

(* The steps that change neither the model's baseline nor a store.         *)
LEMMA ProvenanceKept ==
    ASSUME Provenance,
           UNCHANGED stored,
           Live' => Live /\ buf'.saved = buf.saved,
           \A g \in Pages : save'[g].pc = "stored" => save'[g] = save[g],
           \A o \in Openers : open'[o].pc = "read" => open'[o] = open[o]
    PROVE  Provenance'
<1>1. SavedIsStored'
    BY DEF Provenance, SavedIsStored
<1>2. \A g \in Pages : save'[g].pc = "stored" => save'[g].text \in stored'
    BY DEF Provenance
<1>3. \A o \in Openers : open'[o].pc = "read" => open'[o].text \in stored'
    BY DEF Provenance
<1>4. QED
    BY <1>1, <1>2, <1>3 DEF Provenance

(* A flush starts a write that is not yet stored.                          *)
LEMMA FlushStoresNothing ==
    ASSUME TypeOK, NEW g \in Pages, Flush(g)
    PROVE  \A h \in Pages : save'[h].pc = "stored" => save'[h] = save[h]
<1>1. CASE MaySave(g)
    <2>1. save' = [save EXCEPT ![g] = [pc |-> "sent", text |-> buf.text, id |-> buf.id]]
        BY <1>1 DEF Flush
    <2>2. QED
        BY <2>1 DEF TypeOK
<1>2. CASE ~MaySave(g)
    BY <1>2 DEF Flush
<1>3. QED
    BY <1>1, <1>2

LEMMA ProvenanceStep == TypeOK /\ Provenance /\ [Next]_vars => Provenance'
<1> SUFFICES ASSUME TypeOK, Provenance, [Next]_vars PROVE Provenance'
    OBVIOUS
<1>1. CASE Edit
    <2>1. Changed(texts + 1)
        BY <1>1 DEF Edit
    <2>2. buf'.saved = buf.saved /\ buf'.id = buf.id
        BY <2>1 DEF TypeOK, Changed, Models
    <2>3. QED
        BY <2>1, <2>2, ProvenanceKept DEF Changed, Live
<1>2. CASE Undo
    <2>1. Changed(buf.saved)
        BY <1>2 DEF Undo
    <2>2. buf'.saved = buf.saved /\ buf'.id = buf.id
        BY <2>1 DEF TypeOK, Changed, Models
    <2>3. QED
        BY <2>1, <2>2, ProvenanceKept DEF Changed, Live
<1>3. CASE RunActive
    <2>1. \A h \in Pages : save'[h].pc = "stored" => save'[h] = save[h]
        BY <1>3, FlushStoresNothing DEF TypeOK, RunActive
    <2>2. QED
        BY <1>3, <2>1, ProvenanceKept DEF RunActive, Live
<1>4. CASE Close
    <2>1. CASE MaySave(page)
        <3>1. \A h \in Pages : save'[h].pc = "stored" => save'[h] = save[h]
            BY <1>4, <2>1, FlushStoresNothing DEF TypeOK, Close
        <3>2. QED
            BY <1>4, <2>1, <3>1, ProvenanceKept DEF Close, Live
    <2>2. CASE ~MaySave(page)
        <3>1. ~Live' /\ UNCHANGED <<stored, save, open>>
            BY <1>4, <2>2 DEF Close, Discard, NoModel, Live
        <3>2. QED
            BY <3>1, ProvenanceKept
    <2>3. QED
        BY <2>1, <2>2
<1>5. ASSUME NEW o \in Openers, OpenFile(o) PROVE Provenance'
    <2>1. \A p \in Openers : open'[p].pc = "read" => open'[p] = open[p]
        BY <1>5 DEF TypeOK, OpenFile, NoOpen
    <2>2. QED
        BY <1>5, <2>1, ProvenanceKept DEF OpenFile, Live
<1>6. ASSUME NEW g \in Pages, Upload(g) PROVE Provenance'
    <2>1. stored \subseteq stored'
        BY <1>6 DEF Upload
    <2>2. /\ \A h \in Pages \ {g} : save'[h] = save[h]
          /\ save'[g].pc = "stored" => save'[g].text = save[g].text /\ save[g].text \in stored'
        BY <1>6 DEF TypeOK, Upload, Saves
    <2>3. UNCHANGED <<buf, open>>
        BY <1>6 DEF Upload
    <2>4. SavedIsStored'
        BY <2>1, <2>3 DEF Provenance, SavedIsStored, Live
    <2>5. \A h \in Pages : save'[h].pc = "stored" => save'[h].text \in stored'
        BY <2>1, <2>2 DEF Provenance
    <2>6. \A o \in Openers : open'[o].pc = "read" => open'[o].text \in stored'
        BY <2>1, <2>3 DEF Provenance
    <2>7. QED
        BY <2>1, <2>4, <2>5, <2>6 DEF Provenance
<1>7. ASSUME NEW o \in Openers, ReadFile(o) PROVE Provenance'
    <2>1. open'[o].pc = "read" => open'[o].text \in stored
        BY <1>7 DEF TypeOK, ReadFile, Opens, NoOpen
    <2>2. \A p \in Openers \ {o} : open'[p] = open[p]
        BY <1>7 DEF TypeOK, ReadFile
    <2>3. UNCHANGED <<buf, save, stored>>
        BY <1>7 DEF ReadFile
    <2>4. SavedIsStored'
        BY <2>3 DEF Provenance, SavedIsStored, Live
    <2>5. \A p \in Openers : open'[p].pc = "read" => open'[p].text \in stored'
        BY <2>1, <2>2, <2>3 DEF Provenance
    <2>6. QED
        BY <2>3, <2>4, <2>5 DEF Provenance
<1>8. ASSUME NEW g \in Pages, TimerFires(g) PROVE Provenance'
    <2>1. \A h \in Pages : save'[h].pc = "stored" => save'[h] = save[h]
        BY <1>8, FlushStoresNothing DEF TimerFires
    <2>2. QED
        BY <1>8, <2>1, ProvenanceKept DEF TimerFires, Live
<1>9. ASSUME NEW g \in Pages, Settle(g) PROVE Provenance'
    <2>1. \A h \in Pages : save'[h].pc = "stored" => save'[h] = save[h]
        BY <1>9 DEF TypeOK, Settle, NoSave
    <2>2. UNCHANGED <<open, stored>>
        BY <1>9 DEF Settle
    <2>3. SavedIsStored'
        <3>1. CASE closing[g] \/ leaving[g]
            BY <1>9, <3>1 DEF Settle, Discard, NoModel, SavedIsStored, Live
        <3>2. CASE ~(closing[g] \/ leaving[g]) /\ save[g].pc = "stored"
            <4>1. CASE save[g].id = buf.id
                <5>1. buf'.saved = save[g].text
                    BY <1>9, <3>2, <4>1 DEF Settle, Written, MarkSaved, TypeOK, Models
                <5>2. QED
                    BY <2>2, <3>2, <5>1 DEF Provenance, SavedIsStored
            <4>2. CASE save[g].id # buf.id
                BY <1>9, <2>2, <3>2, <4>2 DEF Settle, Written, Provenance, SavedIsStored, Live
            <4>3. QED
                BY <4>1, <4>2
        <3>3. CASE ~(closing[g] \/ leaving[g]) /\ save[g].pc = "failed"
            BY <1>9, <2>2, <3>3 DEF Settle, WriteFailed, Provenance, SavedIsStored, Live
        <3>4. QED
            BY <1>9, <3>1, <3>2, <3>3 DEF Settle
    <2>4. QED
        BY <2>1, <2>2, <2>3 DEF Provenance
<1>10. ASSUME NEW o \in Openers, Opened(o) PROVE Provenance'
    <2>1. UNCHANGED <<save, stored>>
        BY <1>10 DEF Opened
    <2>2. \A p \in Openers : open'[p].pc = "read" => open'[p] = open[p]
        BY <1>10 DEF TypeOK, Opened, NoOpen
    <2>3. open[o].text \in stored
        BY <1>10 DEF Opened, Provenance
    <2>4. SavedIsStored'
        <3>1. CASE Live
            <4>1. buf'.saved = buf.saved
                BY <1>10, <3>1 DEF Opened, EnsureModel, TypeOK, Models
            <4>2. QED
                BY <2>1, <3>1, <4>1 DEF Provenance, SavedIsStored
        <3>2. CASE ~Live
            BY <1>10, <2>1, <2>3, <3>2 DEF Opened, EnsureModel, SavedIsStored
        <3>3. QED
            BY <3>1, <3>2
    <2>5. QED
        BY <2>1, <2>2, <2>4 DEF Provenance
<1>11. CASE PageSwitches
    <2>1. Live' => Live /\ buf'.saved = buf.saved
        BY <1>11 DEF PageSwitches, Unmount, Discard, NoModel, Live
    <2>2. \A h \in Pages : save'[h].pc = "stored" => save'[h] = save[h]
        BY <1>11 DEF TypeOK, PageSwitches, Unmount
    <2>3. QED
        BY <1>11, <2>1, <2>2, ProvenanceKept DEF PageSwitches
<1>12. CASE UNCHANGED vars
    BY <1>12, ProvenanceKept DEF vars, Live
<1>13. QED
    BY <1>1, <1>2, <1>3, <1>4, <1>5, <1>6, <1>7, <1>8, <1>9, <1>10, <1>11, <1>12
    DEF Next, User, Network, Tasks

(* Whatever answers late, whatever fails and however the pages and their   *)
(* openFile calls overlap: a baseline is a text that has been in a store.  *)
THEOREM SavedIsStoredHolds == Spec => []SavedIsStored
<1>1. Provenance => SavedIsStored
    BY DEF Provenance
<1>2. QED
    BY <1>1, TypesHold, ProvenanceInit, ProvenanceStep, PTL DEF Spec

------------------------------------------------------------------------------
(* Tidiness. *)

LEMMA TidinessInit == Init => Tidiness
<1> SUFFICES ASSUME Init PROVE Tidiness
    OBVIOUS
<1>1. ~Live /\ ~Dirty /\ tab = "none"
    BY DEF Init, Live, Dirty, NoModel
<1>2. /\ \A g \in Pages : ~leaving[g] /\ ~timer[g] /\ ~InFlight(g)
      /\ \A o \in Openers : open[o].pc = "idle"
    BY DEF Init, NoSave, NoOpen, InFlight
<1>3. QED
    BY <1>1, <1>2 DEF Tidiness, OnlyThePage

(* A change of the model by its page keeps Tidiness.                       *)
LEMMA ChangedTidy ==
    ASSUME TypeOK, Tidiness, NEW text \in Texts, Changed(text)
    PROVE  Tidiness'
<1> SUFFICES ASSUME tidy PROVE Tidiness'
    BY DEF Changed, Tidiness
<1>1. Live /\ buf.listeners = {page} /\ tab # "none"
    BY DEF Changed, Tidiness, OnlyThePage
<1>2. Live' /\ buf'.listeners = {page} /\ buf'.saved = buf.saved /\ buf'.text = text
    BY <1>1 DEF Changed, TypeOK, Models, Live
<1>3. tab' = IF text = buf.saved THEN "clean" ELSE "dirty"
    BY <1>1 DEF Changed, Report
<1>4. \A g \in Pages \ {page} : ~timer'[g]
    BY <1>1 DEF Changed, Tidiness, OnlyThePage
<1>5. OnlyThePage'
    BY <1>2, <1>4 DEF Changed, Tidiness, OnlyThePage, InFlight
<1>6. (Live <=> tab # "none")' /\ (tab \in {"clean", "saved"} => ~Dirty)'
    BY <1>2, <1>3 DEF Dirty
<1>7. QED
    BY <1>5, <1>6 DEF Tidiness

(* So does a flush by the page, and any flush when every other is idle.    *)
LEMMA FlushTidy ==
    ASSUME TypeOK, Tidiness, NEW g \in Pages, Flush(g), tidy => g = page,
           UNCHANGED <<page, buf, leaving, open, tidy>>
    PROVE  Tidiness'
<1> SUFFICES ASSUME tidy PROVE Tidiness'
    BY DEF Tidiness
<1>1. g = page
    OBVIOUS
<1>2. \A h \in Pages \ {page} : timer'[h] = timer[h] /\ save'[h] = save[h]
    BY <1>1 DEF Flush, TypeOK
<1>3. OnlyThePage'
    BY <1>2 DEF Tidiness, OnlyThePage, InFlight, Live
<1>4. CASE MaySave(g)
    <2>1. tab # "none"
        BY <1>4 DEF MaySave, Dirty, Tidiness
    <2>2. tab' = "saving"
        BY <1>1, <1>4, <2>1 DEF Flush, Report
    <2>3. QED
        BY <1>3, <2>1, <2>2 DEF Tidiness, Live, Dirty
<1>5. CASE ~MaySave(g)
    BY <1>3, <1>5 DEF Flush, Tidiness, Live, Dirty
<1>6. QED
    BY <1>4, <1>5

(* What only moves a write on.                                             *)
LEMMA TidyKept ==
    ASSUME Tidiness, UNCHANGED <<page, buf, tab, timer, leaving, open, tidy>>,
           \A g \in Pages : InFlight(g)' => InFlight(g)
    PROVE  Tidiness'
<1>1. OnlyThePage => OnlyThePage'
    BY DEF OnlyThePage, Live
<1>2. QED
    BY <1>1 DEF Tidiness, Live, Dirty

LEMMA TidinessStep == TypeOK /\ Tidiness /\ [Next]_vars => Tidiness'
<1> SUFFICES ASSUME TypeOK, Tidiness, [Next]_vars PROVE Tidiness'
    OBVIOUS
<1>1. CASE Edit
    <2>1. texts + 1 \in Texts /\ Changed(texts + 1)
        BY <1>1, EditorConstants DEF TypeOK, Edit, Texts
    <2>2. QED
        BY <2>1, ChangedTidy
<1>2. CASE Undo
    <2>1. buf.saved \in Texts /\ Changed(buf.saved)
        BY <1>2 DEF TypeOK, Undo, Models
    <2>2. QED
        BY <2>1, ChangedTidy
<1>3. CASE RunActive
    BY <1>3, FlushTidy DEF TypeOK, RunActive
<1>4. CASE Close
    <2>1. CASE MaySave(page)
        BY <1>4, <2>1, FlushTidy DEF TypeOK, Close
    <2>2. CASE ~MaySave(page)
        <3>1. ~Live' /\ ~Dirty' /\ tab' = "none"
            BY <1>4, <2>2 DEF Close, Discard, NoModel, Live, Dirty
        <3>2. \A g \in Pages \ {page} : timer'[g] = timer[g]
            BY <1>4, <2>2 DEF Close, Discard, TypeOK
        <3>3. UNCHANGED <<page, save, leaving, open, tidy>>
            BY <1>4, <2>2 DEF Close
        <3>4. tidy => OnlyThePage'
            BY <3>1, <3>2, <3>3 DEF Tidiness, OnlyThePage, InFlight
        <3>5. QED
            BY <3>1, <3>3, <3>4 DEF Tidiness
    <2>3. QED
        BY <2>1, <2>2
<1>5. ASSUME NEW o \in Openers, OpenFile(o) PROVE Tidiness'
    <2>1. /\ open'[o].page = page
          /\ \A p \in Openers \ {o} : open'[p] = open[p]
        BY <1>5 DEF TypeOK, OpenFile, NoOpen
    <2>2. UNCHANGED <<page, buf, tab, timer, save, leaving, tidy>>
        BY <1>5 DEF OpenFile
    <2>3. tidy => OnlyThePage'
        BY <2>1, <2>2 DEF Tidiness, OnlyThePage, InFlight, Live
    <2>4. QED
        BY <2>2, <2>3 DEF Tidiness, Live, Dirty
<1>6. ASSUME NEW g \in Pages, Upload(g) PROVE Tidiness'
    <2>1. \A h \in Pages : InFlight(h)' => InFlight(h)
        BY <1>6 DEF TypeOK, Upload, InFlight, Saves
    <2>2. QED
        BY <1>6, <2>1, TidyKept DEF Upload
<1>7. ASSUME NEW o \in Openers, ReadFile(o) PROVE Tidiness'
    <2>1. \A p \in Openers \ {o} : open'[p] = open[p]
        BY <1>7 DEF TypeOK, ReadFile
    <2>2. open'[o].pc # "idle" => open[o].pc # "idle" /\ open'[o].page = open[o].page
        BY <1>7 DEF TypeOK, ReadFile, Opens, NoOpen
    <2>3. UNCHANGED <<page, buf, tab, timer, save, leaving, tidy>>
        BY <1>7 DEF ReadFile
    <2>4. tidy => OnlyThePage'
        BY <2>1, <2>2, <2>3 DEF Tidiness, OnlyThePage, InFlight, Live
    <2>5. QED
        BY <2>3, <2>4 DEF Tidiness, Live, Dirty
<1>8. ASSUME NEW g \in Pages, TimerFires(g) PROVE Tidiness'
    <2>1. tidy => g = page
        BY <1>8 DEF TimerFires, Tidiness, OnlyThePage
    <2>2. QED
        BY <1>8, <2>1, FlushTidy DEF TimerFires
<1>9. ASSUME NEW g \in Pages, Settle(g) PROVE Tidiness'
    <2> SUFFICES ASSUME tidy PROVE Tidiness'
        BY <1>9 DEF Settle, Tidiness
    <2>1. g = page /\ ~leaving[g]
        BY <1>9 DEF Settle, Tidiness, OnlyThePage, InFlight
    <2>2. /\ \A h \in Pages \ {page} : save'[h] = save[h]
          /\ \A h \in Pages : ~leaving'[h]
          /\ UNCHANGED <<page, open, tidy>>
        BY <1>9, <2>1 DEF Settle, TypeOK, Tidiness, OnlyThePage
    <2>3. CASE closing[g]
        <3>1. Discard(g) /\ Report(g, "none")
            BY <1>9, <2>3 DEF Settle
        <3>2. ~Live' /\ ~Dirty' /\ tab' = "none"
            BY <2>1, <3>1 DEF Discard, Report, NoModel, Live, Dirty
        <3>3. \A h \in Pages \ {page} : timer'[h] = timer[h]
            BY <2>1, <3>1 DEF Discard, TypeOK
        <3>4. OnlyThePage'
            BY <2>2, <3>2, <3>3 DEF Tidiness, OnlyThePage, InFlight
        <3>5. QED
            BY <3>2, <3>4 DEF Tidiness
    <2>4. CASE ~closing[g]
        <3>1. (Written(g) \/ WriteFailed(g)) /\ timer' = timer
            BY <1>9, <2>1, <2>4 DEF Settle
        <3>2. buf'.id = buf.id /\ buf'.listeners = buf.listeners
            BY <3>1 DEF Written, WriteFailed, MarkSaved, TypeOK, Models
        <3>3. OnlyThePage'
            BY <2>2, <3>1, <3>2 DEF Tidiness, OnlyThePage, InFlight, Live
        <3>4. CASE Written(g) /\ save[g].id = buf.id
            <4>1. tab' = IF tab # "none" THEN IF buf'.text = buf'.saved THEN "saved" ELSE "dirty" ELSE tab
                BY <2>1, <3>4 DEF Written, Report
            <4>2. QED
                BY <3>2, <3>3, <4>1 DEF Tidiness, Live, Dirty
        <3>5. CASE Written(g) /\ save[g].id # buf.id
            BY <3>3, <3>5 DEF Written, Tidiness, Live, Dirty
        <3>6. CASE WriteFailed(g)
            BY <2>1, <3>3, <3>6 DEF WriteFailed, Report, Tidiness, Live, Dirty
        <3>7. QED
            BY <3>1, <3>4, <3>5, <3>6
    <2>5. QED
        BY <2>3, <2>4
<1>10. ASSUME NEW o \in Openers, Opened(o) PROVE Tidiness'
    <2> SUFFICES ASSUME tidy PROVE Tidiness'
        BY <1>10 DEF Opened, Tidiness
    <2>1. open[o].page = page
        BY <1>10 DEF Opened, Tidiness, OnlyThePage
    <2>2. /\ \A p \in Openers : open'[p].pc # "idle" => open'[p] = open[p]
          /\ UNCHANGED <<page, timer, save, leaving, tidy>>
        BY <1>10 DEF Opened, TypeOK, NoOpen
    <2>3. CASE Live
        <3>1. tab # "none" /\ buf.listeners = {page}
            BY <2>3 DEF Tidiness, OnlyThePage
        <3>2. buf'.listeners = {page} /\ buf'.id = buf.id /\ buf'.text = buf.text /\ buf'.saved = buf.saved
            BY <1>10, <2>1, <2>3, <3>1 DEF Opened, EnsureModel, TypeOK, Models
        <3>3. tab' = tab
            BY <1>10, <3>1 DEF Opened
        <3>4. OnlyThePage'
            BY <2>2, <3>2 DEF Tidiness, OnlyThePage, InFlight
        <3>5. QED
            BY <3>2, <3>3, <3>4 DEF Tidiness, Live, Dirty
    <2>4. CASE ~Live
        <3>1. tab = "none"
            BY <2>4 DEF Tidiness
        <3>2. tab' = "clean"
            BY <1>10, <2>1, <3>1 DEF Opened
        <3>3. /\ models \in Nat /\ models' = models + 1
              /\ buf'.id = models' /\ buf'.listeners = {page} /\ buf'.text = buf'.saved
            BY <1>10, <2>1, <2>4, EditorConstants DEF Opened, EnsureModel, TypeOK
        <3>4. Live' /\ ~Dirty'
            BY <3>3 DEF Live, Dirty
        <3>5. OnlyThePage'
            BY <2>2, <3>3 DEF Tidiness, OnlyThePage, InFlight
        <3>6. QED
            BY <3>2, <3>4, <3>5 DEF Tidiness
    <2>5. QED
        BY <2>3, <2>4
<1>11. CASE PageSwitches
    <2> SUFFICES ASSUME tidy' PROVE Tidiness'
        BY DEF Tidiness
    <2>1. /\ tidy /\ ~MustFlush(page) /\ ~InFlight(page) /\ tab' = "none"
          /\ \A o \in Openers : open[o].pc = "idle"
        BY <1>11 DEF PageSwitches
    <2>2. Discard(page) /\ UNCHANGED <<save, leaving, open>>
        BY <1>11, <2>1 DEF PageSwitches, Unmount
    <2>3. ~Live' /\ ~Dirty'
        BY <2>2 DEF Discard, NoModel, Live, Dirty
    <2>4. \A g \in Pages : ~timer'[g] /\ ~InFlight(g)' /\ ~leaving'[g]
        BY <2>1, <2>2 DEF Discard, TypeOK, Tidiness, OnlyThePage, InFlight
    <2>5. OnlyThePage'
        BY <2>1, <2>2, <2>3, <2>4 DEF OnlyThePage
    <2>6. QED
        BY <2>1, <2>3, <2>5 DEF Tidiness
<1>12. CASE UNCHANGED vars
    BY <1>12, TidyKept DEF vars, InFlight
<1>13. QED
    BY <1>1, <1>2, <1>3, <1>4, <1>5, <1>6, <1>7, <1>8, <1>9, <1>10, <1>11, <1>12
    DEF Next, User, Network, Tasks

(* As long as every page was left with nothing pending, no model outlives  *)
(* its tab and no tab its model, through any number of switches, and the   *)
(* tab never looks saved over unsaved edits.                               *)
THEOREM TabShowsModelHolds == Spec => []TabShowsModel
<1>1. Tidiness => TabShowsModel
    BY DEF Tidiness, TabShowsModel
<1>2. QED
    BY <1>1, TypesHold, TidinessInit, TidinessStep, PTL DEF Spec

(* Unsaved edits are dropped only while a write is unsettled, or when the  *)
(* page is left after its timer has fired for them.                        *)
THEOREM FlushedFirstHolds == Spec => FlushedFirst
<1> DEFINE Excused == (\E g \in Pages : InFlight(g)) \/ (page' # page /\ ~timer[page])
<1>1. ASSUME TypeOK, [Next]_vars, Dirty, buf'.id = 0 PROVE Excused
    <2>1. buf.id # 0 /\ page \in Pages
        BY <1>1 DEF TypeOK, Dirty, Live
    <2>2. CASE Close
        <3>1. ~MaySave(page)
            BY <1>1, <2>1, <2>2 DEF Close
        <3>2. QED
            BY <1>1, <2>1, <3>1 DEF MaySave
    <2>3. CASE PageSwitches
        <3>1. ~MustFlush(page) /\ page' # page
            BY <1>1, <2>1, <2>3 DEF PageSwitches, Unmount
        <3>2. QED
            BY <1>1, <2>1, <3>1 DEF MustFlush, MaySave
    <2>4. ASSUME NEW g \in Pages, Settle(g) PROVE Excused
        BY <2>4 DEF Settle, InFlight
    <2>5. ASSUME NEW text, Changed(text) PROVE FALSE
        BY <1>1, <2>1, <2>5 DEF Changed, TypeOK, Models
    <2>6. ASSUME NEW o \in Openers, Opened(o) PROVE FALSE
        BY <1>1, <2>1, <2>6 DEF Opened, EnsureModel, Live, TypeOK, Models
    <2>7. CASE UNCHANGED buf
        BY <1>1, <2>1, <2>7
    <2>8. CASE Edit \/ Undo
        BY <2>5, <2>8 DEF Edit, Undo
    <2>9. CASE RunActive \/ UNCHANGED vars
        BY <2>7, <2>9 DEF RunActive, vars
    <2>10. CASE \E g \in Pages : Upload(g) \/ TimerFires(g)
        BY <2>7, <2>10 DEF Upload, TimerFires
    <2>11. CASE \E o \in Openers : OpenFile(o) \/ ReadFile(o)
        BY <2>7, <2>11 DEF OpenFile, ReadFile
    <2>12. QED
        BY <1>1, <2>2, <2>3, <2>4, <2>6, <2>8, <2>9, <2>10, <2>11 DEF Next, User, Network, Tasks
<1>2. TypeOK /\ [Next]_vars => [Dirty /\ buf'.id = 0 => Excused]_vars
    BY <1>1
<1>3. QED
    BY <1>2, TypesHold, PTL DEF Spec, FlushedFirst
=============================================================================
