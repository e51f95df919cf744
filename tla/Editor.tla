-------------------------------- MODULE Editor --------------------------------
(***************************************************************************)
(* One file in the editor of the UI: its Monaco model in the registry that *)
(* all pages share, the autosave and the tab of each page, and its reads   *)
(* and writes of the store (node/ui: lib/editor/{autosave,models,          *)
(* sessionReducer}, components/editor/EditorSessionContext, lib/files/     *)
(* store; crates/portal: service/files).                                   *)
(*                                                                         *)
(* Page g is the g-th mount of the editor: going to another route and back *)
(* or switching the environment unmounts it and mounts the next, but its   *)
(* pending promises and timers live on.  JavaScript runs one task at a     *)
(* time: an action is a task up to its next await of the network.  A text  *)
(* is the number of its making; it stands for Monaco's version id too.     *)
(* Which of the texts that were ever stored a read finds is left open: the *)
(* host may have another environment active by then, with a file of its    *)
(* own at the path, and other clients write the store.                     *)
(***************************************************************************)
EXTENDS Naturals, FiniteSets

CONSTANTS
    Openers,     \* openFile calls in progress at a time (restore, tree, links)
    MaxPages,    \* bound: mounts of the editor
    MaxTexts,    \* bound: texts, the file's first included
    MaxModels    \* bound: models created

ASSUME EditorConstants ==
    /\ {MaxPages, MaxTexts} \subseteq Nat \ {0} /\ MaxModels \in Nat

VARIABLES
    page,     \* the mounted page
    buf,      \* the registry's model of the file
    tab,      \* the file's tab in the mounted page: its save status, or none
    timer,    \* per page, the autosave's debounce timer is armed
    save,     \* per page, the autosave's write in flight (inFlight)
    closing,  \* per page, a close waits for the write it began
    leaving,  \* per page, its unmount waits for the write it began
    open,     \* openFile calls
    texts,    \* number of texts made
    models,   \* number of models created
    stored,   \* texts that have been in a store
    tidy      \* history: no page was left with a write or an openFile pending

vars == <<page, buf, tab, timer, save, closing, leaving, open, texts, models,
          stored, tidy>>

Pages    == 1..MaxPages
Texts    == 1..MaxTexts

Statuses == {"none", "clean", "dirty", "saving", "saved", "error"}

(* id names the model, 0 if the registry has none; saved is the baseline;  *)
(* listeners are the pages whose autosave hears its edits.                 *)
Models  == [id : 0..MaxModels, text : Texts, saved : Texts, listeners : SUBSET Pages]
NoModel == [id |-> 0, text |-> 1, saved |-> 1, listeners |-> {}]

Saves  == [pc : {"idle", "sent", "stored", "failed"}, text : Texts, id : 0..MaxModels]
NoSave == [pc |-> "idle", text |-> 1, id |-> 0]

Opens  == [pc : {"idle", "asked", "read"}, page : Pages, text : Texts]
NoOpen == [pc |-> "idle", page |-> 1, text |-> 1]

Init ==
    /\ page = 1
    /\ buf = NoModel /\ tab = "none"
    /\ timer = [g \in Pages |-> FALSE]
    /\ save = [g \in Pages |-> NoSave]
    /\ closing = [g \in Pages |-> FALSE]
    /\ leaving = [g \in Pages |-> FALSE]
    /\ open = [o \in Openers |-> NoOpen]
    /\ texts = 1 /\ models = 0
    /\ stored = {1} /\ tidy = TRUE

Live        == buf.id # 0
Dirty       == Live /\ buf.text # buf.saved
InFlight(g) == save[g].pc # "idle"

(* A status is dispatched to the page's own tabs: it changes nothing if    *)
(* the page is not mounted or the tab is closed.                           *)
Report(g, status) == tab' = IF g = page /\ tab # "none" THEN status ELSE tab

------------------------------------------------------------------------------
(* Editing. *)

(* The listeners re-arm the timer of their autosave and report the status. *)
Changed(text) ==
    /\ Live /\ tab # "none"
    /\ buf' = [buf EXCEPT !.text = text]
    /\ timer' = [g \in Pages |-> timer[g] \/ g \in buf.listeners]
    /\ IF page \in buf.listeners
       THEN Report(page, IF text = buf.saved THEN "clean" ELSE "dirty")
       ELSE UNCHANGED tab
    /\ UNCHANGED <<page, save, closing, leaving, open, models, stored, tidy>>

Edit == /\ texts < MaxTexts
        /\ texts' = texts + 1
        /\ Changed(texts')

(* Undo or redo back to the saved version.                                 *)
Undo == Dirty /\ Changed(buf.saved) /\ UNCHANGED texts

------------------------------------------------------------------------------
(* Saving. *)

MaySave(g) == ~InFlight(g) /\ Dirty

(* flush up to its await: the timer is cancelled, and if no write of this  *)
(* page is in flight and the model is dirty, its text and version are sent.*)
Flush(g) ==
    /\ timer' = [timer EXCEPT ![g] = FALSE]
    /\ IF MaySave(g)
       THEN /\ save' = [save EXCEPT ![g] = [pc |-> "sent", text |-> buf.text, id |-> buf.id]]
            /\ Report(g, "saving")
       ELSE UNCHANGED <<save, tab>>

\* Mutant: the debounce takes its timer off and leaves the model to the next one.
TimerOnly(g) ==
    /\ timer[g]
    /\ timer' = [timer EXCEPT ![g] = FALSE]
    /\ UNCHANGED <<page, buf, tab, save, closing, leaving, open, texts, models, stored, tidy>>

TimerFires(g) ==
    /\ timer[g]
    /\ Flush(g)
    /\ UNCHANGED <<page, buf, closing, leaving, open, texts, models, stored, tidy>>

(* Run flushes before it executes the buffer.                              *)
RunActive ==
    /\ Live /\ tab # "none"
    /\ Flush(page)
    /\ UNCHANGED <<page, buf, closing, leaving, open, texts, models, stored, tidy>>

(* The write replaces the file whatever it holds by then: neither server   *)
(* looks at the if-match header.  It may fail, before or after that.       *)
Upload(g) ==
    /\ save[g].pc = "sent"
    /\ \/ /\ stored' = stored \cup {save[g].text}
          /\ \E pc \in {"stored", "failed"} : save' = [save EXCEPT ![g].pc = pc]
       \/ /\ save' = [save EXCEPT ![g].pc = "failed"]
          /\ UNCHANGED stored
    /\ UNCHANGED <<page, buf, tab, timer, closing, leaving, open, texts, models, tidy>>

\* Mutant: the baseline advances to the model's version after the write.
MarkCurrent(g) == buf' = [buf EXCEPT !.saved = buf.text]

(* Only the version that was written becomes the baseline, and only if the *)
(* model it was taken from is not disposed.                                *)
MarkSaved(g) == buf' = [buf EXCEPT !.saved = save[g].text]

\* Mutant: a finished write makes the tab saved, whatever was typed meanwhile.
WrittenIsSaved(g) ==
    IF save[g].id = buf.id THEN MarkSaved(g) /\ Report(g, "saved") ELSE UNCHANGED <<buf, tab>>

Written(g) ==
    IF save[g].id = buf.id
    THEN MarkSaved(g) /\ Report(g, IF buf'.text = buf'.saved THEN "saved" ELSE "dirty")
    ELSE UNCHANGED <<buf, tab>>

\* Mutant: the error of a write is swallowed.
FailedInSilence(g) == UNCHANGED <<buf, tab>>

WriteFailed(g) == Report(g, "error") /\ UNCHANGED buf

(* disposeModel, and all that close or the unmount of page g takes with it.*)
Discard(g) ==
    /\ buf' = NoModel
    /\ timer' = [timer EXCEPT ![g] = FALSE]

(* The write is over, well or not; a close or an unmount that awaited it   *)
(* goes on to discard the model.                                           *)
Settle(g) ==
    /\ save[g].pc \in {"stored", "failed"}
    /\ save' = [save EXCEPT ![g] = NoSave]
    /\ closing' = [closing EXCEPT ![g] = FALSE]
    /\ leaving' = [leaving EXCEPT ![g] = FALSE]
    /\ IF closing[g] \/ leaving[g]
       THEN Discard(g) /\ Report(g, "none")
       ELSE /\ \/ save[g].pc = "stored" /\ Written(g)
               \/ save[g].pc = "failed" /\ WriteFailed(g)
            /\ UNCHANGED timer
    /\ UNCHANGED <<page, open, texts, models, stored, tidy>>

------------------------------------------------------------------------------
(* Opening, closing and leaving. *)

(* A file with a model is only activated; otherwise its bytes are asked for*)
OpenFile(o) ==
    /\ open[o].pc = "idle" /\ ~Live
    /\ open' = [open EXCEPT ![o] = [NoOpen EXCEPT !.pc = "asked", !.page = page]]
    /\ UNCHANGED <<page, buf, tab, timer, save, closing, leaving, texts, models, stored, tidy>>

ReadFile(o) ==
    /\ open[o].pc = "asked"
    /\ \/ \E text \in stored : open' = [open EXCEPT ![o].pc = "read", ![o].text = text]
       \/ open' = [open EXCEPT ![o] = NoOpen]
    /\ UNCHANGED <<page, buf, tab, timer, save, closing, leaving, texts, models, stored, tidy>>

(* The registered model if there is one by now, else a new one; page g     *)
(* listens to it.                                                          *)
EnsureModel(g, text) ==
    IF Live
    THEN /\ buf' = [buf EXCEPT !.listeners = @ \cup {g}]
         /\ UNCHANGED models
    ELSE /\ models < MaxModels
         /\ models' = models + 1
         /\ buf' = [id |-> models', text |-> text, saved |-> text, listeners |-> {g}]

Opened(o) ==
    /\ open[o].pc = "read"
    /\ EnsureModel(open[o].page, open[o].text)
    /\ tab' = IF open[o].page = page /\ tab = "none" THEN "clean" ELSE tab
    /\ open' = [open EXCEPT ![o] = NoOpen]
    /\ UNCHANGED <<page, timer, save, closing, leaving, texts, stored, tidy>>

\* Mutant: close cancels the timer and does not flush.
CloseUnsaved ==
    /\ tab # "none"
    /\ Discard(page)
    /\ tab' = "none"
    /\ UNCHANGED <<page, save, closing, leaving, open, texts, models, stored, tidy>>

(* close awaits its flush: the write it begins, or nothing at all when the *)
(* model is clean or a write is already in flight.                         *)
Close ==
    /\ tab # "none"
    /\ IF MaySave(page)
       THEN /\ Flush(page)
            /\ closing' = [closing EXCEPT ![page] = TRUE]
            /\ UNCHANGED buf
       ELSE /\ Discard(page)
            /\ tab' = "none"
            /\ UNCHANGED <<save, closing>>
    /\ UNCHANGED <<page, leaving, open, texts, models, stored, tidy>>

(* The page is unmounted, for another route or by the gate, and the next   *)
(* one mounted: flushAll flushes the tabs whose timer is armed, and then   *)
(* every model there is is disposed of.                                    *)
MustFlush(g) == timer[g] /\ MaySave(g)

\* Mutant: the unmount leaves the registry's models behind.
UnmountKeepsModels(g) ==
    IF MustFlush(g)
    THEN /\ timer' = [timer EXCEPT ![g] = FALSE]
         /\ save' = [save EXCEPT ![g] = [pc |-> "sent", text |-> buf.text, id |-> buf.id]]
         /\ leaving' = [leaving EXCEPT ![g] = TRUE]
         /\ UNCHANGED buf
    ELSE /\ timer' = [timer EXCEPT ![g] = FALSE]
         /\ UNCHANGED <<buf, save, leaving>>

Unmount(g) ==
    IF MustFlush(g)
    THEN /\ timer' = [timer EXCEPT ![g] = FALSE]
         /\ save' = [save EXCEPT ![g] = [pc |-> "sent", text |-> buf.text, id |-> buf.id]]
         /\ leaving' = [leaving EXCEPT ![g] = TRUE]
         /\ UNCHANGED buf
    ELSE Discard(g) /\ UNCHANGED <<save, leaving>>

PageSwitches ==
    /\ page < MaxPages
    /\ page' = page + 1
    /\ tab' = "none"
    /\ Unmount(page)
    /\ tidy' = (tidy /\ ~MustFlush(page) /\ ~InFlight(page) /\ \A o \in Openers : open[o].pc = "idle")
    /\ UNCHANGED <<closing, open, texts, models, stored>>

User    == Edit \/ Undo \/ RunActive \/ Close \/ \E o \in Openers : OpenFile(o)
Network == (\E g \in Pages : Upload(g)) \/ \E o \in Openers : ReadFile(o)
Tasks   == (\E g \in Pages : TimerFires(g) \/ Settle(g)) \/ \E o \in Openers : Opened(o)

Next == User \/ Network \/ Tasks \/ PageSwitches
Spec == Init /\ [][Next]_vars

(* The event loop runs armed timers and settled promises, and the network  *)
(* answers a write; nothing is asked of the user.                          *)
FairSpec == Spec /\ \A g \in Pages :
                        WF_vars(TimerFires(g)) /\ WF_vars(Upload(g)) /\ WF_vars(Settle(g))

------------------------------------------------------------------------------
TypeOK ==
    /\ page \in Pages
    /\ buf \in Models /\ tab \in Statuses
    /\ timer \in [Pages -> BOOLEAN]
    /\ save \in [Pages -> Saves]
    /\ closing \in [Pages -> BOOLEAN] /\ leaving \in [Pages -> BOOLEAN]
    /\ open \in [Openers -> Opens]
    /\ texts \in Texts /\ models \in 0..MaxModels
    /\ stored \subseteq Texts /\ tidy \in BOOLEAN

(* What the editor takes for saved has been in a store, whatever was typed *)
(* while it was written and whichever model a late answer meets.           *)
SavedIsStored == Live => buf.saved \in stored

(* On a page that was not left in the middle of something a tab and its    *)
(* model agree: no model outlives its page, no tab its model, and a tab    *)
(* that looks saved has no unsaved edits; the tab strip and the warning    *)
(* before the window closes go by the status alone.                        *)
TabShowsModel ==
    tidy => /\ Live <=> tab # "none"
            /\ tab \in {"clean", "saved"} => ~Dirty

(* Unsaved edits are dropped only when a write is unsettled or a page is   *)
(* left whose timer has already fired for them.                            *)
FlushedFirst ==
    [][Dirty /\ buf'.id = 0 => \/ \E g \in Pages : InFlight(g)
                               \/ page' # page /\ ~timer[page]]_vars

TimerSaves == \A g \in Pages : (timer[g] /\ Dirty) ~> (InFlight(g) \/ ~Dirty)

SavingEnds == (tab = "saving" /\ tidy) ~> (tab # "saving" \/ ~tidy)

(* Edits do not wait for ever: an armed timer leads to a write, if there is *)
(* still one to do, and a tab does not stay in "saving": whatever becomes  *)
(* of its write is told (autosave.ts, flush).                              *)
EditsSettle == TimerSaves /\ SavingEnds

(* The comment of flush on a model that moved on during the write: it      *)
(* stays dirty and the next debounce or flush catches up.                  *)
CatchesUp == \A g \in Pages :
    (Dirty /\ page = g /\ tab # "none") ~> (~Dirty \/ InFlight(g) \/ page # g \/ tab \in {"none", "error"})

===============================================================================
