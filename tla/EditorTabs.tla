------------------------------ MODULE EditorTabs ------------------------------
(***************************************************************************)
(* The tabs of the editor's page, where they are kept when it goes, and    *)
(* what it opens when it comes again (useTabPersistence.ts,                *)
(* sessionReducer.ts, openFile of EditorSessionContext.tsx): the open tabs *)
(* are in sessionStorage, under a key of the environment, the active one   *)
(* is in the URL.  What a commit of React does, effects included, is one   *)
(* step.  Models and saves are the matter of Editor: in this one it has a  *)
(* model just when it has a tab, and a close is its last step.             *)
(***************************************************************************)
EXTENDS Sequences, SequencesExt

CONSTANTS Places,     \* environments
          Documents,  \* paths; each is there, or not, in every environment
          Notebooks,  \* those opened without a read
          Nowhere,    \* no path
          MaxMounts   \* mounts of the page (bound)

ASSUME TabsAssumption ==
  /\ Notebooks \subseteq Documents /\ Nowhere \notin Documents
  /\ MaxMounts \in Nat

VARIABLES here,       \* the environment whose application is shown
          openTabs,    \* sessionStorage: the tabs kept for each environment
          urlPath,     \* ?path=
          page,        \* the page: gone, mounted, or with its editor (editorReady, restoredRef)
          tabs,        \* its tabs in the order of the strip
          activeId,
          restore,     \* the restoration: what it has still to open, and what it activates in the end
          reads,       \* files being read for a click, and for the restoration
          mounts,
          wanted,      \* (history) what the user opened in each environment and did not close
          carried,     \* (history) what the URL brought from another environment
          excused      \* (history) environments a restoration of which was broken off or used, or failed

tabVars == <<here, openTabs, urlPath, page, tabs, activeId, restore, reads, mounts, wanted, carried, excused>>

NoRestore == [todo |-> <<>>, target |-> Nowhere, on |-> FALSE]
Strips == {s \in Seq(Documents) : IsInjective(s)}

TabsTypeOK ==
  /\ here \in Places
  /\ openTabs \in [Places -> Strips]
  /\ urlPath \in Documents \union {Nowhere}
  /\ page \in {"gone", "mounted", "ready"}
  /\ tabs \in Strips
  /\ activeId \in Documents \union {Nowhere}
  /\ restore \in [todo : Strips, target : Documents \union {Nowhere}, on : BOOLEAN]
  /\ reads \subseteq Documents \X {"click", "restore"}
  /\ mounts \in 0..MaxMounts
  /\ wanted \in [Places -> SUBSET Documents] /\ carried \in [Places -> SUBSET Documents]
  /\ excused \subseteq Places

TabsInit ==
  /\ here \in Places
  /\ openTabs = [e \in Places |-> <<>>]
  /\ urlPath = Nowhere
  /\ page = "gone" /\ tabs = <<>> /\ activeId = Nowhere
  /\ restore = NoRestore /\ reads = {}
  /\ mounts = 0
  /\ wanted = [e \in Places |-> {}] /\ carried = [e \in Places |-> {}]
  /\ excused = {}

-----------------------------------------------------------------------------
(* The reducer and the effects                                              *)

Strip == ToSet(tabs)

\* Where the tab p is; no path has two.
TabAt(strip, p) == CHOOSE j \in DOMAIN strip : strip[j] = p

\* Mutant: the left neighbour first, and the closed tab when there is none.
NeighborOrItself(strip, p) ==
  LET i == TabAt(strip, p) IN
  IF i > 1 THEN strip[i - 1] ELSE p

\* The right neighbour, or else the left one.
NeighborAfterClose(strip, p) ==
  LET i == TabAt(strip, p) IN
  IF i < Len(strip) THEN strip[i + 1] ELSE IF i > 1 THEN strip[i - 1] ELSE Nowhere

\* Mutant: the tabs of every environment are kept under one key.
KeptOnce(strip) == [e \in Places |-> strip]

\* saveOpenPaths, under the key of the environment.
Kept(strip) == [openTabs EXCEPT ![here] = strip]

\* Mutant: tabs are kept also before the restoration has begun.
PersistsAlways(changed) == changed

\* Tabs are kept when they change, from the restoration on.
Persists(changed) == changed /\ page = "ready"

\* A commit with a new state of the session; `changed`: the array of tabs is another one.
Commits(strip, active, changed) ==
  /\ tabs' = strip /\ activeId' = active
  /\ openTabs' = IF Persists(changed) THEN Kept(strip) ELSE openTabs
  /\ urlPath' = IF page = "ready" /\ active # activeId THEN active ELSE urlPath

\* OPEN_TAB
OpenFileTab(p) ==
  IF p \in Strip THEN Commits(tabs, p, FALSE) ELSE Commits(Append(tabs, p), p, TRUE)

-----------------------------------------------------------------------------
(* openFile, by the user                                                    *)

Wants(p) == wanted' = [wanted EXCEPT ![here] = @ \union ({p} \ {Nowhere})]

\* A click in the tree: a file that has its tab, or a notebook, is shown at once, another is read.
\* Before there is an editor only notebooks can be opened.
ClickFile(p) ==
  /\ page # "gone"
  /\ \/ /\ p \in Strip \union Notebooks
        /\ OpenFileTab(p) /\ Wants(p)
        /\ UNCHANGED reads
     \/ /\ p \notin Strip \union Notebooks /\ page = "ready"
        /\ reads' = reads \union {<<p, "click">>}
        /\ UNCHANGED <<tabs, activeId, openTabs, urlPath, wanted>>
  /\ UNCHANGED <<here, page, restore, mounts, carried, excused>>

\* The read for a click is done, or has failed.
ClickAnswered(p) ==
  /\ <<p, "click">> \in reads
  /\ reads' = reads \ {<<p, "click">>}
  /\ \/ OpenFileTab(p) /\ Wants(p)
     \/ UNCHANGED <<tabs, activeId, openTabs, urlPath, wanted>>
  /\ UNCHANGED <<here, page, restore, mounts, carried, excused>>

-----------------------------------------------------------------------------
(* The strip                                                                *)

Select(p) ==
  /\ p \in Strip
  /\ Commits(tabs, p, FALSE)
  /\ UNCHANGED <<here, page, restore, reads, mounts, wanted, carried, excused>>

CloseFileTab(p) ==
  /\ p \in Strip
  /\ Commits(RemoveAt(tabs, TabAt(tabs, p)),
             IF activeId = p THEN NeighborAfterClose(tabs, p) ELSE activeId, TRUE)
  /\ wanted' = [wanted EXCEPT ![here] = @ \ {p}]
  /\ carried' = [carried EXCEPT ![here] = @ \ {p}]
  /\ excused' = IF restore.on \/ page = "mounted" THEN excused \union {here} ELSE excused
  /\ UNCHANGED <<here, page, restore, reads, mounts>>

ReorderTabs(i, j) ==
  /\ i # j
  /\ Commits(InsertAt(RemoveAt(tabs, i), j, tabs[i]), activeId, TRUE)
  /\ UNCHANGED <<here, page, restore, reads, mounts, wanted, carried, excused>>

\* A status or an etag: another array with the same tabs.
StatusSet ==
  /\ page # "gone" /\ tabs # <<>>
  /\ Commits(tabs, activeId, TRUE)
  /\ UNCHANGED <<here, page, restore, reads, mounts, wanted, carried, excused>>

-----------------------------------------------------------------------------
(* Restoration                                                              *)

\* The editor is there: the tabs kept are to be opened in their order, and then the one of the URL, or
\* else the last.
EditorReady ==
  /\ page = "mounted" /\ page' = "ready"
  /\ LET persisted == openTabs[here]
         target == IF urlPath # Nowhere THEN urlPath
                   ELSE IF persisted # <<>> THEN persisted[Len(persisted)] ELSE Nowhere
     IN restore' = IF target = Nowhere THEN NoRestore
                   ELSE [todo |-> persisted, target |-> target, on |-> TRUE]
  /\ excused' = IF tabs # <<>> /\ wanted[here] \subseteq Strip THEN excused \union {here} ELSE excused
  /\ UNCHANGED <<here, openTabs, urlPath, tabs, activeId, reads, mounts, wanted, carried>>

Next1 == IF restore.todo # <<>> THEN restore.todo[1] ELSE restore.target
Rest == IF restore.todo # <<>> THEN [restore EXCEPT !.todo = Tail(@)] ELSE NoRestore
RestoreIdle == restore.on /\ \A p \in Documents : <<p, "restore">> \notin reads

\* The next one is shown at once, or read.
RestoreOpens ==
  /\ RestoreIdle
  /\ \/ /\ Next1 \in Strip \union Notebooks
        /\ OpenFileTab(Next1)
        /\ restore' = Rest
        /\ UNCHANGED reads
     \/ /\ Next1 \notin Strip \union Notebooks
        /\ reads' = reads \union {<<Next1, "restore">>}
        /\ UNCHANGED <<tabs, activeId, openTabs, urlPath, restore>>
  /\ UNCHANGED <<here, page, mounts, wanted, carried, excused>>

\* One that cannot be read is skipped.
RestoreAnswered ==
  /\ <<Next1, "restore">> \in reads
  /\ reads' = reads \ {<<Next1, "restore">>}
  /\ restore' = Rest
  /\ \/ OpenFileTab(Next1) /\ UNCHANGED excused
     \/ excused' = excused \union {here} /\ UNCHANGED <<tabs, activeId, openTabs, urlPath>>
  /\ UNCHANGED <<here, page, mounts, wanted, carried>>

-----------------------------------------------------------------------------
(* The page comes and goes                                                  *)

\* Something was asked of a page that has no editor yet.
AskedEarly == page = "mounted" /\ (tabs # <<>> \/ urlPath # Nowhere)

\* The page is gone, with what was in flight for it.
Unmounted ==
  /\ tabs' = <<>> /\ activeId' = Nowhere /\ restore' = NoRestore /\ reads' = {}
  /\ excused' = IF restore.on \/ AskedEarly THEN excused \union {here} ELSE excused

\* By a link, or back in the history: to a file, which the user asks for, or to none.
Enter(u) ==
  /\ page = "gone" /\ mounts < MaxMounts
  /\ page' = "mounted" /\ mounts' = mounts + 1
  /\ urlPath' = u
  /\ Wants(u)
  /\ UNCHANGED <<here, openTabs, tabs, activeId, restore, reads, carried, excused>>

\* A link to the page from the page: to a file before there is an editor, or else the URL is put back
\* to the active tab.
FollowLink(u) ==
  /\ page # "gone" /\ u # urlPath
  /\ urlPath' = IF page = "ready" THEN activeId ELSE u
  /\ Wants(IF page = "ready" THEN activeId ELSE u)
  /\ excused' = IF AskedEarly THEN excused \union {here} ELSE excused
  /\ UNCHANGED <<here, openTabs, page, tabs, activeId, restore, reads, mounts, carried>>

\* To another route.
GoElsewhere ==
  /\ page # "gone" /\ page' = "gone"
  /\ Unmounted
  /\ urlPath' = Nowhere
  /\ UNCHANGED <<here, openTabs, mounts, wanted, carried>>

\* The whole application is loaded again, at the same URL.
Reload ==
  /\ page # "gone" /\ mounts < MaxMounts
  /\ page' = "mounted" /\ mounts' = mounts + 1
  /\ Unmounted
  /\ UNCHANGED <<here, openTabs, urlPath, wanted, carried>>

\* adopt: the subtree is mounted anew, under the URL that is there.
SwitchPlace(e) ==
  /\ e # here /\ here' = e
  /\ \/ /\ page # "gone" /\ mounts < MaxMounts
        /\ page' = "mounted" /\ mounts' = mounts + 1
        /\ Unmounted
        /\ carried' = IF urlPath = Nowhere THEN carried ELSE [carried EXCEPT ![e] = @ \union {urlPath}]
     \/ /\ page = "gone"
        /\ UNCHANGED <<page, mounts, tabs, activeId, restore, reads, carried, excused>>
  /\ UNCHANGED <<openTabs, urlPath, wanted>>

TabsNext ==
  \/ \E p \in Documents : ClickFile(p) \/ ClickAnswered(p) \/ Select(p) \/ CloseFileTab(p)
  \/ \E i, j \in DOMAIN tabs : ReorderTabs(i, j)
  \/ StatusSet
  \/ EditorReady \/ RestoreOpens \/ RestoreAnswered
  \/ \E u \in Documents \union {Nowhere} : Enter(u) \/ FollowLink(u)
  \/ GoElsewhere \/ Reload
  \/ \E e \in Places : SwitchPlace(e)

TabsSpec == TabsInit /\ [][TabsNext]_tabVars

-----------------------------------------------------------------------------
Restored == page = "ready" /\ ~restore.on

\* The tabs a user opened in an environment and did not close are there after every reload, return
\* and switch, and no others, but for what the URL brought along: in the strip when the page has
\* restored itself, in sessionStorage when it is gone; and the tab shown is one of the strip.  Not
\* after a restoration that was left half-way, met a file it could not read, or had a tab closed
\* under it.
TabsAreKept ==
  /\ activeId \in Strip \/ (activeId = Nowhere /\ tabs = <<>>)
  /\ \A e \in Places \ excused :
       IF e = here /\ page # "gone"
       THEN Restored => /\ Strip = wanted[e] \union (carried[e] \intersect Strip)
                        /\ urlPath = activeId
       ELSE wanted[e] \subseteq ToSet(openTabs[e])

\* "open tabs reference an environment's file paths ... so they must not be restored under another
\* env" (useTabPersistence.ts): a page opens only what was opened in its environment.
PathsStayHome == page = "ready" => Strip \subseteq wanted[here]
=============================================================================
