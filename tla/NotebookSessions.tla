---------------------------- MODULE NotebookSessions ----------------------------
(***************************************************************************)
(* One notebook: a .py file at the same path in every environment, its     *)
(* working copies on disk, the host's session for it (notebook.rs), and    *)
(* the controllers of the editor's tabs (sessionRegistry.ts,               *)
(* EditorSessionContext.tsx), over a host whose active environment         *)
(* changes.  marimo, which writes what the user edits to the working copy, *)
(* and the file store, which may refuse, are external.                     *)
(***************************************************************************)
EXTENDS Naturals

CONSTANTS Homes,   \* the environments
          NoEnv,
          Tabs,    \* controllers, one for each time the notebook is opened
          MaxEdits \* bound on edits

NoTab == "none"

ASSUME NotebookAssumption == NoEnv \notin Homes /\ NoTab \notin Tabs /\ MaxEdits \in Nat

VARIABLES activeEnv, \* the host's active environment
          switching, \* an environment is being torn down and another started
          session,   \* Notebooks.sessions: whose working copy the session has
          copy,      \* the working copy in each environment's workdir
          volume,    \* the file in each environment
          tab,       \* the controllers
          shown,     \* the tab the page shows, or none
          edits,     \* edits made
          straddled, \* a notebook was opened while the environment changed (history)
          lost       \* how unsynced copies came to be discarded, without an excuse (history)

notebookVars == <<activeEnv, switching, session, copy, volume, tab, shown, edits, straddled, lost>>

Texts == [home : Homes, n : 0..MaxEdits]
NoCopy == [home |-> NoEnv, n |-> 0]

\* opening: where open_notebook is.  closing: where the close handler of the tab is; release: where
\* close_notebook is.  has: sessionId is set.  env: the environment open_notebook captured; text and
\* to: what sync_notebook captured.  excused (history): its sync failed, its notebook was edited after
\* its close began, or another controller had the notebook too.
Controller ==
  [opening : {"no", "capture", "copy", "serve", "answer", "ended"},
   closing : {"no", "sync", "write", "release", "ended"},
   release : {"no", "call", "ended"}, has : BOOLEAN, env : Homes \union {NoEnv},
   text : Texts \union {NoCopy}, to : Homes \union {NoEnv},
   left : {"no", "leaving", "left"}, excused : BOOLEAN]

NewController == [opening |-> "no", closing |-> "no", release |-> "no", has |-> FALSE,
                  env |-> NoEnv, text |-> NoCopy, to |-> NoEnv, left |-> "no",
                  excused |-> FALSE]

\* How an unsynced copy came to be discarded: by a page that was left, by a tab that was closed.
Losses == {"left", "closed"}

NotebookTypeOK ==
  /\ activeEnv \in Homes
  /\ session \in Homes \union {NoEnv}
  /\ copy \in [Homes -> Texts \union {NoCopy}]
  /\ volume \in [Homes -> Texts]
  /\ tab \in [Tabs -> Controller]
  /\ shown \in Tabs \union {NoTab}
  /\ edits \in 0..MaxEdits
  /\ {switching, straddled} \subseteq BOOLEAN
  /\ lost \in SUBSET Losses

NotebookInit ==
  /\ activeEnv \in Homes
  /\ switching = FALSE
  /\ session = NoEnv
  /\ copy = [e \in Homes |-> NoCopy]
  /\ volume = [e \in Homes |-> [home |-> e, n |-> 0]]
  /\ tab = [t \in Tabs |-> NewController]
  /\ shown = NoTab
  /\ edits = 0 /\ straddled = FALSE /\ lost = {}

host == <<activeEnv, switching, straddled>>
files == <<copy, volume>>

Opened(t) == tab[t].opening # "no"
Gone(r) == (r.closing = "ended" \/ r.left = "left") /\ r.closing \in {"no", "ended"}
Finished(r) == r.opening = "ended" /\ Gone(r) /\ r.release # "call"
\* The controller t is now r; of one that has nothing left to do nothing is remembered.
Now(t, r) ==
  tab' = [tab EXCEPT ![t] =
    IF Finished(r) THEN [NewController EXCEPT !.opening = "ended", !.closing = "ended"] ELSE r]
Pending(t) == tab[t].opening \in {"copy", "serve"}

-----------------------------------------------------------------------------
(* The host.                                                                *)
\* start_environment takes the old environment down, and Notebooks::reset drops the sessions.
TakeDown ==
  /\ ~switching
  /\ switching' = TRUE
  /\ session' = NoEnv
  /\ straddled' = (straddled \/ \E t \in Tabs : Pending(t))
  /\ UNCHANGED <<activeEnv, files, tab, shown, edits, lost>>

\* The new environment is up; or it failed, and the old one stays the active one.
BringUp ==
  /\ switching
  /\ switching' = FALSE
  /\ activeEnv' \in Homes
  /\ straddled' = (straddled \/ session # NoEnv \/ \E t \in Tabs : Pending(t))
  /\ UNCHANGED <<session, files, tab, shown, edits, lost>>

\* marimo writes an edit of the notebook shown to its working copy.
Edit(t) ==
  /\ shown = t /\ tab[t].has /\ tab[t].env = activeEnv /\ ~switching
  /\ edits < MaxEdits
  /\ edits' = edits + 1
  /\ copy' = [copy EXCEPT ![activeEnv] = [home |-> activeEnv, n |-> edits']]
  /\ tab' = [tab EXCEPT ![t].excused = @ \/ tab[t].closing # "no"]
  /\ UNCHANGED <<host, session, volume, shown, lost>>

-----------------------------------------------------------------------------
(* Opening.                                                                 *)
OpenTab(t) ==
  LET others == {u \in Tabs \ {t} : Opened(u) /\ ~Finished(tab[u])} IN
  /\ shown = NoTab /\ ~Opened(t)
  /\ tab' = [u \in Tabs |->
       IF u = t THEN [NewController EXCEPT !.opening = "capture", !.excused = others # {}]
       ELSE IF u \in others THEN [tab[u] EXCEPT !.excused = TRUE] ELSE tab[u]]
  /\ shown' = t
  /\ UNCHANGED <<host, session, files, edits, lost>>

OpenFails(t) ==
  /\ tab[t].opening \in {"capture", "copy", "serve"}
  /\ Now(t, [tab[t] EXCEPT !.opening = "ended", !.env = NoEnv])
  /\ UNCHANGED <<host, session, files, shown, edits, lost>>

\* open_notebook: the active environment and its files;
Capture(t) ==
  /\ tab[t].opening = "capture"
  /\ tab' = [tab EXCEPT ![t].opening = "copy", ![t].env = activeEnv]
  /\ UNCHANGED <<host, session, files, shown, edits, lost>>

\* the file is read and replaces the working copy;
CopyFile(t) ==
  /\ tab[t].opening = "copy"
  /\ copy' = [copy EXCEPT ![tab[t].env] = volume[tab[t].env]]
  /\ tab' = [tab EXCEPT ![t].opening = "serve"]
  /\ UNCHANGED <<host, session, volume, shown, edits, lost>>

\* with the notebook server up, the session is recorded under the name of the path.
Serve(t) ==
  /\ tab[t].opening = "serve"
  /\ session' = tab[t].env
  /\ tab' = [tab EXCEPT ![t].opening = "answer"]
  /\ UNCHANGED <<host, files, shown, edits, lost>>

\* NotebookController.start: the session's id is kept, also by a controller already disposed of.
OpenAnswered(t) ==
  /\ tab[t].opening = "answer"
  /\ Now(t, [tab[t] EXCEPT !.opening = "ended", !.has = TRUE])
  /\ UNCHANGED <<host, session, files, shown, edits, lost>>

-----------------------------------------------------------------------------
(* Closing.                                                                 *)
\* dispose: with a session it calls close_notebook.
Disposed(r) == [r EXCEPT !.has = FALSE, !.release = IF r.has THEN "call" ELSE @]

\* Mutant: the session is released before the final sync.
CloseUnsynced(t) ==
  /\ shown = t /\ tab[t].closing = "no"
  /\ tab' = [tab EXCEPT ![t].closing = "release"]
  /\ UNCHANGED <<host, session, files, shown, edits, lost>>

\* The close handler: a final sync, when there is a session.
CloseTab(t) ==
  /\ shown = t /\ tab[t].closing = "no"
  /\ tab' = [tab EXCEPT ![t].closing = IF tab[t].has THEN "sync" ELSE "release"]
  /\ UNCHANGED <<host, session, files, shown, edits, lost>>

Synced(t, failed) ==
  tab' = [tab EXCEPT ![t].closing = "release", ![t].text = NoCopy, ![t].to = NoEnv,
                     ![t].excused = @ \/ failed]

\* sync_notebook takes the session and the files of the active environment, and reads the copy.
SyncRead(t) ==
  /\ tab[t].closing = "sync"
  /\ IF session # NoEnv /\ copy[session] # NoCopy
     THEN tab' = [tab EXCEPT ![t].closing = "write", ![t].text = copy[session], ![t].to = activeEnv]
     ELSE Synced(t, TRUE)
  /\ UNCHANGED <<host, session, files, shown, edits, lost>>

\* Mutant: the files are those of the environment that is active when they are written.
WriteToActive(t) ==
  /\ tab[t].closing = "write"
  /\ \/ /\ volume' = [volume EXCEPT ![activeEnv] = tab[t].text]
        /\ Synced(t, FALSE)
     \/ Synced(t, TRUE) /\ UNCHANGED volume
  /\ UNCHANGED <<host, session, copy, shown, edits, lost>>

\* The text is written back, or the write fails.
SyncWrite(t) ==
  /\ tab[t].closing = "write"
  /\ \/ /\ volume' = [volume EXCEPT ![tab[t].to] = tab[t].text]
        /\ Synced(t, FALSE)
     \/ Synced(t, TRUE) /\ UNCHANGED volume
  /\ UNCHANGED <<host, session, copy, shown, edits, lost>>

\* A failed sync is swallowed; the controller is disposed of, unless the page did that.
Release(t) ==
  /\ tab[t].closing = "release"
  /\ Now(t, [Disposed(tab[t]) EXCEPT !.closing = "ended"])
  /\ shown' = IF shown = t THEN NoTab ELSE shown
  /\ UNCHANGED <<host, session, files, edits, lost>>

\* The page is unmounted: by another route, or by another environment.
LeavePage(t) ==
  /\ shown = t
  /\ shown' = NoTab
  /\ tab' = [tab EXCEPT ![t].left = "leaving"]
  /\ UNCHANGED <<host, session, files, edits, lost>>

\* When the buffers of the page are flushed, the registry disposes of its controllers.
LeftPage(t) ==
  /\ tab[t].left = "leaving"
  /\ Now(t, [Disposed(tab[t]) EXCEPT !.left = "left"])
  /\ UNCHANGED <<host, session, files, shown, edits, lost>>

\* close_notebook: the session and its working copy go.
CloseSession(t) ==
  /\ tab[t].release = "call"
  /\ Now(t, [tab[t] EXCEPT !.release = "ended"])
  /\ session' = NoEnv
  /\ IF session = NoEnv THEN UNCHANGED <<copy, lost>>
     ELSE /\ copy' = [copy EXCEPT ![session] = NoCopy]
          /\ lost' = IF tab[t].excused \/ copy[session] \in {NoCopy, volume[session]} THEN lost
                     ELSE lost \union {IF tab[t].left = "no" THEN "closed" ELSE "left"}
  /\ UNCHANGED <<host, volume, shown, edits>>

NotebookNext ==
  \/ TakeDown \/ BringUp
  \/ \E t \in Tabs :
       \/ Edit(t) \/ OpenTab(t) \/ OpenFails(t) \/ Capture(t) \/ CopyFile(t) \/ Serve(t)
       \/ OpenAnswered(t) \/ CloseTab(t) \/ SyncRead(t) \/ SyncWrite(t) \/ Release(t)
       \/ LeavePage(t) \/ LeftPage(t) \/ CloseSession(t)

NotebookSpec == NotebookInit /\ [][NotebookNext]_notebookVars

-----------------------------------------------------------------------------
\* A notebook is written back to the environment it was opened in, whenever the environment changes
\* between opening, editing and the final sync; unless it was being opened during the change.
SyncGoesHome == ~straddled => \A e \in Homes : volume[e].home = e

\* "The working copy is synced back to the volume on save/close and discarded when the session is
\* released" (notebook.rs), for a tab the user closes: no copy with other contents is discarded, if
\* the sync did not fail, nothing was edited since and no other tab had the notebook.
ReleasedIsSynced == "closed" \notin lost

\* The same for a page that is left: the registry "tears down" its sessions, and "autosave / on
\* close" writes the working copy back (notebook/registry.ts).
EditsReachTheVolume == "left" \notin lost
=============================================================================
