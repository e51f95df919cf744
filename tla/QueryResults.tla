------------------------------ MODULE QueryResults ------------------------------
(***************************************************************************)
(* The results of one SQL file (runController.ts, resultSessions.ts): the  *)
(* registry of a mount of the editor makes a controller for the file's tab *)
(* on first use and disposes of it with the tab or the page; each run of   *)
(* the file aborts the controller's run before it, gives it a new store    *)
(* and fills that from a stream of chunks, drawn at most once per frame.   *)
(* The query runner is external: its stream gives chunks, ends or fails,   *)
(* and an aborted one still gives what was on its way before it throws.    *)
(***************************************************************************)
EXTENDS Naturals

CONSTANTS MaxRuns,     \* bound on the runs of the file
          MaxReceived, \* bound on the chunks of one
          MaxFlushes   \* bound on the runs that wait for their flush

ASSUME ResultsAssumption == {MaxRuns, MaxReceived, MaxFlushes} \subseteq Nat

VARIABLES shownTab,   \* the file has a tab
          provider,   \* the mount of the editor: "mounted", "leaving" or "disposed"
          waiting,    \* runActive calls that await the flush of the buffer
          begun,      \* runs begun
          stream,     \* the runs
          controller, \* the controller in the registry, or 0
          results,    \* the controllers
          late        \* the tab or the page went while a run waited (history)

resultVars == <<shownTab, provider, waiting, begun, stream, controller, results, late>>

\* Runs are numbered as they begin, and a controller has the number of its first run.
RunIds == 1..MaxRuns
Stream == [open : BOOLEAN, of : 0..MaxRuns, aborted : BOOLEAN, chunks : 0..MaxReceived]

\* store and meta: the run they are of.  drawn: the chunks in the store when the version last moved.
\* abort: the run the controller can abort.  frame: the run that asked for the next frame.
\* crossed (history): a run began while another of this controller was open.
Snapshot == [store : 0..MaxRuns, meta : 0..MaxRuns, running : BOOLEAN, error : BOOLEAN,
             drawn : 0..MaxReceived, abort : 0..MaxRuns, frame : 0..MaxRuns, crossed : BOOLEAN]

ResultsTypeOK ==
  /\ provider \in {"mounted", "leaving", "disposed"}
  /\ waiting \in 0..MaxFlushes /\ begun \in 0..MaxRuns /\ controller \in 0..MaxRuns
  /\ stream \in [RunIds -> Stream]
  /\ results \in [RunIds -> Snapshot]
  /\ {shownTab, late} \subseteq BOOLEAN

NoStream == [open |-> FALSE, of |-> 0, aborted |-> FALSE, chunks |-> 0]
NeverRun == [store |-> 0, meta |-> 0, running |-> FALSE, error |-> FALSE, drawn |-> 0,
             abort |-> 0, frame |-> 0, crossed |-> FALSE]

ResultsInit ==
  /\ shownTab = TRUE /\ provider = "mounted"
  /\ waiting = 0 /\ begun = 0 /\ controller = 0
  /\ stream = [r \in RunIds |-> NoStream]
  /\ results = [c \in RunIds |-> NeverRun]
  /\ late = FALSE

Streaming(r) == stream[r].open /\ ~stream[r].aborted
place == <<shownTab, provider, late>>

-----------------------------------------------------------------------------
(* Runs.                                                                    *)
\* runActive: the button is disabled while a run is shown, the key is not.
RunPressed ==
  /\ shownTab /\ provider = "mounted"
  /\ waiting < MaxFlushes
  /\ waiting' = waiting + 1
  /\ UNCHANGED <<place, begun, stream, controller, results>>

\* The controller c aborts the run it can abort.
AbortedBy(c) ==
  [r \in RunIds |-> [stream[r] EXCEPT !.aborted = @ \/ r = results[c].abort]]

\* The flush is over: RunController.run, of the registry's controller or, if it has none, a new one.
StartRun ==
  LET r == begun + 1
      c == IF controller = 0 THEN r ELSE controller
  IN /\ waiting > 0 /\ begun < MaxRuns
     /\ waiting' = waiting - 1 /\ begun' = r /\ controller' = c
     /\ stream' = [AbortedBy(c) EXCEPT ![r] = [NoStream EXCEPT !.open = TRUE, !.of = c]]
     /\ results' = [results EXCEPT ![c] =
          [NeverRun EXCEPT !.store = r, !.meta = r, !.running = TRUE, !.abort = r,
             !.crossed = @ \/ \E s \in RunIds : stream[s].open /\ stream[s].of = c]]
     /\ UNCHANGED place

\* A chunk goes to the store of its own run, and a frame is asked for unless one is due.
Chunk(r) ==
  LET c == stream[r].of IN
  /\ stream[r].open /\ stream[r].chunks < MaxReceived
  /\ stream' = [stream EXCEPT ![r].chunks = @ + 1]
  /\ results' = [results EXCEPT ![c].frame = IF @ = 0 THEN r ELSE @]
  /\ UNCHANGED <<place, waiting, begun, controller>>

\* The frame of an aborted run draws nothing.
AnimationFrame(c) ==
  LET f == results[c].frame IN
  /\ f # 0
  /\ results' = [results EXCEPT ![c].frame = 0,
       ![c].drawn = IF stream[f].aborted THEN @ ELSE stream[results[c].store].chunks]
  /\ UNCHANGED <<place, waiting, begun, stream, controller>>

\* The end of the run r as its controller shows it.
EndsAs(r, drawn, error) ==
  LET c == stream[r].of IN
  /\ stream' = [stream EXCEPT ![r].open = FALSE]
  /\ results' = [results EXCEPT ![c].frame = 0, ![c].running = FALSE, ![c].meta = r,
                                ![c].drawn = drawn, ![c].error = @ \/ error]
  /\ UNCHANGED <<place, waiting, begun, controller>>

Drawn(r) == results[stream[r].of].drawn
InStore(r) == stream[results[stream[r].of].store].chunks

\* Mutant: the end of the stream leaves the last frame to be drawn, having cancelled it.
CompleteUndrawn(r) == stream[r].open /\ EndsAs(r, Drawn(r), FALSE)

\* The stream ends; aborted or not, the version moves.
Complete(r) == stream[r].open /\ EndsAs(r, InStore(r), FALSE)

\* It throws: an error is shown, unless the run was aborted.
Throws(r) == stream[r].open /\ EndsAs(r, Drawn(r), ~stream[r].aborted)

-----------------------------------------------------------------------------
(* Cancelling and disposing.                                                *)
CancelBy(c) ==
  /\ stream' = AbortedBy(c)
  /\ results' = [results EXCEPT ![c].abort = 0, ![c].frame = 0, ![c].running = FALSE]

\* The button is there while a run is shown.
CancelPressed ==
  /\ shownTab /\ provider = "mounted"
  /\ controller # 0 /\ results[controller].running
  /\ CancelBy(controller)
  /\ UNCHANGED <<place, waiting, begun, controller>>

\* Mutant: the controller is taken out of the map and not disposed of.
ReleaseKept == controller' = 0 /\ UNCHANGED <<stream, results>>

\* ResultSessionRegistry.release and dispose, of the one file.
ReleaseController ==
  /\ controller' = 0
  /\ IF controller = 0 THEN UNCHANGED <<stream, results>> ELSE CancelBy(controller)

\* The close handler of the tab, its flush done.
CloseResults ==
  /\ shownTab /\ provider = "mounted"
  /\ shownTab' = FALSE
  /\ late' = (late \/ waiting > 0)
  /\ ReleaseController
  /\ UNCHANGED <<provider, waiting, begun>>

ReopenTab ==
  /\ ~shownTab /\ provider = "mounted"
  /\ shownTab' = TRUE
  /\ UNCHANGED <<provider, waiting, begun, stream, controller, results, late>>

\* The page is unmounted; when its buffers are flushed, its controllers are disposed of.
LeaveEditor ==
  /\ provider = "mounted"
  /\ provider' = "leaving"
  /\ UNCHANGED <<shownTab, waiting, begun, stream, controller, results, late>>

DisposeEditor ==
  /\ provider = "leaving"
  /\ provider' = "disposed"
  /\ late' = (late \/ waiting > 0)
  /\ ReleaseController
  /\ UNCHANGED <<shownTab, waiting, begun>>

ResultsNext ==
  \/ RunPressed \/ StartRun \/ CancelPressed \/ CloseResults \/ ReopenTab
  \/ LeaveEditor \/ DisposeEditor
  \/ \E r \in RunIds : Chunk(r) \/ AnimationFrame(r) \/ Complete(r) \/ Throws(r)

ResultsSpec == ResultsInit /\ [][ResultsNext]_resultVars

-----------------------------------------------------------------------------
LastRunIsShown ==
  \A c \in RunIds : results[c].store # 0 /\ ~results[c].crossed =>
    LET r == results[c].store IN
    /\ results[c].meta = r
    /\ results[c].running <=> Streaming(r)
    /\ ~stream[r].aborted /\ ~results[c].error =>
         results[c].drawn = stream[r].chunks \/ (stream[r].open /\ results[c].frame = r)

StreamsAreOwned ==
  \A r \in RunIds : Streaming(r) =>
    /\ results[stream[r].of].abort = r
    /\ late \/ (controller = stream[r].of /\ (shownTab \/ provider = "leaving"))

\* Of a file whose runs did not overlap, the pane shows the last run: it spins exactly while that one
\* streams, the metadata is that run's, and each chunk received is drawn or has its frame coming, and
\* all are once the stream has ended by itself.  And a stream can always be aborted by its controller,
\* so that none has two, and belongs to the controller of a file that is open ("scoping results to the
\* environment", EditorSessionContext.tsx), unless the tab or the page went while the run waited for
\* its flush.
ResultsAreOfRuns == LastRunIsShown /\ StreamsAreOwned

\* "The current/last run's metadata" (RunSnapshot.meta) and "running", of the run whose results are
\* shown, also when it replaced another one.
LastRunIsDescribed ==
  \A c \in RunIds : results[c].store # 0 /\ Streaming(results[c].store) =>
    results[c].meta = results[c].store /\ results[c].running
=============================================================================
