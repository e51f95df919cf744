------------------------------- MODULE EnvHost -------------------------------
(***************************************************************************)
(* The environment lifecycle of the desktop host (node/desktop/src-tauri): *)
(* start_environment, stop_environment and ensure_marimo, the Supervisor   *)
(* they share, the exit hook, and a forced quit with the next launch.      *)
(*                                                                         *)
(* Every command is an async task of its own.  One action is one access of *)
(* the state they share (the active environment, the supervisor, the       *)
(* notebook server's address, the telemetry slot) or one effect on a       *)
(* process, so that others may step in between.  A sidecar is a number, in *)
(* the order they are spawned; a Compose project is named after its        *)
(* environment and stands for it.                                          *)
(***************************************************************************)
EXTENDS Naturals

CONSTANTS
  Envs,         \* the environments of the registry
  Cmds,         \* the command tasks
  Calls,        \* the commands invoked: "start", "stop", "open", "exit"
  WithModules,  \* the environments with containerised modules
  Observed,     \* the environments that opt in to telemetry
  None,
  MaxSidecars,  \* bound on the sidecars spawned in a behaviour
  MaxQuits      \* bound on the forced quits in a behaviour

Sidecar == 1..MaxSidecars

\* A ManagedProcess: a sidecar, or the Compose project of an environment.
Managed == Sidecar \cup Envs

ASSUME ConstantsOK ==
  /\ MaxSidecars \in Nat /\ MaxQuits \in Nat
  /\ WithModules \subseteq Envs /\ Observed \subseteq Envs
  /\ None \notin Managed
  /\ Sidecar \cap Envs = {}

VARIABLES
  active,       \* AppState.active: the environment and its uc server
  supervisor,   \* the set the Supervisor tracks
  alive,        \* the processes that run
  of,           \* each sidecar: the environment it serves and its label
  spawned,      \* sidecars spawned so far
  marimo,       \* Notebooks.endpoint: the notebook server
  telemetry,    \* whether the shared collector was brought up
  cmd,          \* each command task: what it does and how far it got
  quits,        \* forced quits so far
  loose,        \* history: what the end of the app, or a shutdown that
                \* failed, left running
  alone         \* history: no command was ever invoked while another ran

processVars == <<alive, of, spawned>>
vars == <<active, supervisor, processVars, marimo, telemetry, cmd, quits, loose, alone>>

Idle == [env |-> None, pc |-> "idle", taken |-> {}, then |-> "none", child |-> None]

Command ==
  [env : Envs \cup {None},
   pc : {"idle", "take", "kill", "reset", "spawn", "announce", "telemetry", "reconcile",
         "track", "up", "activate", "describe", "clear", "ensure", "scrape"},
   taken : SUBSET Managed,
   then : {"none", "spawn", "clear", "fail", "quit"},
   child : Sidecar \cup {None}]

NoActive == [env |-> None, uc |-> None]

TypeOK ==
  /\ active \in [env : Envs \cup {None}, uc : Sidecar \cup {None}]
  /\ supervisor \in SUBSET Managed
  /\ alive \in SUBSET Managed
  /\ of \in [Sidecar -> [env : Envs \cup {None}, label : {"none", "uc", "marimo"}]]
  /\ spawned \in 0..MaxSidecars
  /\ marimo \in Sidecar \cup {None}
  /\ telemetry \in BOOLEAN
  /\ cmd \in [Cmds -> Command]
  /\ quits \in 0..MaxQuits
  /\ loose \in SUBSET Managed
  /\ alone \in BOOLEAN

Init ==
  /\ active = NoActive
  /\ supervisor = {}
  /\ alive = {}
  /\ of = [p \in Sidecar |-> [env |-> None, label |-> "none"]]
  /\ spawned = 0
  /\ marimo = None
  /\ telemetry = FALSE
  /\ cmd = [c \in Cmds |-> Idle]
  /\ quits = 0
  /\ loose = {}
  /\ alone = TRUE

-----------------------------------------------------------------------------
At(c, pc) == cmd[c].pc = pc
Goto(c, pc) == cmd' = [cmd EXCEPT ![c].pc = pc]
Done(c) == cmd' = [cmd EXCEPT ![c] = Idle]

\* Tear everything down, then go on as told.
TearDown(c, then) == cmd' = [cmd EXCEPT ![c].pc = "take", ![c].then = then]

\* The invocation of a command for environment e.
Invoke(c, e, pc, then) ==
  /\ cmd' = [cmd EXCEPT ![c] = [Idle EXCEPT !.env = e, !.pc = pc, !.then = then]]
  /\ alone' = (alone /\ \A d \in Cmds \ {c} : cmd[d].pc = "idle")

\* A new sidecar for the environment of command c, tracked at once.
Spawn(c, label) ==
  /\ spawned < MaxSidecars
  /\ spawned' = spawned + 1
  /\ of' = [of EXCEPT ![spawned + 1] = [env |-> cmd[c].env, label |-> label]]
  /\ alive' = alive \cup {spawned + 1}
  /\ supervisor' = supervisor \cup {spawned + 1}

-----------------------------------------------------------------------------
(* Commands                                                                 *)

\* Mutant: the previous environment is not torn down.
StartOnTop(c, e) ==
  /\ At(c, "idle")
  /\ Invoke(c, e, IF active.env = e THEN "describe" ELSE "spawn", "spawn")
  /\ UNCHANGED <<active, supervisor, processVars, marimo, telemetry, quits, loose>>

\* start_environment: a no-op for the environment that is already active; an
\* unknown environment or an unusable key is refused without effect.
Start(c, e) ==
  /\ At(c, "idle")
  /\ IF active.env = e THEN Invoke(c, e, "describe", "none") ELSE Invoke(c, e, "take", "spawn")
  /\ UNCHANGED <<active, supervisor, processVars, marimo, telemetry, quits, loose>>

\* stop_environment: a no-op unless e is active.
Stop(c, e) ==
  /\ At(c, "idle")
  /\ active.env = e
  /\ Invoke(c, e, "take", "clear")
  /\ UNCHANGED <<active, supervisor, processVars, marimo, telemetry, quits, loose>>

\* open_notebook snapshots the active environment, then reads the notebook.
OpenNotebook(c) ==
  /\ At(c, "idle")
  /\ active.env # None
  /\ Invoke(c, active.env, "ensure", "none")
  /\ UNCHANGED <<active, supervisor, processVars, marimo, telemetry, quits, loose>>

\* The exit hook of the event loop.
Exit(c) ==
  /\ At(c, "idle")
  /\ Invoke(c, None, "take", "quit")
  /\ UNCHANGED <<active, supervisor, processVars, marimo, telemetry, quits, loose>>

Invocation(c) ==
  \/ \E e \in Envs : ("start" \in Calls /\ Start(c, e)) \/ ("stop" \in Calls /\ Stop(c, e))
  \/ "open" \in Calls /\ OpenNotebook(c)
  \/ "exit" \in Calls /\ Exit(c)

-----------------------------------------------------------------------------
(* Supervisor::shut_down_all                                                *)

\* A kill, or the down of a project, that succeeds, and one that fails: what was
\* to end may run on, and the supervisor forgets it either way.
Down(p) == alive' = alive \ {p} /\ loose' = loose \ {p}
StaysUp(p) == UNCHANGED alive /\ loose' = loose \cup ({p} \cap alive)

\* Mutant: the set is copied, not taken.
CopyAll(c) ==
  /\ At(c, "take")
  /\ cmd' = [cmd EXCEPT ![c].pc = "kill", ![c].taken = supervisor]
  /\ UNCHANGED <<active, supervisor, processVars, marimo, telemetry, quits, loose, alone>>

\* The whole set is taken under the lock,
TakeAll(c) ==
  /\ At(c, "take")
  /\ cmd' = [cmd EXCEPT ![c].pc = "kill", ![c].taken = supervisor]
  /\ supervisor' = {}
  /\ UNCHANGED <<active, processVars, marimo, telemetry, quits, loose, alone>>

\* and shut down one by one outside it, a failure being logged and swallowed,
ShutDown(c) ==
  /\ At(c, "kill")
  /\ \E p \in cmd[c].taken :
       /\ cmd' = [cmd EXCEPT ![c].taken = @ \ {p}]
       /\ Down(p) \/ StaysUp(p)
  /\ UNCHANGED <<active, supervisor, of, spawned, marimo, telemetry, quits, alone>>

\* before the command goes on, to its error or to Notebooks::reset.
AllDown(c) ==
  /\ At(c, "kill")
  /\ cmd[c].taken = {}
  /\ cmd[c].then # "quit"
  /\ IF cmd[c].then = "fail" THEN Done(c) ELSE Goto(c, "reset")
  /\ UNCHANGED <<active, supervisor, processVars, marimo, telemetry, quits, loose, alone>>

\* The memory of the app is lost, and with it every task.
Forget ==
  /\ active' = NoActive /\ supervisor' = {} /\ marimo' = None /\ telemetry' = FALSE
  /\ cmd' = [c \in Cmds |-> Idle]

\* The exit hook takes the telemetry collector down too, and the app ends.
Quit(c) ==
  /\ At(c, "kill")
  /\ cmd[c].taken = {}
  /\ cmd[c].then = "quit"
  /\ Forget
  /\ loose' = alive
  /\ UNCHANGED <<processVars, quits, alone>>

\* Notebooks::reset.
Reset(c) ==
  /\ At(c, "reset")
  /\ marimo' = None
  /\ Goto(c, cmd[c].then)
  /\ UNCHANGED <<active, supervisor, processVars, telemetry, quits, loose, alone>>

\* Mutant: the active environment is left as it is.
ClearNothing(c) ==
  /\ At(c, "clear")
  /\ Done(c)
  /\ UNCHANGED <<active, supervisor, processVars, marimo, telemetry, quits, loose, alone>>

\* The end of stop_environment.
Clear(c) ==
  /\ At(c, "clear")
  /\ active' = NoActive
  /\ Done(c)
  /\ UNCHANGED <<supervisor, processVars, marimo, telemetry, quits, loose, alone>>

Teardown(c) == TakeAll(c) \/ ShutDown(c) \/ AllDown(c) \/ Quit(c) \/ Reset(c) \/ Clear(c)

-----------------------------------------------------------------------------
(* start_environment, once the previous environment is down                 *)

\* An error return that leaves everything else as it is.
GiveUp(c) ==
  /\ Done(c)
  /\ UNCHANGED <<active, supervisor, processVars, marimo, telemetry, quits, loose, alone>>

\* Mutant: the child is tracked once it has announced its address.
SpawnUntracked(c) ==
  /\ At(c, "spawn")
  /\ spawned < MaxSidecars
  /\ spawned' = spawned + 1
  /\ of' = [of EXCEPT ![spawned + 1] = [env |-> cmd[c].env, label |-> "uc"]]
  /\ alive' = alive \cup {spawned + 1}
  /\ cmd' = [cmd EXCEPT ![c].pc = "announce", ![c].child = spawned + 1]
  /\ UNCHANGED <<active, supervisor, marimo, telemetry, quits, loose, alone>>

\* write_uc_config, ensure_kek and the spawn of the uc server, any of which
\* may fail.
SpawnUc(c) ==
  /\ At(c, "spawn")
  /\ \/ /\ Spawn(c, "uc")
        /\ cmd' = [cmd EXCEPT ![c].pc = "announce", ![c].child = spawned + 1]
        /\ UNCHANGED <<active, marimo, telemetry, quits, loose, alone>>
     \/ GiveUp(c)

\* What follows the announcement of the address.
AfterUc(e) == IF e \in Observed THEN "telemetry" ELSE
              IF e \in WithModules THEN "reconcile" ELSE "activate"

\* The server announces its address, or it ends before: by itself or killed by
\* another command.  It stays tracked.
Announce(c) ==
  /\ At(c, "announce")
  /\ \/ Goto(c, AfterUc(cmd[c].env)) /\ UNCHANGED alive
     \/ Done(c) /\ alive' = alive \ {cmd[c].child}
  /\ UNCHANGED <<active, supervisor, of, spawned, marimo, telemetry, quits, loose, alone>>

\* telemetry::ensure, under the mutex of its slot.
EnsureTelemetry(c) ==
  /\ At(c, "telemetry")
  /\ \/ /\ telemetry' = TRUE
        /\ Goto(c, IF cmd[c].env \in WithModules THEN "reconcile" ELSE "activate")
     \/ /\ ~telemetry
        /\ TearDown(c, "fail") /\ UNCHANGED telemetry
  /\ UNCHANGED <<active, supervisor, processVars, marimo, quits, loose, alone>>

\* Mutant: a project left over by a forced quit is taken as up.
SkipReconcile(c) ==
  /\ At(c, "reconcile")
  /\ IF cmd[c].env \in alive THEN Goto(c, "activate") ELSE Goto(c, "track")
  /\ UNCHANGED <<active, supervisor, processVars, marimo, telemetry, quits, loose, alone>>

\* start_compose takes a stale project down first, and goes on whether or not it
\* comes down; planning the topology, a missing Docker daemon or a write of the
\* project may fail before or after.
Reconcile(c) ==
  /\ At(c, "reconcile")
  /\ \/ /\ Goto(c, "track") \/ TearDown(c, "fail")
        /\ Down(cmd[c].env) \/ StaysUp(cmd[c].env)
     \/ TearDown(c, "fail") /\ UNCHANGED <<alive, loose>>
  /\ UNCHANGED <<active, supervisor, of, spawned, marimo, telemetry, quits, alone>>

\* Mutant: the project is not tracked.
TrackNothing(c) ==
  /\ At(c, "track")
  /\ Goto(c, "up")
  /\ UNCHANGED <<active, supervisor, processVars, marimo, telemetry, quits, loose, alone>>

\* Tracked before it is up,
TrackProject(c) ==
  /\ At(c, "track")
  /\ supervisor' = supervisor \cup {cmd[c].env}
  /\ loose' = loose \ {cmd[c].env}
  /\ Goto(c, "up")
  /\ UNCHANGED <<active, processVars, marimo, telemetry, quits, alone>>

\* and brought up, or part of it before an error.
ComposeUp(c) ==
  /\ At(c, "up")
  /\ \/ Goto(c, "activate") /\ alive' = alive \cup {cmd[c].env}
     \/ /\ TearDown(c, "fail")
        /\ alive' = alive \cup {cmd[c].env} \/ UNCHANGED alive
  /\ UNCHANGED <<active, supervisor, of, spawned, marimo, telemetry, quits, loose, alone>>

\* activate_endpoint: the in-process services are built, or cannot be, which
\* is returned without tearing anything down.
Activate(c) ==
  /\ At(c, "activate")
  /\ \/ /\ active' = [env |-> cmd[c].env, uc |-> cmd[c].child]
        /\ Goto(c, "describe")
        /\ UNCHANGED <<supervisor, processVars, marimo, telemetry, quits, loose, alone>>
     \/ GiveUp(c)

\* active_environment_descriptor reads the active environment once more.
Describe(c) == At(c, "describe") /\ GiveUp(c)

Starting(c) ==
  \/ SpawnUc(c) \/ Announce(c) \/ EnsureTelemetry(c) \/ Reconcile(c)
  \/ TrackProject(c) \/ ComposeUp(c) \/ Activate(c) \/ Describe(c)

-----------------------------------------------------------------------------
(* ensure_marimo, after open_notebook's snapshot and its await              *)

\* A server is known: use it.  Otherwise spawn and track one.
EnsureMarimo(c) ==
  /\ At(c, "ensure")
  /\ \/ GiveUp(c)
     \/ /\ marimo = None
        /\ Spawn(c, "marimo")
        /\ cmd' = [cmd EXCEPT ![c].pc = "scrape", ![c].child = spawned + 1]
        /\ UNCHANGED <<active, marimo, telemetry, quits, loose, alone>>

\* It announces its address, which is recorded, or it ends before.
Scrape(c) ==
  /\ At(c, "scrape")
  /\ Done(c)
  /\ \/ marimo' = cmd[c].child /\ UNCHANGED alive
     \/ alive' = alive \ {cmd[c].child} /\ UNCHANGED marimo
  /\ UNCHANGED <<active, supervisor, of, spawned, telemetry, quits, loose, alone>>

Opening(c) == EnsureMarimo(c) \/ Scrape(c)

-----------------------------------------------------------------------------
\* The app is killed and launched again: its memory is lost, the Compose
\* projects outlive it, and so may the sidecars.
ForceQuit ==
  /\ quits < MaxQuits
  /\ quits' = quits + 1
  /\ \E orphans \in SUBSET (alive \cap Sidecar) :
       alive' = (alive \cap Envs) \cup orphans
  /\ loose' = alive'
  /\ Forget
  /\ UNCHANGED <<of, spawned, alone>>

Next ==
  \/ \E c \in Cmds : Invocation(c) \/ Teardown(c) \/ Starting(c) \/ Opening(c)
  \/ ForceQuit

Spec == Init /\ [][Next]_vars

-----------------------------------------------------------------------------
(* What the supervisor promises                                             *)

\* A process some command took out of the supervisor and has not killed yet.
Taken == UNION {cmd[c].taken : c \in Cmds}

SidecarsAreTracked == alive \cap Sidecar \subseteq supervisor \cup Taken \cup loose

NoDoubleKill ==
  /\ \A c, d \in Cmds : c # d => cmd[c].taken \cap cmd[d].taken \cap Sidecar = {}
  /\ Taken \cap supervisor \cap Sidecar = {}

\* Every sidecar that runs is known to the supervisor, or to a command that is
\* about to kill it, so that the next teardown reaches it; only the end of the
\* app, or a kill that failed, may leave sidecars behind.  And no process is shut
\* down by two teardowns (Supervisor::shut_down_all takes the set): a sidecar
\* never has two killers, nor one while still tracked.  Commands of all kinds
\* interleave.
TrackedOnce == SidecarsAreTracked /\ NoDoubleKill

NothingLeftBehind == alone => alive \subseteq supervisor \cup Taken \cup loose

\* While commands come one at a time, whatever runs, projects included, is
\* reached by the next teardown, or was left running by the end of the app or by
\* a shutdown that was attempted and failed, also after a start that failed half
\* way; a project left running is reached again once its environment is started
\* (start_compose tracks it before `up`).  And what the exit hook leaves running
\* was left in one of those two ways before.
NothingEscapes ==
  [][/\ NothingLeftBehind'
     /\ \A c \in Cmds : alone /\ Quit(c) => alive \subseteq loose]_vars

\* The environment a catalog server or a project belongs to.
Serves(m, e) == m = e \/ (m \in Sidecar /\ of[m] = [env |-> e, label |-> "uc"])

OneEnvironmentTracked ==
  alone => \A m, n \in supervisor, e, f \in Envs : Serves(m, e) /\ Serves(n, f) => e = f
NotebookServerIsOwn ==
  alone /\ marimo # None /\ active.env # None => of[marimo].env = active.env

\* While commands come one at a time, the servers and projects of two
\* environments are never tracked together (uc.rs: the supervisor holds only
\* the current environment's set), and the notebook server that is known is the
\* active environment's (commands.rs: the bookkeeping is cleared on a switch, so
\* that the next environment's server is discovered fresh).
OneEnvironmentUp == OneEnvironmentTracked /\ NotebookServerIsOwn

\* While commands come one at a time, an environment that becomes active has
\* its server and its project up, and both of them tracked, so that the next
\* teardown attempts to end them: also a project that an earlier end of the app
\* or a failing `down` left running.
ActivatesLive ==
  [][LET e == active'.env
     IN alone /\ active' # active /\ e # None =>
          /\ active'.uc \in alive \cap supervisor
          /\ of[active'.uc] = [env |-> e, label |-> "uc"]
          /\ e \in WithModules => e \in alive \cap supervisor]_vars

-----------------------------------------------------------------------------
(* What the UI sees of it                                                   *)

\* How far a lifecycle command is, for its caller; the exit hook and the opening
\* of a notebook are no lifecycle command.
Phase(x) ==
  IF x.pc \in {"idle", "ensure", "scrape"} \/ x.then = "quit" THEN "idle" ELSE
  IF x.pc = "describe" THEN "answering" ELSE
  IF x.then = "clear" THEN "stopping" ELSE "starting"

CallOf(x) ==
  [env |-> IF Phase(x) = "idle" THEN None ELSE x.env, pc |-> Phase(x)]

Lifecycle == INSTANCE HostCalls WITH active <- active.env, call <- [c \in Cmds |-> CallOf(cmd[c])]

\* Whatever the processes do, starts and stops look to the UI as HostCalls says:
\* the active environment changes only when a start succeeds or a stop ends, and
\* a start that fails leaves it alone.
ImplementsHostCalls == Lifecycle!HostSpec

-----------------------------------------------------------------------------
(* What a comment says and the code does not do                             *)

\* commands.rs: re-starting an environment respawns it cleanly.  A start that
\* returns the descriptor of its environment leaves its server running.
StartLeavesItRunning ==
  [][\A c \in Cmds : Describe(c) /\ active.env = cmd[c].env => active.uc \in alive]_vars

=============================================================================
