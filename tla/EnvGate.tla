------------------------------- MODULE EnvGate -------------------------------
(***************************************************************************)
(* The environment shell of the UI: EnvironmentGate, the switcher in its   *)
(* header and the lifecycle buttons of the manager, over the host calls of *)
(* HostCalls.  Every handler runs up to its await in one action, and what  *)
(* follows the await, with the values the handler captured when it was     *)
(* called, in another.                                                     *)
(***************************************************************************)
EXTENDS HostCalls

ASSUME RepliesAreNoEnvs == {"pending", "error", "stopped"} \cap Envs = {}

VARIABLES
  running,     \* the environment the UI takes as running
  view,        \* which of the app and the manager is shown
  transition,  \* the start or stop of the manager in flight
  busy,        \* the switch that keeps the switcher's menu busy
  op,          \* each handler in flight
  cache,       \* the environments whose answers the query cache holds
  alone        \* history: no handler ever ran while another was in flight

gateVars == <<running, view, transition, busy, op, cache, alone>>
vars == <<hostVars, gateVars>>

\* What a handler does, for which environment, the running environment it
\* captured, and the reply of the host.
Handler ==
  [kind : {"none", "start", "launch", "switch", "stop"}, env : Envs \cup {None},
   seen : Envs \cup {None}, reply : Envs \cup {"pending", "error", "stopped"}]

NoHandler == [kind |-> "none", env |-> None, seen |-> None, reply |-> "pending"]

NoTransition == [env |-> None, kind |-> "none"]

TypeOK ==
  /\ HostTypeOK
  /\ running \in Envs \cup {None}
  /\ view \in {"app", "manager"}
  /\ transition \in [env : Envs \cup {None}, kind : {"none", "starting", "stopping"}]
  /\ busy \in Cmds \cup {None}
  /\ op \in [Cmds -> Handler]
  /\ cache \in SUBSET Envs
  /\ alone \in BOOLEAN

Init ==
  /\ HostInit
  /\ running = None
  /\ view = "manager"
  /\ transition = NoTransition
  /\ busy = None
  /\ op = [c \in Cmds |-> NoHandler]
  /\ cache = {}
  /\ alone = TRUE

-----------------------------------------------------------------------------
(* What the user does                                                       *)

InFlight(c) == op[c].kind # "none"

\* A handler is called and captures the running environment.
Called(c, kind, e, reply) ==
  /\ ~InFlight(c)
  /\ op' = [op EXCEPT ![c] = [kind |-> kind, env |-> e, seen |-> running, reply |-> reply]]
  /\ alone' = (alone /\ \A d \in Cmds \ {c} : ~InFlight(d))

\* The lifecycle button of e in the manager is enabled unless e itself is in
\* transition; the handlers return at once when anything is.
NoneInTransition == transition = NoTransition

\* startEnv: Start, or Launch, which also opens the app.
StartEnv(c, e, kind) ==
  /\ view = "manager" /\ running # e
  /\ NoneInTransition
  /\ Called(c, kind, e, "pending")
  /\ transition' = [env |-> e, kind |-> "starting"]
  /\ BeginStart(c, e)
  /\ UNCHANGED <<running, view, busy, cache>>

\* stopEnv: offered for the running environment.  The host does nothing when it
\* is not the active one.
StopEnv(c, e) ==
  /\ view = "manager" /\ running = e
  /\ NoneInTransition
  /\ transition' = [env |-> e, kind |-> "stopping"]
  /\ IF active = e
     THEN Called(c, "stop", e, "pending") /\ BeginStop(c, e)
     ELSE Called(c, "stop", e, "stopped") /\ UNCHANGED hostVars
  /\ UNCHANGED <<running, view, busy, cache>>

\* switchTo of the switcher, whose entries are disabled while it is busy, and
\* of the gate, which no transition holds back.
SwitchTo(c, e) ==
  /\ view = "app" /\ running \notin {None, e}
  /\ busy = None
  /\ Called(c, "switch", e, "pending")
  /\ busy' = c
  /\ BeginStart(c, e)
  /\ UNCHANGED <<running, view, transition, cache>>

\* "Manage environments": the switcher is unmounted and its busy state is gone.
Manage ==
  /\ view = "app" /\ running # None
  /\ view' = "manager" /\ busy' = None
  /\ UNCHANGED <<hostVars, running, transition, op, cache, alone>>

\* Re-open the running environment, unless it is in transition.
Open ==
  /\ view = "manager" /\ running # None /\ transition.env # running
  /\ view' = "app"
  /\ UNCHANGED <<hostVars, running, transition, busy, op, cache, alone>>

\* A query of a view of the running environment: the proxy sends it to the
\* environment that is active in the host.
Query ==
  /\ running # None /\ active # None
  /\ cache' = cache \cup {active}
  /\ UNCHANGED <<hostVars, running, view, transition, busy, op, alone>>

-----------------------------------------------------------------------------
(* What the host does                                                       *)

\* The host goes on with a call, without an answer yet.
HostWorks == \E c \in Cmds : Activated(c) /\ UNCHANGED gateVars

\* Mutant: the descriptor is returned without a look whether there is one.
HostRepliesUnchecked(c) ==
  /\ \/ Answer(c) /\ op' = [op EXCEPT ![c].reply = active]
     \/ FailStart(c) /\ op' = [op EXCEPT ![c].reply = "error"]
     \/ Deactivated(c) /\ op' = [op EXCEPT ![c].reply = "stopped"]
  /\ UNCHANGED <<running, view, transition, busy, cache, alone>>

\* The host answers.  A start is answered with the environment active by now,
\* or with an error if none is.
HostReplies(c) ==
  /\ \/ /\ Answer(c)
        /\ op' = [op EXCEPT ![c].reply = IF active = None THEN "error" ELSE active]
     \/ FailStart(c) /\ op' = [op EXCEPT ![c].reply = "error"]
     \/ Deactivated(c) /\ op' = [op EXCEPT ![c].reply = "stopped"]
  /\ UNCHANGED <<running, view, transition, busy, cache, alone>>

-----------------------------------------------------------------------------
(* What follows the await                                                   *)

\* The handler ends, and with it the transition or the busy state it began.
Settled(c) ==
  /\ op' = [op EXCEPT ![c] = NoHandler]
  /\ transition' = IF op[c].kind = "switch" THEN transition ELSE NoTransition
  /\ UNCHANGED <<hostVars, alone>>

\* The switcher is no longer busy: the switch is over, or it is not shown.
Idle(c) == busy' = IF view' = "app" /\ busy # c THEN busy ELSE None

\* Mutant: the cache is dropped only when the environment stays the same.
AdoptStale(c) ==
  /\ op[c].reply \in Envs
  /\ cache' = IF op[c].reply # op[c].seen THEN cache ELSE {}
  /\ running' = op[c].reply
  /\ view' = IF op[c].kind = "start" THEN view ELSE "app"
  /\ Settled(c) /\ Idle(c)

\* adopt, or onStarted, with the environment the host returned: the query cache
\* is dropped unless it is the one that was running.
Adopt(c) ==
  /\ op[c].reply \in Envs
  /\ cache' = IF op[c].reply # op[c].seen THEN {} ELSE cache
  /\ running' = op[c].reply
  /\ view' = IF op[c].kind = "start" THEN view ELSE "app"
  /\ Settled(c) /\ Idle(c)

\* Mutant: a start that fails is taken as a stop.
ReportErrorStopped(c) ==
  /\ op[c].reply = "error"
  /\ running' = None
  /\ Settled(c)
  /\ UNCHANGED <<view, cache>> /\ Idle(c)

\* The error is shown.
ReportError(c) ==
  /\ op[c].reply = "error"
  /\ Settled(c)
  /\ UNCHANGED <<running, view, cache>> /\ Idle(c)

\* onStopped: the environment was the running one when the handler was called.
Stopped(c) ==
  /\ op[c].reply = "stopped"
  /\ IF op[c].seen = op[c].env
     THEN cache' = {} /\ running' = None /\ view' = "manager"
     ELSE UNCHANGED <<cache, running, view>>
  /\ Settled(c) /\ Idle(c)

Next ==
  \/ \E c \in Cmds, e \in Envs :
       (\E kind \in {"start", "launch"} : StartEnv(c, e, kind)) \/ StopEnv(c, e) \/ SwitchTo(c, e)
  \/ Manage \/ Open \/ Query \/ HostWorks
  \/ \E c \in Cmds : HostReplies(c) \/ Adopt(c) \/ ReportError(c) \/ Stopped(c)

Spec == Init /\ [][Next]_vars

-----------------------------------------------------------------------------
(* What the shell promises                                                  *)

Quiet == \A c \in Cmds : ~InFlight(c)

\* While handlers run one at a time, the environment the UI takes as running is
\* the one the host has active whenever nothing is in flight, also after a start
\* that failed; and no answer of another environment is in the query cache then
\* (adopt: a newly selected environment must not inherit the previous one's
\* cache), although queries of the view that is about to go reach the environment
\* that is about to come.
ShellAgrees ==
  alone /\ Quiet => running = active /\ cache \subseteq {running}

\* The status shown is that of the one start or stop of the manager in flight,
\* however switches interleave with it: the buttons are released when it is over
\* and not before.
TransitionIsInFlight ==
  \A c \in Cmds :
    op[c].kind \in {"start", "launch", "stop"} =>
      /\ transition.env = op[c].env
      /\ \A d \in Cmds \ {c} : op[d].kind \notin {"start", "launch", "stop"}

-----------------------------------------------------------------------------
(* What a comment says and the code does not do                             *)

\* EnvironmentGate.tsx: the transition guards against concurrent lifecycle ops.
OneOperation == \A c, d \in Cmds : InFlight(c) /\ InFlight(d) => c = d

=============================================================================
