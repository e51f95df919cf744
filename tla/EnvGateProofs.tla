---------------------------- MODULE EnvGateProofs ----------------------------
(***************************************************************************)
(* Proofs about EnvGate, ManagerForms, EditorTabs and QueryResults, for    *)
(* any environments, paths and tabs and any number of handlers in flight,  *)
(* of runs and of chunks.  Of the gate: a call of the host is that of a    *)
(* handler waiting for it.  Of the forms: what is shown is what the host   *)
(* has, but for one call in flight.  Of the tabs: what the user opened is  *)
(* in the strip, kept, or still to be restored.  Of the results: what a    *)
(* controller and a run know of each other.                                *)
(***************************************************************************)
EXTENDS EnvGate, ManagerForms, EditorTabs, QueryResults, SequenceTheorems, TLAPS

\* A call of the host in progress is that of a handler waiting for it, and only
\* a handler in flight has an answer.
CallsOK ==
  \A c \in Cmds :
    /\ call[c].pc # "idle" => InFlight(c) /\ op[c].reply = "pending" /\ call[c].env \in Envs
    /\ ~InFlight(c) => op[c].reply = "pending"

TypeInv == TypeOK /\ CallsOK

\* The initial state is well typed.
LEMMA InitTypeInv == ASSUME Init PROVE TypeInv
<1>1. IdleCall \in [env : Envs \cup {None}, pc : {"idle", "starting", "stopping", "answering"}]
  BY DEF IdleCall
<1>2. NoHandler \in Handler
  BY DEF NoHandler, Handler
<1>3. TypeOK
  BY <1>1, <1>2 DEF Init, HostInit, TypeOK, HostTypeOK, NoTransition
<1>4. CallsOK
  BY DEF Init, HostInit, CallsOK, IdleCall, NoHandler
<1>5. QED
  BY <1>3, <1>4 DEF TypeInv

\* What a handler does when it is called.
LEMMA UserTypeInv ==
  ASSUME TypeInv, NEW c \in Cmds, NEW e \in Envs,
         (\E kind \in {"start", "launch"} : StartEnv(c, e, kind)) \/ StopEnv(c, e) \/ SwitchTo(c, e)
  PROVE  TypeInv'
<1>1. PICK kind \in {"start", "launch", "switch", "stop"}, reply \in {"pending", "stopped"} :
        Called(c, kind, e, reply)
  BY DEF StartEnv, StopEnv, SwitchTo
<1>2. [kind |-> kind, env |-> e, seen |-> running, reply |-> reply] \in Handler
  BY DEF Handler, TypeInv, TypeOK
<1>3. op' \in [Cmds -> Handler] /\ alone' \in BOOLEAN
  BY <1>1, <1>2 DEF Called, TypeInv, TypeOK
<1>4. call' \in [Cmds -> [env : Envs \cup {None}, pc : {"idle", "starting", "stopping", "answering"}]]
      /\ active' = active
  BY DEF StartEnv, StopEnv, SwitchTo, BeginStart, BeginStop, hostVars, TypeInv, TypeOK, HostTypeOK
<1>5. /\ running' = running /\ view' = view /\ cache' = cache /\ busy' \in Cmds \cup {None}
      /\ transition' \in [env : Envs \cup {None}, kind : {"none", "starting", "stopping"}]
  BY DEF StartEnv, StopEnv, SwitchTo, TypeInv, TypeOK
<1>6. TypeOK'
  BY <1>3, <1>4, <1>5 DEF TypeInv, TypeOK, HostTypeOK
<1>7. CallsOK'
  BY DEF StartEnv, StopEnv, SwitchTo, Called, BeginStart, BeginStop, hostVars, InFlight,
     TypeInv, TypeOK, HostTypeOK, CallsOK
<1>8. QED
  BY <1>6, <1>7 DEF TypeInv

\* What the host does.
LEMMA HostTypeInv ==
  ASSUME TypeInv, HostWorks \/ \E c \in Cmds : HostReplies(c)
  PROVE  TypeInv'
<1>1. ASSUME NEW c \in Cmds, Activated(c), UNCHANGED gateVars PROVE TypeInv'
  <2>1. TypeOK'
    BY <1>1 DEF Activated, Reaches, gateVars, TypeInv, TypeOK, HostTypeOK, CallsOK
  <2>2. CallsOK'
    BY <1>1 DEF Activated, Reaches, gateVars, TypeInv, TypeOK, HostTypeOK, CallsOK, InFlight
  <2>3. QED
    BY <2>1, <2>2 DEF TypeInv
<1>2. ASSUME NEW c \in Cmds, HostReplies(c) PROVE TypeInv'
  <2>1. PICK reply \in Envs \cup {"pending", "error", "stopped"} : op' = [op EXCEPT ![c].reply = reply]
    BY <1>2 DEF HostReplies, TypeInv, TypeOK, HostTypeOK
  <2>2. [op[c] EXCEPT !.reply = reply] \in Handler
    BY DEF TypeInv, TypeOK, Handler
  <2>3. op' \in [Cmds -> Handler] /\ \A d \in Cmds : op'[d].kind = op[d].kind
    BY <2>1, <2>2 DEF TypeInv, TypeOK, Handler
  <2>4. Ends(c) /\ active' \in Envs \cup {None}
    BY <1>2 DEF HostReplies, Answer, FailStart, Deactivated, TypeInv, TypeOK, HostTypeOK
  <2>5. IdleCall \in [env : Envs \cup {None}, pc : {"idle", "starting", "stopping", "answering"}]
    BY DEF IdleCall
  <2>6. TypeOK'
    BY <1>2, <2>3, <2>4, <2>5 DEF HostReplies, Ends, TypeInv, TypeOK, HostTypeOK
  <2>7. CallsOK'
    <3>1. InFlight(c)
      BY <1>2 DEF HostReplies, Answer, FailStart, Deactivated, TypeInv, CallsOK
    <3>2. call' = [call EXCEPT ![c] = IdleCall] /\ call'[c].pc = "idle"
      BY <2>4 DEF Ends, IdleCall, TypeInv, TypeOK, HostTypeOK
    <3>3. \A d \in Cmds \ {c} : op'[d] = op[d] /\ call'[d] = call[d]
      BY <2>1, <3>2 DEF TypeInv, TypeOK, HostTypeOK
    <3>4. QED
      BY <2>3, <3>1, <3>2, <3>3 DEF TypeInv, CallsOK, InFlight
  <2>8. QED
    BY <2>6, <2>7 DEF TypeInv
<1>3. QED
  BY <1>1, <1>2 DEF HostWorks

\* What follows the await of a handler.
LEMMA AwaitTypeInv ==
  ASSUME TypeInv, NEW c \in Cmds, Adopt(c) \/ ReportError(c) \/ Stopped(c)
  PROVE  TypeInv'
<1>1. Settled(c) /\ op[c].reply # "pending"
  BY RepliesAreNoEnvs DEF Adopt, ReportError, Stopped
<1>2. NoHandler \in Handler
  BY DEF NoHandler, Handler
<1>3. /\ op' \in [Cmds -> Handler] /\ active' = active /\ call' = call /\ alone' = alone
      /\ transition' \in [env : Envs \cup {None}, kind : {"none", "starting", "stopping"}]
  BY <1>1, <1>2 DEF Settled, NoTransition, hostVars, TypeInv, TypeOK
<1>4. /\ running' \in Envs \cup {None} /\ view' \in {"app", "manager"}
      /\ cache' \in SUBSET Envs /\ busy' \in Cmds \cup {None}
  BY DEF Adopt, ReportError, Stopped, Idle, TypeInv, TypeOK
<1>5. TypeOK'
  BY <1>3, <1>4 DEF TypeInv, TypeOK, HostTypeOK
<1>6. CallsOK'
  BY <1>1, <1>3 DEF Settled, CallsOK, InFlight, NoHandler, TypeInv, TypeOK
<1>7. QED
  BY <1>5, <1>6 DEF TypeInv

\* The state of the shell is always well typed, and the host is at work only
\* for a handler that waits for it.
THEOREM TypeCorrect == Spec => []TypeInv
<1>1. TypeInv /\ [Next]_vars => TypeInv'
  <2> SUFFICES ASSUME TypeInv, [Next]_vars PROVE TypeInv'
    OBVIOUS
  <2>1. CASE UNCHANGED vars
    BY <2>1 DEF vars, hostVars, gateVars, TypeInv, TypeOK, HostTypeOK, CallsOK, InFlight
  <2>2. CASE Manage \/ Open \/ Query
    <3>1. TypeOK'
      BY <2>2 DEF Manage, Open, Query, hostVars, TypeInv, TypeOK, HostTypeOK
    <3>2. CallsOK'
      BY <2>2 DEF Manage, Open, Query, hostVars, TypeInv, CallsOK, InFlight
    <3>3. QED
      BY <3>1, <3>2 DEF TypeInv
  <2>3. QED
    BY <2>1, <2>2, UserTypeInv, HostTypeInv, AwaitTypeInv DEF Next
<1>2. QED
  BY <1>1, InitTypeInv, PTL DEF Spec

\* TypeOK alone.
THEOREM TypesHold == Spec => []TypeOK
<1>1. TypeInv => TypeOK
  BY DEF TypeInv
<1>2. QED
  BY <1>1, TypeCorrect, PTL

-----------------------------------------------------------------------------
(* While handlers run one at a time                                         *)

\* The UI and the host agree and the cache holds answers of nobody else.
Agreed == running = active /\ cache \subseteq {running}

\* The only handler in flight knows what is running, and what the UI and the
\* host make of it differs by what the call has done so far.
HandlerOK(c) ==
  /\ \A d \in Cmds : InFlight(d) => d = c
  /\ op[c].seen = running
  /\ call[c].pc = "starting" => Agreed
  /\ call[c].pc = "stopping" => Agreed /\ op[c].env = running
  /\ call[c].pc = "answering" => active \in Envs /\ cache \subseteq {running, active}
  /\ op[c].reply \in Envs => active = op[c].reply /\ cache \subseteq {running, active}
  /\ op[c].reply = "error" => Agreed
  /\ op[c].reply = "stopped" => active = None /\ op[c].env = running

AloneOK == alone => (Quiet => Agreed) /\ \A c \in Cmds : InFlight(c) => HandlerOK(c)

\* The call of a handler leaves UI and host as they were.
LEMMA UserAloneOK ==
  ASSUME TypeInv, AloneOK, NEW c \in Cmds, NEW e \in Envs,
         (\E kind \in {"start", "launch"} : StartEnv(c, e, kind)) \/ StopEnv(c, e) \/ SwitchTo(c, e)
  PROVE  AloneOK'
<1>1. PICK kind \in {"start", "launch", "switch", "stop"}, reply \in {"pending", "stopped"} :
        Called(c, kind, e, reply)
  BY DEF StartEnv, StopEnv, SwitchTo
<1>2. SUFFICES ASSUME alone' PROVE AloneOK'
  BY DEF AloneOK
<1>3. alone /\ \A d \in Cmds : ~InFlight(d)
  BY <1>1, <1>2 DEF Called
<1>4. Agreed
  BY <1>3 DEF AloneOK, Quiet
<1>5. /\ op'[c] = [kind |-> kind, env |-> e, seen |-> running, reply |-> reply]
      /\ \A d \in Cmds \ {c} : op'[d] = op[d]
  BY <1>1 DEF Called, TypeInv, TypeOK
<1>6. running' = running /\ active' = active /\ cache' = cache
  BY DEF StartEnv, StopEnv, SwitchTo, BeginStart, BeginStop, hostVars
<1>7. /\ op'[c].reply \notin Envs /\ op'[c].reply # "error"
      /\ op'[c].reply = "stopped" => active # e /\ running = e
      /\ call'[c].pc = "answering" => active = e
      /\ call'[c].pc = "stopping" => running = e
  <2>1. CASE StopEnv(c, e)
    <3>1. /\ active = e => call'[c] = [env |-> e, pc |-> "stopping"]
          /\ active # e => call' = call
      BY <2>1 DEF StopEnv, BeginStop, hostVars, TypeInv, TypeOK, HostTypeOK
    <3>2. call[c].pc = "idle"
      BY <1>3 DEF TypeInv, CallsOK
    <3>3. op'[c].reply = IF active = e THEN "pending" ELSE "stopped"
      BY <2>1 DEF StopEnv, Called, TypeInv, TypeOK
    <3>4. running = e
      BY <2>1 DEF StopEnv
    <3>5. QED
      BY <3>1, <3>2, <3>3, <3>4, RepliesAreNoEnvs
  <2>2. CASE BeginStart(c, e) /\ \E k : Called(c, k, e, "pending")
    <3>1. call'[c] = [env |-> e, pc |-> IF active = e THEN "answering" ELSE "starting"]
      BY <2>2 DEF BeginStart, TypeInv, TypeOK, HostTypeOK
    <3>2. op'[c].reply = "pending"
      BY <2>2 DEF Called, TypeInv, TypeOK
    <3>3. QED
      BY <3>1, <3>2, RepliesAreNoEnvs
  <2>3. QED
    BY <2>1, <2>2 DEF StartEnv, SwitchTo
<1>8. \A d \in Cmds : InFlight(d)' => d = c
  BY <1>3, <1>5 DEF InFlight
<1>9. InFlight(c)'
  BY <1>5 DEF InFlight
<1>10. HandlerOK(c)'
  BY <1>4, <1>5, <1>6, <1>7, <1>8 DEF HandlerOK, Agreed
<1>11. QED
  BY <1>8, <1>9, <1>10 DEF AloneOK, Quiet

\* The host moves for the only handler in flight.
LEMMA HostAloneOK ==
  ASSUME TypeInv, AloneOK, HostWorks \/ \E c \in Cmds : HostReplies(c)
  PROVE  AloneOK'
<1>1. SUFFICES ASSUME alone' PROVE AloneOK'
  BY DEF AloneOK
<1>2. alone /\ running' = running /\ cache' = cache
  BY <1>1 DEF HostWorks, HostReplies, gateVars
<1>3. ASSUME NEW c \in Cmds, Activated(c), UNCHANGED gateVars PROVE AloneOK'
  <2>1. call[c].pc = "starting" /\ call[c].env \in Envs /\ InFlight(c) /\ op[c].reply = "pending"
    BY <1>3 DEF Activated, TypeInv, CallsOK
  <2>2. HandlerOK(c) /\ Agreed
    BY <1>2, <2>1 DEF AloneOK, HandlerOK
  <2>3. active' = call[c].env /\ call'[c].pc = "answering" /\ op' = op
    BY <1>3 DEF Activated, Reaches, gateVars, TypeInv, TypeOK, HostTypeOK
  <2>4. HandlerOK(c)'
    BY <1>2, <2>1, <2>2, <2>3, RepliesAreNoEnvs DEF HandlerOK, Agreed, InFlight
  <2>5. \A d \in Cmds : InFlight(d)' => d = c
    BY <2>2, <2>3 DEF HandlerOK, InFlight
  <2>6. ~Quiet'
    BY <2>1, <2>3 DEF Quiet, InFlight
  <2>7. QED
    BY <2>4, <2>5, <2>6 DEF AloneOK
<1>4. ASSUME NEW c \in Cmds, HostReplies(c) PROVE AloneOK'
  <2>1. call[c].pc \in {"answering", "starting", "stopping"} /\ InFlight(c)
    BY <1>4 DEF HostReplies, Answer, FailStart, Deactivated, TypeInv, CallsOK
  <2>2. HandlerOK(c)
    BY <1>2, <2>1 DEF AloneOK
  <2>3. PICK reply : op' = [op EXCEPT ![c].reply = reply]
    BY <1>4 DEF HostReplies
  <2>4. /\ op'[c].reply = reply /\ op'[c].seen = op[c].seen /\ op'[c].env = op[c].env
        /\ \A d \in Cmds : op'[d].kind = op[d].kind
    BY <2>3 DEF TypeInv, TypeOK, Handler
  <2>5. Ends(c)
    BY <1>4 DEF HostReplies, Answer, FailStart, Deactivated
  <2>6. call'[c].pc = "idle"
    BY <2>5 DEF Ends, IdleCall, TypeInv, TypeOK, HostTypeOK
  <2>7. CASE Answer(c) /\ reply = IF active = None THEN "error" ELSE active
    <3>1. active' = active /\ active \in Envs /\ cache \subseteq {running, active} /\ reply = active
      BY <2>2, <2>7, NoneIsNoEnv DEF Answer, HandlerOK
    <3>2. HandlerOK(c)'
      BY <1>2, <2>2, <2>4, <2>6, <3>1, RepliesAreNoEnvs DEF HandlerOK, InFlight
    <3>3. QED
      BY <2>1, <2>2, <2>4, <3>2 DEF AloneOK, HandlerOK, Quiet, InFlight
  <2>8. CASE FailStart(c) /\ reply = "error"
    <3>1. active' = active /\ Agreed
      BY <2>2, <2>8 DEF FailStart, HandlerOK
    <3>2. HandlerOK(c)'
      BY <1>2, <2>2, <2>4, <2>6, <2>8, <3>1, RepliesAreNoEnvs DEF HandlerOK, Agreed, InFlight
    <3>3. QED
      BY <2>1, <2>2, <2>4, <3>2 DEF AloneOK, HandlerOK, Quiet, InFlight
  <2>9. CASE Deactivated(c) /\ reply = "stopped"
    <3>1. active' = None /\ op[c].env = running
      BY <2>2, <2>9 DEF Deactivated, HandlerOK
    <3>2. HandlerOK(c)'
      BY <1>2, <2>2, <2>4, <2>6, <2>9, <3>1, RepliesAreNoEnvs DEF HandlerOK, Agreed, InFlight
    <3>3. QED
      BY <2>1, <2>2, <2>4, <3>2 DEF AloneOK, HandlerOK, Quiet, InFlight
  <2>10. QED
    <3>1. ASSUME NEW x, op' = [op EXCEPT ![c].reply = x] PROVE x = reply
      BY <2>4, <3>1 DEF TypeInv, TypeOK, Handler
    <3>2. QED
      BY <1>4, <2>7, <2>8, <2>9, <3>1 DEF HostReplies
<1>5. QED
  BY <1>3, <1>4 DEF HostWorks

\* The end of the only handler in flight leaves UI and host agreed.
LEMMA AwaitAloneOK ==
  ASSUME TypeInv, AloneOK, NEW c \in Cmds, Adopt(c) \/ ReportError(c) \/ Stopped(c)
  PROVE  AloneOK'
<1>1. SUFFICES ASSUME alone' PROVE AloneOK'
  BY DEF AloneOK
<1>2. Settled(c) /\ op[c].reply # "pending"
  BY RepliesAreNoEnvs DEF Adopt, ReportError, Stopped
<1>3. alone /\ active' = active /\ op' = [op EXCEPT ![c] = NoHandler]
  BY <1>1, <1>2 DEF Settled, hostVars
<1>4. InFlight(c)
  BY <1>2 DEF TypeInv, CallsOK
<1>5. HandlerOK(c)
  BY <1>3, <1>4 DEF AloneOK
<1>6. Agreed'
  <2>1. CASE Adopt(c)
    <3>1. op[c].reply \in Envs /\ running' = op[c].reply
          /\ cache' = IF op[c].reply # op[c].seen THEN {} ELSE cache
      BY <2>1 DEF Adopt
    <3>2. QED
      BY <1>3, <1>5, <3>1 DEF HandlerOK, Agreed
  <2>2. CASE ReportError(c)
    BY <1>3, <1>5, <2>2 DEF ReportError, HandlerOK, Agreed
  <2>3. CASE Stopped(c)
    BY <1>3, <1>5, <2>3 DEF Stopped, HandlerOK, Agreed
  <2>4. QED
    BY <2>1, <2>2, <2>3
<1>7. \A d \in Cmds : ~InFlight(d)'
  BY <1>3, <1>5 DEF HandlerOK, InFlight, NoHandler, TypeInv, TypeOK
<1>8. QED
  BY <1>6, <1>7 DEF AloneOK

\* The inductive invariant of the shell: however calls fail, as long as handlers
\* run one at a time.
LEMMA AloneInvariant == Spec => []AloneOK
<1>1. Init => AloneOK
  BY DEF Init, HostInit, AloneOK, Agreed, InFlight, NoHandler
<1>2. TypeInv /\ AloneOK /\ [Next]_vars => AloneOK'
  <2> SUFFICES ASSUME TypeInv, AloneOK, [Next]_vars PROVE AloneOK'
    OBVIOUS
  <2>1. CASE UNCHANGED vars
    BY <2>1 DEF vars, hostVars, gateVars, AloneOK, HandlerOK, Agreed, Quiet, InFlight
  <2>2. CASE Manage \/ Open
    BY <2>2 DEF Manage, Open, hostVars, AloneOK, HandlerOK, Agreed, Quiet, InFlight
  <2>3. CASE Query
    <3>1. /\ cache' = cache \cup {active} /\ active' = active /\ call' = call
          /\ running' = running /\ op' = op /\ alone' = alone /\ active # None
      BY <2>3 DEF Query, hostVars
    <3>2. Agreed => Agreed'
      BY <3>1 DEF Agreed
    <3>3. \A c \in Cmds : HandlerOK(c) => HandlerOK(c)'
      BY <3>1, <3>2 DEF HandlerOK, InFlight
    <3>4. QED
      BY <3>1, <3>2, <3>3 DEF AloneOK, Quiet, InFlight
  <2>4. QED
    BY <2>1, <2>2, <2>3, UserAloneOK, HostAloneOK, AwaitAloneOK DEF Next
<1>3. QED
  BY <1>1, <1>2, TypeCorrect, PTL DEF Spec

\* While handlers run one at a time, the UI and the host agree on what runs
\* whenever nothing is in flight, and the query cache holds nothing of another
\* environment once a switch is done.
THEOREM ShellAgreesHolds == Spec => []ShellAgrees
<1>1. AloneOK => ShellAgrees
  BY DEF AloneOK, Agreed, ShellAgrees
<1>2. QED
  BY <1>1, AloneInvariant, PTL

-----------------------------------------------------------------------------
(* The transition, however handlers interleave                              *)

ForEnvs == \A c \in Cmds : InFlight(c) => op[c].env \in Envs

\* The status the manager shows is that of the one start or stop in flight.
THEOREM TransitionIsInFlightHolds == Spec => []TransitionIsInFlight
<1>1. Init => ForEnvs /\ TransitionIsInFlight
  BY DEF Init, ForEnvs, TransitionIsInFlight, InFlight, NoHandler
<1>2. TypeInv /\ ForEnvs /\ TransitionIsInFlight /\ [Next]_vars => (ForEnvs /\ TransitionIsInFlight)'
  <2> SUFFICES ASSUME TypeInv, ForEnvs, TransitionIsInFlight, [Next]_vars
               PROVE  (ForEnvs /\ TransitionIsInFlight)'
    OBVIOUS
  <2>1. ASSUME transition' = transition,
               \A c \in Cmds : op'[c].kind = op[c].kind /\ op'[c].env = op[c].env
        PROVE  (ForEnvs /\ TransitionIsInFlight)'
    BY <2>1 DEF ForEnvs, TransitionIsInFlight, InFlight
  <2>2. CASE UNCHANGED vars \/ Manage \/ Open \/ Query \/ HostWorks
    BY <2>1, <2>2 DEF vars, gateVars, Manage, Open, Query, HostWorks
  <2>3. ASSUME NEW c \in Cmds, HostReplies(c) PROVE (ForEnvs /\ TransitionIsInFlight)'
    <3>1. \A d \in Cmds : op'[d].kind = op[d].kind /\ op'[d].env = op[d].env
      BY <2>3 DEF HostReplies, TypeInv, TypeOK, Handler
    <3>2. QED
      BY <2>1, <2>3, <3>1 DEF HostReplies
  <2>4. ASSUME NEW c \in Cmds, NEW e \in Envs, NEW kind, NEW reply, Called(c, kind, e, reply)
        PROVE  /\ op'[c].kind = kind /\ op'[c].env = e
               /\ \A d \in Cmds \ {c} : op'[d] = op[d]
    BY <2>4 DEF Called, TypeInv, TypeOK
  <2>5. ASSUME NEW c \in Cmds, NEW e \in Envs,
               (\E kind \in {"start", "launch"} : StartEnv(c, e, kind)) \/ StopEnv(c, e)
        PROVE  (ForEnvs /\ TransitionIsInFlight)'
    <3>1. \A d \in Cmds : op[d].kind \notin {"start", "launch", "stop"}
      BY <2>5, NoneIsNoEnv
         DEF StartEnv, StopEnv, NoneInTransition, NoTransition, ForEnvs, TransitionIsInFlight, InFlight
    <3>2. PICK kind, reply : Called(c, kind, e, reply)
      BY <2>5 DEF StartEnv, StopEnv
    <3>3. transition'.env = e
      BY <2>5 DEF StartEnv, StopEnv
    <3>4. QED
      BY <2>4, <3>1, <3>2, <3>3 DEF ForEnvs, TransitionIsInFlight, InFlight
  <2>6. ASSUME NEW c \in Cmds, NEW e \in Envs, SwitchTo(c, e)
        PROVE  (ForEnvs /\ TransitionIsInFlight)'
    <3>1. Called(c, "switch", e, "pending") /\ transition' = transition /\ ~InFlight(c)
      BY <2>6 DEF SwitchTo, Called
    <3>2. QED
      BY <2>4, <3>1 DEF ForEnvs, TransitionIsInFlight, InFlight
  <2>7. ASSUME NEW c \in Cmds, Adopt(c) \/ ReportError(c) \/ Stopped(c)
        PROVE  (ForEnvs /\ TransitionIsInFlight)'
    <3>1. Settled(c)
      BY <2>7 DEF Adopt, ReportError, Stopped
    <3>2. op'[c] = NoHandler /\ \A d \in Cmds \ {c} : op'[d] = op[d]
      BY <3>1 DEF Settled, TypeInv, TypeOK
    <3>3. InFlight(c)
      BY <2>7, RepliesAreNoEnvs DEF Adopt, ReportError, Stopped, TypeInv, CallsOK
    <3>4. CASE op[c].kind = "switch"
      BY <3>1, <3>2, <3>4 DEF Settled, ForEnvs, TransitionIsInFlight, InFlight, NoHandler
    <3>5. CASE op[c].kind # "switch"
      <4>1. op[c].kind \in {"start", "launch", "stop"}
        BY <3>3, <3>5 DEF InFlight, TypeInv, TypeOK, Handler
      <4>2. \A d \in Cmds : op'[d].kind \notin {"start", "launch", "stop"}
        BY <3>2, <4>1 DEF TransitionIsInFlight, NoHandler
      <4>3. QED
        BY <3>2, <4>2 DEF ForEnvs, TransitionIsInFlight, InFlight, NoHandler
    <3>6. QED
      BY <3>4, <3>5
  <2>8. QED
    BY <2>2, <2>3, <2>5, <2>6, <2>7 DEF Next
<1>3. QED
  BY <1>1, <1>2, TypeCorrect, PTL DEF Spec

-----------------------------------------------------------------------------
(* The forms of the manager.                                                *)

\* A form is there only with an environment shown, and the only one of its behaviour; a card has at
\* most one save in flight, and knows of it.
FormsThere ==
  /\ manager.tab = "admin" => Shown # NoProfile /\ up = Shown
  /\ IF card.mounted THEN form = "capabilities" /\ Shown # NoProfile ELSE card = NoCard
  /\ saves # {} <=> card.saving
  /\ \A s, r \in saves : s = r
  /\ keyCard.load # "none" => form = "key" /\ Shown # NoProfile
  /\ keyCard.calls # {} => form = "key"
  /\ viewer.load # "none" => form = "viewer" /\ Shown # NoProfile

\* The configuration read is that of the environment shown.
ViewerInv ==
  /\ viewer.load = "flight" => viewer.read = selections[Shown]
  /\ viewer.load = "loaded" => viewer.shown = selections[Shown]

\* A save that failed would be rolled back to what the host has; a card that was loaded shows that, but
\* for the field of such a save.
CardInv ==
  /\ selections = toggled
  /\ card.load = "flight" => card.read = selections[Shown]
  /\ \A s \in saves : ~s.ok => s.prev[s.field] = selections[s.env][s.field]
  /\ card.load = "loaded" =>
       \A f \in {"modules", "observability"} :
         \/ card.shown[f] = selections[Shown][f]
         \/ \E s \in saves : ~s.ok /\ s.env = Shown /\ s.field = f

\* A call that succeeded answers what the host has; a status that was loaded is that, but for such a call.
KeyInv ==
  /\ \A k, j \in keyCard.calls : k = j
  /\ keyCard.load = "flight" => keyCard.read = keyOf[Shown]
  /\ \A k \in keyCard.calls : k.ok => k.next = keyOf[k.env]
  /\ keyCard.load = "loaded" =>
       \/ keyCard.shown = keyOf[Shown]
       \/ \E k \in keyCard.calls : k.ok /\ k.env = Shown

FormsInv == FormsTypeOK /\ FormsThere /\ ViewerInv /\ (~crossed => CardInv /\ KeyInv)

Manager == [list : SUBSET Profiles, fetched : SUBSET Profiles, first : Profiles,
            pick : Profiles \union {"default", "telemetry"}, tab : {"overview", "config", "admin"},
            creating : Profiles \union {NoProfile}]
Card == [mounted : BOOLEAN, ready : BOOLEAN, shown : Selection, saving : BOOLEAN, load : Loads, read : Selection]
KeyCard == [shown : KeyStatuses \union {"unknown", "unavailable"}, load : Loads, read : KeyStatuses,
            calls : SUBSET KeyCall]
Viewer == [load : Loads, shown : Selection, read : Selection]

\* What is shown is an environment or none; what an empty card or viewer is.
LEMMA FormsTyped ==
  ASSUME FormsTypeOK
  PROVE  /\ \A m \in Manager, u \in Profiles \union {NoProfile} : Selected(m, u) \in Profiles \union {NoProfile}
         /\ manager \in Manager /\ card \in Card /\ keyCard \in KeyCard /\ viewer \in Viewer
         /\ up \in Profiles \union {NoProfile} /\ Shown \in Profiles \union {NoProfile}
         /\ NoProfile \notin Profiles
         /\ selections \in [Profiles -> Selection] /\ keyOf \in [Profiles -> KeyStatuses]
         /\ NoCard \in Card /\ NoViewer \in Viewer /\ NoSelection \in Selection
<1>1. \A m \in Manager, u \in Profiles \union {NoProfile} : Selected(m, u) \in Profiles \union {NoProfile}
  BY DEF Selected, Manager
<1>2. /\ manager \in Manager /\ card \in Card /\ keyCard \in KeyCard /\ viewer \in Viewer
      /\ up \in Profiles \union {NoProfile}
      /\ selections \in [Profiles -> Selection] /\ keyOf \in [Profiles -> KeyStatuses]
  BY DEF FormsTypeOK, Manager, Card, KeyCard, Viewer
<1>3. NoProfile \notin Profiles
  BY FormsAssumption
<1>4. NoSelection \in Selection
  BY DEF NoSelection, Selection
<1>5. NoCard \in Card /\ NoViewer \in Viewer
  BY <1>4 DEF NoCard, NoViewer, Card, Viewer, Loads
<1>6. QED
  BY <1>1, <1>2, <1>3, <1>4, <1>5 DEF Shown

\* The manager renders.
LEMMA RendersInv ==
  ASSUME FormsInv, NEW m \in Manager, NEW u \in Profiles \union {NoProfile}, Renders(m, u), up' = u,
         UNCHANGED <<form, registryState, toggled, crossed, toggles>>
  PROVE  FormsInv'
<1> DEFINE e == Selected(m, u)
<1> DEFINE n == IF m.tab = "admin" /\ (e = NoProfile \/ u # e) THEN [m EXCEPT !.tab = "overview"] ELSE m
<1>1. FormsTypeOK
  BY DEF FormsInv
<1>2. /\ manager' = n /\ card' = CardFor(e, n) /\ saves' = (IF card'.mounted THEN saves ELSE {})
      /\ keyCard' = KeyCardFor(e, n) /\ viewer' = ViewerFor(e, n)
      /\ form' = form /\ selections' = selections /\ keyOf' = keyOf /\ created' = created
      /\ toggled' = toggled /\ crossed' = crossed /\ toggles' = toggles /\ up' = u
  BY DEF Renders, registryState
<1>3. n \in Manager /\ n.pick = m.pick /\ n.list = m.list /\ n.first = m.first
      /\ (n.tab = "admin" => e # NoProfile /\ u = e)
  BY DEF Manager
<1>4. e \in Profiles \union {NoProfile} /\ Shown' = e
  BY <1>1, <1>2, <1>3, FormsTyped DEF Shown, Selected
<1> HIDE DEF e, n
<1>5. /\ card' \in Card /\ viewer' \in Viewer
      /\ (card'.mounted => form = "capabilities" /\ e # NoProfile) /\ (~card'.mounted => card' = NoCard)
      /\ (viewer'.load # "none" => form = "viewer" /\ e # NoProfile)
      /\ \/ card' = NoCard \/ (card' = card /\ e = Shown)
         \/ /\ card'.load = "flight" /\ card'.read = selections[e]
            /\ card'.saving = card.saving
      /\ \/ viewer' = NoViewer \/ (viewer' = viewer /\ e = Shown)
         \/ viewer'.load = "flight" /\ viewer'.read = selections[e]
  <2>1. /\ card' \in Card
        /\ (card'.mounted => form = "capabilities" /\ e # NoProfile) /\ (~card'.mounted => card' = NoCard)
        /\ \/ card' = NoCard \/ (card' = card /\ e = Shown)
           \/ /\ card'.load = "flight" /\ card'.read = selections[e]
              /\ card'.saving = card.saving
    <3>1. CASE form # "capabilities" \/ e = NoProfile \/ n.tab # "overview"
      BY <1>1, <1>2, <3>1, FormsTyped DEF CardFor, NoCard
    <3>2. CASE ~(form # "capabilities" \/ e = NoProfile \/ n.tab # "overview") /\ card.mounted /\ e = Shown
      BY <1>1, <1>2, <3>2, FormsTyped DEF CardFor
    <3>3. CASE ~(form # "capabilities" \/ e = NoProfile \/ n.tab # "overview") /\ ~(card.mounted /\ e = Shown)
      <4> DEFINE was == IF card.mounted THEN card ELSE NoCard
      <4>1. was \in Card /\ was.saving = card.saving
        BY <1>1, FormsTyped DEF FormsInv, FormsThere
      <4>2. card' = [was EXCEPT !.mounted = TRUE, !.load = "flight", !.read = selections[e]]
        BY <1>2, <3>3 DEF CardFor
      <4>3. selections[e] \in Selection
        BY <1>1, <1>4, <3>3, FormsTyped
      <4> HIDE DEF was
      <4>4. QED
        BY <3>3, <4>1, <4>2, <4>3 DEF Card, Loads
    <3>4. QED
      BY <3>1, <3>2, <3>3
  <2>2. /\ viewer' \in Viewer
        /\ (viewer'.load # "none" => form = "viewer" /\ e # NoProfile)
        /\ \/ viewer' = NoViewer \/ (viewer' = viewer /\ e = Shown)
           \/ viewer'.load = "flight" /\ viewer'.read = selections[e]
    <3>1. e # NoProfile => selections[e] \in Selection
      BY <1>1, <1>4, FormsTyped
    <3>2. QED
      BY <1>1, <1>2, <3>1, FormsTyped DEF ViewerFor, NoViewer, Viewer, Loads
  <2>3. QED
    BY <2>1, <2>2
<1>6. saves' \subseteq saves /\ (saves' # {} <=> card'.saving)
  <2>1. card'.mounted => card'.saving = card.saving
    BY <1>5 DEF NoCard
  <2>2. NoCard.saving = FALSE
    BY DEF NoCard
  <2>3. QED
    BY <1>2, <1>5, <2>1, <2>2 DEF FormsInv, FormsThere
<1> DEFINE KeptCall(k) == [k EXCEPT !.busy = @ /\ e # NoProfile /\ n.tab = "overview"]
<1>7. /\ keyCard' \in KeyCard
      /\ keyCard'.load # "none" => form = "key" /\ e # NoProfile
      /\ keyCard'.calls # {} => form = "key"
      /\ keyCard'.calls \subseteq {KeptCall(k) : k \in keyCard.calls}
      /\ keyCard'.load # "none" =>
           /\ keyCard'.calls = {KeptCall(k) : k \in keyCard.calls}
           /\ \/ keyCard'.load = "flight" /\ keyCard'.read = keyOf[e]
              \/ /\ e = Shown /\ keyCard'.load = keyCard.load /\ keyCard'.read = keyCard.read
                 /\ keyCard'.shown = keyCard.shown
  <2>1. CASE form # "key"
    <3>1. keyCard' = keyCard /\ keyCard.load = "none" /\ keyCard.calls = {}
      BY <1>2, <2>1 DEF KeyCardFor, FormsInv, FormsThere
    <3>2. QED
      BY <1>1, <2>1, <3>1, FormsTyped
  <2>2. CASE form = "key"
    <3> DEFINE calls == IF n.pick = "telemetry" THEN {} ELSE {KeptCall(k) : k \in keyCard.calls}
               shown == IF e = NoProfile THEN "unknown" ELSE keyCard.shown
               load == IF e = NoProfile THEN "none" ELSE IF e = Shown THEN keyCard.load ELSE "flight"
               read == IF e = NoProfile THEN "unconfigured" ELSE IF e = Shown THEN keyCard.read ELSE keyOf[e]
    <3>1. keyCard' = [shown |-> shown, load |-> load, read |-> read, calls |-> calls]
      BY <1>2, <2>2 DEF KeyCardFor
    <3>2. calls \in SUBSET KeyCall
      <4>1. ASSUME NEW k \in keyCard.calls PROVE KeptCall(k) \in KeyCall
        <5>1. k \in KeyCall
          BY <1>1, <4>1, FormsTyped DEF KeyCard
        <5>2. QED
          BY <5>1 DEF KeyCall
      <4> HIDE DEF KeptCall
      <4>2. QED
        BY <4>1
    <3>3. shown \in KeyStatuses \union {"unknown", "unavailable"} /\ load \in Loads /\ read \in KeyStatuses
      BY <1>1, <1>4, FormsTyped DEF KeyCard, Loads, KeyStatuses
    <3>4. n.pick = "telemetry" => e = NoProfile
      <4>1. n.list \subseteq Profiles
        BY <1>3 DEF Manager
      <4>2. QED
        BY <1>3, <4>1, FormsAssumption DEF e, Selected
    <3> HIDE DEF KeptCall
    <3>5. /\ keyCard'.shown = shown /\ keyCard'.load = load /\ keyCard'.read = read /\ keyCard'.calls = calls
      BY <3>1
    <3>6. keyCard' \in KeyCard
      BY <3>1, <3>2, <3>3 DEF KeyCard
    <3>7. e = Shown /\ e # NoProfile => load = keyCard.load /\ read = keyCard.read /\ shown = keyCard.shown
      OBVIOUS
    <3>8. e # Shown /\ e # NoProfile => load = "flight" /\ read = keyOf[e]
      OBVIOUS
    <3>9. e = NoProfile => load = "none"
      OBVIOUS
    <3> HIDE DEF shown, load, read
    <3>10. QED
      BY <2>2, <3>4, <3>5, <3>6, <3>7, <3>8, <3>9
  <2>3. QED
    BY <2>1, <2>2
<1>8. FormsTypeOK'
  <2>1. /\ manager' \in Manager /\ card' \in Card /\ keyCard' \in KeyCard /\ viewer' \in Viewer
        /\ saves' \subseteq Save /\ up' \in Profiles \union {NoProfile}
    BY <1>1, <1>2, <1>3, <1>5, <1>6, <1>7 DEF FormsTypeOK
  <2>2. QED
    BY <1>1, <1>2, <2>1 DEF FormsTypeOK, Manager, Card, KeyCard, Viewer
<1>9. FormsThere'
  <2>1. manager'.tab = "admin" => e # NoProfile /\ u = e
    BY <1>2, <1>3
  <2>2. \A s, r \in saves' : s = r
    BY <1>6 DEF FormsInv, FormsThere
  <2>3. QED
    BY <1>2, <1>4, <1>5, <1>6, <1>7, <2>1, <2>2 DEF FormsThere
<1>10. ViewerInv'
  BY <1>2, <1>4, <1>5 DEF ViewerInv, FormsInv, NoViewer
<1>11. ASSUME ~crossed PROVE CardInv'
  <2>1. CardInv
    BY <1>11 DEF FormsInv
  <2>2. \A s \in saves' : ~s.ok => s.prev[s.field] = selections'[s.env][s.field]
    BY <1>2, <1>6, <2>1 DEF CardInv
  <2>3. card'.load # "none" => (card' = card /\ e = Shown) \/ (card'.load = "flight" /\ card'.read = selections[e])
    BY <1>5 DEF NoCard
  <2>4. card'.load = "loaded" => saves' = saves
    <3>1. card'.load # "none" => card'.mounted
      BY <1>5 DEF NoCard
    <3>2. QED
      BY <1>2, <3>1
  <2>5. QED
    BY <1>2, <1>4, <2>1, <2>2, <2>3, <2>4 DEF CardInv
<1>12. ASSUME ~crossed PROVE KeyInv'
  <2>1. KeyInv
    BY <1>12 DEF FormsInv
  <2>2. \A k \in keyCard.calls : k \in KeyCall
    BY <1>1, FormsTyped DEF KeyCard
  <2>3. \A k \in keyCard.calls : KeptCall(k).ok = k.ok /\ KeptCall(k).env = k.env /\ KeptCall(k).next = k.next
    BY <2>2 DEF KeyCall
  <2> HIDE DEF KeptCall
  <2>4. \A k, j \in keyCard'.calls : k = j
    BY <1>7, <2>1 DEF KeyInv
  <2>5. \A k \in keyCard'.calls : k.ok => k.next = keyOf'[k.env]
    BY <1>2, <1>7, <2>1, <2>3 DEF KeyInv
  <2>6. keyCard'.load = "flight" => keyCard'.read = keyOf'[Shown']
    BY <1>2, <1>4, <1>7, <2>1 DEF KeyInv
  <2>7. ASSUME keyCard'.load = "loaded"
        PROVE  keyCard'.shown = keyOf'[Shown'] \/ \E k \in keyCard'.calls : k.ok /\ k.env = Shown'
    BY <1>2, <1>4, <1>7, <2>1, <2>3, <2>7 DEF KeyInv
  <2>8. QED
    BY <2>4, <2>5, <2>6, <2>7 DEF KeyInv
<1>13. QED
  BY <1>2, <1>8, <1>9, <1>10, <1>11, <1>12 DEF FormsInv

\* What the user does in the list and the tabs, what is fetched, and an environment that starts or stops.
LEMMA PaneInv ==
  ASSUME FormsInv,
         \/ \E i \in Profiles \union {"telemetry"} : PickItem(i)
         \/ \E t \in {"overview", "config", "admin"} : ChooseTab(t)
         \/ EnvironmentCreated \/ ListFetched
         \/ \E u \in Profiles \union {NoProfile} : UpChanges(u)
  PROVE  FormsInv'
<1>1. FormsTypeOK
  BY DEF FormsInv
<1>2. manager \in Manager /\ up \in Profiles \union {NoProfile} /\ created \in SUBSET Profiles
  BY <1>1, FormsTyped DEF FormsTypeOK
<1>3. ASSUME NEW i \in Profiles \union {"telemetry"}, PickItem(i) PROVE FormsInv'
  <2> DEFINE m == [manager EXCEPT !.pick = i, !.tab = IF i = "telemetry" THEN "overview" ELSE @]
  <2>1. m \in Manager
    BY <1>2 DEF Manager
  <2>2. Renders(m, up) /\ up' = up /\ UNCHANGED <<form, registryState, toggled, crossed, toggles>>
    BY <1>3 DEF PickItem
  <2> HIDE DEF m
  <2>3. QED
    BY <1>2, <2>1, <2>2, RendersInv
<1>4. ASSUME NEW t \in {"overview", "config", "admin"}, ChooseTab(t) PROVE FormsInv'
  <2> DEFINE m == [manager EXCEPT !.tab = t]
  <2>1. m \in Manager
    BY <1>2 DEF Manager
  <2>2. Renders(m, up) /\ up' = up /\ UNCHANGED <<form, registryState, toggled, crossed, toggles>>
    BY <1>4 DEF ChooseTab
  <2> HIDE DEF m
  <2>3. QED
    BY <1>2, <2>1, <2>2, RendersInv
<1>5. ASSUME EnvironmentCreated PROVE FormsInv'
  <2> DEFINE m == [manager EXCEPT !.creating = NoProfile, !.fetched = created, !.pick = manager.creating]
  <2>1. m \in Manager
    BY <1>2, <1>5 DEF Manager, EnvironmentCreated
  <2>2. Renders(m, up) /\ up' = up /\ UNCHANGED <<form, registryState, toggled, crossed, toggles>>
    BY <1>5 DEF EnvironmentCreated
  <2> HIDE DEF m
  <2>3. QED
    BY <1>2, <2>1, <2>2, RendersInv
<1>6. ASSUME ListFetched PROVE FormsInv'
  <2> DEFINE m == [manager EXCEPT !.fetched = {}, !.list = manager.fetched]
  <2>1. m \in Manager
    BY <1>2 DEF Manager
  <2>2. Renders(m, up) /\ up' = up /\ UNCHANGED <<form, registryState, toggled, crossed, toggles>>
    BY <1>6 DEF ListFetched
  <2> HIDE DEF m
  <2>3. QED
    BY <1>2, <2>1, <2>2, RendersInv
<1>7. ASSUME NEW u \in Profiles \union {NoProfile}, UpChanges(u) PROVE FormsInv'
  <2>1. Renders(manager, u) /\ up' = u /\ UNCHANGED <<form, registryState, toggled, crossed, toggles>>
    BY <1>7 DEF UpChanges
  <2>2. QED
    BY <1>2, <2>1, RendersInv
<1>8. QED
  BY <1>3, <1>4, <1>5, <1>6, <1>7

\* The name of a new environment is submitted.
LEMMA SubmitNameInv ==
  ASSUME FormsInv, NEW e \in Profiles, SubmitName(e)
  PROVE  FormsInv'
<1>1. /\ manager' = [manager EXCEPT !.creating = e] /\ created' = created \union {e}
      /\ UNCHANGED <<form, selections, keyOf, up, card, saves, keyCard, viewer, toggled, crossed, toggles>>
  BY DEF SubmitName, forms
<1>2. FormsTypeOK /\ manager \in Manager
  BY FormsTyped DEF FormsInv
<1>3. /\ manager' \in Manager /\ manager'.tab = manager.tab /\ manager'.pick = manager.pick
      /\ manager'.list = manager.list /\ manager'.first = manager.first
  BY <1>1, <1>2 DEF Manager
<1>4. Shown' = Shown
  BY <1>1, <1>3 DEF Shown, Selected
<1>5. FormsTypeOK'
  BY <1>1, <1>2, <1>3 DEF FormsTypeOK, Manager
<1>6. FormsThere' /\ ViewerInv' /\ (~crossed' => CardInv' /\ KeyInv')
  BY <1>1, <1>3, <1>4 DEF FormsInv, FormsThere, ViewerInv, CardInv, KeyInv
<1>7. QED
  BY <1>5, <1>6 DEF FormsInv

\* A checkbox of the card is toggled, and the whole field saved.
LEMMA SaveSelectionInv ==
  ASSUME FormsInv, NEW field \in {"modules", "observability"}, NEW next, NEW asked,
         \A sel \in Selection :
           [sel EXCEPT ![field] = next] \in Selection /\ [sel EXCEPT ![field] = asked] \in Selection,
         card.shown[field] = toggled[Shown][field] => next = asked,
         SaveSelection(field, next, asked)
  PROVE  FormsInv'
<1> DEFINE e == Shown
<1>1. /\ FormsTypeOK /\ card \in Card /\ card.shown \in Selection
      /\ selections \in [Profiles -> Selection] /\ toggled \in [Profiles -> Selection]
      /\ saves \subseteq Save
  BY FormsTyped DEF FormsInv, FormsTypeOK, Card
<1>2. /\ Usable /\ card.mounted /\ e \in Profiles /\ form = "capabilities" /\ toggles < MaxToggles
  <2>1. Usable /\ toggles < MaxToggles
    BY DEF SaveSelection
  <2>2. card.mounted
    BY <2>1 DEF Usable, FormsInv, FormsThere, NoCard
  <2>3. QED
    BY <1>1, <2>1, <2>2, FormsTyped DEF FormsInv, FormsThere
<1>3. saves = {} /\ viewer.load = "none" /\ keyCard.load = "none" /\ keyCard.calls = {}
  BY <1>1, <1>2 DEF Usable, FormsInv, FormsThere, Card
<1>4. PICK ok \in BOOLEAN :
        /\ saves' = saves \union {[env |-> e, field |-> field, prev |-> card.shown, ok |-> ok]}
        /\ selections' = (IF ok THEN [selections EXCEPT ![e][field] = next] ELSE selections)
        /\ toggled' = (IF ok THEN [toggled EXCEPT ![e][field] = asked] ELSE toggled)
  BY DEF SaveSelection
<1>5. /\ card' = [card EXCEPT !.shown[field] = next, !.saving = TRUE]
      /\ crossed' = (crossed \/ card.load # "loaded") /\ toggles' = toggles + 1
      /\ UNCHANGED <<form, keyOf, created, up, manager, keyCard, viewer>>
  BY DEF SaveSelection
<1> HIDE DEF e
<1> DEFINE s == [env |-> e, field |-> field, prev |-> card.shown, ok |-> ok]
<1>6. s \in Save /\ saves' = {s}
  BY <1>1, <1>2, <1>3, <1>4 DEF Save
<1> DEFINE shown == [card.shown EXCEPT ![field] = next]
<1>7. /\ shown \in Selection /\ card' = [card EXCEPT !.shown = shown, !.saving = TRUE]
  BY <1>1, <1>5
<1>8. /\ selections' \in [Profiles -> Selection] /\ toggled' \in [Profiles -> Selection]
  BY <1>1, <1>2, <1>4
<1>9. Shown' = e
  BY <1>5 DEF Shown, e
<1>10. /\ card' \in Card /\ card'.shown = shown /\ card'.load = card.load /\ card'.read = card.read
       /\ card'.mounted = card.mounted /\ card'.saving = TRUE
  <2> HIDE DEF shown
  <2>1. QED
    BY <1>1, <1>7 DEF Card
<1>11. FormsTypeOK'
  <2>1. crossed' \in BOOLEAN /\ toggles' \in 0..MaxToggles
    BY <1>1, <1>2, <1>5, FormsAssumption DEF FormsTypeOK
  <2>2. saves' \subseteq Save
    BY <1>6
  <2> HIDE DEF s, shown
  <2>3. QED
    BY <1>1, <1>5, <1>8, <1>10, <2>1, <2>2 DEF FormsTypeOK, Card
<1>12. FormsThere'
  <2> HIDE DEF s, shown
  <2>1. QED
    BY <1>2, <1>3, <1>5, <1>6, <1>9, <1>10 DEF FormsInv, FormsThere, e
<1>13. ViewerInv'
  BY <1>3, <1>5 DEF ViewerInv
<1>14. ASSUME ~crossed' PROVE CardInv' /\ KeyInv'
  <2>1. CardInv /\ card.load = "loaded" /\ ~crossed
    BY <1>5, <1>14 DEF FormsInv
  <2>2. card.shown = selections[e] /\ selections = toggled
    <3>1. /\ \A f \in {"modules", "observability"} : card.shown[f] = selections[e][f]
      BY <1>3, <2>1 DEF CardInv, e
    <3>2. selections[e] \in Selection
      BY <1>1, <1>2
    <3>3. QED
      BY <1>1, <2>1, <3>1, <3>2 DEF CardInv, Selection
  <2>3. next = asked
    BY <2>2 DEF e
  <2>4. selections' = toggled'
    BY <1>4, <2>2, <2>3
  <2>5. s.env = e /\ s.field = field /\ s.prev = card.shown /\ s.ok = ok
    OBVIOUS
  <2>6. ~ok => s.prev[s.field] = selections'[s.env][s.field]
    BY <1>4, <2>2, <2>5
  <2>7. ASSUME NEW f \in {"modules", "observability"}
        PROVE  shown[f] = selections'[e][f] \/ (~s.ok /\ s.env = e /\ s.field = f)
    <3>1. shown[f] = IF f = field THEN next ELSE card.shown[f]
      BY <1>1 DEF Selection
    <3>2. ok => selections'[e][f] = IF f = field THEN next ELSE selections[e][f]
      BY <1>1, <1>2, <1>4 DEF Selection
    <3>3. ~ok => selections' = selections
      BY <1>4
    <3> HIDE DEF shown, s
    <3>4. QED
      BY <2>2, <2>5, <3>1, <3>2, <3>3
  <2> HIDE DEF s, shown
  <2>8. CardInv'
    BY <1>6, <1>9, <1>10, <2>1, <2>4, <2>5, <2>6, <2>7 DEF CardInv
  <2>9. KeyInv'
    BY <1>3, <1>5 DEF KeyInv
  <2>10. QED
    BY <2>8, <2>9
<1>15. QED
  BY <1>11, <1>12, <1>13, <1>14 DEF FormsInv

LEMMA ToggleInv ==
  ASSUME FormsInv, ToggleObservability \/ \E c \in Capabilities : ToggleModule(c)
  PROVE  FormsInv'
<1>1. FormsTypeOK /\ card.shown \in Selection
  BY FormsTyped DEF FormsInv, Card
<1>2. Usable => Shown \in Profiles
  BY <1>1, FormsTyped DEF Usable, FormsInv, FormsThere, NoCard
<1>3. Usable => toggled[Shown] \in Selection
  BY <1>1, <1>2 DEF FormsTypeOK
<1>4. CASE ToggleObservability
  <2>1. /\ SaveSelection("observability", ~card.shown.observability, ~toggled[Shown].observability)
        /\ card.shown.observability \in BOOLEAN /\ toggled[Shown].observability \in BOOLEAN
    BY <1>1, <1>3, <1>4 DEF ToggleObservability, SaveSelection, Selection
  <2>2. \A sel \in Selection :
          /\ [sel EXCEPT !["observability"] = ~card.shown.observability] \in Selection
          /\ [sel EXCEPT !["observability"] = ~toggled[Shown].observability] \in Selection
    BY <2>1 DEF Selection
  <2>3. card.shown["observability"] = toggled[Shown]["observability"] =>
          ~card.shown.observability = ~toggled[Shown].observability
    OBVIOUS
  <2>4. QED
    BY <2>1, <2>2, <2>3, SaveSelectionInv
<1>5. ASSUME NEW c \in Capabilities, ToggleModule(c) PROVE FormsInv'
  <2> DEFINE next == Flip(card.shown.modules, c)
             asked == Flip(toggled[Shown].modules, c)
  <2>1. /\ SaveSelection("modules", next, asked)
        /\ card.shown.modules \subseteq Capabilities /\ toggled[Shown].modules \subseteq Capabilities
    BY <1>1, <1>3, <1>5 DEF ToggleModule, SaveSelection, Selection
  <2>2. next \in SUBSET Capabilities /\ asked \in SUBSET Capabilities
    BY <2>1 DEF Flip
  <2>3. card.shown["modules"] = toggled[Shown]["modules"] => next = asked
    OBVIOUS
  <2> HIDE DEF next, asked
  <2>4. \A sel \in Selection :
          [sel EXCEPT !["modules"] = next] \in Selection /\ [sel EXCEPT !["modules"] = asked] \in Selection
    BY <2>2 DEF Selection
  <2>5. QED
    BY <2>1, <2>3, <2>4, SaveSelectionInv
<1>6. QED
  BY <1>4, <1>5

\* The answer to a save: it was right, or the field is rolled back.
LEMMA SaveAnsweredInv ==
  ASSUME FormsInv, NEW s \in saves, SaveAnswered(s)
  PROVE  FormsInv'
<1> DEFINE old == card.shown
           shown == [card.shown EXCEPT ![s.field] = IF s.ok THEN @ ELSE s.prev[s.field]]
<1>1. /\ FormsTypeOK /\ card \in Card /\ old \in Selection /\ s \in Save /\ s.prev \in Selection
      /\ s.field \in {"modules", "observability"}
  BY FormsTyped DEF FormsInv, FormsTypeOK, Card, Save
<1>2. /\ saves' = saves \ {s} /\ card' = [card EXCEPT !.saving = FALSE, !.shown = shown]
      /\ crossed' = (crossed \/ (~s.ok /\ s.env # Shown))
      /\ UNCHANGED <<form, selections, keyOf, created, up, manager, keyCard, viewer, toggled, toggles>>
  BY <1>1 DEF SaveAnswered, registryState, Card
<1>3. saves' = {}
  BY <1>2 DEF FormsInv, FormsThere
<1>4. shown \in Selection
  BY <1>1 DEF Selection
<1>5. card.mounted
  BY DEF FormsInv, FormsThere, NoCard
<1>6. \A f \in {"modules", "observability"} :
        shown[f] = IF f = s.field /\ ~s.ok THEN s.prev[s.field] ELSE card.shown[f]
  BY <1>1 DEF Selection
<1> HIDE DEF shown
<1>7. /\ card' \in Card /\ card'.shown = shown /\ card'.load = card.load /\ card'.read = card.read
      /\ card'.mounted = card.mounted /\ card'.saving = FALSE
  BY <1>1, <1>2, <1>4 DEF Card
<1>8. Shown' = Shown
  BY <1>2 DEF Shown
<1>9. FormsTypeOK'
  BY <1>1, <1>2, <1>3, <1>7 DEF FormsTypeOK, Card
<1>10. FormsThere' /\ ViewerInv'
  BY <1>2, <1>3, <1>5, <1>7, <1>8 DEF FormsInv, FormsThere, ViewerInv
<1>11. ASSUME ~crossed' PROVE CardInv' /\ KeyInv'
  <2>1. ~crossed /\ CardInv /\ KeyInv /\ (~s.ok => s.env = Shown)
    BY <1>2, <1>11 DEF FormsInv
  <2>2. \A r \in saves : r = s
    BY DEF FormsInv, FormsThere
  <2>3. card.load = "loaded" =>
          \A f \in {"modules", "observability"} : card.shown[f] = selections[Shown][f] \/ (~s.ok /\ s.field = f)
    BY <2>1, <2>2 DEF CardInv
  <2>4. ~s.ok => s.prev[s.field] = selections[Shown][s.field]
    BY <2>1 DEF CardInv
  <2>5. card'.load = "loaded" => \A f \in {"modules", "observability"} : card'.shown[f] = selections'[Shown'][f]
    BY <1>2, <1>6, <1>7, <1>8, <2>3, <2>4
  <2>6. QED
    BY <1>2, <1>3, <1>7, <1>8, <2>1, <2>5 DEF CardInv, KeyInv
<1>12. QED
  BY <1>9, <1>10, <1>11 DEF FormsInv

\* What a card, a status or the configuration was loaded with is shown, or the load failed.
LEMMA LoadedInv ==
  ASSUME FormsInv, CardLoaded \/ KeyLoaded \/ ViewerLoaded
  PROVE  FormsInv'
<1>1. FormsTypeOK /\ card \in Card /\ keyCard \in KeyCard /\ viewer \in Viewer /\ NoSelection \in Selection
  BY FormsTyped DEF FormsInv
<1>2. Shown' = Shown /\ UNCHANGED <<form, selections, keyOf, created, up, manager, saves, toggled, crossed, toggles>>
  BY DEF CardLoaded, KeyLoaded, ViewerLoaded, Shown, registryState
<1>3. CASE CardLoaded
  <2>1. /\ card' \in Card /\ card'.mounted = card.mounted /\ card'.saving = card.saving
        /\ card.load = "flight" /\ card'.load \in {"loaded", "failed"}
        /\ card'.load = "loaded" => card'.shown = card.read
        /\ UNCHANGED <<keyCard, viewer>>
    BY <1>1, <1>3 DEF CardLoaded, Card, Loads
  <2>2. card.mounted
    BY <2>1 DEF FormsInv, FormsThere, NoCard
  <2>3. FormsTypeOK'
    BY <1>1, <1>2, <2>1 DEF FormsTypeOK, Card
  <2>4. FormsThere' /\ ViewerInv'
    BY <1>2, <2>1, <2>2 DEF FormsInv, FormsThere, ViewerInv
  <2>5. ~crossed' => CardInv' /\ KeyInv'
    BY <1>2, <2>1 DEF FormsInv, CardInv, KeyInv
  <2>6. QED
    BY <2>3, <2>4, <2>5 DEF FormsInv
<1>4. CASE KeyLoaded
  <2>1. /\ keyCard' \in KeyCard /\ keyCard'.calls = keyCard.calls
        /\ keyCard.load = "flight" /\ keyCard'.load \in {"loaded", "failed"}
        /\ keyCard'.load = "loaded" => keyCard'.shown = keyCard.read
        /\ UNCHANGED <<card, viewer>>
    BY <1>1, <1>4 DEF KeyLoaded, KeyCard, Loads, KeyStatuses
  <2>2. FormsTypeOK'
    BY <1>1, <1>2, <2>1 DEF FormsTypeOK, KeyCard
  <2>3. FormsThere' /\ ViewerInv'
    BY <1>2, <2>1 DEF FormsInv, FormsThere, ViewerInv
  <2>4. ~crossed' => CardInv' /\ KeyInv'
    BY <1>2, <2>1 DEF FormsInv, CardInv, KeyInv
  <2>5. QED
    BY <2>2, <2>3, <2>4 DEF FormsInv
<1>5. CASE ViewerLoaded
  <2>1. /\ viewer' \in Viewer
        /\ viewer.load = "flight" /\ viewer'.load \in {"loaded", "failed"}
        /\ viewer'.load = "loaded" => viewer'.shown = viewer.read
        /\ UNCHANGED <<card, keyCard>>
    BY <1>1, <1>5 DEF ViewerLoaded, Viewer, Loads
  <2>2. FormsTypeOK'
    BY <1>1, <1>2, <2>1 DEF FormsTypeOK, Viewer
  <2>3. FormsThere' /\ ViewerInv'
    BY <1>2, <2>1 DEF FormsInv, FormsThere, ViewerInv
  <2>4. ~crossed' => CardInv' /\ KeyInv'
    BY <1>2, <2>1 DEF FormsInv, CardInv, KeyInv
  <2>5. QED
    BY <2>2, <2>3, <2>4 DEF FormsInv
<1>6. QED
  BY <1>3, <1>4, <1>5

\* A call about the key.
LEMMA CallKeyInv ==
  ASSUME FormsInv, ToggleBiometric \/ ConfigureKey
  PROVE  FormsInv'
<1>1. /\ FormsTypeOK /\ keyCard \in KeyCard /\ keyOf \in [Profiles -> KeyStatuses]
      /\ Shown \in Profiles \union {NoProfile}
  BY FormsTyped DEF FormsInv
<1>2. PICK next \in KeyStatuses, can \in BOOLEAN : CallKey(next, can)
  BY DEF ToggleBiometric, ConfigureKey, KeyStatuses
<1>3. PICK ok \in {FALSE, can} :
        /\ keyCard' = [keyCard EXCEPT !.calls = @ \union
             {[env |-> Shown, next |-> next, ok |-> ok, busy |-> TRUE]}]
        /\ keyOf' = IF ok THEN [keyOf EXCEPT ![Shown] = next] ELSE keyOf
  BY <1>2 DEF CallKey
<1>4. /\ form = "key" /\ Shown \in Profiles /\ toggles < MaxToggles /\ ok \in BOOLEAN
      /\ crossed' = (crossed \/ keyCard.load # "loaded" \/ keyCard.calls # {})
      /\ toggles' = toggles + 1
      /\ UNCHANGED <<form, selections, created, up, manager, card, saves, viewer, toggled>>
  BY <1>1, <1>2, <1>3 DEF CallKey
<1> DEFINE k == [env |-> Shown, next |-> next, ok |-> ok, busy |-> TRUE]
<1>5. k \in KeyCall /\ k.env = Shown /\ k.ok = ok /\ k.next = next
  BY <1>4 DEF KeyCall
<1>6. keyCard'.calls = keyCard.calls \union {k}
  BY <1>1, <1>3 DEF KeyCard
<1>7. /\ keyCard' \in KeyCard /\ keyCard'.load = keyCard.load /\ keyCard'.read = keyCard.read
      /\ keyCard'.shown = keyCard.shown
  <2> HIDE DEF k
  <2>1. keyCard' = [keyCard EXCEPT !.calls = @ \union {k}]
    BY <1>3 DEF k
  <2>2. QED
    BY <1>1, <1>5, <2>1 DEF KeyCard
<1> HIDE DEF k
<1>8. Shown' = Shown
  BY <1>4 DEF Shown
<1>9. card.load = "none" /\ viewer.load = "none" /\ ~card.mounted /\ saves = {}
  BY <1>4 DEF FormsInv, FormsThere, NoCard
<1>10. FormsTypeOK'
  <2>1. crossed' \in BOOLEAN /\ toggles' \in 0..MaxToggles /\ keyOf' \in [Profiles -> KeyStatuses]
    BY <1>1, <1>3, <1>4, FormsAssumption DEF FormsTypeOK
  <2>2. QED
    BY <1>1, <1>4, <1>7, <2>1 DEF FormsTypeOK, KeyCard
<1>11. FormsThere' /\ ViewerInv'
  BY <1>4, <1>7, <1>8, FormsAssumption, <1>1, <1>9, FormsTyped DEF FormsInv, FormsThere, ViewerInv
<1>12. ASSUME ~crossed' PROVE CardInv' /\ KeyInv'
  <2>1. ~crossed /\ CardInv /\ KeyInv /\ keyCard.load = "loaded" /\ keyCard.calls = {}
    BY <1>4, <1>12 DEF FormsInv
  <2>2. keyCard'.calls = {k}
    BY <1>6, <2>1
  <2>3. keyCard.shown = keyOf[Shown]
    BY <2>1 DEF KeyInv
  <2>4. ok => keyOf'[Shown] = next
    BY <1>1, <1>3, <1>4
  <2>5. ~ok => keyOf' = keyOf
    BY <1>3
  <2>6. KeyInv'
    BY <1>5, <1>7, <1>8, <2>1, <2>2, <2>3, <2>4, <2>5 DEF KeyInv
  <2>7. CardInv'
    BY <1>4, <1>8, <2>1, <1>9 DEF CardInv
  <2>8. QED
    BY <2>6, <2>7
<1>13. QED
  BY <1>10, <1>11, <1>12 DEF FormsInv

\* Its answer.
LEMMA KeyAnsweredInv ==
  ASSUME FormsInv, NEW k \in keyCard.calls, KeyAnswered(k)
  PROVE  FormsInv'
<1>1. FormsTypeOK /\ keyCard \in KeyCard /\ k \in KeyCall
  BY FormsTyped DEF FormsInv, KeyCard
<1>2. /\ keyCard' = [keyCard EXCEPT !.calls = @ \ {k}, !.shown = IF k.ok THEN k.next ELSE @]
      /\ crossed' = (crossed \/ (k.ok /\ k.env # Shown))
      /\ UNCHANGED <<form, selections, keyOf, created, up, manager, card, saves, viewer, toggled, toggles>>
  BY DEF KeyAnswered, registryState
<1>3. /\ keyCard' \in KeyCard /\ keyCard'.load = keyCard.load /\ keyCard'.read = keyCard.read
      /\ keyCard'.shown = (IF k.ok THEN k.next ELSE keyCard.shown) /\ keyCard'.calls = keyCard.calls \ {k}
  BY <1>1, <1>2 DEF KeyCard, KeyCall, KeyStatuses
<1>4. Shown' = Shown
  BY <1>2 DEF Shown
<1>5. FormsTypeOK'
  BY <1>1, <1>2, <1>3 DEF FormsTypeOK, KeyCard
<1>6. FormsThere' /\ ViewerInv'
  BY <1>2, <1>3, <1>4 DEF FormsInv, FormsThere, ViewerInv
<1>7. ASSUME ~crossed' PROVE CardInv' /\ KeyInv'
  <2>1. ~crossed /\ CardInv /\ KeyInv /\ (k.ok => k.env = Shown)
    BY <1>2, <1>7 DEF FormsInv
  <2>2. CardInv'
    BY <1>2, <1>4, <2>1 DEF CardInv
  <2>3. KeyInv'
    BY <1>2, <1>3, <1>4, <2>1 DEF KeyInv
  <2>4. QED
    BY <2>2, <2>3
<1>8. QED
  BY <1>5, <1>6, <1>7 DEF FormsInv

LEMMA FormsStarts ==
  ASSUME FormsInit PROVE FormsInv
<1>1. PICK e \in Profiles :
        /\ created = {e}
        /\ manager = [list |-> {e}, fetched |-> {}, first |-> e, pick |-> "default",
                      tab |-> "overview", creating |-> NoProfile]
        /\ keyCard = [shown |-> "unknown", load |-> IF form = "key" THEN "flight" ELSE "none",
                      read |-> keyOf[e], calls |-> {}]
  BY DEF FormsInit
<1>2. Shown = e /\ e # NoProfile
  BY <1>1, FormsAssumption DEF FormsInit, Shown, Selected
<1>3. NoSelection \in Selection /\ [modules |-> Capabilities, observability |-> TRUE] \in Selection
  BY DEF NoSelection, Selection
<1>4. NoCard \in Card /\ NoViewer \in Viewer
  BY <1>3 DEF NoCard, NoViewer, Card, Viewer, Loads
<1>5. selections \in [Profiles -> Selection] /\ keyOf \in [Profiles -> KeyStatuses]
  <2>1. selections \in [Profiles -> {NoSelection, [modules |-> Capabilities, observability |-> TRUE]}]
    BY DEF FormsInit
  <2>2. keyOf \in [Profiles -> IF form = "key" THEN {"unconfigured", "keychain"} ELSE {"keychain"}]
    BY DEF FormsInit
  <2>3. QED
    BY <1>3, <2>1, <2>2 DEF KeyStatuses
<1>6. /\ card = (IF form = "capabilities" THEN [NoCard EXCEPT !.mounted = TRUE, !.load = "flight"] ELSE NoCard)
      /\ form \in {"capabilities", "key", "viewer"}
      /\ toggled = selections /\ up = NoProfile /\ saves = {} /\ viewer = NoViewer /\ crossed = FALSE /\ toggles = 0
      /\ form = "viewer" \/ selections = [p \in Profiles |-> NoSelection]
  BY DEF FormsInit
<1>7. /\ card \in Card /\ card.saving = FALSE
      /\ IF form = "capabilities" THEN card.mounted /\ card.load = "flight" /\ card.read = NoSelection
         ELSE card = NoCard /\ card.mounted = FALSE /\ card.load = "none"
  BY <1>4, <1>6 DEF NoCard, Card, Loads
<1>8. FormsTypeOK
  <2>1. keyOf[e] \in KeyStatuses
    BY <1>5
  <2>2. /\ manager \in Manager /\ keyCard \in KeyCard
    BY <1>1, <2>1 DEF Manager, KeyCard, Loads
  <2>3. toggles \in 0..MaxToggles
    BY <1>6, FormsAssumption
  <2>4. QED
    BY <1>1, <1>4, <1>5, <1>6, <1>7, <2>2, <2>3 DEF FormsTypeOK, Manager, Card, KeyCard, Viewer
<1>9. FormsThere /\ ViewerInv
  BY <1>1, <1>2, <1>6, <1>7 DEF FormsThere, ViewerInv, NoViewer
<1>10. CardInv /\ KeyInv
  <2>1. CardInv
    BY <1>2, <1>6, <1>7 DEF CardInv
  <2>2. KeyInv
    BY <1>1, <1>2 DEF KeyInv
  <2>3. QED
    BY <2>1, <2>2
<1>11. QED
  BY <1>8, <1>9, <1>10 DEF FormsInv

LEMMA FormsStays ==
  ASSUME FormsInv, UNCHANGED formVars PROVE FormsInv'
<1>1. UNCHANGED <<form, selections, keyOf, created, up, manager, card, saves, keyCard, viewer, toggled, crossed, toggles>>
      /\ Shown' = Shown
  BY DEF formVars, registryState, forms, Shown
<1>2. QED
  BY <1>1 DEF FormsInv, FormsTypeOK, FormsThere, ViewerInv, CardInv, KeyInv

LEMMA FormsSteps ==
  ASSUME FormsInv, [FormsNext]_formVars PROVE FormsInv'
<1>1. CASE \/ \E i \in Profiles \union {"telemetry"} : PickItem(i)
           \/ \E t \in {"overview", "config", "admin"} : ChooseTab(t)
           \/ EnvironmentCreated \/ ListFetched
           \/ \E u \in Profiles \union {NoProfile} : UpChanges(u)
  BY <1>1, PaneInv
<1>2. CASE \E e \in Profiles : SubmitName(e)
  BY <1>2, SubmitNameInv
<1>3. CASE ToggleObservability \/ \E c \in Capabilities : ToggleModule(c)
  BY <1>3, ToggleInv
<1>4. CASE \E s \in saves : SaveAnswered(s)
  BY <1>4, SaveAnsweredInv
<1>5. CASE CardLoaded \/ KeyLoaded \/ ViewerLoaded
  BY <1>5, LoadedInv
<1>6. CASE ToggleBiometric \/ ConfigureKey
  BY <1>6, CallKeyInv
<1>7. CASE \E k \in keyCard.calls : KeyAnswered(k)
  BY <1>7, KeyAnsweredInv
<1>8. CASE UNCHANGED formVars
  BY <1>8, FormsStays
<1>9. QED
  BY <1>1, <1>2, <1>3, <1>4, <1>5, <1>6, <1>7, <1>8 DEF FormsNext

LEMMA FormsInvariant == FormsSpec => []FormsInv
<1>1. FormsInit => FormsInv
  BY FormsStarts
<1>2. FormsInv /\ [FormsNext]_formVars => FormsInv'
  BY FormsSteps
<1>3. QED
  BY <1>1, <1>2, PTL DEF FormsSpec

\* The configuration shown is that of the environment shown and the administration of one that is up;
\* and while no form was used before its own environment's values had come, nor answered in another
\* one's place, the registry has just what the user toggled and a form that rests shows what the host
\* has (CapabilitiesCard.tsx, EnvironmentDetail.tsx, ConfigViewer.tsx).
THEOREM FormsAreTrueHolds == FormsSpec => []FormsAreTrue
<1>1. ASSUME FormsInv PROVE FormsAreTrue
  <2>1. FormsTypeOK /\ card \in Card /\ selections \in [Profiles -> Selection]
    BY <1>1, FormsTyped DEF FormsInv
  <2>2. ASSUME ~crossed, card.load = "loaded", ~card.saving PROVE card.shown = selections[Shown]
    <3>1. Shown \in Profiles
      BY <1>1, <2>1, <2>2, FormsTyped DEF FormsInv, FormsThere, NoCard
    <3>2. \A f \in {"modules", "observability"} : card.shown[f] = selections[Shown][f]
      BY <1>1, <2>2 DEF FormsInv, FormsThere, CardInv
    <3>3. card.shown \in Selection /\ selections[Shown] \in Selection
      BY <2>1, <3>1 DEF Card
    <3>4. QED
      BY <3>2, <3>3 DEF Selection
  <2>3. QED
    BY <1>1, <2>2 DEF FormsAreTrue, FormsInv, FormsThere, ViewerInv, CardInv, KeyInv
<1>2. FormsInv => FormsAreTrue
  BY <1>1
<1>3. QED
  BY <1>2, FormsInvariant, PTL

-----------------------------------------------------------------------------
(* The tabs of the page.                                                    *)

\* What the restoration has still to open.
Todo == IF restore.on THEN ToSet(restore.todo) \union {restore.target} ELSE {}

KeptIn(e) == ToSet(openTabs[e])

TabsShape ==
  /\ here \in Places /\ openTabs \in [Places -> Seq(Documents)]
  /\ urlPath \in Documents \union {Nowhere}
  /\ page \in {"gone", "mounted", "ready"}
  /\ tabs \in Seq(Documents) /\ IsInjective(tabs)
  /\ activeId \in Strip \/ (activeId = Nowhere /\ tabs = <<>>)
  /\ restore \in [todo : Seq(Documents), target : Documents \union {Nowhere}, on : BOOLEAN]
  /\ IF restore.on THEN page = "ready" /\ restore.target # Nowhere ELSE restore = NoRestore
  /\ reads \subseteq Documents \X {"click", "restore"}
  /\ page = "gone" => tabs = <<>> /\ urlPath = Nowhere /\ reads = {}
  /\ wanted \in [Places -> SUBSET Documents] /\ carried \in [Places -> SUBSET Documents]

\* The tabs kept for e are those the user opened there, and some the URL brought.
KeptTabs(e) == wanted[e] \subseteq KeptIn(e) /\ KeptIn(e) \subseteq wanted[e] \union carried[e]

\* A page without an editor has what was kept, and what was asked of it, ahead.
MountedInv ==
  /\ wanted[here] \subseteq KeptIn(here) \union {urlPath} \union Strip
  /\ KeptIn(here) \union Strip \union ({urlPath} \ {Nowhere}) \subseteq wanted[here] \union carried[here]

\* A page with its editor shows, or has ahead, what it should; what it shows is kept and in the URL,
\* unless the restoration has still to open a tab.
ReadyInv ==
  /\ wanted[here] \subseteq Strip \union Todo
  /\ Strip \union Todo \subseteq wanted[here] \union carried[here]
  /\ \/ KeptIn(here) = Strip
     \/ restore.on /\ (tabs = <<>> \/ ~(wanted[here] \subseteq Strip))
  /\ \/ urlPath = activeId
     \/ restore.on /\ (urlPath = restore.target \/ ~(wanted[here] \subseteq Strip))

HereInv ==
  /\ page = "mounted" => MountedInv
  /\ page = "ready" => ReadyInv
  /\ page = "gone" => KeptTabs(here)

TabsInv ==
  /\ TabsShape
  /\ here \notin excused => HereInv
  /\ \A e \in Places \ (excused \union {here}) : KeptTabs(e)

\* The operators on strips, as sets of tabs.
LEMMA StripOf ==
  ASSUME NEW D, NEW s \in Seq(D)
  PROVE  /\ ToSet(s) \subseteq D /\ DOMAIN s = 1..Len(s) /\ Len(s) \in Nat
         /\ s = <<>> <=> ToSet(s) = {}
         /\ \A i \in 1..Len(s) : s[i] \in ToSet(s) /\ s[i] \in D
         /\ \A x \in ToSet(s) : \E i \in 1..Len(s) : s[i] = x
<1>1. DOMAIN s = 1..Len(s) /\ Len(s) \in Nat /\ \A i \in 1..Len(s) : s[i] \in D
  OBVIOUS
<1>2. s = <<>> <=> Len(s) = 0
  OBVIOUS
<1>3. s # <<>> => 1 \in 1..Len(s)
  BY <1>1, <1>2
<1>4. \A x : x \in ToSet(s) <=> \E i \in 1..Len(s) : s[i] = x
  BY <1>1 DEF ToSet
<1>5. s = <<>> <=> ToSet(s) = {}
  BY <1>1, <1>2, <1>3, <1>4
<1>6. QED
  BY <1>1, <1>4, <1>5

LEMMA AppendStrip ==
  ASSUME NEW D, NEW s \in Seq(D), NEW p \in D
  PROVE  /\ Append(s, p) \in Seq(D) /\ ToSet(Append(s, p)) = ToSet(s) \union {p}
         /\ IsInjective(s) /\ p \notin ToSet(s) => IsInjective(Append(s, p))
<1> DEFINE r == Append(s, p)
<1>1. /\ r \in Seq(D) /\ Len(r) = Len(s) + 1 /\ DOMAIN r = 1..(Len(s) + 1)
      /\ \A i \in 1..(Len(s) + 1) : r[i] = IF i <= Len(s) THEN s[i] ELSE p
  OBVIOUS
<1>2. /\ DOMAIN s = 1..Len(s) /\ Len(s) \in Nat
  OBVIOUS
<1> HIDE DEF r
<1>3. ToSet(r) = ToSet(s) \union {p}
  <2>1. \A i \in 1..Len(s) : i \in 1..(Len(s) + 1) /\ r[i] = s[i]
    BY <1>1, <1>2
  <2>2. Len(s) + 1 \in 1..(Len(s) + 1) /\ r[Len(s) + 1] = p
    BY <1>1, <1>2
  <2>3. \A i \in 1..(Len(s) + 1) : i \in 1..Len(s) \/ r[i] = p
    BY <1>1, <1>2
  <2>4. QED
    BY <1>1, <1>2, <2>1, <2>2, <2>3 DEF ToSet
<1>4. ASSUME IsInjective(s), p \notin ToSet(s) PROVE IsInjective(r)
  <2>1. \A i \in 1..Len(s) : s[i] # p
    BY <1>2, <1>4 DEF ToSet
  <2>2. \A i, j \in 1..Len(s) : s[i] = s[j] => i = j
    BY <1>2, <1>4 DEF IsInjective
  <2>3. \A i, j \in 1..(Len(s) + 1) : r[i] = r[j] => i = j
    BY <1>1, <1>2, <2>1, <2>2
  <2>4. QED
    BY <1>1, <2>3 DEF IsInjective
<1>5. QED
  BY <1>1, <1>3, <1>4 DEF r

LEMMA Joined ==
  ASSUME NEW D, NEW a \in Seq(D), NEW b \in Seq(D)
  PROVE  /\ a \o b \in Seq(D) /\ Len(a \o b) = Len(a) + Len(b)
         /\ \A k \in 1..(Len(a) + Len(b)) : (a \o b)[k] = IF k <= Len(a) THEN a[k] ELSE b[k - Len(a)]
BY ConcatProperties

\* One element less, and one put in.
LEMMA RemovedAt ==
  ASSUME NEW D, NEW s \in Seq(D), NEW i \in 1..Len(s)
  PROVE  /\ RemoveAt(s, i) \in Seq(D) /\ Len(RemoveAt(s, i)) = Len(s) - 1
         /\ \A k \in 1..(Len(s) - 1) : RemoveAt(s, i)[k] = IF k < i THEN s[k] ELSE s[k + 1]
<1> DEFINE a == SubSeq(s, 1, i - 1)
           b == SubSeq(s, i + 1, Len(s))
<1>1. Len(s) \in Nat /\ i \in Nat /\ 1 <= i /\ i <= Len(s)
  OBVIOUS
<1>2. a \in Seq(D) /\ Len(a) = i - 1 /\ \A k \in 1..(i - 1) : a[k] = s[k]
  BY <1>1
<1>3. b \in Seq(D) /\ Len(b) = Len(s) - i /\ \A k \in 1..(Len(s) - i) : b[k] = s[k + i]
  BY <1>1
<1> HIDE DEF a, b
<1>4. /\ a \o b \in Seq(D) /\ Len(a \o b) = Len(a) + Len(b)
      /\ \A k \in 1..(Len(a) + Len(b)) : (a \o b)[k] = IF k <= Len(a) THEN a[k] ELSE b[k - Len(a)]
  BY <1>2, <1>3, Joined
<1>5. \A k \in 1..(Len(s) - 1) : (a \o b)[k] = IF k < i THEN s[k] ELSE s[k + 1]
  <2> TAKE k \in 1..(Len(s) - 1)
  <2>1. CASE k < i
    <3>1. k \in 1..(i - 1) /\ k <= Len(a) /\ k \in 1..(Len(a) + Len(b))
      BY <1>1, <1>2, <1>3, <2>1
    <3>2. QED
      BY <1>2, <1>4, <2>1, <3>1
  <2>2. CASE ~(k < i)
    <3>1. k - Len(a) \in 1..(Len(s) - i) /\ ~(k <= Len(a)) /\ k \in 1..(Len(a) + Len(b)) /\ (k - Len(a)) + i = k + 1
      BY <1>1, <1>2, <1>3, <2>2
    <3>2. QED
      BY <1>3, <1>4, <2>2, <3>1
  <2>3. QED
    BY <2>1, <2>2
<1>6. RemoveAt(s, i) = a \o b
  BY DEF RemoveAt, a, b
<1>7. Len(a) + Len(b) = Len(s) - 1
  BY <1>1, <1>2, <1>3
<1>8. QED
  BY <1>4, <1>5, <1>6, <1>7

With(s, j, x) == [k \in 1..(Len(s) + 1) |-> IF k < j THEN s[k] ELSE IF k = j THEN x ELSE s[k - 1]]

LEMMA InsertedAt ==
  ASSUME NEW D, NEW s \in Seq(D), NEW x \in D, NEW j \in Nat, 1 <= j, j <= Len(s) + 1
  PROVE  InsertAt(s, j, x) = With(s, j, x) /\ With(s, j, x) \in Seq(D)
<1> DEFINE a == SubSeq(s, 1, j - 1)
           b == SubSeq(s, j, Len(s))
           m == a \o <<x>>
<1>1. Len(s) \in Nat /\ j \in Nat /\ 1 <= j /\ j <= Len(s) + 1
  OBVIOUS
<1>2. a \in Seq(D) /\ Len(a) = j - 1 /\ \A k \in 1..(j - 1) : a[k] = s[k]
  BY <1>1
<1>3. b \in Seq(D) /\ Len(b) = Len(s) - j + 1 /\ \A k \in 1..(Len(s) - j + 1) : b[k] = s[(k + j) - 1]
  BY <1>1
<1> HIDE DEF a, b
<1>4. m \in Seq(D) /\ Len(m) = j /\ m[j] = x /\ \A k \in 1..(j - 1) : m[k] = s[k]
  BY <1>1, <1>2
<1> HIDE DEF m
<1>5. /\ m \o b \in Seq(D) /\ Len(m \o b) = Len(m) + Len(b)
      /\ \A k \in 1..(Len(m) + Len(b)) : (m \o b)[k] = IF k <= Len(m) THEN m[k] ELSE b[k - Len(m)]
  BY <1>3, <1>4, Joined
<1>6. \A k \in 1..(Len(s) + 1) : (m \o b)[k] = IF k < j THEN s[k] ELSE IF k = j THEN x ELSE s[k - 1]
  <2> TAKE k \in 1..(Len(s) + 1)
  <2>1. CASE k <= j
    <3>1. k <= Len(m) /\ k \in 1..(Len(m) + Len(b)) /\ (k = j \/ k \in 1..(j - 1))
      BY <1>1, <1>3, <1>4, <2>1
    <3>2. QED
      BY <1>1, <1>4, <1>5, <2>1, <3>1
  <2>2. CASE ~(k <= j)
    <3>1. k - j \in 1..(Len(s) - j + 1) /\ ~(k <= Len(m)) /\ k \in 1..(Len(m) + Len(b)) /\ ((k - j) + j) - 1 = k - 1
      BY <1>1, <1>3, <1>4, <2>2
    <3>2. QED
      BY <1>1, <1>3, <1>4, <1>5, <2>2, <3>1
  <2>3. QED
    BY <2>1, <2>2
<1>7. InsertAt(s, j, x) = m \o b
  BY DEF InsertAt, a, b, m
<1>8. Len(m) + Len(b) = Len(s) + 1
  BY <1>1, <1>3, <1>4
<1>9. DOMAIN (m \o b) = 1..(Len(s) + 1) /\ m \o b = [k \in 1..(Len(s) + 1) |-> (m \o b)[k]]
  <2> DEFINE t == m \o b
  <2>1. t \in Seq(D) /\ Len(t) = Len(s) + 1
    BY <1>5, <1>8
  <2> HIDE DEF t
  <2>2. DOMAIN t = 1..(Len(s) + 1) /\ t = [k \in 1..(Len(s) + 1) |-> t[k]]
    BY <2>1
  <2>3. QED
    BY <2>2 DEF t
<1>10. QED
  BY <1>5, <1>6, <1>7, <1>9 DEF With

\* A tab is closed: the others stay, and one next to it is shown.
LEMMA RemoveStrip ==
  ASSUME NEW D, NEW s \in Seq(D), IsInjective(s), NEW p \in ToSet(s)
  PROVE  /\ RemoveAt(s, TabAt(s, p)) \in Seq(D) /\ IsInjective(RemoveAt(s, TabAt(s, p)))
         /\ ToSet(RemoveAt(s, TabAt(s, p))) = ToSet(s) \ {p}
         /\ \/ NeighborAfterClose(s, p) \in ToSet(s) \ {p}
            \/ NeighborAfterClose(s, p) = Nowhere /\ ToSet(s) = {p}
<1> DEFINE i == TabAt(s, p)
           r == RemoveAt(s, i)
<1>1. DOMAIN s = 1..Len(s) /\ Len(s) \in Nat
  OBVIOUS
<1>2. i \in 1..Len(s) /\ s[i] = p
  BY <1>1 DEF TabAt, ToSet
<1> HIDE DEF i
<1>3. /\ r \in Seq(D) /\ Len(r) = Len(s) - 1
      /\ \A k \in 1..(Len(s) - 1) : r[k] = IF k < i THEN s[k] ELSE s[k + 1]
  BY <1>2, RemovedAt
<1> HIDE DEF r
<1>4. DOMAIN r = 1..(Len(s) - 1)
  BY <1>3
<1>5. \A k, l \in 1..Len(s) : s[k] = s[l] => k = l
  BY <1>1 DEF IsInjective
<1>6. \A k, l \in 1..(Len(s) - 1) : r[k] = r[l] => k = l
  <2> SUFFICES ASSUME NEW k \in 1..(Len(s) - 1), NEW l \in 1..(Len(s) - 1), r[k] = r[l] PROVE k = l
    OBVIOUS
  <2> DEFINE Past(x) == IF x < i THEN x ELSE x + 1
  <2>1. Past(k) \in 1..Len(s) /\ Past(l) \in 1..Len(s) /\ r[k] = s[Past(k)] /\ r[l] = s[Past(l)]
    BY <1>1, <1>2, <1>3
  <2>2. Past(k) = Past(l)
    BY <1>5, <2>1
  <2>3. QED
    BY <1>1, <1>2, <2>2
<1>7. ToSet(r) = ToSet(s) \ {p}
  <2>1. ASSUME NEW k \in 1..(Len(s) - 1) PROVE r[k] \in ToSet(s) \ {p}
    <3> DEFINE u == IF k < i THEN k ELSE k + 1
    <3>1. u \in 1..Len(s) /\ r[k] = s[u] /\ u # i
      BY <1>1, <1>2, <1>3
    <3> HIDE DEF u
    <3>2. QED
      BY <1>1, <1>2, <1>5, <3>1 DEF ToSet
  <2>2. ASSUME NEW k \in 1..Len(s), s[k] # p PROVE \E l \in 1..(Len(s) - 1) : r[l] = s[k]
    <3>1. CASE k < i
      <4>1. k \in 1..(Len(s) - 1) /\ r[k] = s[k]
        BY <1>1, <1>2, <1>3, <3>1
      <4>2. QED
        BY <4>1
    <3>2. CASE k > i
      <4>1. k - 1 \in 1..(Len(s) - 1) /\ ~(k - 1 < i) /\ (k - 1) + 1 = k
        BY <1>1, <1>2, <3>2
      <4>2. r[k - 1] = s[k]
        BY <1>3, <4>1
      <4>3. QED
        BY <4>1, <4>2
    <3>3. QED
      BY <1>1, <1>2, <2>2, <3>1, <3>2
  <2>3. ToSet(r) \subseteq ToSet(s) \ {p}
    BY <1>4, <2>1 DEF ToSet
  <2>4. ASSUME NEW x \in ToSet(s) \ {p} PROVE x \in ToSet(r)
    <3>1. PICK k \in 1..Len(s) : s[k] = x
      BY <1>1 DEF ToSet
    <3>2. QED
      BY <1>4, <2>2, <3>1 DEF ToSet
  <2>5. QED
    BY <2>3, <2>4
<1>8. \/ NeighborAfterClose(s, p) \in ToSet(s) \ {p}
      \/ NeighborAfterClose(s, p) = Nowhere /\ ToSet(s) = {p}
  <2>1. NeighborAfterClose(s, p) = IF i < Len(s) THEN s[i + 1] ELSE IF i > 1 THEN s[i - 1] ELSE Nowhere
    BY DEF NeighborAfterClose, i
  <2>2. CASE i < Len(s)
    <3>1. i + 1 \in 1..Len(s) /\ i + 1 # i
      BY <1>1, <1>2, <2>2
    <3>2. QED
      BY <1>1, <1>2, <1>5, <2>1, <2>2, <3>1 DEF ToSet
  <2>3. CASE ~(i < Len(s)) /\ i > 1
    <3>1. i - 1 \in 1..Len(s) /\ i - 1 # i
      BY <1>1, <1>2, <2>3
    <3>2. QED
      BY <1>1, <1>2, <1>5, <2>1, <2>3, <3>1 DEF ToSet
  <2>4. CASE ~(i < Len(s)) /\ ~(i > 1)
    <3>1. i = 1 /\ Len(s) = 1 /\ \A k \in 1..Len(s) : k = 1
      BY <1>1, <1>2, <2>4
    <3>2. QED
      BY <1>1, <1>2, <2>1, <2>4, <3>1 DEF ToSet
  <2>5. QED
    BY <2>2, <2>3, <2>4
<1>9. QED
  BY <1>3, <1>4, <1>6, <1>7, <1>8 DEF IsInjective, i, r

\* Tabs are put in another order.
LEMMA ReorderStrip ==
  ASSUME NEW D, NEW s \in Seq(D), IsInjective(s), NEW i \in DOMAIN s, NEW j \in DOMAIN s
  PROVE  LET r == InsertAt(RemoveAt(s, i), j, s[i]) IN
         r \in Seq(D) /\ IsInjective(r) /\ ToSet(r) = ToSet(s)
<1>1. DOMAIN s = 1..Len(s) /\ Len(s) \in Nat /\ i \in 1..Len(s) /\ j \in 1..Len(s) /\ s[i] \in D
  OBVIOUS
<1> DEFINE q == RemoveAt(s, i)
           moved == s[i]
           r == InsertAt(q, j, moved)
<1>2. q \in Seq(D) /\ Len(q) = Len(s) - 1 /\ \A k \in 1..(Len(s) - 1) : q[k] = IF k < i THEN s[k] ELSE s[k + 1]
  BY <1>1, RemovedAt
<1>x. moved \in D
  BY <1>1
<1> HIDE DEF q, moved
<1>3. j \in 1..(Len(q) + 1) /\ Len(q) + 1 = Len(s)
  BY <1>1, <1>2
<1>4. /\ r \in Seq(D) /\ Len(r) = Len(q) + 1
      /\ \A k \in 1..(Len(q) + 1) : r[k] = IF k < j THEN q[k] ELSE IF k = j THEN moved ELSE q[k - 1]
  <2>1. q \in Seq(D) /\ moved \in D /\ j \in Nat /\ 1 <= j /\ j <= Len(q) + 1
    BY <1>1, <1>x, <1>2, <1>3
  <2>2. r = With(q, j, moved) /\ r \in Seq(D)
    BY <2>1, InsertedAt DEF r
  <2> HIDE DEF r
  <2>3. DOMAIN r = 1..(Len(q) + 1) /\ \A k \in 1..(Len(q) + 1) : r[k] = IF k < j THEN q[k] ELSE IF k = j THEN moved ELSE q[k - 1]
    BY <2>2 DEF With
  <2>4. Len(r) = Len(q) + 1
    BY <1>2, <2>2, <2>3
  <2>5. QED
    BY <2>2, <2>3, <2>4
<1> HIDE DEF r
<1> DEFINE From(k) == IF k = j THEN i
                      ELSE LET m == IF k < j THEN k ELSE k - 1 IN IF m < i THEN m ELSE m + 1
<1>5. \A k \in 1..Len(s) : From(k) \in 1..Len(s) /\ r[k] = s[From(k)]
  <2> TAKE k \in 1..Len(s)
  <2>1. CASE k = j
    BY <1>1, <1>3, <1>4, <2>1 DEF moved
  <2>2. CASE k # j
    <3> DEFINE m == IF k < j THEN k ELSE k - 1
    <3>1. m \in 1..(Len(s) - 1)
      BY <1>1, <2>2
    <3>2. r[k] = q[m]
      BY <1>1, <1>3, <1>4, <2>2
    <3> HIDE DEF m
    <3>3. q[m] = IF m < i THEN s[m] ELSE s[m + 1]
      BY <1>2, <3>1
    <3>4. From(k) = IF m < i THEN m ELSE m + 1
      BY <2>2 DEF m
    <3> HIDE DEF From
    <3>5. QED
      BY <1>1, <3>1, <3>2, <3>3, <3>4
  <2>3. QED
    BY <2>1, <2>2
<1>6. \A k, l \in 1..Len(s) : From(k) = From(l) => k = l
  BY <1>1
<1>7. \A x \in 1..Len(s) : \E k \in 1..Len(s) : From(k) = x
  <2> TAKE x \in 1..Len(s)
  <2>1. CASE x = i
    BY <1>1, <2>1
  <2>2. CASE x # i
    <3> DEFINE m == IF x < i THEN x ELSE x - 1
               k == IF m < j THEN m ELSE m + 1
    <3>1. k \in 1..Len(s) /\ From(k) = x
      BY <1>1, <2>2
    <3>2. QED
      BY <3>1
  <2>3. QED
    BY <2>1, <2>2
<1> HIDE DEF From
<1>8. DOMAIN r = 1..Len(s)
  BY <1>3, <1>4
<1>9. IsInjective(r)
  <2>1. \A k, l \in 1..Len(s) : s[k] = s[l] => k = l
    BY <1>1 DEF IsInjective
  <2>2. QED
    BY <1>5, <1>6, <1>8, <2>1 DEF IsInjective
<1>10. ToSet(r) = ToSet(s)
  <2>1. \A y : y \in ToSet(r) <=> \E k \in 1..Len(s) : r[k] = y
    BY <1>8 DEF ToSet
  <2>2. \A y : y \in ToSet(s) <=> \E k \in 1..Len(s) : s[k] = y
    BY <1>1 DEF ToSet
  <2>3. \A y : y \in ToSet(r) => y \in ToSet(s)
    BY <1>5, <2>1, <2>2
  <2>4. \A y \in 1..Len(s) : \E k \in 1..Len(s) : r[k] = s[y]
    BY <1>5, <1>7
  <2>5. \A y : y \in ToSet(s) => y \in ToSet(r)
    BY <2>1, <2>2, <2>4
  <2>6. QED
    BY <2>3, <2>5
<1>11. QED
  BY <1>4, <1>9, <1>10 DEF r, q, moved

LEMMA TailStrip ==
  ASSUME NEW D, NEW s \in Seq(D), s # <<>>
  PROVE  s[1] \in D /\ Tail(s) \in Seq(D) /\ ToSet(s) = {s[1]} \union ToSet(Tail(s))
<1>1. Len(s) \in Nat /\ Len(s) >= 1 /\ s[1] \in D
  OBVIOUS
<1> DEFINE r == Tail(s)
<1>2. r \in Seq(D) /\ Len(r) = Len(s) - 1 /\ \A i \in 1..(Len(s) - 1) : r[i] = s[i + 1]
  BY <1>1
<1> HIDE DEF r
<1>3. /\ \A x : x \in ToSet(s) <=> \E i \in 1..Len(s) : s[i] = x
      /\ \A x : x \in ToSet(r) <=> \E i \in 1..(Len(s) - 1) : r[i] = x
  <2>1. DOMAIN s = 1..Len(s) /\ DOMAIN r = 1..(Len(s) - 1)
    BY <1>2
  <2>2. QED
    BY <2>1 DEF ToSet
<1>4. ASSUME NEW i \in 1..Len(s) PROVE s[i] = s[1] \/ s[i] \in ToSet(r)
  <2>1. CASE i # 1
    <3>1. i - 1 \in 1..(Len(s) - 1) /\ (i - 1) + 1 = i
      BY <1>1, <2>1
    <3>2. r[i - 1] = s[i]
      BY <1>2, <3>1
    <3>3. QED
      BY <1>3, <3>1, <3>2
  <2>2. QED
    BY <2>1
<1>5. ASSUME NEW i \in 1..(Len(s) - 1) PROVE r[i] \in ToSet(s)
  <2>1. i + 1 \in 1..Len(s) /\ r[i] = s[i + 1]
    BY <1>1, <1>2
  <2>2. QED
    BY <1>3, <2>1
<1>6. s[1] \in ToSet(s)
  <2>1. 1 \in 1..Len(s)
    BY <1>1
  <2>2. QED
    BY <1>3, <2>1
<1>7. ToSet(s) = {s[1]} \union ToSet(r)
  BY <1>3, <1>4, <1>5, <1>6
<1>8. QED
  BY <1>1, <1>2, <1>7 DEF r

LEMMA EmptyStrip == ToSet(<<>>) = {} /\ IsInjective(<<>>)
BY DEF ToSet, IsInjective

\* What the restoration does next.
LEMMA NextTyped ==
  ASSUME TabsShape, restore.on
  PROVE  /\ Next1 \in Documents /\ page = "ready"
         /\ Rest \in [todo : Seq(Documents), target : Documents \union {Nowhere}, on : BOOLEAN]
         /\ IF Rest.on THEN Rest.target # Nowhere ELSE Rest = NoRestore
         /\ Rest.on => Rest.target = restore.target
                       /\ Todo = {Next1} \union ToSet(Rest.todo) \union {Rest.target}
         /\ ~Rest.on => Next1 = restore.target /\ Todo = {Next1}
<1>1. /\ restore \in [todo : Seq(Documents), target : Documents \union {Nowhere}, on : BOOLEAN]
      /\ restore.todo \in Seq(Documents) /\ restore.target \in Documents /\ page = "ready"
  BY DEF TabsShape
<1>2. CASE restore.todo = <<>>
  <2>1. Rest = NoRestore /\ Next1 = restore.target /\ NoRestore.on = FALSE
    BY <1>2 DEF Rest, Next1, NoRestore
  <2>2. NoRestore \in [todo : Seq(Documents), target : Documents \union {Nowhere}, on : BOOLEAN]
    BY DEF NoRestore
  <2>3. Todo = {restore.target}
    BY <1>2, EmptyStrip DEF Todo
  <2>4. QED
    BY <1>1, <2>1, <2>2, <2>3
<1>3. CASE restore.todo # <<>>
  <2> DEFINE left == Tail(restore.todo)
  <2>1. /\ restore.todo[1] \in Documents /\ left \in Seq(Documents)
        /\ ToSet(restore.todo) = {restore.todo[1]} \union ToSet(left)
    BY <1>1, <1>3, TailStrip
  <2>2. Rest = [restore EXCEPT !.todo = left] /\ Next1 = restore.todo[1]
    BY <1>3 DEF Rest, Next1
  <2> HIDE DEF left
  <2>3. /\ Rest \in [todo : Seq(Documents), target : Documents \union {Nowhere}, on : BOOLEAN]
        /\ Rest.on = TRUE /\ Rest.target = restore.target /\ Rest.todo = left
    BY <1>1, <2>1, <2>2
  <2>4. Todo = {Next1} \union ToSet(left) \union {restore.target}
    BY <2>1, <2>2 DEF Todo
  <2>5. QED
    BY <1>1, <2>1, <2>2, <2>3, <2>4, TabsAssumption
<1>4. QED
  BY <1>2, <1>3

\* A tab is opened or, when it is there, shown.
LEMMA OpenEffect ==
  ASSUME TabsShape, NEW p \in Documents, OpenFileTab(p)
  PROVE  /\ tabs' \in Seq(Documents) /\ IsInjective(tabs') /\ Strip' = Strip \union {p} /\ activeId' = p
         /\ tabs' # <<>> /\ (p \in Strip => tabs' = tabs)
         /\ openTabs' \in [Places -> Seq(Documents)]
         /\ \A e \in Places \ {here} : openTabs'[e] = openTabs[e]
         /\ IF page = "ready" /\ p \notin Strip THEN openTabs'[here] = tabs' ELSE openTabs' = openTabs
         /\ urlPath' = IF page = "ready" /\ p # activeId THEN p ELSE urlPath
<1>1. /\ tabs \in Seq(Documents) /\ IsInjective(tabs) /\ here \in Places
      /\ openTabs \in [Places -> Seq(Documents)]
  BY DEF TabsShape
<1>2. CASE p \in Strip
  <2>1. /\ tabs' = tabs /\ activeId' = p /\ openTabs' = openTabs
        /\ urlPath' = IF page = "ready" /\ p # activeId THEN p ELSE urlPath
    BY <1>2 DEF OpenFileTab, Commits, Persists
  <2>2. tabs # <<>> /\ Strip' = Strip
    BY <1>2, <2>1, EmptyStrip DEF Strip
  <2>3. QED
    BY <1>1, <1>2, <2>1, <2>2
<1>3. CASE p \notin Strip
  <2>1. /\ tabs' = Append(tabs, p) /\ activeId' = p
        /\ openTabs' = IF page = "ready" THEN [openTabs EXCEPT ![here] = tabs'] ELSE openTabs
        /\ urlPath' = IF page = "ready" /\ p # activeId THEN p ELSE urlPath
    BY <1>3 DEF OpenFileTab, Commits, Persists, Kept
  <2>2. tabs' \in Seq(Documents) /\ ToSet(tabs') = ToSet(tabs) \union {p} /\ IsInjective(tabs')
    BY <1>1, <1>3, <2>1, AppendStrip DEF Strip
  <2>3. tabs' # <<>>
    BY <2>2, EmptyStrip
  <2>4. QED
    BY <1>1, <1>3, <2>1, <2>2, <2>3 DEF Strip
<1>4. QED
  BY <1>2, <1>3

\* What is kept for the other environments.
LEMMA AwayStays ==
  ASSUME TabsInv, here' = here, excused \subseteq excused',
         \A e \in Places \ {here} :
           openTabs'[e] = openTabs[e] /\ wanted'[e] = wanted[e] /\ carried'[e] = carried[e]
  PROVE  \A e \in Places \ (excused' \union {here'}) : KeptTabs(e)'
BY DEF TabsInv, KeptTabs, KeptIn

\* The user opens a file.
LEMMA UserOpens ==
  ASSUME TabsInv, NEW p \in Documents, OpenFileTab(p), Wants(p), page # "gone", reads' \subseteq reads,
         UNCHANGED <<here, page, restore, mounts, carried, excused>>
  PROVE  TabsInv'
<1>1. TabsShape
  BY DEF TabsInv
<1>2. /\ wanted' \in [Places -> SUBSET Documents] /\ wanted'[here] = wanted[here] \union {p}
      /\ \A e \in Places \ {here} : wanted'[e] = wanted[e]
  BY <1>1, TabsAssumption DEF Wants, TabsShape
<1>3. /\ tabs' \in Seq(Documents) /\ IsInjective(tabs') /\ Strip' = Strip \union {p} /\ activeId' = p
      /\ tabs' # <<>>
      /\ openTabs' \in [Places -> Seq(Documents)]
      /\ \A e \in Places \ {here} : openTabs'[e] = openTabs[e]
      /\ IF page = "ready" /\ p \notin Strip THEN openTabs'[here] = tabs' ELSE openTabs' = openTabs
      /\ urlPath' = IF page = "ready" /\ p # activeId THEN p ELSE urlPath
  BY <1>1, OpenEffect
<1>4. TabsShape'
  BY <1>1, <1>2, <1>3 DEF TabsShape
<1>5. \A e \in Places \ (excused' \union {here'}) : KeptTabs(e)'
  BY <1>2, <1>3, AwayStays
<1>6. ASSUME page = "mounted", MountedInv PROVE MountedInv'
  BY <1>2, <1>3, <1>6 DEF MountedInv, KeptIn
<1>7. ASSUME page = "ready", ReadyInv PROVE ReadyInv'
  <2>1. Todo' = Todo
    BY DEF Todo
  <2>2. /\ wanted'[here] \subseteq Strip' \union Todo /\ Strip' \union Todo \subseteq wanted'[here] \union carried[here]
    BY <1>2, <1>3, <1>7 DEF ReadyInv
  <2>3. KeptIn(here)' = Strip' \/ (restore.on /\ (tabs' = <<>> \/ ~(wanted'[here] \subseteq Strip')))
    <3>1. CASE p \notin Strip
      BY <1>3, <1>7, <3>1 DEF KeptIn, Strip
    <3>2. CASE p \in Strip
      <4>1. tabs # <<>>
        BY <3>2, EmptyStrip DEF Strip
      <4>2. QED
        BY <1>2, <1>3, <1>7, <3>2, <4>1 DEF KeptIn, ReadyInv
    <3>3. QED
      BY <3>1, <3>2
  <2>4. urlPath' = activeId' \/ (restore.on /\ (urlPath' = restore.target \/ ~(wanted'[here] \subseteq Strip')))
    <3>1. CASE p # activeId
      BY <1>3, <1>7, <3>1
    <3>2. CASE p = activeId
      <4>1. p \in Strip
        BY <1>1, <3>2, TabsAssumption DEF TabsShape
      <4>2. QED
        BY <1>2, <1>3, <1>7, <3>2, <4>1 DEF ReadyInv
    <3>3. QED
      BY <3>1, <3>2
  <2>5. QED
    BY <2>1, <2>2, <2>3, <2>4 DEF ReadyInv
<1>8. here' \notin excused' => HereInv'
  BY <1>6, <1>7 DEF TabsInv, HereInv
<1>9. QED
  BY <1>4, <1>5, <1>8 DEF TabsInv

\* The restoration opens the next tab.
LEMMA RestorationOpens ==
  ASSUME TabsInv, restore.on, OpenFileTab(Next1), restore' = Rest, reads' \subseteq reads,
         UNCHANGED <<here, page, mounts, wanted, carried, excused>>
  PROVE  TabsInv'
<1>1. TabsShape
  BY DEF TabsInv
<1> DEFINE p == Next1
<1>2. /\ p \in Documents /\ page = "ready"
      /\ Rest \in [todo : Seq(Documents), target : Documents \union {Nowhere}, on : BOOLEAN]
      /\ IF Rest.on THEN Rest.target # Nowhere ELSE Rest = NoRestore
      /\ Rest.on => Rest.target = restore.target /\ Todo = {p} \union ToSet(Rest.todo) \union {Rest.target}
      /\ ~Rest.on => p = restore.target /\ Todo = {p}
  BY <1>1, NextTyped
<1> HIDE DEF p
<1>3. /\ tabs' \in Seq(Documents) /\ IsInjective(tabs') /\ Strip' = Strip \union {p} /\ activeId' = p
      /\ tabs' # <<>>
      /\ openTabs' \in [Places -> Seq(Documents)]
      /\ \A e \in Places \ {here} : openTabs'[e] = openTabs[e]
      /\ IF page = "ready" /\ p \notin Strip THEN openTabs'[here] = tabs' ELSE openTabs' = openTabs
      /\ urlPath' = IF page = "ready" /\ p # activeId THEN p ELSE urlPath
  BY <1>1, <1>2, OpenEffect DEF p
<1>4. TabsShape'
  BY <1>1, <1>2, <1>3 DEF TabsShape
<1>5. \A e \in Places \ (excused' \union {here'}) : KeptTabs(e)'
  BY <1>3, AwayStays
<1>6. ASSUME ReadyInv PROVE ReadyInv'
  <2>1. Todo' = IF Rest.on THEN ToSet(Rest.todo) \union {Rest.target} ELSE {}
    BY DEF Todo
  <2>2. Strip' \union Todo' = Strip \union Todo
    BY <1>2, <1>3, <2>1
  <2>3. ~Rest.on => wanted[here] \subseteq Strip'
    BY <1>2, <1>3, <1>6 DEF ReadyInv
  <2>4. KeptIn(here)' = Strip' \/ (Rest.on /\ (tabs' = <<>> \/ ~(wanted'[here] \subseteq Strip')))
    <3>1. CASE p \notin Strip
      BY <1>2, <1>3, <3>1 DEF KeptIn, Strip
    <3>2. CASE p \in Strip
      <4>1. tabs # <<>> /\ Strip' = Strip /\ openTabs' = openTabs
        BY <1>3, <3>2, EmptyStrip DEF Strip
      <4>2. QED
        BY <1>6, <2>3, <4>1 DEF KeptIn, ReadyInv
    <3>3. QED
      BY <3>1, <3>2
  <2>5. urlPath' = activeId' \/ (Rest.on /\ (urlPath' = Rest.target \/ ~(wanted'[here] \subseteq Strip')))
    <3>1. CASE p # activeId
      BY <1>2, <1>3, <3>1
    <3>2. CASE p = activeId
      <4>1. p \in Strip /\ Strip' = Strip /\ urlPath' = urlPath
        BY <1>1, <1>2, <1>3, <3>2, TabsAssumption DEF TabsShape
      <4>2. QED
        BY <1>2, <1>3, <1>6, <2>3, <3>2, <4>1 DEF ReadyInv
    <3>3. QED
      BY <3>1, <3>2
  <2>6. QED
    BY <1>6, <2>2, <2>4, <2>5 DEF ReadyInv
<1>7. here' \notin excused' => HereInv'
  BY <1>2, <1>6 DEF TabsInv, HereInv
<1>8. QED
  BY <1>4, <1>5, <1>7 DEF TabsInv

\* Files are being read, or are not any more, and nothing else.
LEMMA ReadsInv ==
  ASSUME TabsInv, reads' \subseteq Documents \X {"click", "restore"}, page = "ready" \/ reads' \subseteq reads,
         UNCHANGED <<here, openTabs, urlPath, page, tabs, activeId, restore, wanted, carried, excused>>
  PROVE  TabsInv'
<1>1. TabsShape'
  BY DEF TabsInv, TabsShape, Strip
<1>2. here' \notin excused' => HereInv'
  BY DEF TabsInv, HereInv, MountedInv, ReadyInv, KeptTabs, KeptIn, Strip, Todo
<1>3. \A e \in Places \ (excused' \union {here'}) : KeptTabs(e)'
  BY AwayStays
<1>4. QED
  BY <1>1, <1>2, <1>3 DEF TabsInv

LEMMA ClickInv ==
  ASSUME TabsInv, NEW p \in Documents, ClickFile(p) \/ ClickAnswered(p)
  PROVE  TabsInv'
<1>1. reads \subseteq Documents \X {"click", "restore"} /\ (page = "gone" => reads = {})
  BY DEF TabsInv, TabsShape
<1>2. CASE ClickFile(p)
  <2>1. CASE OpenFileTab(p) /\ Wants(p) /\ UNCHANGED reads
    BY <1>2, <2>1, UserOpens DEF ClickFile
  <2>2. CASE page = "ready" /\ reads' = reads \union {<<p, "click">>}
             /\ UNCHANGED <<tabs, activeId, openTabs, urlPath, wanted>>
    BY <1>1, <1>2, <2>2, ReadsInv DEF ClickFile
  <2>3. QED
    BY <1>2, <2>1, <2>2 DEF ClickFile
<1>3. CASE ClickAnswered(p)
  <2>1. page # "gone" /\ reads' \subseteq reads
    BY <1>1, <1>3 DEF ClickAnswered
  <2>2. CASE OpenFileTab(p) /\ Wants(p)
    BY <1>3, <2>1, <2>2, UserOpens DEF ClickAnswered
  <2>3. CASE UNCHANGED <<tabs, activeId, openTabs, urlPath, wanted>>
    BY <1>1, <1>3, <2>1, <2>3, ReadsInv DEF ClickAnswered
  <2>4. QED
    BY <1>3, <2>2, <2>3 DEF ClickAnswered
<1>4. QED
  BY <1>2, <1>3

\* The restoration, up to the answer that fails.
LEMMA RestoreInv ==
  ASSUME TabsInv, RestoreOpens \/ RestoreAnswered
  PROVE  TabsInv'
<1>1. TabsShape /\ reads \subseteq Documents \X {"click", "restore"}
  BY DEF TabsInv, TabsShape
<1>2. restore.on
  <2>1. CASE RestoreOpens
    BY <2>1 DEF RestoreOpens, RestoreIdle
  <2>2. CASE RestoreAnswered
    <3>1. Next1 \in Documents
      BY <1>1, <2>2 DEF RestoreAnswered
    <3>2. restore = NoRestore => Next1 = Nowhere
      BY DEF Next1, NoRestore
    <3>3. QED
      BY <1>1, <3>1, <3>2, TabsAssumption DEF TabsShape
  <2>3. QED
    BY <2>1, <2>2
<1>3. /\ Next1 \in Documents /\ page = "ready"
      /\ Rest \in [todo : Seq(Documents), target : Documents \union {Nowhere}, on : BOOLEAN]
      /\ IF Rest.on THEN Rest.target # Nowhere ELSE Rest = NoRestore
  BY <1>1, <1>2, NextTyped
<1>4. CASE RestoreOpens
  <2>1. CASE OpenFileTab(Next1) /\ restore' = Rest /\ UNCHANGED reads
    BY <1>2, <1>4, <2>1, RestorationOpens DEF RestoreOpens
  <2>2. CASE /\ reads' = reads \union {<<Next1, "restore">>}
             /\ UNCHANGED <<tabs, activeId, openTabs, urlPath, restore>>
    BY <1>1, <1>3, <1>4, <2>2, ReadsInv DEF RestoreOpens
  <2>3. QED
    BY <1>4, <2>1, <2>2 DEF RestoreOpens
<1>5. CASE RestoreAnswered
  <2>1. reads' \subseteq reads /\ restore' = Rest /\ UNCHANGED <<here, page, mounts, wanted, carried>>
    BY <1>5 DEF RestoreAnswered
  <2>2. CASE OpenFileTab(Next1) /\ UNCHANGED excused
    BY <1>2, <2>1, <2>2, RestorationOpens
  <2>3. CASE excused' = excused \union {here} /\ UNCHANGED <<tabs, activeId, openTabs, urlPath>>
    <3>1. TabsShape'
      BY <1>1, <1>3, <2>1, <2>3 DEF TabsShape, Strip
    <3>2. \A e \in Places \ (excused' \union {here'}) : KeptTabs(e)'
      BY <2>1, <2>3, AwayStays
    <3>3. QED
      BY <2>1, <2>3, <3>1, <3>2 DEF TabsInv
  <2>4. QED
    BY <1>5, <2>2, <2>3 DEF RestoreAnswered
<1>6. QED
  BY <1>4, <1>5

\* The same tabs, another one shown or in another order.
LEMMA SameTabs ==
  ASSUME TabsInv, NEW r \in Seq(Documents), NEW a \in Documents, NEW changed \in BOOLEAN,
         IsInjective(r), ToSet(r) = Strip, a \in Strip, Commits(r, a, changed), changed \/ r = tabs,
         UNCHANGED <<here, page, restore, reads, mounts, wanted, carried, excused>>
  PROVE  TabsInv'
<1>1. TabsShape /\ here \in Places /\ openTabs \in [Places -> Seq(Documents)]
  BY DEF TabsInv, TabsShape
<1>2. /\ tabs' = r /\ activeId' = a /\ Strip' = Strip /\ a # Nowhere
      /\ openTabs' = IF changed /\ page = "ready" THEN [openTabs EXCEPT ![here] = r] ELSE openTabs
      /\ urlPath' = IF page = "ready" /\ a # activeId THEN a ELSE urlPath
  BY TabsAssumption DEF Commits, Persists, Kept, Strip
<1>3. /\ openTabs' \in [Places -> Seq(Documents)]
      /\ \A e \in Places \ {here} : openTabs'[e] = openTabs[e]
      /\ openTabs'[here] = r \/ openTabs' = openTabs
      /\ page # "ready" => openTabs' = openTabs
  BY <1>1, <1>2
<1>4. tabs # <<>> /\ tabs' # <<>> /\ page # "gone"
  BY <1>1, <1>2, EmptyStrip DEF Strip, TabsShape
<1>5. TabsShape'
  BY <1>1, <1>2, <1>3, <1>4 DEF TabsShape
<1>6. \A e \in Places \ (excused' \union {here'}) : KeptTabs(e)'
  BY <1>3, AwayStays
<1>7. ASSUME page = "mounted", MountedInv PROVE MountedInv'
  BY <1>2, <1>3, <1>7 DEF MountedInv, KeptIn
<1>8. ASSUME page = "ready", ReadyInv PROVE ReadyInv'
  <2>1. Todo' = Todo
    BY DEF Todo
  <2>2. KeptIn(here)' = Strip' \/ KeptIn(here)' = KeptIn(here)
    BY <1>2, <1>3 DEF KeptIn
  <2>3. urlPath' = activeId' \/ (urlPath' = urlPath /\ activeId' = activeId)
    BY <1>2, <1>8
  <2>4. QED
    BY <1>2, <1>4, <1>8, <2>1, <2>2, <2>3 DEF ReadyInv
<1>9. here' \notin excused' => HereInv'
  BY <1>4, <1>7, <1>8 DEF TabsInv, HereInv
<1>10. QED
  BY <1>5, <1>6, <1>9 DEF TabsInv

LEMMA StripInv ==
  ASSUME TabsInv,
         \/ \E p \in Documents : Select(p)
         \/ \E i, j \in DOMAIN tabs : ReorderTabs(i, j)
         \/ StatusSet
  PROVE  TabsInv'
<1>1. TabsShape /\ tabs \in Seq(Documents) /\ IsInjective(tabs)
  BY DEF TabsInv, TabsShape
<1>2. ASSUME NEW p \in Documents, Select(p) PROVE TabsInv'
  BY <1>1, <1>2, SameTabs DEF Select, Strip
<1>3. ASSUME NEW i \in DOMAIN tabs, NEW j \in DOMAIN tabs, ReorderTabs(i, j) PROVE TabsInv'
  <2> DEFINE r == InsertAt(RemoveAt(tabs, i), j, tabs[i])
  <2>1. r \in Seq(Documents) /\ IsInjective(r) /\ ToSet(r) = Strip
    BY <1>1, ReorderStrip DEF Strip
  <2>2. activeId \in Strip /\ activeId \in Documents
    <3>1. tabs # <<>>
      BY <1>1, <1>3
    <3>2. QED
      BY <1>1, <3>1, StripOf DEF TabsShape, Strip
  <2>3. Commits(r, activeId, TRUE) /\ UNCHANGED <<here, page, restore, reads, mounts, wanted, carried, excused>>
    BY <1>3 DEF ReorderTabs
  <2> HIDE DEF r
  <2>4. QED
    BY <2>1, <2>2, <2>3, SameTabs
<1>4. ASSUME StatusSet PROVE TabsInv'
  <2>1. activeId \in Strip /\ activeId \in Documents
    BY <1>1, <1>4, StripOf DEF TabsShape, Strip, StatusSet
  <2>2. Commits(tabs, activeId, TRUE) /\ UNCHANGED <<here, page, restore, reads, mounts, wanted, carried, excused>>
    BY <1>4 DEF StatusSet
  <2>3. QED
    BY <1>1, <2>1, <2>2, SameTabs DEF Strip
<1>5. QED
  BY <1>2, <1>3, <1>4

\* A tab is closed.
LEMMA CloseInv ==
  ASSUME TabsInv, NEW p \in Documents, CloseFileTab(p)
  PROVE  TabsInv'
<1> DEFINE r == RemoveAt(tabs, TabAt(tabs, p))
           a == IF activeId = p THEN NeighborAfterClose(tabs, p) ELSE activeId
<1>1. /\ TabsShape /\ here \in Places /\ openTabs \in [Places -> Seq(Documents)]
      /\ tabs \in Seq(Documents) /\ IsInjective(tabs) /\ p \in Strip
      /\ wanted \in [Places -> SUBSET Documents] /\ carried \in [Places -> SUBSET Documents]
  BY DEF TabsInv, TabsShape, CloseFileTab
<1>2. /\ r \in Seq(Documents) /\ IsInjective(r) /\ ToSet(r) = Strip \ {p}
      /\ \/ NeighborAfterClose(tabs, p) \in Strip \ {p}
         \/ NeighborAfterClose(tabs, p) = Nowhere /\ Strip = {p}
  BY <1>1, RemoveStrip DEF Strip
<1>3. /\ Commits(r, a, TRUE)
      /\ wanted' = [wanted EXCEPT ![here] = @ \ {p}] /\ carried' = [carried EXCEPT ![here] = @ \ {p}]
      /\ excused' = (IF restore.on \/ page = "mounted" THEN excused \union {here} ELSE excused)
      /\ UNCHANGED <<here, page, restore, reads, mounts>>
  BY DEF CloseFileTab
<1>4. a \in ToSet(r) \/ (a = Nowhere /\ r = <<>>)
  <2>1. activeId \in Strip
    BY <1>1, EmptyStrip DEF TabsShape, Strip
  <2>2. ToSet(r) = {} => r = <<>>
    BY <1>2, StripOf
  <2> HIDE DEF r
  <2>3. QED
    BY <1>2, <2>1, <2>2
<1>5. a \in Documents \union {Nowhere}
  <2>1. ToSet(r) \subseteq Documents
    BY <1>2, StripOf
  <2> HIDE DEF r, a
  <2>2. QED
    BY <1>4, <2>1
<1> HIDE DEF r, a
<1>6. /\ tabs' = r /\ activeId' = a
      /\ openTabs' = IF page = "ready" THEN [openTabs EXCEPT ![here] = r] ELSE openTabs
      /\ urlPath' = IF page = "ready" /\ a # activeId THEN a ELSE urlPath
  BY <1>3 DEF Commits, Persists, Kept
<1>7. page # "gone"
  BY <1>1, EmptyStrip DEF TabsShape, Strip
<1>8. /\ wanted' \in [Places -> SUBSET Documents] /\ carried' \in [Places -> SUBSET Documents]
      /\ wanted'[here] = wanted[here] \ {p} /\ carried'[here] = carried[here] \ {p}
      /\ \A e \in Places \ {here} : wanted'[e] = wanted[e] /\ carried'[e] = carried[e]
  BY <1>1, <1>3
<1>9. /\ openTabs' \in [Places -> Seq(Documents)]
      /\ \A e \in Places \ {here} : openTabs'[e] = openTabs[e]
      /\ page = "ready" => openTabs'[here] = r
  BY <1>1, <1>2, <1>6
<1>10. urlPath' \in Documents \union {Nowhere}
  BY <1>1, <1>5, <1>6 DEF TabsShape
<1>11. TabsShape'
  BY <1>1, <1>2, <1>3, <1>4, <1>6, <1>7, <1>8, <1>9, <1>10 DEF TabsShape, Strip
<1>12. \A e \in Places \ (excused' \union {here'}) : KeptTabs(e)'
  BY <1>3, <1>8, <1>9, AwayStays
<1>13. ASSUME here \notin excused' PROVE HereInv'
  <2>1. page = "ready" /\ ~restore.on /\ here \notin excused
    BY <1>1, <1>3, <1>7, <1>13 DEF TabsShape
  <2>2. ReadyInv
    BY <2>1 DEF TabsInv, HereInv
  <2>3. Todo = {} /\ Todo' = {}
    BY <1>3, <2>1 DEF Todo
  <2>4. wanted[here] \subseteq Strip /\ Strip \subseteq wanted[here] \union carried[here] /\ urlPath = activeId
    BY <2>1, <2>2, <2>3 DEF ReadyInv
  <2>5. Strip' = Strip \ {p} /\ KeptIn(here)' = Strip'
    BY <1>2, <1>3, <1>6, <1>9, <2>1 DEF Strip, KeptIn
  <2>6. urlPath' = activeId'
    BY <1>6, <2>1, <2>4
  <2>7. ReadyInv'
    BY <1>3, <1>8, <2>3, <2>4, <2>5, <2>6 DEF ReadyInv
  <2>8. QED
    BY <1>3, <2>1, <2>7 DEF HereInv
<1>14. QED
  BY <1>3, <1>11, <1>12, <1>13 DEF TabsInv

\* There is an editor, and the restoration begins.
LEMMA ReadyStarts ==
  ASSUME TabsInv, EditorReady
  PROVE  TabsInv'
<1> DEFINE persisted == openTabs[here]
           target == IF urlPath # Nowhere THEN urlPath
                     ELSE IF persisted # <<>> THEN persisted[Len(persisted)] ELSE Nowhere
<1>1. /\ TabsShape /\ here \in Places /\ persisted \in Seq(Documents)
      /\ urlPath \in Documents \union {Nowhere} /\ wanted[here] \subseteq Documents
      /\ page = "mounted" /\ page' = "ready" /\ restore = NoRestore
      /\ activeId \in Strip \/ (activeId = Nowhere /\ tabs = <<>>)
  BY DEF TabsInv, TabsShape, EditorReady
<1>2. /\ restore' = IF target = Nowhere THEN NoRestore ELSE [todo |-> persisted, target |-> target, on |-> TRUE]
      /\ excused' = IF tabs # <<>> /\ wanted[here] \subseteq Strip THEN excused \union {here} ELSE excused
      /\ UNCHANGED <<here, openTabs, urlPath, tabs, activeId, reads, mounts, wanted, carried>>
  BY DEF EditorReady
<1>3. /\ KeptIn(here) \subseteq Documents
      /\ persisted # <<>> => persisted[Len(persisted)] \in KeptIn(here)
      /\ persisted = <<>> <=> KeptIn(here) = {}
  <2>1. persisted # <<>> => Len(persisted) \in 1..Len(persisted)
    BY <1>1
  <2> HIDE DEF persisted
  <2>2. QED
    BY <1>1, <2>1, StripOf DEF KeptIn, persisted
<1>4. /\ target \in Documents \union {Nowhere}
      /\ target = Nowhere => urlPath = Nowhere /\ KeptIn(here) = {}
      /\ urlPath # Nowhere => target = urlPath
      /\ urlPath = Nowhere /\ target # Nowhere => target \in KeptIn(here)
  BY <1>1, <1>3, TabsAssumption
<1> HIDE DEF target, persisted
<1>5. restore' \in [todo : Seq(Documents), target : Documents \union {Nowhere}, on : BOOLEAN]
      /\ IF restore'.on THEN restore'.target # Nowhere ELSE restore' = NoRestore
  BY <1>1, <1>2, <1>4 DEF NoRestore
<1>6. TabsShape'
  BY <1>1, <1>2, <1>5 DEF TabsShape, Strip
<1>7. \A e \in Places \ (excused' \union {here'}) : KeptTabs(e)'
  BY <1>2, AwayStays
<1>8. ASSUME here \notin excused' PROVE ReadyInv'
  <2>1. MountedInv /\ (tabs = <<>> \/ ~(wanted[here] \subseteq Strip))
    BY <1>1, <1>2, <1>8 DEF TabsInv, HereInv
  <2>2. Strip' = Strip /\ KeptIn(here)' = KeptIn(here) /\ Nowhere \notin wanted[here]
    BY <1>1, <1>2, TabsAssumption DEF Strip, KeptIn
  <2>3. tabs = <<>> => Strip = {} /\ activeId = Nowhere
    BY <1>1, EmptyStrip DEF Strip
  <2>4. CASE target = Nowhere
    <3>1. Todo' = {} /\ urlPath = Nowhere /\ KeptIn(here) = {}
      BY <1>2, <1>4, <2>4 DEF Todo, NoRestore
    <3>2. wanted[here] \subseteq Strip /\ Strip \subseteq wanted[here] \union carried[here]
      BY <2>1, <2>2, <3>1 DEF MountedInv
    <3>3. QED
      BY <1>2, <2>1, <2>2, <2>3, <3>1, <3>2 DEF ReadyInv
  <2>5. CASE target # Nowhere
    <3>1. Todo' = KeptIn(here) \union {target} /\ restore'.on = TRUE /\ restore'.target = target
      BY <1>2, <2>5 DEF Todo, KeptIn, persisted
    <3>2. wanted[here] \subseteq Strip \union Todo'
      BY <1>4, <2>1, <2>2, <3>1 DEF MountedInv
    <3>3. Strip \union Todo' \subseteq wanted[here] \union carried[here]
      BY <1>4, <2>1, <2>5, <3>1 DEF MountedInv
    <3>4. urlPath = activeId \/ urlPath = target \/ ~(wanted[here] \subseteq Strip)
      BY <1>4, <2>1, <2>3
    <3>5. QED
      BY <1>2, <2>1, <2>2, <3>1, <3>2, <3>3, <3>4 DEF ReadyInv
  <2>6. QED
    BY <2>4, <2>5
<1>9. QED
  BY <1>1, <1>2, <1>6, <1>7, <1>8 DEF TabsInv, HereInv

LEMMA WantsTyped ==
  ASSUME TabsShape, NEW u \in Documents \union {Nowhere}, Wants(u)
  PROVE  /\ wanted' \in [Places -> SUBSET Documents] /\ wanted'[here] = wanted[here] \union ({u} \ {Nowhere})
         /\ \A e \in Places \ {here} : wanted'[e] = wanted[e]
BY DEF TabsShape, Wants

LEMMA EnterInv ==
  ASSUME TabsInv, NEW u \in Documents \union {Nowhere}, Enter(u)
  PROVE  TabsInv'
<1>1. TabsShape /\ page = "gone" /\ page' = "mounted" /\ urlPath' = u
      /\ UNCHANGED <<here, openTabs, tabs, activeId, restore, reads, carried, excused>>
  BY DEF TabsInv, Enter
<1>2. /\ wanted' \in [Places -> SUBSET Documents] /\ wanted'[here] = wanted[here] \union ({u} \ {Nowhere})
      /\ \A e \in Places \ {here} : wanted'[e] = wanted[e]
  BY WantsTyped DEF Enter, TabsInv
<1>3. TabsShape'
  BY <1>1, <1>2 DEF TabsShape, Strip
<1>4. \A e \in Places \ (excused' \union {here'}) : KeptTabs(e)'
  BY <1>1, <1>2, AwayStays
<1>5. ASSUME here \notin excused PROVE MountedInv'
  <2>1. KeptTabs(here) /\ Strip' = {}
    BY <1>1, <1>5, EmptyStrip DEF TabsInv, HereInv, TabsShape, Strip
  <2>2. QED
    BY <1>1, <1>2, <2>1 DEF KeptTabs, MountedInv, KeptIn
<1>6. QED
  BY <1>1, <1>3, <1>4, <1>5 DEF TabsInv, HereInv

LEMMA FollowLinkInv ==
  ASSUME TabsInv, NEW u \in Documents \union {Nowhere}, FollowLink(u)
  PROVE  TabsInv'
<1> DEFINE v == IF page = "ready" THEN activeId ELSE u
<1>1. /\ TabsShape /\ page # "gone" /\ urlPath' = v
      /\ excused' = IF AskedEarly THEN excused \union {here} ELSE excused
      /\ UNCHANGED <<here, openTabs, page, tabs, activeId, restore, reads, mounts, carried>>
  BY DEF TabsInv, FollowLink
<1>2. v \in Documents \union {Nowhere}
  <2>1. Strip \subseteq Documents
    BY <1>1, StripOf DEF TabsShape, Strip
  <2>2. QED
    BY <1>1, <2>1 DEF TabsShape
<1>3. /\ wanted' \in [Places -> SUBSET Documents] /\ wanted'[here] = wanted[here] \union ({v} \ {Nowhere})
      /\ \A e \in Places \ {here} : wanted'[e] = wanted[e]
  BY <1>1, <1>2, WantsTyped DEF FollowLink
<1>4. TabsShape'
  BY <1>1, <1>2, <1>3 DEF TabsShape, Strip
<1>5. \A e \in Places \ (excused' \union {here'}) : KeptTabs(e)'
  BY <1>1, <1>3, AwayStays
<1>6. ASSUME page = "mounted", here \notin excused' PROVE MountedInv'
  <2>1. MountedInv /\ urlPath = Nowhere /\ tabs = <<>>
    BY <1>1, <1>6 DEF TabsInv, HereInv, AskedEarly
  <2>2. Strip = {} /\ Strip' = Strip /\ KeptIn(here)' = KeptIn(here) /\ Nowhere \notin wanted[here]
    BY <1>1, <2>1, EmptyStrip, TabsAssumption DEF Strip, KeptIn, TabsShape
  <2>3. QED
    BY <1>1, <1>3, <2>1, <2>2 DEF MountedInv
<1>7. ASSUME page = "ready", here \notin excused' PROVE ReadyInv'
  <2>1. ReadyInv
    BY <1>1, <1>7 DEF TabsInv, HereInv
  <2>2. v = activeId /\ {v} \ {Nowhere} \subseteq Strip /\ Strip' = Strip /\ KeptIn(here)' = KeptIn(here) /\ Todo' = Todo
    BY <1>1, <1>7 DEF TabsShape, Strip, KeptIn, Todo
  <2> HIDE DEF v
  <2>3. QED
    BY <1>1, <1>3, <2>1, <2>2 DEF ReadyInv
<1>8. QED
  BY <1>1, <1>4, <1>5, <1>6, <1>7 DEF TabsInv, HereInv

\* The page goes: what it showed is kept.
LEMMA LeavesKept ==
  ASSUME TabsInv, page # "gone", Unmounted
  PROVE  /\ excused \subseteq excused' /\ excused' \subseteq excused \union {here}
         /\ here \notin excused' =>
              KeptTabs(here) /\ {urlPath} \ {Nowhere} \subseteq wanted[here] \union carried[here]
<1>1. TabsShape /\ excused' = IF restore.on \/ AskedEarly THEN excused \union {here} ELSE excused
  BY DEF TabsInv, Unmounted
<1>2. ASSUME page = "mounted", here \notin excused'
      PROVE  KeptTabs(here) /\ {urlPath} \ {Nowhere} \subseteq wanted[here] \union carried[here]
  <2>1. MountedInv /\ urlPath = Nowhere /\ tabs = <<>>
    BY <1>1, <1>2 DEF TabsInv, HereInv, AskedEarly
  <2>2. Strip = {} /\ Nowhere \notin wanted[here]
    BY <1>1, <2>1, EmptyStrip, TabsAssumption DEF Strip, TabsShape
  <2>3. QED
    BY <2>1, <2>2 DEF MountedInv, KeptTabs
<1>3. ASSUME page = "ready", here \notin excused'
      PROVE  KeptTabs(here) /\ {urlPath} \ {Nowhere} \subseteq wanted[here] \union carried[here]
  <2>1. ReadyInv /\ ~restore.on /\ Todo = {}
    BY <1>1, <1>3 DEF TabsInv, HereInv, Todo
  <2>2. KeptIn(here) = Strip /\ urlPath = activeId /\ (activeId \in Strip \/ activeId = Nowhere)
    BY <1>1, <2>1 DEF ReadyInv, TabsShape
  <2>3. QED
    BY <2>1, <2>2 DEF ReadyInv, KeptTabs
<1>4. page \in {"gone", "mounted", "ready"}
  BY <1>1 DEF TabsShape
<1>5. QED
  BY <1>1, <1>2, <1>3, <1>4

LEMMA LeaveEditorInv ==
  ASSUME TabsInv, GoElsewhere \/ Reload
  PROVE  TabsInv'
<1>1. /\ TabsShape /\ page # "gone" /\ Unmounted /\ UNCHANGED <<here, openTabs, wanted, carried>>
      /\ \/ page' = "gone" /\ urlPath' = Nowhere
         \/ page' = "mounted" /\ urlPath' = urlPath
  BY DEF TabsInv, GoElsewhere, Reload
<1>2. tabs' = <<>> /\ activeId' = Nowhere /\ restore' = NoRestore /\ reads' = {}
  BY <1>1 DEF Unmounted
<1>3. NoRestore \in [todo : Seq(Documents), target : Documents \union {Nowhere}, on : BOOLEAN] /\ NoRestore.on = FALSE
  BY DEF NoRestore
<1>4. <<>> \in Seq(Documents)
  OBVIOUS
<1>5. TabsShape'
  BY <1>1, <1>2, <1>3, <1>4, EmptyStrip DEF TabsShape
<1>6. \A e \in Places \ (excused' \union {here'}) : KeptTabs(e)'
  BY <1>1, LeavesKept, AwayStays
<1>7. ASSUME here \notin excused' PROVE HereInv'
  <2>1. KeptTabs(here) /\ {urlPath} \ {Nowhere} \subseteq wanted[here] \union carried[here]
    BY <1>1, <1>7, LeavesKept
  <2>2. Strip' = {} /\ KeptIn(here)' = KeptIn(here)
    BY <1>1, <1>2, EmptyStrip DEF Strip, KeptIn
  <2>3. QED
    BY <1>1, <2>1, <2>2 DEF HereInv, KeptTabs, MountedInv
<1>8. QED
  BY <1>1, <1>5, <1>6, <1>7 DEF TabsInv

LEMMA SwitchPlaceInv ==
  ASSUME TabsInv, NEW e \in Places, SwitchPlace(e)
  PROVE  TabsInv'
<1>1. TabsShape /\ e # here /\ here' = e /\ UNCHANGED <<openTabs, urlPath, wanted>>
  BY DEF TabsInv, SwitchPlace
<1>2. CASE page = "gone" /\ UNCHANGED <<page, mounts, tabs, activeId, restore, reads, carried, excused>>
  <2>1. TabsShape'
    BY <1>1, <1>2 DEF TabsShape, Strip
  <2>2. \A f \in Places \ excused : KeptTabs(f)
    BY <1>2 DEF TabsInv, HereInv
  <2>3. QED
    BY <1>1, <1>2, <2>1, <2>2 DEF TabsInv, HereInv, KeptTabs, KeptIn
<1>3. CASE /\ page # "gone" /\ page' = "mounted" /\ Unmounted
           /\ carried' = IF urlPath = Nowhere THEN carried ELSE [carried EXCEPT ![e] = @ \union {urlPath}]
  <2>1. tabs' = <<>> /\ activeId' = Nowhere /\ restore' = NoRestore /\ reads' = {}
    BY <1>3 DEF Unmounted
  <2>2. NoRestore \in [todo : Seq(Documents), target : Documents \union {Nowhere}, on : BOOLEAN] /\ NoRestore.on = FALSE
    BY DEF NoRestore
  <2>3. <<>> \in Seq(Documents)
    OBVIOUS
  <2>4. /\ carried' \in [Places -> SUBSET Documents] /\ carried'[e] = carried[e] \union ({urlPath} \ {Nowhere})
        /\ \A f \in Places \ {e} : carried'[f] = carried[f]
    BY <1>1, <1>3 DEF TabsShape
  <2>5. TabsShape'
    BY <1>1, <1>3, <2>1, <2>2, <2>3, <2>4, EmptyStrip DEF TabsShape
  <2>6. \A f \in Places \ excused' : KeptTabs(f)
    BY <1>3, LeavesKept DEF TabsInv
  <2>7. \A f \in Places \ (excused' \union {here'}) : KeptTabs(f)'
    BY <1>1, <2>4, <2>6 DEF KeptTabs, KeptIn
  <2>8. ASSUME e \notin excused' PROVE MountedInv'
    <3>1. KeptTabs(e) /\ Strip' = {} /\ KeptIn(e)' = KeptIn(e)
      BY <1>1, <2>1, <2>6, <2>8, EmptyStrip DEF Strip, KeptIn
    <3>2. QED
      BY <1>1, <2>4, <3>1 DEF KeptTabs, MountedInv, KeptIn
  <2>9. QED
    BY <1>1, <1>3, <2>5, <2>7, <2>8 DEF TabsInv, HereInv
<1>4. QED
  BY <1>2, <1>3 DEF SwitchPlace

LEMMA TabsStart ==
  ASSUME TabsInit PROVE TabsInv
<1>1. NoRestore \in [todo : Seq(Documents), target : Documents \union {Nowhere}, on : BOOLEAN] /\ NoRestore.on = FALSE
  BY DEF NoRestore
<1>2. <<>> \in Seq(Documents)
  OBVIOUS
<1>3. TabsShape
  BY <1>1, <1>2, EmptyStrip DEF TabsInit, TabsShape
<1>4. \A e \in Places : KeptTabs(e)
  BY EmptyStrip DEF TabsInit, KeptTabs, KeptIn
<1>5. page = "gone" /\ here \in Places
  BY DEF TabsInit
<1>6. QED
  BY <1>3, <1>4, <1>5 DEF TabsInv, HereInv

LEMMA TabsStay ==
  ASSUME TabsInv, UNCHANGED tabVars PROVE TabsInv'
BY ReadsInv DEF tabVars, TabsInv, TabsShape

LEMMA TabsSteps ==
  ASSUME TabsInv, [TabsNext]_tabVars PROVE TabsInv'
<1>1. CASE \E p \in Documents : ClickFile(p) \/ ClickAnswered(p)
  BY <1>1, ClickInv
<1>2. CASE (\E p \in Documents : Select(p)) \/ (\E i, j \in DOMAIN tabs : ReorderTabs(i, j)) \/ StatusSet
  BY <1>2, StripInv
<1>3. CASE \E p \in Documents : CloseFileTab(p)
  BY <1>3, CloseInv
<1>4. CASE EditorReady
  BY <1>4, ReadyStarts
<1>5. CASE RestoreOpens \/ RestoreAnswered
  BY <1>5, RestoreInv
<1>6. CASE \E u \in Documents \union {Nowhere} : Enter(u)
  BY <1>6, EnterInv
<1>7. CASE \E u \in Documents \union {Nowhere} : FollowLink(u)
  BY <1>7, FollowLinkInv
<1>8. CASE GoElsewhere \/ Reload
  BY <1>8, LeaveEditorInv
<1>9. CASE \E e \in Places : SwitchPlace(e)
  BY <1>9, SwitchPlaceInv
<1>10. CASE UNCHANGED tabVars
  BY <1>10, TabsStay
<1>11. QED
  BY <1>1, <1>2, <1>3, <1>4, <1>5, <1>6, <1>7, <1>8, <1>9, <1>10 DEF TabsNext

LEMMA TabsInvariant == TabsSpec => []TabsInv
<1>1. TabsInit => TabsInv
  BY TabsStart
<1>2. TabsInv /\ [TabsNext]_tabVars => TabsInv'
  BY TabsSteps
<1>3. QED
  BY <1>1, <1>2, PTL DEF TabsSpec

\* The tabs a user opened in an environment and did not close are there after every reload, return
\* and switch, and no others but for what the URL brought along, and the tab shown is one of the
\* strip (useTabPersistence.ts, sessionReducer.ts); not after a restoration that was left half-way,
\* met a file it could not read, or had a tab closed under it.
THEOREM TabsAreKeptHolds == TabsSpec => []TabsAreKept
<1>1. ASSUME TabsInv PROVE TabsAreKept
  <2>1. activeId \in Strip \/ (activeId = Nowhere /\ tabs = <<>>)
    BY <1>1 DEF TabsInv, TabsShape
  <2>2. ASSUME here \notin excused, page # "gone", Restored
        PROVE  Strip = wanted[here] \union (carried[here] \intersect Strip) /\ urlPath = activeId
    BY <1>1, <2>2 DEF Restored, TabsInv, HereInv, ReadyInv, Todo
  <2>3. ASSUME NEW e \in Places \ excused, ~(e = here /\ page # "gone")
        PROVE  wanted[e] \subseteq ToSet(openTabs[e])
    BY <1>1, <2>3 DEF TabsInv, HereInv, KeptTabs, KeptIn
  <2>4. QED
    BY <2>1, <2>2, <2>3 DEF TabsAreKept
<1>2. TabsInv => TabsAreKept
  BY <1>1
<1>3. QED
  BY <1>2, TabsInvariant, PTL

\* What is kept, and what the restoration is to open, was a strip.
StripsKept ==
  /\ \A e \in Places : IsInjective(openTabs[e])
  /\ IsInjective(restore.todo)
  /\ mounts \in 0..MaxMounts /\ excused \subseteq Places

LEMMA TailInjective ==
  ASSUME NEW D, NEW s \in Seq(D), IsInjective(s), s # <<>> PROVE IsInjective(Tail(s))
<1>1. /\ Tail(s) \in Seq(D) /\ Len(Tail(s)) = Len(s) - 1 /\ Len(s) \in Nat
      /\ \A i \in 1..Len(Tail(s)) : Tail(s)[i] = s[i + 1]
  BY HeadTailProperties
<1>2. DOMAIN Tail(s) = 1..Len(Tail(s)) /\ DOMAIN s = 1..Len(s)
  BY <1>1
<1>3. ASSUME NEW i \in DOMAIN Tail(s), NEW j \in DOMAIN Tail(s), Tail(s)[i] = Tail(s)[j] PROVE i = j
  <2>1. i + 1 \in DOMAIN s /\ j + 1 \in DOMAIN s /\ i \in Nat /\ j \in Nat
    BY <1>1, <1>2
  <2>2. s[i + 1] = s[j + 1]
    BY <1>1, <1>2, <1>3
  <2>3. i + 1 = j + 1
    BY <2>1, <2>2 DEF IsInjective
  <2>4. QED
    BY <2>1, <2>3
<1>4. QED
  BY <1>3 DEF IsInjective

\* A commit keeps the strip that it shows, or nothing new.
LEMMA CommitKeepsStrips ==
  ASSUME TabsShape, StripsKept, NEW strip, NEW a, NEW changed, Commits(strip, a, changed), TabsShape'
  PROVE  \A e \in Places : IsInjective(openTabs'[e])
<1>1. tabs' = strip /\ (openTabs' = openTabs \/ openTabs' = [openTabs EXCEPT ![here] = strip])
  BY DEF Commits, Kept
<1>2. IsInjective(strip) /\ openTabs \in [Places -> Seq(Documents)]
  BY <1>1 DEF TabsShape
<1>3. QED
  BY <1>1, <1>2 DEF StripsKept

LEMMA StripsKeptStep ==
  ASSUME TabsInv, StripsKept, TabsInv', [TabsNext]_tabVars PROVE StripsKept'
<1>0. TabsShape /\ TabsShape' /\ here \in Places /\ mounts \in 0..MaxMounts /\ excused \subseteq Places
  BY DEF TabsInv, TabsShape, StripsKept
<1>1. IsInjective(<<>>)
  BY EmptyStrip
<1>2. CASE UNCHANGED tabVars
  BY <1>2 DEF tabVars, StripsKept
<1>3. ASSUME NEW strip, NEW a, NEW changed, Commits(strip, a, changed),
             IsInjective(restore'.todo), mounts' = mounts, excused' \subseteq Places
      PROVE  StripsKept'
  BY <1>0, <1>3, CommitKeepsStrips DEF StripsKept
<1>4. ASSUME openTabs' = openTabs, IsInjective(restore'.todo), mounts' \in 0..MaxMounts, excused' \subseteq Places
      PROVE  StripsKept'
  BY <1>4 DEF StripsKept
<1>5. IsInjective(restore.todo) /\ IsInjective(NoRestore.todo)
  BY <1>1 DEF StripsKept, NoRestore
<1>6. ASSUME NEW p \in Documents, ClickFile(p) \/ ClickAnswered(p) \/ Select(p) \/ CloseFileTab(p) PROVE StripsKept'
  <2>1. IsInjective(restore'.todo) /\ mounts' = mounts /\ excused' \subseteq Places
    BY <1>0, <1>5, <1>6 DEF ClickFile, ClickAnswered, Select, CloseFileTab
  <2>2. openTabs' = openTabs \/ \E strip, a, changed : Commits(strip, a, changed)
    BY <1>6 DEF ClickFile, ClickAnswered, Select, CloseFileTab, OpenFileTab
  <2>3. QED
    BY <1>0, <1>3, <1>4, <2>1, <2>2
<1>7. CASE (\E i, j \in DOMAIN tabs : ReorderTabs(i, j)) \/ StatusSet
  <2>1. IsInjective(restore'.todo) /\ mounts' = mounts /\ excused' \subseteq Places
    BY <1>0, <1>5, <1>7 DEF ReorderTabs, StatusSet
  <2>2. \E strip, a, changed : Commits(strip, a, changed)
    BY <1>7 DEF ReorderTabs, StatusSet
  <2>3. QED
    BY <1>3, <2>1, <2>2
<1>8. CASE EditorReady
  <2>1. openTabs' = openTabs /\ mounts' = mounts /\ excused' \subseteq Places
    BY <1>0, <1>8 DEF EditorReady
  <2>2. IsInjective(restore'.todo)
    <3>1. IsInjective(openTabs[here])
      BY <1>0 DEF StripsKept
    <3>2. restore' = NoRestore \/ restore'.todo = openTabs[here]
      BY <1>8 DEF EditorReady
    <3>3. QED
      BY <1>5, <3>1, <3>2
  <2>3. QED
    BY <1>0, <1>4, <2>1, <2>2
<1>9. IsInjective(Rest.todo)
  <2>1. restore.todo \in Seq(Documents)
    BY <1>0 DEF TabsShape
  <2>2. CASE restore.todo # <<>>
    <3>1. Rest.todo = Tail(restore.todo)
      BY <1>0, <2>2 DEF Rest, TabsShape
    <3>2. QED
      BY <1>5, <2>1, <2>2, <3>1, TailInjective
  <2>3. CASE restore.todo = <<>>
    BY <1>5, <2>3 DEF Rest
  <2>4. QED
    BY <2>2, <2>3
<1>10. CASE RestoreOpens \/ RestoreAnswered
  <2>1. IsInjective(restore'.todo) /\ mounts' = mounts /\ excused' \subseteq Places
    BY <1>0, <1>5, <1>9, <1>10 DEF RestoreOpens, RestoreAnswered
  <2>2. openTabs' = openTabs \/ \E strip, a, changed : Commits(strip, a, changed)
    BY <1>10 DEF RestoreOpens, RestoreAnswered, OpenFileTab
  <2>3. QED
    BY <1>0, <1>3, <1>4, <2>1, <2>2
<1>11. ASSUME mounts < MaxMounts, mounts' = mounts + 1 PROVE mounts' \in 0..MaxMounts
  BY <1>0, <1>11, TabsAssumption
<1>12. CASE (\E u \in Documents \union {Nowhere} : Enter(u) \/ FollowLink(u)) \/ GoElsewhere \/ Reload
            \/ \E e \in Places : SwitchPlace(e)
  <2>1. openTabs' = openTabs /\ (restore' = restore \/ restore' = NoRestore)
        /\ (mounts' = mounts \/ (mounts < MaxMounts /\ mounts' = mounts + 1))
        /\ (excused' = excused \/ excused' = excused \union {here})
    BY <1>12 DEF Enter, FollowLink, GoElsewhere, Reload, SwitchPlace, Unmounted
  <2>2. QED
    BY <1>0, <1>4, <1>5, <1>11, <2>1
<1>13. QED
  BY <1>2, <1>6, <1>7, <1>8, <1>10, <1>12 DEF TabsNext

\* The tabs, what is kept of them and their restoration are always well typed: in particular no strip
\* that is kept has a path twice.
THEOREM TabsTypesHold == TabsSpec => []TabsTypeOK
<1>1. TabsInit => StripsKept
  BY EmptyStrip, TabsAssumption DEF TabsInit, StripsKept, NoRestore
<1>2. ASSUME TabsInv, StripsKept PROVE TabsTypeOK
  <2>1. TabsShape
    BY <1>2 DEF TabsInv
  <2>2. openTabs \in [Places -> Strips] /\ tabs \in Strips
    BY <1>2, <2>1 DEF TabsShape, StripsKept, Strips
  <2>3. restore \in [todo : Strips, target : Documents \union {Nowhere}, on : BOOLEAN]
    BY <1>2, <2>1 DEF TabsShape, StripsKept, Strips
  <2>4. activeId \in Documents \union {Nowhere}
    BY <2>1, StripOf DEF TabsShape, Strip
  <2>5. QED
    BY <1>2, <2>1, <2>2, <2>3, <2>4 DEF TabsShape, StripsKept, TabsTypeOK
<1>3. TabsSpec => []StripsKept
  <2>1. TabsInv /\ StripsKept /\ TabsInv' /\ [TabsNext]_tabVars => StripsKept'
    BY StripsKeptStep
  <2>2. QED
    BY <1>1, <2>1, TabsInvariant, PTL DEF TabsSpec
<1>4. TabsInv /\ StripsKept => TabsTypeOK
  BY <1>2
<1>5. QED
  BY <1>3, <1>4, TabsInvariant, PTL

------------------------------------------------------------------------------
(* Query results.  A controller can abort its last run only; while its runs *)
(* did not overlap, the last is also the only one that can still change it. *)

ControllerInv(c) ==
  LET v == results[c] IN
  /\ v.abort # 0 => v.abort = v.store
  /\ v.frame # 0 => v.store # 0
  /\ v.store # 0 => v.store <= begun /\ stream[v.store].of = c
  /\ v.store # 0 /\ ~v.crossed =>
       /\ v.frame \in {0, v.store}
       /\ \A s \in RunIds : stream[s].open /\ stream[s].of = c => s = v.store
       /\ v.meta = v.store
       /\ v.running <=> Streaming(v.store)
       /\ ~stream[v.store].aborted /\ ~v.error =>
            v.drawn = stream[v.store].chunks \/ (stream[v.store].open /\ v.frame = v.store)

StreamInv(s) ==
  /\ s > begun => ~stream[s].open /\ stream[s].of = 0
  /\ s <= begun => stream[s].of \in 1..s /\ results[stream[s].of].store # 0
  /\ Streaming(s) => results[stream[s].of].abort = s

\* A run that waits for its flush has its tab and its page, or the history says that it has not.
WaitInv == waiting > 0 /\ ~late => shownTab /\ provider # "disposed"

RunsInv == \A r \in RunIds : ControllerInv(r) /\ StreamInv(r)

ResultsInv == ResultsTypeOK /\ controller <= begun /\ WaitInv /\ RunsInv /\ StreamsAreOwned

LEMMA ResultsTyped ==
  ASSUME ResultsInv
  PROVE  /\ provider \in {"mounted", "leaving", "disposed"} /\ shownTab \in BOOLEAN /\ late \in BOOLEAN
         /\ waiting \in Nat /\ waiting <= MaxFlushes /\ begun \in Nat /\ begun <= MaxRuns
         /\ controller \in Nat /\ controller <= begun
         /\ MaxRuns \in Nat /\ MaxReceived \in Nat /\ MaxFlushes \in Nat
         /\ stream \in [RunIds -> Stream] /\ results \in [RunIds -> Snapshot]
         /\ controller # 0 => controller \in RunIds
BY ResultsAssumption DEF ResultsInv, ResultsTypeOK, RunIds

\* What a record of each kind holds.
LEMMA RecordsTyped ==
  ASSUME ResultsInv, NEW r \in RunIds
  PROVE  /\ r \in Nat /\ r >= 1 /\ r <= MaxRuns
         /\ stream[r] \in Stream /\ results[r] \in Snapshot
         /\ stream[r].of \in Nat /\ stream[r].chunks \in Nat /\ stream[r].chunks <= MaxReceived
         /\ stream[r].open \in BOOLEAN /\ stream[r].aborted \in BOOLEAN
         /\ results[r].store \in 0..MaxRuns /\ results[r].abort \in 0..MaxRuns
         /\ results[r].frame \in 0..MaxRuns /\ results[r].meta \in 0..MaxRuns
         /\ results[r].drawn \in Nat /\ results[r].running \in BOOLEAN
         /\ results[r].error \in BOOLEAN /\ results[r].crossed \in BOOLEAN
<1>1. r \in Nat /\ r >= 1 /\ r <= MaxRuns
  BY ResultsTyped DEF RunIds
<1>2. stream[r] \in Stream /\ results[r] \in Snapshot
  BY ResultsTyped
<1>3. 0..MaxRuns \subseteq Nat /\ 0..MaxReceived \subseteq Nat
  OBVIOUS
<1>4. /\ stream[r].of \in Nat /\ stream[r].chunks \in Nat /\ stream[r].chunks <= MaxReceived
      /\ stream[r].open \in BOOLEAN /\ stream[r].aborted \in BOOLEAN
  BY <1>2, <1>3, ResultsTyped DEF Stream
<1>5. QED
  BY <1>1, <1>2, <1>3, <1>4 DEF Snapshot

\* An open stream is of a controller that has a store; a store and a frame are of a run.
LEMMA OpenIsOwned ==
  ASSUME ResultsInv, NEW r \in RunIds, stream[r].open
  PROVE  /\ r <= begun /\ stream[r].of \in RunIds
         /\ results[stream[r].of].store \in RunIds
BY ResultsTyped, RecordsTyped DEF ResultsInv, RunsInv, StreamInv, RunIds

\* A step of one controller, which changes no stream but its own.
LEMMA OneController ==
  ASSUME ResultsInv, NEW c \in RunIds, begun' \in {begun, begun + 1}, begun' <= MaxRuns,
         stream' \in [RunIds -> Stream], results' \in [RunIds -> Snapshot],
         \A d \in RunIds \ {c} : results'[d] = results[d],
         \A s \in RunIds : stream'[s].of # c => stream'[s] = stream[s],
         \A s \in RunIds : s <= begun => stream'[s].of = stream[s].of,
         \A s \in RunIds : s > begun /\ s <= begun' => stream'[s].of = c,
         ControllerInv(c)', \A s \in RunIds : stream'[s].of = c => StreamInv(s)'
  PROVE  RunsInv'
<1>1. ASSUME NEW d \in RunIds, d # c PROVE ControllerInv(d)'
  <2>1. ControllerInv(d) /\ results'[d] = results[d]
    BY <1>1 DEF ResultsInv, RunsInv
  <2>2. CASE results[d].store = 0
    BY <2>1, <2>2 DEF ControllerInv
  <2>3. CASE results[d].store # 0
    <3> DEFINE k == results[d].store
    <3>1. k \in RunIds /\ k <= begun /\ k <= begun' /\ stream[k].of = d
      BY <2>1, <2>3, RecordsTyped, ResultsTyped DEF ControllerInv, RunIds
    <3>2. stream'[k] = stream[k]
      BY <1>1, <3>1
    <3>3. \A s \in RunIds : stream'[s].open /\ stream'[s].of = d => stream[s].open /\ stream[s].of = d
      BY <1>1
    <3>4. Streaming(k)' <=> Streaming(k)
      BY <2>1, <3>2 DEF Streaming
    <3>5. results'[d].store = k /\ results'[d].crossed = results[d].crossed
      BY <2>1
    <3>6. ASSUME ~results[d].crossed
          PROVE  /\ results'[d].frame \in {0, k} /\ results'[d].meta = k
                 /\ \A s \in RunIds : stream'[s].open /\ stream'[s].of = d => s = k
                 /\ results'[d].running <=> Streaming(k)'
                 /\ ~stream'[k].aborted /\ ~results'[d].error =>
                      results'[d].drawn = stream'[k].chunks \/ (stream'[k].open /\ results'[d].frame = k)
      BY <2>1, <2>3, <3>2, <3>3, <3>4, <3>6 DEF ControllerInv
    <3>7. QED
      BY <2>1, <2>3, <3>1, <3>2, <3>5, <3>6 DEF ControllerInv
  <2>4. QED
    BY <2>2, <2>3
<1>2. ASSUME NEW s \in RunIds, stream'[s].of # c PROVE StreamInv(s)'
  <2>1a. stream'[s] = stream[s] /\ StreamInv(s)
    BY <1>2 DEF ResultsInv, RunsInv
  <2>1b. ~(s > begun /\ s <= begun') /\ begun \in Nat /\ begun' \in Nat /\ s \in Nat
    BY <1>2, ResultsTyped, RecordsTyped
  <2>1. stream'[s] = stream[s] /\ StreamInv(s) /\ (s <= begun <=> s <= begun')
    BY <2>1a, <2>1b
  <2>1c. s \in Nat /\ s <= MaxRuns /\ MaxRuns \in Nat
    BY ResultsTyped, RecordsTyped
  <2>2. s <= begun => stream[s].of \in RunIds
    BY <2>1, <2>1c DEF StreamInv, RunIds
  <2>3. s <= begun => results'[stream[s].of] = results[stream[s].of]
    BY <1>2, <2>1, <2>2
  <2>4. s > begun <=> s > begun'
    BY <2>1, ResultsTyped, RecordsTyped
  <2>5. Streaming(s)' <=> Streaming(s)
    BY <2>1 DEF Streaming
  <2>6. Streaming(s) => s <= begun
    BY <2>1, OpenIsOwned DEF Streaming
  <2>7. QED
    BY <2>1, <2>2, <2>3, <2>4, <2>5, <2>6 DEF StreamInv
<1>3. QED
  BY <1>1, <1>2 DEF RunsInv

\* A step that begins no run, aborts or ends some, and leaves the tab, the page and the registry alone.
LEMMA QuietRuns ==
  ASSUME ResultsInv, UNCHANGED <<place, waiting, begun, controller>>,
         stream' \in [RunIds -> Stream], results' \in [RunIds -> Snapshot], RunsInv',
         \A s \in RunIds : Streaming(s)' => Streaming(s) /\ stream'[s].of = stream[s].of
  PROVE  ResultsInv'
<1>1. UNCHANGED <<shownTab, provider, late>>
  BY DEF place
<1>2. ResultsTypeOK'
  BY <1>1 DEF ResultsInv, ResultsTypeOK
<1>3. WaitInv'
  BY <1>1 DEF ResultsInv, WaitInv
<1>4. StreamsAreOwned'
  <2>1. ASSUME NEW s \in RunIds, Streaming(s)'
        PROVE  /\ results'[stream'[s].of].abort = s
               /\ late' \/ (controller' = stream'[s].of /\ (shownTab' \/ provider' = "leaving"))
    BY <1>1, <2>1 DEF ResultsInv, RunsInv, StreamInv, StreamsAreOwned
  <2>2. QED
    BY <2>1 DEF StreamsAreOwned
<1>5. QED
  BY <1>2, <1>3, <1>4 DEF ResultsInv

LEMMA ResultsInit_Inv == ResultsInit => ResultsInv
<1> SUFFICES ASSUME ResultsInit PROVE ResultsInv
  OBVIOUS
<1>1. NoStream \in Stream /\ NeverRun \in Snapshot
  BY ResultsAssumption DEF NoStream, Stream, NeverRun, Snapshot
<1>2. ResultsTypeOK
  <2>1. {shownTab, late} \subseteq BOOLEAN
    BY DEF ResultsInit
  <2>2. QED
    BY <1>1, <2>1, ResultsAssumption DEF ResultsInit, ResultsTypeOK
<1>3. ASSUME NEW r \in RunIds
      PROVE  stream[r] = NoStream /\ results[r] = NeverRun /\ ~(r <= begun)
  BY ResultsAssumption DEF ResultsInit, RunIds
<1>4. ASSUME NEW r \in RunIds PROVE ControllerInv(r) /\ StreamInv(r) /\ ~Streaming(r)
  BY <1>3 DEF ControllerInv, StreamInv, Streaming, NoStream, NeverRun
<1>5. QED
  BY <1>2, <1>4, ResultsAssumption DEF ResultsInit, ResultsInv, RunsInv, WaitInv, StreamsAreOwned

\* What a controller without crossed runs knows of a stream of its own.
LEMMA OwnStream ==
  ASSUME ResultsInv, NEW r \in RunIds, stream[r].open, ~results[stream[r].of].crossed
  PROVE  results[stream[r].of].store = r /\ results[stream[r].of].frame \in {0, r}
<1>1. stream[r].of \in RunIds /\ results[stream[r].of].store \in RunIds
  BY OpenIsOwned
<1>2. ControllerInv(stream[r].of)
  BY <1>1 DEF ResultsInv, RunsInv
<1>3. QED
  BY <1>1, <1>2 DEF ControllerInv, RunIds

\* The invariant of a controller whose last run is k.
LEMMA ControllerNext ==
  ASSUME NEW c \in RunIds, NEW k \in RunIds,
         results'[c].store = k, results'[c].abort \in {0, k}, k <= begun', stream'[k].of = c,
         ~results'[c].crossed =>
           /\ results'[c].frame \in {0, k} /\ results'[c].meta = k
           /\ \A s \in RunIds : stream'[s].open /\ stream'[s].of = c => s = k
           /\ results'[c].running <=> stream'[k].open /\ ~stream'[k].aborted
           /\ ~stream'[k].aborted /\ ~results'[c].error =>
                \/ results'[c].drawn = stream'[k].chunks
                \/ stream'[k].open /\ results'[c].frame = k
  PROVE  ControllerInv(c)'
<1>1. k # 0
  BY DEF RunIds
<1>2. QED
  BY <1>1 DEF ControllerInv, Streaming

LEMMA ChunkStep ==
  ASSUME ResultsInv, NEW r \in RunIds, Chunk(r)
  PROVE  ResultsInv'
<1>a. PICK c \in RunIds : c = stream[r].of
  BY OpenIsOwned DEF Chunk
<1>b. PICK v \in Snapshot : v = results[c]
  BY ResultsTyped
<1>1. /\ stream[r].open /\ v.store \in RunIds /\ r <= begun
      /\ ControllerInv(c) /\ StreamInv(r)
  BY <1>a, <1>b, OpenIsOwned DEF Chunk, ResultsInv, RunsInv
<1>2. /\ begun' = begun /\ UNCHANGED <<place, waiting, begun, controller>>
      /\ stream' = [stream EXCEPT ![r].chunks = stream[r].chunks + 1]
      /\ results' = [results EXCEPT ![c].frame = IF v.frame = 0 THEN r ELSE v.frame]
      /\ stream[r].chunks < MaxReceived
  BY <1>a, <1>b DEF Chunk
<1>3. stream'[r] = [stream[r] EXCEPT !.chunks = stream[r].chunks + 1]
  BY <1>2, ResultsTyped
<1>4. results'[c] = [v EXCEPT !.frame = IF v.frame = 0 THEN r ELSE v.frame]
  BY <1>b, <1>2, ResultsTyped
<1>5. stream' \in [RunIds -> Stream] /\ results' \in [RunIds -> Snapshot]
  <2>1. stream'[r] \in Stream
    BY <1>2, <1>3, RecordsTyped, ResultsTyped DEF Stream
  <2>2. r \in 0..MaxRuns
    BY RecordsTyped, ResultsTyped
  <2>3. results'[c] \in Snapshot
    BY <1>4, <2>2 DEF Snapshot
  <2>4. QED
    BY <1>1, <1>2, <2>1, <2>3, ResultsTyped
<1>6. \A s \in RunIds : /\ stream'[s].of = stream[s].of /\ stream'[s].open = stream[s].open
                        /\ stream'[s].aborted = stream[s].aborted
                        /\ s # r => stream'[s] = stream[s]
  BY <1>2, <1>3, RecordsTyped, ResultsTyped DEF Stream
<1>7. /\ results'[c].store = v.store /\ results'[c].abort = v.abort /\ results'[c].crossed = v.crossed
      /\ results'[c].meta = v.meta /\ results'[c].running = v.running /\ results'[c].error = v.error
      /\ results'[c].drawn = v.drawn /\ results'[c].frame = (IF v.frame = 0 THEN r ELSE v.frame)
  BY <1>4 DEF Snapshot
<1>8. \A s \in RunIds : Streaming(s)' <=> Streaming(s)
  BY <1>6 DEF Streaming
<1>9. ControllerInv(c)'
  <2>1. ASSUME ~v.crossed
        PROVE  /\ v.store = r /\ v.frame \in {0, r} /\ v.meta = v.store
               /\ \A s \in RunIds : stream[s].open /\ stream[s].of = c => s = v.store
               /\ v.running <=> Streaming(v.store)
    BY <1>a, <1>b, <1>1, <2>1, OwnStream DEF ControllerInv, RunIds
  <2>2. \A s \in RunIds : stream'[s].open /\ stream'[s].of = c => stream[s].open /\ stream[s].of = c
    BY <1>6
  <2>3. stream'[v.store].of = c /\ v.store <= begun /\ (v.abort # 0 => v.abort = v.store)
    BY <1>b, <1>1, <1>6 DEF ControllerInv, RunIds
  <2>4. stream'[v.store].open /\ ~stream'[v.store].aborted <=> Streaming(v.store)
    BY <1>1, <1>6 DEF Streaming
  <2>5. stream'[r].open /\ results'[c] \in Snapshot
    BY <1>1, <1>5, <1>6
  <2>6. ~v.crossed => results'[c].frame = r
    BY <1>7, <2>1
  <2>7. results'[c].abort \in {0, v.store} /\ v.store <= begun' /\ v.store \in RunIds
    BY <1>1, <1>2, <1>7, <2>3
  <2>8. ~results'[c].crossed =>
          /\ results'[c].frame \in {0, v.store} /\ results'[c].meta = v.store
          /\ \A s \in RunIds : stream'[s].open /\ stream'[s].of = c => s = v.store
          /\ results'[c].running <=> stream'[v.store].open /\ ~stream'[v.store].aborted
          /\ stream'[v.store].open /\ results'[c].frame = v.store
    BY <1>7, <2>1, <2>2, <2>4, <2>5, <2>6
  <2>9. QED
    BY <1>7, <2>3, <2>7, <2>8, ControllerNext
<1>10. ASSUME NEW s \in RunIds, stream'[s].of = c PROVE StreamInv(s)'
  <2>1. StreamInv(s) /\ stream[s].of = c
    BY <1>6, <1>10 DEF ResultsInv, RunsInv
  <2>2. QED
    BY <1>b, <1>2, <1>6, <1>7, <1>8, <2>1 DEF StreamInv
<1>11. RunsInv'
  <2>1. \A d \in RunIds \ {c} : results'[d] = results[d]
    BY <1>2, ResultsTyped
  <2>2. \A s \in RunIds : stream'[s].of # c => stream'[s] = stream[s]
    BY <1>a, <1>6
  <2>3. \A s \in RunIds : ~(s > begun /\ s <= begun')
    BY <1>2, ResultsTyped, RecordsTyped
  <2>4. QED
    BY <1>1, <1>2, <1>5, <1>6, <1>9, <1>10, <2>1, <2>2, <2>3, OneController, ResultsTyped
<1>12. QED
  BY <1>2, <1>5, <1>6, <1>8, <1>11, QuietRuns

LEMMA FrameStep ==
  ASSUME ResultsInv, NEW c \in RunIds, AnimationFrame(c)
  PROVE  ResultsInv'
<1>1. PICK v \in Snapshot : v = results[c]
  BY ResultsTyped
<1>2. v.frame # 0 /\ v.store \in RunIds /\ v.frame \in RunIds /\ ControllerInv(c)
  BY <1>1, RecordsTyped DEF AnimationFrame, ResultsInv, RunsInv, ControllerInv, RunIds
<1>3. PICK d \in 0..MaxReceived :
        d = IF stream[v.frame].aborted THEN v.drawn ELSE stream[v.store].chunks
  BY <1>2, RecordsTyped DEF Snapshot
<1>4. /\ UNCHANGED <<place, waiting, begun, controller>> /\ begun' = begun /\ stream' = stream
      /\ results' = [results EXCEPT ![c].frame = 0, ![c].drawn = d]
  BY <1>1, <1>3 DEF AnimationFrame
<1>5. results'[c] = [v EXCEPT !.frame = 0, !.drawn = d]
  BY <1>1, <1>4, ResultsTyped
<1>6. /\ results'[c].store = v.store /\ results'[c].abort = v.abort /\ results'[c].crossed = v.crossed
      /\ results'[c].meta = v.meta /\ results'[c].running = v.running /\ results'[c].error = v.error
      /\ results'[c].drawn = d /\ results'[c].frame = 0
      /\ results'[c] \in Snapshot
  <2>1. 0 \in 0..MaxRuns
    BY ResultsAssumption
  <2>2. results'[c] \in Snapshot
    BY <1>5, <2>1 DEF Snapshot
  <2>3. QED
    BY <1>5, <2>2 DEF Snapshot
<1>7. stream' \in [RunIds -> Stream] /\ results' \in [RunIds -> Snapshot]
  BY <1>4, <1>6, ResultsTyped
<1>8. ControllerInv(c)'
  <2>1. /\ v.abort \in {0, v.store} /\ v.store <= begun /\ stream[v.store].of = c
        /\ ~v.crossed =>
             /\ v.frame = v.store /\ v.meta = v.store
             /\ \A s \in RunIds : stream[s].open /\ stream[s].of = c => s = v.store
             /\ v.running <=> stream[v.store].open /\ ~stream[v.store].aborted
    BY <1>1, <1>2 DEF ControllerInv, Streaming, RunIds
  <2>2. ~v.crossed /\ ~stream[v.store].aborted => d = stream[v.store].chunks
    BY <1>3, <2>1
  <2>3. /\ v.store \in RunIds /\ v.store <= begun' /\ stream' = stream
        /\ results'[c].store = v.store /\ results'[c].abort \in {0, v.store}
    BY <1>2, <1>4, <1>6, <2>1
  <2>4. ASSUME ~results'[c].crossed
        PROVE  /\ results'[c].frame \in {0, v.store} /\ results'[c].meta = v.store
               /\ \A s \in RunIds : stream'[s].open /\ stream'[s].of = c => s = v.store
               /\ results'[c].running <=> stream'[v.store].open /\ ~stream'[v.store].aborted
               /\ ~stream'[v.store].aborted /\ ~results'[c].error =>
                    results'[c].drawn = stream'[v.store].chunks
    BY <1>6, <2>1, <2>2, <2>3, <2>4
  <2>5. QED
    BY <2>1, <2>3, <2>4, ControllerNext
<1>9. ASSUME NEW s \in RunIds, stream'[s].of = c PROVE StreamInv(s)'
  BY <1>1, <1>4, <1>6, <1>9 DEF ResultsInv, RunsInv, StreamInv, Streaming
<1>10. RunsInv'
  <2>1. \A e \in RunIds \ {c} : results'[e] = results[e]
    BY <1>4, ResultsTyped
  <2>2. \A s \in RunIds : ~(s > begun /\ s <= begun') /\ stream'[s] = stream[s]
    BY <1>4, ResultsTyped, RecordsTyped
  <2>3. QED
    BY <1>4, <1>7, <1>8, <1>9, <2>1, <2>2, OneController, ResultsTyped
<1>11. QED
  BY <1>4, <1>7, <1>10, QuietRuns DEF Streaming

\* The end of a run whose chunks are all drawn, unless it was aborted or has failed.
LEMMA EndStep ==
  ASSUME ResultsInv, NEW r \in RunIds, stream[r].open, NEW d \in 0..MaxReceived, NEW e \in BOOLEAN,
         EndsAs(r, d, e),
         ~results[stream[r].of].crossed => stream[r].aborted \/ e \/ d = stream[r].chunks
  PROVE  ResultsInv'
<1>1. PICK c \in RunIds : c = stream[r].of
  BY OpenIsOwned
<1>2. PICK v \in Snapshot : v = results[c]
  BY ResultsTyped
<1>3. /\ v.store \in RunIds /\ r <= begun /\ r \in 0..MaxRuns
      /\ ControllerInv(c) /\ StreamInv(r)
  BY <1>1, <1>2, OpenIsOwned, RecordsTyped, ResultsTyped DEF ResultsInv, RunsInv
<1>4. /\ UNCHANGED <<place, waiting, begun, controller>> /\ begun' = begun
      /\ stream' = [stream EXCEPT ![r].open = FALSE]
      /\ results' = [results EXCEPT ![c].frame = 0, ![c].running = FALSE, ![c].meta = r,
                                    ![c].drawn = d, ![c].error = v.error \/ e]
  BY <1>1, <1>2 DEF EndsAs
<1>5. stream'[r] = [stream[r] EXCEPT !.open = FALSE] /\ stream'[r] \in Stream
  BY <1>4, ResultsTyped DEF Stream
<1>6. /\ \A s \in RunIds : /\ stream'[s].of = stream[s].of /\ stream'[s].aborted = stream[s].aborted
                           /\ stream'[s].chunks = stream[s].chunks
                           /\ stream'[s].open = (stream[s].open /\ s # r)
                           /\ s # r => stream'[s] = stream[s]
  BY <1>4, <1>5, RecordsTyped, ResultsTyped DEF Stream
<1>7. results'[c] = [v EXCEPT !.frame = 0, !.running = FALSE, !.meta = r, !.drawn = d,
                              !.error = v.error \/ e]
  BY <1>2, <1>4, ResultsTyped
<1>8. /\ results'[c].store = v.store /\ results'[c].abort = v.abort /\ results'[c].crossed = v.crossed
      /\ results'[c].meta = r /\ ~results'[c].running /\ results'[c].error = (v.error \/ e)
      /\ results'[c].drawn = d /\ results'[c].frame = 0
      /\ results'[c] \in Snapshot
  <2>1. PICK w \in BOOLEAN : w = (v.error \/ e)
    OBVIOUS
  <2>2. results'[c] = [v EXCEPT !.frame = 0, !.running = FALSE, !.meta = r, !.drawn = d, !.error = w]
    BY <1>7, <2>1
  <2>3. 0 \in 0..MaxRuns
    BY ResultsAssumption
  <2>4. results'[c] \in Snapshot
    BY <1>3, <2>2, <2>3, ZenonT(60) DEF Snapshot
  <2>5. results'[c].error = w
    BY <2>2 DEF Snapshot
  <2>6. QED
    BY <2>1, <2>2, <2>4, <2>5 DEF Snapshot
<1>9. stream' \in [RunIds -> Stream] /\ results' \in [RunIds -> Snapshot]
  BY <1>4, <1>5, <1>8, ResultsTyped
<1>10. ControllerInv(c)'
  <2>1. ASSUME ~v.crossed
        PROVE  v.store = r /\ \A s \in RunIds : stream[s].open /\ stream[s].of = c => s = v.store
    BY <1>1, <1>2, <1>3, <2>1, OwnStream DEF ControllerInv, RunIds
  <2>2. stream'[v.store].of = c /\ v.store <= begun' /\ v.abort \in {0, v.store}
    BY <1>2, <1>3, <1>4, <1>6 DEF ControllerInv, RunIds
  <2>3. ASSUME ~v.crossed
        PROVE  /\ ~stream'[v.store].open /\ stream'[v.store].aborted = stream[r].aborted
               /\ stream'[v.store].chunks = stream[r].chunks
    BY <1>3, <1>6, <2>1, <2>3
  <2>4. ~results'[c].crossed =>
           /\ results'[c].frame \in {0, v.store} /\ results'[c].meta = v.store
           /\ \A s \in RunIds : stream'[s].open /\ stream'[s].of = c => s = v.store
           /\ results'[c].running <=> stream'[v.store].open /\ ~stream'[v.store].aborted
           /\ ~stream'[v.store].aborted /\ ~results'[c].error => results'[c].drawn = stream'[v.store].chunks
    BY <1>1, <1>2, <1>6, <1>8, <2>1, <2>3
  <2>5. QED
    BY <1>3, <1>8, <2>2, <2>4, ControllerNext
<1>11. ASSUME NEW s \in RunIds, stream'[s].of = c PROVE StreamInv(s)'
  <2>1. StreamInv(s) /\ stream[s].of = c /\ (Streaming(s)' => Streaming(s))
    BY <1>6, <1>11 DEF ResultsInv, RunsInv, Streaming
  <2>2. results'[c].store = results[c].store /\ results'[c].abort = results[c].abort
    BY <1>2, <1>8
  <2>3. stream'[s].of = stream[s].of /\ (stream'[s].open => stream[s].open)
    BY <1>6
  <2>4. QED
    BY <1>4, <2>1, <2>2, <2>3 DEF StreamInv
<1>12. RunsInv'
  <2>1. \A f \in RunIds \ {c} : results'[f] = results[f]
    BY <1>4, ResultsTyped
  <2>2. \A s \in RunIds : stream'[s].of # c => stream'[s] = stream[s]
    BY <1>1, <1>6
  <2>3. \A s \in RunIds : ~(s > begun /\ s <= begun')
    BY <1>4, ResultsTyped, RecordsTyped
  <2>4. begun' \in {begun, begun + 1} /\ begun' <= MaxRuns
    BY <1>4, ResultsTyped
  <2>5. \A s \in RunIds : stream'[s].of = stream[s].of
    BY <1>6
  <2>6. QED
    BY <1>9, <1>10, <1>11, <2>1, <2>2, <2>3, <2>4, <2>5, OneController
<1>13. QED
  BY <1>4, <1>6, <1>9, <1>12, QuietRuns DEF Streaming

\* Aborting the run that a controller can abort.
LEMMA AbortedStreams ==
  ASSUME ResultsInv, NEW c \in RunIds, NEW t, t = AbortedBy(c)
  PROVE  /\ t \in [RunIds -> Stream]
         /\ \A s \in RunIds : /\ t[s].of = stream[s].of /\ t[s].open = stream[s].open
                              /\ t[s].chunks = stream[s].chunks
                              /\ t[s].aborted <=> stream[s].aborted \/ s = results[c].abort
                              /\ stream[s].of # c => t[s] = stream[s]
                              /\ t[s].open /\ ~t[s].aborted => Streaming(s) /\ stream[s].of # c
<1>1. ASSUME NEW s \in RunIds
      PROVE  /\ t[s] \in Stream /\ t[s].of = stream[s].of /\ t[s].open = stream[s].open
             /\ t[s].chunks = stream[s].chunks
             /\ t[s].aborted <=> stream[s].aborted \/ s = results[c].abort
             /\ s # results[c].abort => t[s] = stream[s]
  <2>1. PICK w \in BOOLEAN : w <=> stream[s].aborted \/ s = results[c].abort
    OBVIOUS
  <2>2. t[s] = [stream[s] EXCEPT !.aborted = stream[s].aborted \/ s = results[c].abort]
    BY DEF AbortedBy
  <2>3. w = (stream[s].aborted \/ s = results[c].abort)
    BY <2>1, RecordsTyped
  <2>4. t[s] = [stream[s] EXCEPT !.aborted = w]
    BY <2>2, <2>3
  <2>5. /\ t[s] \in Stream /\ t[s].of = stream[s].of /\ t[s].open = stream[s].open
        /\ t[s].chunks = stream[s].chunks /\ t[s].aborted = w
    BY <2>4, RecordsTyped DEF Stream
  <2>6. s # results[c].abort => w = stream[s].aborted
    BY <2>3, RecordsTyped
  <2>7. s # results[c].abort => t[s] = stream[s]
    BY <2>4, <2>6, RecordsTyped DEF Stream
  <2>8. QED
    BY <2>1, <2>5, <2>7
<1>2. t \in [RunIds -> Stream]
  <2>1. t = [r \in RunIds |-> t[r]]
    BY DEF AbortedBy
  <2>2. QED
    BY <1>1, <2>1
<1>3. ASSUME NEW s \in RunIds, stream[s].of # c PROVE s # results[c].abort
  <2>1. ControllerInv(c) /\ s # 0
    BY RecordsTyped DEF ResultsInv, RunsInv
  <2>2. QED
    BY <1>3, <2>1 DEF ControllerInv
<1>4. ASSUME NEW s \in RunIds, t[s].open, ~t[s].aborted PROVE Streaming(s) /\ stream[s].of # c
  <2>1. Streaming(s) /\ s # results[c].abort
    BY <1>1, <1>4 DEF Streaming
  <2>2. results[stream[s].of].abort = s
    BY <2>1 DEF ResultsInv, RunsInv, StreamInv
  <2>3. QED
    BY <2>1, <2>2
<1>5. QED
  BY <1>1, <1>2, <1>3, <1>4

LEMMA CancelRuns ==
  ASSUME ResultsInv, NEW c \in RunIds, CancelBy(c), begun' = begun
  PROVE  /\ stream' \in [RunIds -> Stream] /\ results' \in [RunIds -> Snapshot] /\ RunsInv'
         /\ \A s \in RunIds : /\ stream'[s].of = stream[s].of
                              /\ Streaming(s)' => Streaming(s) /\ stream[s].of # c
<1>1. PICK v \in Snapshot : v = results[c]
  BY ResultsTyped
<1>2. stream' = AbortedBy(c)
      /\ results' = [results EXCEPT ![c].abort = 0, ![c].frame = 0, ![c].running = FALSE]
  BY DEF CancelBy
<1>3. PICK t : t = AbortedBy(c)
  OBVIOUS
<1>4. /\ stream' \in [RunIds -> Stream]
      /\ \A s \in RunIds : /\ stream'[s].of = stream[s].of /\ stream'[s].open = stream[s].open
                           /\ stream'[s].chunks = stream[s].chunks
                           /\ stream'[s].aborted <=> stream[s].aborted \/ s = v.abort
                           /\ stream'[s].of # c => stream'[s] = stream[s]
                           /\ stream'[s].open /\ ~stream'[s].aborted => Streaming(s) /\ stream[s].of # c
  BY <1>1, <1>2, <1>3, AbortedStreams
<1>5. results'[c] = [v EXCEPT !.abort = 0, !.frame = 0, !.running = FALSE]
  BY <1>1, <1>2, ResultsTyped
<1>6. /\ results'[c].store = v.store /\ results'[c].abort = 0 /\ results'[c].crossed = v.crossed
      /\ results'[c].meta = v.meta /\ ~results'[c].running /\ results'[c].error = v.error
      /\ results'[c].drawn = v.drawn /\ results'[c].frame = 0
      /\ results'[c] \in Snapshot
  <2>1. 0 \in 0..MaxRuns
    BY ResultsAssumption
  <2>2. results'[c] \in Snapshot
    BY <1>5, <2>1 DEF Snapshot
  <2>3. QED
    BY <1>5, <2>2 DEF Snapshot
<1>7. results' \in [RunIds -> Snapshot]
  BY <1>2, <1>6, ResultsTyped
<1>8. ControllerInv(c)'
  <2>1. CASE v.store = 0
    BY <1>6, <2>1 DEF ControllerInv
  <2>2. CASE v.store # 0
    <3>1. ControllerInv(c) /\ v.store \in RunIds
      BY <1>1, <2>2, RecordsTyped DEF ResultsInv, RunsInv, RunIds
    <3>2. stream'[v.store].of = c /\ v.store <= begun'
      BY <1>1, <1>4, <2>2, <3>1 DEF ControllerInv
    <3>3. ~(stream'[v.store].open /\ ~stream'[v.store].aborted)
      BY <1>4, <3>1, <3>2
    <3>4. ~v.crossed =>
            /\ v.meta = v.store
            /\ \A s \in RunIds : stream'[s].open /\ stream'[s].of = c => s = v.store
            /\ ~stream'[v.store].aborted /\ ~v.error => v.drawn = stream'[v.store].chunks
      BY <1>1, <1>4, <2>2, <3>1, <3>3 DEF ControllerInv
    <3>5. QED
      BY <1>6, <3>1, <3>2, <3>3, <3>4, ControllerNext
  <2>3. QED
    BY <2>1, <2>2
<1>9. ASSUME NEW s \in RunIds, stream'[s].of = c PROVE StreamInv(s)'
  <2>1. StreamInv(s) /\ stream[s].of = c /\ ~Streaming(s)'
    BY <1>4, <1>9 DEF ResultsInv, RunsInv, Streaming
  <2>2. results'[c].store = results[c].store /\ stream'[s].open = stream[s].open
    BY <1>1, <1>4, <1>6
  <2>3. QED
    BY <1>9, <2>1, <2>2 DEF StreamInv
<1>10. RunsInv'
  <2>1. \A d \in RunIds \ {c} : results'[d] = results[d]
    BY <1>2, ResultsTyped
  <2>2. \A s \in RunIds : ~(s > begun /\ s <= begun')
    BY ResultsTyped, RecordsTyped
  <2>3. begun' \in {begun, begun + 1} /\ begun' <= MaxRuns
    BY ResultsTyped
  <2>4. QED
    BY <1>4, <1>7, <1>8, <1>9, <2>1, <2>2, <2>3, OneController
<1>11. QED
  BY <1>4, <1>7, <1>10 DEF Streaming

LEMMA StartStep ==
  ASSUME ResultsInv, StartRun
  PROVE  ResultsInv'
<1>1. PICK r \in RunIds : r = begun + 1
  BY ResultsTyped DEF StartRun, RunIds
<1>2. PICK c \in RunIds : c = IF controller = 0 THEN r ELSE controller
  BY <1>1, ResultsTyped
<1>3. PICK t : t = AbortedBy(c)
  OBVIOUS
<1>4. PICK x \in BOOLEAN : x <=> \E s \in RunIds : stream[s].open /\ stream[s].of = c
  OBVIOUS
<1>5. /\ UNCHANGED place /\ waiting > 0 /\ begun < MaxRuns
      /\ waiting' = waiting - 1 /\ begun' = r /\ controller' = c
      /\ stream' = [t EXCEPT ![r] = [NoStream EXCEPT !.open = TRUE, !.of = c]]
      /\ results' = [results EXCEPT ![c] =
           [NeverRun EXCEPT !.store = r, !.meta = r, !.running = TRUE, !.abort = r,
              !.crossed = NeverRun.crossed \/ \E s \in RunIds : stream[s].open /\ stream[s].of = c]]
  BY <1>1, <1>2, <1>3 DEF StartRun
<1>6. /\ t \in [RunIds -> Stream]
      /\ \A s \in RunIds : /\ t[s].of = stream[s].of /\ t[s].open = stream[s].open
                           /\ stream[s].of # c => t[s] = stream[s]
                           /\ t[s].open /\ ~t[s].aborted => Streaming(s) /\ stream[s].of # c
  BY <1>3, AbortedStreams
<1>7. r \in 0..MaxRuns /\ c \in 0..MaxRuns /\ 0 \in 0..MaxReceived /\ 0 \in 0..MaxRuns
  BY ResultsAssumption DEF RunIds
<1>8. /\ stream'[r] \in Stream /\ stream'[r].open /\ ~stream'[r].aborted
      /\ stream'[r].of = c /\ stream'[r].chunks = 0
  <2>1. stream'[r] = [open |-> TRUE, of |-> c, aborted |-> FALSE, chunks |-> 0]
    BY <1>5, <1>6 DEF NoStream
  <2>2. QED
    BY <1>7, <2>1 DEF Stream
<1>9. /\ results'[c] \in Snapshot /\ results'[c].store = r /\ results'[c].meta = r
      /\ results'[c].running /\ results'[c].abort = r /\ results'[c].frame = 0
      /\ results'[c].drawn = 0 /\ results'[c].crossed = x
  <2>1. x = (NeverRun.crossed \/ \E s \in RunIds : stream[s].open /\ stream[s].of = c)
    BY <1>4 DEF NeverRun
  <2>2. results'[c] = [NeverRun EXCEPT !.store = r, !.meta = r, !.running = TRUE, !.abort = r,
                         !.crossed = NeverRun.crossed \/ \E s \in RunIds : stream[s].open /\ stream[s].of = c]
    BY <1>5, ResultsTyped
  <2>3. results'[c] = [NeverRun EXCEPT !.store = r, !.meta = r, !.running = TRUE, !.abort = r, !.crossed = x]
    BY <2>1, <2>2
  <2>4. results'[c] = [store |-> r, meta |-> r, running |-> TRUE, error |-> FALSE, drawn |-> 0,
                       abort |-> r, frame |-> 0, crossed |-> x]
    BY <2>3 DEF NeverRun
  <2>5. QED
    BY <1>7, <2>4 DEF Snapshot
<1>10. stream' \in [RunIds -> Stream] /\ results' \in [RunIds -> Snapshot]
  BY <1>5, <1>6, <1>8, <1>9, ResultsTyped
<1>11. \A s \in RunIds : s # r => stream'[s] = t[s]
  BY <1>5, <1>6
<1>12. ControllerInv(c)'
  <2>1. ~x => \A s \in RunIds : stream'[s].open /\ stream'[s].of = c => s = r
    BY <1>4, <1>6, <1>11
  <2>2. r <= begun'
    BY <1>1, <1>5, ResultsTyped
  <2>3. QED
    BY <1>8, <1>9, <2>1, <2>2, ControllerNext
<1>13. ASSUME NEW s \in RunIds, stream'[s].of = c PROVE StreamInv(s)'
  <2>1. CASE s = r
    <3>1. c \in 1..r /\ r # 0 /\ ~(r > begun')
      BY <1>1, <1>2, <1>5, ResultsTyped, RecordsTyped
    <3>2. QED
      BY <1>8, <1>9, <2>1, <3>1 DEF StreamInv
  <2>2. CASE s # r
    <3>1. stream[s].of = c /\ StreamInv(s) /\ c # 0 /\ r # 0
      BY <1>6, <1>11, <1>13, <2>2, RecordsTyped DEF ResultsInv, RunsInv
    <3>2. s <= begun /\ ~(s > begun')
      BY <1>1, <1>5, <3>1, ResultsTyped, RecordsTyped DEF StreamInv
    <3>3. ~Streaming(s)'
      BY <1>6, <1>11, <2>2, <3>1 DEF Streaming
    <3>4. QED
      BY <1>9, <1>13, <3>1, <3>2, <3>3 DEF StreamInv
  <2>3. QED
    BY <2>1, <2>2
<1>14. RunsInv'
  <2>1. \A d \in RunIds \ {c} : results'[d] = results[d]
    BY <1>5, ResultsTyped
  <2>2. \A s \in RunIds : stream'[s].of # c => stream'[s] = stream[s]
    BY <1>6, <1>8, <1>11
  <2>3. \A s \in RunIds : s <= begun => s # r
    BY <1>1, ResultsTyped
  <2>4. \A s \in RunIds : s > begun /\ s <= begun' => s = r
    BY <1>1, <1>5, ResultsTyped, RecordsTyped
  <2>5. begun' \in {begun, begun + 1} /\ begun' <= MaxRuns
    BY <1>1, <1>5, RecordsTyped
  <2>6. \A s \in RunIds : /\ s <= begun => stream'[s].of = stream[s].of
                          /\ s > begun /\ s <= begun' => stream'[s].of = c
    BY <1>6, <1>8, <1>11, <2>3, <2>4
  <2>7. QED
    BY <1>10, <1>12, <1>13, <2>1, <2>2, <2>5, <2>6, OneController
<1>15. ResultsTypeOK' /\ controller' <= begun' /\ WaitInv'
  <2>1. waiting' \in 0..MaxFlushes /\ begun' \in 0..MaxRuns /\ controller' \in 0..MaxRuns /\ waiting > 0
    BY <1>5, <1>7, ResultsTyped
  <2>2. controller' <= begun'
    BY <1>1, <1>2, <1>5, ResultsTyped
  <2>3. UNCHANGED <<shownTab, provider, late>>
    BY <1>5 DEF place
  <2>4. WaitInv'
    BY <2>1, <2>3 DEF ResultsInv, WaitInv
  <2>5. QED
    BY <1>10, <2>1, <2>2, <2>3, <2>4 DEF ResultsInv, ResultsTypeOK
<1>16. StreamsAreOwned'
  <2>1. ASSUME NEW s \in RunIds, Streaming(s)'
        PROVE  /\ results'[stream'[s].of].abort = s
               /\ late' \/ (controller' = stream'[s].of /\ (shownTab' \/ provider' = "leaving"))
    <3>1. results'[stream'[s].of].abort = s
      BY <1>14, <2>1 DEF RunsInv, StreamInv
    <3>2. UNCHANGED <<shownTab, provider, late>> /\ (late \/ shownTab)
      BY <1>5 DEF place, ResultsInv, WaitInv
    <3>3. CASE s = r
      BY <1>5, <1>8, <3>1, <3>2, <3>3
    <3>4. CASE s # r
      <4>1. Streaming(s) /\ stream[s].of # c
        BY <1>6, <1>11, <2>1, <3>4 DEF Streaming
      <4>2. late \/ controller = stream[s].of
        BY <4>1 DEF ResultsInv, StreamsAreOwned
      <4>3. stream[s].of # 0
        BY <4>1, OpenIsOwned, RecordsTyped DEF Streaming, RunIds
      <4>4. late
        BY <1>2, <4>1, <4>2, <4>3
      <4>5. QED
        BY <3>1, <3>2, <4>4
    <3>5. QED
      BY <3>3, <3>4
  <2>2. QED
    BY <2>1 DEF StreamsAreOwned
<1>17. QED
  BY <1>14, <1>15, <1>16 DEF ResultsInv

\* The controller goes, with its tab or with the page: no stream is left, unless a run was late.
LEMMA ReleaseStep ==
  ASSUME ResultsInv, ReleaseController, UNCHANGED <<waiting, begun>>,
         shownTab' \in BOOLEAN, provider' \in {"mounted", "leaving", "disposed"},
         late' = (late \/ waiting > 0)
  PROVE  ResultsInv'
<1>1. /\ stream' \in [RunIds -> Stream] /\ results' \in [RunIds -> Snapshot] /\ RunsInv'
      /\ \A s \in RunIds : Streaming(s)' => Streaming(s) /\ (controller # 0 => stream[s].of # controller)
  <2>1. CASE controller = 0
    <3>1. stream' = stream /\ results' = results /\ begun' = begun
      BY <2>1 DEF ReleaseController
    <3>2. RunsInv'
      BY <3>1 DEF ResultsInv, RunsInv, ControllerInv, StreamInv, Streaming
    <3>3. QED
      BY <2>1, <3>1, <3>2, ResultsTyped DEF Streaming
  <2>2. CASE controller # 0
    <3>1. PICK c \in RunIds : c = controller
      BY <2>2, ResultsTyped
    <3>2. CancelBy(c) /\ begun' = begun
      BY <2>2, <3>1 DEF ReleaseController, CancelBy
    <3>3. QED
      BY <3>1, <3>2, CancelRuns
  <2>3. QED
    BY <2>1, <2>2
<1>2. controller' = 0 /\ begun' = begun /\ waiting' = waiting
  BY DEF ReleaseController
<1>3. late' \in BOOLEAN /\ {shownTab', late'} \subseteq BOOLEAN
  OBVIOUS
<1>4. ResultsTypeOK' /\ controller' <= begun'
  BY <1>1, <1>2, <1>3, ResultsTyped DEF ResultsInv, ResultsTypeOK
<1>5. WaitInv'
  BY <1>2 DEF WaitInv
<1>6. StreamsAreOwned'
  <2>1. ASSUME NEW s \in RunIds, Streaming(s)' PROVE late' /\ results'[stream'[s].of].abort = s
    <3>1. Streaming(s) /\ (controller # 0 => stream[s].of # controller)
      BY <1>1, <2>1
    <3>2. late \/ (controller = stream[s].of /\ stream[s].of # 0)
      BY <3>1, OpenIsOwned, RecordsTyped DEF ResultsInv, StreamsAreOwned, Streaming, RunIds
    <3>3. QED
      BY <1>1, <2>1, <3>1, <3>2 DEF RunsInv, StreamInv
  <2>2. QED
    BY <2>1 DEF StreamsAreOwned
<1>7. QED
  BY <1>1, <1>4, <1>5, <1>6 DEF ResultsInv

\* A step of the user or the page that touches no run and no controller.
LEMMA NoRunTouched ==
  ASSUME ResultsInv, UNCHANGED <<begun, stream, controller, results>>,
         RunPressed \/ ReopenTab \/ LeaveEditor
  PROVE  ResultsInv'
<1>1. RunsInv'
  BY DEF ResultsInv, RunsInv, ControllerInv, StreamInv, Streaming
<1>2. /\ waiting' \in 0..MaxFlushes /\ provider' \in {"mounted", "leaving"}
      /\ shownTab' \in BOOLEAN /\ late' = late
      /\ (shownTab => shownTab') /\ (provider = "leaving" => provider' = "leaving")
  <2>1. waiting \in 0..MaxFlushes /\ (waiting < MaxFlushes => waiting + 1 \in 0..MaxFlushes)
    BY ResultsTyped
  <2>2. CASE RunPressed
    BY <2>1, <2>2, ResultsTyped DEF RunPressed, place
  <2>3. CASE ReopenTab
    BY <2>1, <2>3, ResultsTyped DEF ReopenTab
  <2>4. CASE LeaveEditor
    BY <2>1, <2>4, ResultsTyped DEF LeaveEditor
  <2>5. QED
    BY <2>2, <2>3, <2>4
<1>3. waiting' > 0 => waiting > 0 \/ shownTab'
  BY DEF RunPressed, ReopenTab, LeaveEditor, place
<1>4. ResultsTypeOK' /\ controller' <= begun'
  <2>1. {shownTab', late'} \subseteq BOOLEAN
    BY <1>2, ResultsTyped
  <2>2. QED
    BY <1>2, <2>1 DEF ResultsInv, ResultsTypeOK
<1>5. WaitInv'
  BY <1>2, <1>3 DEF ResultsInv, WaitInv
<1>6. StreamsAreOwned'
  <2>1. \A s \in RunIds : Streaming(s)' <=> Streaming(s)
    BY DEF Streaming
  <2>2. QED
    BY <1>2, <2>1 DEF ResultsInv, StreamsAreOwned
<1>7. QED
  BY <1>1, <1>4, <1>5, <1>6 DEF ResultsInv

LEMMA ResultsNext_Inv == ResultsInv /\ [ResultsNext]_resultVars => ResultsInv'
<1> SUFFICES ASSUME ResultsInv, [ResultsNext]_resultVars PROVE ResultsInv'
  OBVIOUS
<1>1. CASE RunPressed \/ ReopenTab \/ LeaveEditor
  BY <1>1, NoRunTouched DEF RunPressed, ReopenTab, LeaveEditor
<1>2. CASE StartRun
  BY <1>2, StartStep
<1>3. CASE CancelPressed
  <2>1. PICK c \in RunIds : c = controller
    BY <1>3, ResultsTyped DEF CancelPressed
  <2>2. CancelBy(c) /\ UNCHANGED <<place, waiting, begun, controller>> /\ begun' = begun
    BY <1>3, <2>1 DEF CancelPressed
  <2>3. QED
    BY <2>2, CancelRuns, QuietRuns
<1>4. CASE CloseResults
  BY <1>4, ReleaseStep, ResultsTyped DEF CloseResults
<1>5. CASE DisposeEditor
  BY <1>5, ReleaseStep, ResultsTyped DEF DisposeEditor
<1>6. ASSUME NEW r \in RunIds, Chunk(r) \/ AnimationFrame(r) PROVE ResultsInv'
  BY <1>6, ChunkStep, FrameStep
<1>7. ASSUME NEW r \in RunIds, Complete(r) PROVE ResultsInv'
  <2>1. /\ stream[r].open /\ stream[r].of \in RunIds /\ results[stream[r].of].store \in RunIds
        /\ EndsAs(r, InStore(r), FALSE)
    BY <1>7, OpenIsOwned DEF Complete
  <2>2. InStore(r) \in 0..MaxReceived
    BY <2>1, RecordsTyped, ResultsTyped DEF InStore
  <2>3. ~results[stream[r].of].crossed => InStore(r) = stream[r].chunks
    BY <2>1, OwnStream DEF InStore
  <2>4. PICK d \in 0..MaxReceived : d = InStore(r)
    BY <2>2
  <2>5. EndsAs(r, d, FALSE)
    BY <2>1, <2>4 DEF EndsAs
  <2>6. QED
    BY <2>1, <2>3, <2>4, <2>5, EndStep
<1>8. ASSUME NEW r \in RunIds, Throws(r) PROVE ResultsInv'
  <2>1. stream[r].open /\ stream[r].of \in RunIds /\ EndsAs(r, Drawn(r), ~stream[r].aborted)
    BY <1>8, OpenIsOwned DEF Throws
  <2>2. Drawn(r) \in 0..MaxReceived
    BY <2>1, ResultsTyped DEF Drawn, Snapshot
  <2>3. PICK d \in 0..MaxReceived, e \in BOOLEAN : d = Drawn(r) /\ e = ~stream[r].aborted
    BY <2>2
  <2>4. EndsAs(r, d, e)
    BY <2>1, <2>3 DEF EndsAs
  <2>5. stream[r].aborted \/ e
    BY <2>3
  <2>6. QED
    BY <2>1, <2>4, <2>5, EndStep
<1>9. CASE UNCHANGED resultVars
  BY <1>9 DEF resultVars, ResultsInv, ResultsTypeOK, WaitInv, RunsInv, ControllerInv, StreamInv,
     StreamsAreOwned, Streaming
<1>10. QED
  BY <1>1, <1>2, <1>3, <1>4, <1>5, <1>6, <1>7, <1>8, <1>9 DEF ResultsNext

LEMMA ResultsInvHolds == ResultsSpec => []ResultsInv
BY ResultsInit_Inv, ResultsNext_Inv, PTL DEF ResultsSpec

\* However many runs, chunks and presses, and whatever the tabs and the page do: the pane of a file
\* whose runs did not overlap shows the last one, spins exactly while it streams, and has drawn all of
\* it when it has ended by itself; and each stream is the one its controller can abort, and belongs to
\* a file that is open unless its tab or page went while it waited to begin.
THEOREM ResultsAreOfRunsHolds == ResultsSpec => []ResultsAreOfRuns
<1>1. ResultsInv => LastRunIsShown
  <2>1. ASSUME ResultsInv, NEW c \in RunIds, results[c].store # 0, ~results[c].crossed
        PROVE  /\ ControllerInv(c) /\ results[c].store \in RunIds
    BY <2>1, RecordsTyped DEF ResultsInv, RunsInv, RunIds
  <2>2. QED
    BY <2>1 DEF ControllerInv, LastRunIsShown
<1>2. ResultsInv => ResultsAreOfRuns
  BY <1>1 DEF ResultsInv, ResultsAreOfRuns
<1>3. QED
  BY <1>2, ResultsInvHolds, PTL
=============================================================================
