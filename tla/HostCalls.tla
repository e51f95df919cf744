------------------------------ MODULE HostCalls ------------------------------
(***************************************************************************)
(* What the desktop host promises the UI about starting and stopping       *)
(* environments, whatever happens to its processes: EnvHost implements it, *)
(* and EnvGate, the UI, is built on it.                                    *)
(***************************************************************************)
CONSTANTS
  Envs,   \* the environments of the registry
  Cmds,   \* the calls that may be in flight
  None

ASSUME NoneIsNoEnv == None \notin Envs

VARIABLES
  active,   \* the active environment
  call      \* each call: its environment, and how far it got

hostVars == <<active, call>>

IdleCall == [env |-> None, pc |-> "idle"]

HostTypeOK ==
  /\ active \in Envs \cup {None}
  /\ call \in [Cmds -> [env : Envs \cup {None},
                        pc : {"idle", "starting", "stopping", "answering"}]]

HostInit == active = None /\ call = [c \in Cmds |-> IdleCall]

Reaches(c, pc) == call' = [call EXCEPT ![c].pc = pc]
Ends(c) == call' = [call EXCEPT ![c] = IdleCall]

\* A start of the active environment is answered at once.
BeginStart(c, e) ==
  /\ call[c].pc = "idle"
  /\ call' = [call EXCEPT ![c] =
       [env |-> e, pc |-> IF active = e THEN "answering" ELSE "starting"]]
  /\ UNCHANGED active

\* A stop of another environment than the active one does nothing.
BeginStop(c, e) ==
  /\ call[c].pc = "idle"
  /\ active = e
  /\ call' = [call EXCEPT ![c] = [env |-> e, pc |-> "stopping"]]
  /\ UNCHANGED active

\* A failed start leaves the active environment as it was, torn down or not.
FailStart(c) == call[c].pc = "starting" /\ Ends(c) /\ UNCHANGED active

Activated(c) ==
  /\ call[c].pc = "starting"
  /\ active' = call[c].env
  /\ Reaches(c, "answering")

\* The descriptor a start returns is that of the environment active now.
Answer(c) == call[c].pc = "answering" /\ Ends(c) /\ UNCHANGED active

\* The end of a stop: whatever is active is active no more.
Deactivated(c) == call[c].pc = "stopping" /\ Ends(c) /\ active' = None

\* The app ends, in order or by force.
Lose == active' = None /\ call' = [c \in Cmds |-> IdleCall]

HostNext ==
  \/ \E c \in Cmds, e \in Envs : BeginStart(c, e) \/ BeginStop(c, e)
  \/ \E c \in Cmds : FailStart(c) \/ Activated(c) \/ Answer(c) \/ Deactivated(c)
  \/ Lose

HostSpec == HostInit /\ [][HostNext]_hostVars

=============================================================================
