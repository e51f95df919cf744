---------------------------- MODULE EnvHostProofs ----------------------------
(***************************************************************************)
(* Theorems about EnvHost, for any environments and any number of commands *)
(* and sidecars: what holds whatever commands overlap, what the UI sees of *)
(* them, and what holds while they come one at a time.                     *)
(***************************************************************************)
EXTENDS MCDesktop, TLAPS

\* What a command has established at each point of its way.
CommandsOK ==
  \A c \in Cmds :
    /\ cmd[c].taken # {} => cmd[c].pc = "kill"
    /\ cmd[c].then = "quit" => cmd[c].pc \in {"take", "kill"}
    /\ cmd[c].pc # "idle" /\ cmd[c].then # "quit" => cmd[c].env \in Envs
    /\ cmd[c].pc \in {"take", "kill"} => cmd[c].then # "none"
    /\ cmd[c].pc = "reset" => cmd[c].then \in {"spawn", "clear"}

TypeInv == TypeOK /\ CommandsOK

\* The initial state is well typed.
LEMMA InitTypeInv == ASSUME Init PROVE TypeInv
<1>1. Idle \in Command
  BY DEF Idle, Command
<1>2. TypeOK
  <2>1. 0 \in 0..MaxSidecars /\ 0 \in 0..MaxQuits
    BY ConstantsOK
  <2>2. of \in [Sidecar -> [env : Envs \cup {None}, label : {"none", "uc", "marimo"}]]
    BY DEF Init
  <2>3. cmd \in [Cmds -> Command]
    BY <1>1 DEF Init
  <2>4. active \in [env : Envs \cup {None}, uc : Sidecar \cup {None}]
    BY DEF Init, NoActive
  <2>5. QED
    BY <2>1, <2>2, <2>3, <2>4 DEF Init, TypeOK
<1>3. CommandsOK
  BY DEF Init, CommandsOK, Idle
<1>4. QED
  BY <1>2, <1>3 DEF TypeInv

\* The invocation of a command keeps the types.
LEMMA InvocationTypeInv ==
  ASSUME TypeInv, NEW c \in Cmds, Invocation(c) PROVE TypeInv'
<1>1. ASSUME NEW e \in Envs \cup {None}, NEW pc \in {"take", "describe", "ensure"},
             NEW then \in {"none", "spawn", "clear", "quit"},
             Invoke(c, e, pc, then),
             UNCHANGED <<active, supervisor, processVars, marimo, telemetry, quits, loose>>,
             e \in Envs \/ (then = "quit" /\ pc = "take"),
             then = "quit" => pc = "take", pc = "take" => then # "none"
      PROVE  TypeInv'
  <2>1. [Idle EXCEPT !.env = e, !.pc = pc, !.then = then] \in Command
    BY <1>1 DEF Idle, Command
  <2>2. TypeOK'
    BY <1>1, <2>1 DEF TypeInv, TypeOK, Invoke, processVars
  <2>3. CommandsOK'
    BY <1>1 DEF TypeInv, TypeOK, CommandsOK, Invoke, Idle, Command
  <2>4. QED
    BY <2>2, <2>3 DEF TypeInv
<1>2. ASSUME NEW e \in Envs, Start(c, e) PROVE TypeInv'
  BY <1>1, <1>2 DEF Start
<1>3. ASSUME NEW e \in Envs, Stop(c, e) PROVE TypeInv'
  BY <1>1, <1>3 DEF Stop
<1>4. ASSUME OpenNotebook(c) PROVE TypeInv'
  <2>1. active.env \in Envs
    BY <1>4 DEF OpenNotebook, TypeInv, TypeOK
  <2>2. QED
    BY <1>1, <1>4, <2>1 DEF OpenNotebook
<1>5. ASSUME Exit(c) PROVE TypeInv'
  BY <1>1, <1>5 DEF Exit
<1>6. QED
  BY <1>2, <1>3, <1>4, <1>5 DEF Invocation

LEMMA CommandTyped == TypeInv => \A c \in Cmds : cmd[c] \in Command
  BY DEF TypeInv, TypeOK

\* A command that ends and touches nothing else keeps the types.
LEMMA DoneTypeInv ==
  ASSUME TypeInv, NEW c \in Cmds, Done(c), active' = active, supervisor' = supervisor,
         of' = of, spawned' = spawned, marimo' \in Sidecar \cup {None},
         telemetry' = telemetry, quits' = quits, loose' = loose, alone' = alone,
         alive' \in SUBSET Managed
  PROVE  TypeInv'
<1>1. Idle \in Command
  BY DEF Idle, Command
<1>2. QED
  BY <1>1 DEF TypeInv, TypeOK, CommandsOK, Done, Idle, Command

\* A command that goes on to another point, of which it has what is needed.
LEMMA MoveTypeInv ==
  ASSUME TypeInv, NEW c \in Cmds,
         NEW pc \in {"kill", "reset", "spawn", "announce", "telemetry", "reconcile", "track",
                     "up", "activate", "describe", "clear"},
         cmd' = [cmd EXCEPT ![c].pc = pc],
         cmd[c].pc # "idle", cmd[c].then # "quit", cmd[c].taken = {},
         pc = "kill" => cmd[c].then # "none",
         pc = "reset" => cmd[c].then \in {"spawn", "clear"}
  PROVE  CommandsOK' /\ cmd' \in [Cmds -> Command]
<1>1. [cmd[c] EXCEPT !.pc = pc] \in Command
  BY CommandTyped DEF Command
<1>2. cmd' \in [Cmds -> Command]
  BY <1>1 DEF TypeInv, TypeOK
<1>3. CommandsOK'
  BY DEF TypeInv, TypeOK, CommandsOK, Command
<1>4. QED
  BY <1>2, <1>3

\* A command that turns to the teardown on its error path.
LEMMA TearDownTypeInv ==
  ASSUME TypeInv, NEW c \in Cmds, TearDown(c, "fail"),
         cmd[c].pc # "idle", cmd[c].then # "quit", cmd[c].taken = {}
  PROVE  CommandsOK' /\ cmd' \in [Cmds -> Command]
<1>1. [cmd[c] EXCEPT !.pc = "take", !.then = "fail"] \in Command
  BY CommandTyped DEF Command
<1>2. cmd' \in [Cmds -> Command]
  BY <1>1 DEF TypeInv, TypeOK, TearDown
<1>3. CommandsOK'
  BY DEF TypeInv, TypeOK, CommandsOK, Command, TearDown
<1>4. QED
  BY <1>2, <1>3

\* What an attempt to end a process leaves, whether or not it succeeds.
LEMMA Attempted ==
  ASSUME TypeInv, NEW p \in Managed, Down(p) \/ StaysUp(p)
  PROVE  /\ alive' \in SUBSET Managed /\ loose' \in SUBSET Managed
         /\ alive' \in {alive, alive \ {p}}
         /\ alive' \subseteq (alive \ {p}) \cup loose' /\ loose \ {p} \subseteq loose'
  BY DEF Down, StaysUp, TypeInv, TypeOK

\* The steps of a teardown keep the types.
LEMMA TeardownTypeInv ==
  ASSUME TypeInv, NEW c \in Cmds, Teardown(c) PROVE TypeInv'
<1>1. ASSUME TakeAll(c) PROVE TypeInv'
  <2>1. [cmd[c] EXCEPT !.pc = "kill", !.taken = supervisor] \in Command
    BY CommandTyped DEF TypeInv, TypeOK, Command
  <2>2. TypeOK'
    BY <1>1, <2>1 DEF TakeAll, TypeInv, TypeOK, processVars
  <2>3. CommandsOK'
    BY <1>1 DEF TakeAll, At, TypeInv, TypeOK, CommandsOK, Command
  <2>4. QED
    BY <2>2, <2>3 DEF TypeInv
<1>2. ASSUME ShutDown(c) PROVE TypeInv'
  <2> PICK p \in cmd[c].taken : /\ Down(p) \/ StaysUp(p)
                                /\ cmd' = [cmd EXCEPT ![c].taken = @ \ {p}]
    BY <1>2 DEF ShutDown
  <2>1. p \in Managed /\ [cmd[c] EXCEPT !.taken = @ \ {p}] \in Command
    BY DEF TypeInv, TypeOK, Command
  <2>a. alive' \in SUBSET Managed /\ loose' \in SUBSET Managed
    BY <2>1, Attempted
  <2>2. TypeOK'
    BY <1>2, <2>1, <2>a DEF ShutDown, TypeInv, TypeOK
  <2>3. CommandsOK'
    BY <1>2 DEF ShutDown, At, TypeInv, TypeOK, CommandsOK, Command
  <2>4. QED
    BY <2>2, <2>3 DEF TypeInv
<1>3. ASSUME AllDown(c) PROVE TypeInv'
  <2>1. CASE Done(c)
    BY <1>3, <2>1, DoneTypeInv DEF AllDown, processVars, TypeInv, TypeOK
  <2>2. CASE Goto(c, "reset") /\ cmd[c].then # "fail"
    <3>1. cmd[c].then \in {"spawn", "clear"}
      BY <1>3, <2>2 DEF AllDown, At, TypeInv, TypeOK, CommandsOK, Command
    <3>2. CommandsOK' /\ cmd' \in [Cmds -> Command]
      BY <1>3, <2>2, <3>1, MoveTypeInv DEF AllDown, At, Goto
    <3>3. QED
      BY <1>3, <3>2 DEF AllDown, processVars, TypeInv, TypeOK
  <2>3. QED
    BY <1>3, <2>1, <2>2 DEF AllDown
<1>4. ASSUME Quit(c) PROVE TypeInv'
  <2>1. Idle \in Command
    BY DEF Idle, Command
  <2>2. TypeOK'
    BY <1>4, <2>1 DEF Quit, Forget, TypeInv, TypeOK, NoActive, processVars
  <2>3. CommandsOK'
    BY <1>4 DEF Quit, Forget, CommandsOK, Idle
  <2>4. QED
    BY <2>2, <2>3 DEF TypeInv
<1>5. ASSUME Reset(c) PROVE TypeInv'
  <2>1. cmd[c].then \in {"spawn", "clear"} /\ cmd[c].taken = {}
    BY <1>5 DEF Reset, At, TypeInv, CommandsOK
  <2>2. CommandsOK' /\ cmd' \in [Cmds -> Command]
    BY <1>5, <2>1, MoveTypeInv DEF Reset, At, Goto
  <2>3. QED
    BY <1>5, <2>2 DEF Reset, processVars, TypeInv, TypeOK
<1>6. ASSUME Clear(c) PROVE TypeInv'
  <2>1. Idle \in Command
    BY DEF Idle, Command
  <2>2. QED
    BY <1>6, <2>1 DEF Clear, Done, Idle, Command, NoActive, processVars, TypeInv, TypeOK, CommandsOK
<1>7. QED
  BY <1>1, <1>2, <1>3, <1>4, <1>5, <1>6 DEF Teardown

\* A spawned sidecar has a number nobody has.
LEMMA SpawnType ==
  ASSUME TypeInv, NEW c \in Cmds, NEW label \in {"uc", "marimo"}, Spawn(c, label),
         cmd[c].env \in Envs
  PROVE  /\ spawned + 1 \in Sidecar
         /\ spawned' \in 0..MaxSidecars
         /\ of' \in [Sidecar -> [env : Envs \cup {None}, label : {"none", "uc", "marimo"}]]
         /\ alive' \in SUBSET Managed /\ supervisor' \in SUBSET Managed
<1>1. spawned + 1 \in Sidecar /\ spawned' \in 0..MaxSidecars
  BY ConstantsOK DEF Spawn, TypeInv, TypeOK, Sidecar
<1>2. [env |-> cmd[c].env, label |-> label] \in [env : Envs \cup {None}, label : {"none", "uc", "marimo"}]
  OBVIOUS
<1>3. QED
  BY <1>1, <1>2 DEF Spawn, TypeInv, TypeOK, Managed

\* A command that spawned a child goes on to wait for its address.
LEMMA ChildTypeInv ==
  ASSUME TypeInv, NEW c \in Cmds, NEW pc \in {"announce", "scrape"}, NEW p \in Sidecar,
         cmd' = [cmd EXCEPT ![c].pc = pc, ![c].child = p],
         cmd[c].pc # "idle", cmd[c].then # "quit", cmd[c].taken = {}
  PROVE  CommandsOK' /\ cmd' \in [Cmds -> Command]
<1>1. [cmd[c] EXCEPT !.pc = pc, !.child = p] \in Command
  BY CommandTyped DEF Command
<1>2. cmd' \in [Cmds -> Command]
  BY <1>1 DEF TypeInv, TypeOK
<1>3. CommandsOK'
  BY DEF TypeInv, TypeOK, CommandsOK, Command
<1>4. QED
  BY <1>2, <1>3

\* The steps of a start and of a notebook's opening keep the types.
LEMMA ProgressTypeInv ==
  ASSUME TypeInv, NEW c \in Cmds, Starting(c) \/ Opening(c) PROVE TypeInv'
<1> DEFINE Here == cmd[c].pc # "idle" /\ cmd[c].then # "quit" /\ cmd[c].taken = {} /\ cmd[c].env \in Envs
<1>0. ASSUME cmd[c].pc \notin {"idle", "take", "kill"} PROVE Here
  BY <1>0 DEF TypeInv, CommandsOK
<1>1. ASSUME GiveUp(c) PROVE TypeInv'
  BY <1>1, DoneTypeInv DEF GiveUp, processVars, TypeInv, TypeOK
<1>2. ASSUME SpawnUc(c) PROVE TypeInv'
  <2>1. CASE Spawn(c, "uc") /\ ~GiveUp(c)
    <3>1. Here
      BY <1>0, <1>2 DEF SpawnUc, At
    <3>2. CommandsOK' /\ cmd' \in [Cmds -> Command]
      BY <1>2, <2>1, <3>1, SpawnType, ChildTypeInv DEF SpawnUc
    <3>3. QED
      BY <1>2, <2>1, <3>1, <3>2, SpawnType DEF SpawnUc, TypeInv, TypeOK
  <2>2. QED
    BY <1>1, <1>2, <2>1 DEF SpawnUc
<1>3. ASSUME Announce(c) PROVE TypeInv'
  <2>1. CASE Done(c)
    BY <1>3, <2>1, DoneTypeInv DEF Announce, TypeInv, TypeOK
  <2>2. CASE Goto(c, AfterUc(cmd[c].env)) /\ UNCHANGED alive
    <3>1. AfterUc(cmd[c].env) \in {"telemetry", "reconcile", "activate"}
      BY DEF AfterUc
    <3>2. CommandsOK' /\ cmd' \in [Cmds -> Command]
      BY <1>0, <1>3, <2>2, <3>1, MoveTypeInv DEF Announce, At, Goto
    <3>3. QED
      BY <1>3, <2>2, <3>2 DEF Announce, TypeInv, TypeOK
  <2>3. QED
    BY <1>3, <2>1, <2>2 DEF Announce
<1>4. ASSUME EnsureTelemetry(c) PROVE TypeInv'
  <2>1. Here
    BY <1>0, <1>4 DEF EnsureTelemetry, At
  <2>2. CommandsOK' /\ cmd' \in [Cmds -> Command]
    <3>1. CASE TearDown(c, "fail")
      BY <2>1, <3>1, TearDownTypeInv
    <3>2. CASE Goto(c, IF cmd[c].env \in WithModules THEN "reconcile" ELSE "activate")
      BY <2>1, <3>2, MoveTypeInv DEF Goto
    <3>3. QED
      BY <1>4, <3>1, <3>2 DEF EnsureTelemetry
  <2>3. QED
    BY <1>4, <2>2 DEF EnsureTelemetry, TypeInv, TypeOK, processVars
<1>5. ASSUME Reconcile(c) PROVE TypeInv'
  <2>1. Here
    BY <1>0, <1>5 DEF Reconcile, At
  <2>2. CommandsOK' /\ cmd' \in [Cmds -> Command]
    <3>1. CASE TearDown(c, "fail")
      BY <2>1, <3>1, TearDownTypeInv
    <3>2. CASE Goto(c, "track")
      BY <2>1, <3>2, MoveTypeInv DEF Goto
    <3>3. QED
      BY <1>5, <3>1, <3>2 DEF Reconcile
  <2>3. cmd[c].env \in Managed
    BY <2>1 DEF TypeInv, CommandsOK, Managed
  <2>4. alive' \in SUBSET Managed /\ loose' \in SUBSET Managed
    BY <1>5, <2>3, Attempted DEF Reconcile, TypeInv, TypeOK
  <2>5. QED
    BY <1>5, <2>2, <2>4 DEF Reconcile, TypeInv, TypeOK
<1>6. ASSUME TrackProject(c) PROVE TypeInv'
  <2>1. Here
    BY <1>0, <1>6 DEF TrackProject, At
  <2>2. CommandsOK' /\ cmd' \in [Cmds -> Command]
    BY <1>6, <2>1, MoveTypeInv DEF TrackProject, Goto
  <2>3. QED
    BY <1>6, <2>1, <2>2 DEF TrackProject, TypeInv, TypeOK, processVars, Managed
<1>7. ASSUME ComposeUp(c) PROVE TypeInv'
  <2>1. Here
    BY <1>0, <1>7 DEF ComposeUp, At
  <2>2. CommandsOK' /\ cmd' \in [Cmds -> Command]
    <3>1. CASE TearDown(c, "fail")
      BY <2>1, <3>1, TearDownTypeInv
    <3>2. CASE Goto(c, "activate")
      BY <2>1, <3>2, MoveTypeInv DEF Goto
    <3>3. QED
      BY <1>7, <3>1, <3>2 DEF ComposeUp
  <2>3. QED
    BY <1>7, <2>1, <2>2 DEF ComposeUp, TypeInv, TypeOK, Managed
<1>8. ASSUME Activate(c) PROVE TypeInv'
  <2>1. CASE Goto(c, "describe") /\ ~GiveUp(c)
    <3>1. Here
      BY <1>0, <1>8 DEF Activate, At
    <3>2. CommandsOK' /\ cmd' \in [Cmds -> Command]
      BY <2>1, <3>1, MoveTypeInv DEF Goto
    <3>3. cmd[c].child \in Sidecar \cup {None}
      BY DEF TypeInv, TypeOK, Command
    <3>4. QED
      BY <1>8, <2>1, <3>1, <3>2, <3>3 DEF Activate, TypeInv, TypeOK, processVars
  <2>2. QED
    BY <1>1, <1>8, <2>1 DEF Activate
<1>9. ASSUME EnsureMarimo(c) PROVE TypeInv'
  <2>1. CASE Spawn(c, "marimo") /\ ~GiveUp(c)
    <3>1. Here
      BY <1>0, <1>9 DEF EnsureMarimo, At
    <3>2. CommandsOK' /\ cmd' \in [Cmds -> Command]
      BY <1>9, <2>1, <3>1, SpawnType, ChildTypeInv DEF EnsureMarimo
    <3>3. QED
      BY <1>9, <2>1, <3>1, <3>2, SpawnType DEF EnsureMarimo, TypeInv, TypeOK
  <2>2. QED
    BY <1>1, <1>9, <2>1 DEF EnsureMarimo
<1>10. ASSUME Scrape(c) PROVE TypeInv'
  <2>1. cmd[c].child \in Sidecar \cup {None}
    BY DEF TypeInv, TypeOK, Command
  <2>2. QED
    BY <1>10, <2>1, DoneTypeInv DEF Scrape, TypeInv, TypeOK
<1>11. QED
  BY <1>1, <1>2, <1>3, <1>4, <1>5, <1>6, <1>7, <1>8, <1>9, <1>10
     DEF Starting, Opening, Describe

\* A forced quit forgets everything but the processes.
LEMMA ForceQuitTypeInv ==
  ASSUME TypeInv, ForceQuit PROVE TypeInv'
<1>1. Idle \in Command
  BY DEF Idle, Command
<1>2. quits' \in 0..MaxQuits
  BY ConstantsOK DEF ForceQuit, TypeInv, TypeOK
<1>3. alive' \in SUBSET Managed
  BY DEF ForceQuit, Managed
<1>4. TypeOK'
  BY <1>1, <1>2, <1>3 DEF ForceQuit, Forget, TypeInv, TypeOK, NoActive
<1>5. CommandsOK'
  BY DEF ForceQuit, Forget, CommandsOK, Idle
<1>6. QED
  BY <1>4, <1>5 DEF TypeInv

\* The state of the host is always well typed, and a command only ever acts on
\* what it established before.
THEOREM TypeCorrect == Spec => []TypeInv
<1>1. ASSUME TypeInv, [Next]_vars PROVE TypeInv'
  <2>1. CASE UNCHANGED vars
    BY <1>1, <2>1 DEF vars, processVars, TypeInv, TypeOK, CommandsOK
  <2>2. QED
    BY <1>1, <2>1, InvocationTypeInv, TeardownTypeInv, ProgressTypeInv, ForceQuitTypeInv DEF Next
<1>2. QED
  BY <1>1, InitTypeInv, PTL DEF Spec

\* TypeOK alone.
THEOREM TypesHold == Spec => []TypeOK
<1>1. TypeInv => TypeOK
  BY DEF TypeInv
<1>2. QED
  BY <1>1, TypeCorrect, PTL

-----------------------------------------------------------------------------
(* Whatever interleaves                                                     *)

\* A start holds, from its spawn on, a server of its own environment; an opening a notebook server.
ChildOK(c) ==
  /\ cmd[c].pc \in {"announce", "telemetry", "reconcile", "track", "up", "activate"} =>
       /\ cmd[c].child \in 1..spawned
       /\ of[cmd[c].child] = [env |-> cmd[c].env, label |-> "uc"]
  /\ cmd[c].pc = "scrape" =>
       cmd[c].child \in 1..spawned /\ of[cmd[c].child].label = "marimo"

\* The active environment's requests go to a catalog server that was spawned for it, and notebooks
\* are opened on a notebook server: commands that overlap may leave either one dead, but never put the
\* server of one environment behind the name of another (commands.rs, activate_endpoint).
EndpointsAreOwn ==
  /\ active.env # None =>
       active.uc \in Sidecar /\ of[active.uc] = [env |-> active.env, label |-> "uc"]
  /\ marimo # None => of[marimo].label = "marimo"

ServersInv ==
  /\ \A c \in Cmds : ChildOK(c)
  /\ EndpointsAreOwn
  /\ active.env # None => active.uc <= spawned
  /\ marimo # None => marimo <= spawned

\* What is known of a sidecar stays.
Remembered ==
  /\ spawned' \in 0..MaxSidecars /\ spawned <= spawned'
  /\ \A p \in 1..spawned : of'[p] = of[p]

LEMMA SpawnRemembers ==
  ASSUME TypeInv, NEW c \in Cmds, NEW label \in {"uc", "marimo"}, Spawn(c, label),
         cmd[c].env \in Envs
  PROVE  /\ Remembered
         /\ spawned + 1 \in 1..spawned'
         /\ of'[spawned + 1] = [env |-> cmd[c].env, label |-> label]
<1>1. /\ MaxSidecars \in Nat /\ spawned \in 0..MaxSidecars
      /\ spawned < MaxSidecars /\ spawned' = spawned + 1
  BY ConstantsOK DEF Spawn, TypeInv, TypeOK
<1>2. /\ spawned' \in 0..MaxSidecars /\ spawned <= spawned'
      /\ spawned + 1 \in 1..spawned' /\ spawned + 1 \in Sidecar
  BY <1>1 DEF Sidecar
<1>3. ASSUME NEW p \in 1..spawned PROVE p # spawned + 1 /\ p \in Sidecar
  BY <1>1 DEF Sidecar
<1>4. /\ DOMAIN of = Sidecar
      /\ of' = [of EXCEPT ![spawned + 1] = [env |-> cmd[c].env, label |-> label]]
  BY DEF Spawn, TypeInv, TypeOK
<1>5. of'[spawned + 1] = [env |-> cmd[c].env, label |-> label]
  BY <1>2, <1>4
<1>6. ASSUME NEW p \in 1..spawned PROVE of'[p] = of[p]
  BY <1>3, <1>4
<1>7. QED
  BY <1>2, <1>5, <1>6 DEF Remembered

\* A step of command c that forgets no sidecar keeps the invariant if c and the endpoints fare well.
LEMMA StepKeepsServers ==
  ASSUME TypeInv, TypeInv', ServersInv, NEW c \in Cmds, Remembered, ChildOK(c)',
         \A d \in Cmds \ {c} : cmd'[d] = cmd[d],
         \/ active' = active
         \/ active' = NoActive
         \/ /\ active'.env # None
            /\ active'.uc \in 1..spawned'
            /\ of'[active'.uc] = [env |-> active'.env, label |-> "uc"],
         \/ marimo' = marimo
         \/ marimo' = None
         \/ marimo' \in 1..spawned' /\ of'[marimo'].label = "marimo"
  PROVE  ServersInv'
<1>0. /\ spawned \in Nat /\ spawned' \in Nat /\ spawned' <= MaxSidecars
      /\ 1..spawned \subseteq 1..spawned' /\ 1..spawned' \subseteq Sidecar
  BY ConstantsOK DEF Remembered, Sidecar, TypeInv, TypeOK
<1>1. ASSUME NEW d \in Cmds PROVE ChildOK(d)'
  <2>1. CASE d = c
    BY <2>1
  <2>2. CASE d # c
    BY <1>0, <2>2 DEF ServersInv, ChildOK, Remembered
  <2>3. QED
    BY <2>1, <2>2
<1>2. active'.env # None =>
        active'.uc \in 1..spawned' /\ of'[active'.uc] = [env |-> active'.env, label |-> "uc"]
  <2>1. CASE active' = active
    <3>1. active.env # None => active.uc \in 1..spawned
      BY <1>0 DEF ServersInv, EndpointsAreOwn, Sidecar
    <3>2. QED
      BY <1>0, <2>1, <3>1 DEF ServersInv, EndpointsAreOwn, Remembered
  <2>2. QED
    BY <2>1 DEF NoActive
<1>3. marimo' # None => marimo' \in 1..spawned' /\ of'[marimo'].label = "marimo"
  <2>1. CASE marimo' = marimo
    <3>1. marimo # None => marimo \in 1..spawned
      BY <1>0 DEF ServersInv, TypeInv, TypeOK, Sidecar
    <3>2. QED
      BY <1>0, <2>1, <3>1 DEF ServersInv, EndpointsAreOwn, Remembered
  <2>2. QED
    BY <2>1
<1>4. QED
  BY <1>0, <1>1, <1>2, <1>3 DEF ServersInv, EndpointsAreOwn

\* Commands that interleave in any way keep the invariant.
LEMMA NextServersInv ==
  ASSUME TypeInv, TypeInv', ServersInv, [Next]_vars PROVE ServersInv'
<1>1. CASE UNCHANGED vars
  BY <1>1 DEF vars, processVars, ServersInv, ChildOK, EndpointsAreOwn
<1>2. CASE ForceQuit
  BY <1>2 DEF ForceQuit, Forget, NoActive, Idle, ServersInv, ChildOK, EndpointsAreOwn
<1>3. ASSUME NEW c \in Cmds, Quit(c) PROVE ServersInv'
  BY <1>3 DEF Quit, Forget, NoActive, Idle, ServersInv, ChildOK, EndpointsAreOwn
<1>4. ASSUME NEW c \in Cmds,
             Invocation(c) \/ (Teardown(c) /\ ~Quit(c)) \/ Starting(c) \/ Opening(c)
      PROVE  ServersInv'
  <2>0. UNCHANGED <<of, spawned>> => Remembered
    BY ConstantsOK DEF Remembered, TypeInv, TypeOK
  <2>1. CASE Invocation(c)
    <3>1. ASSUME NEW e, NEW pc, NEW then, Invoke(c, e, pc, then),
                 pc \in {"take", "describe", "ensure"}
          PROVE  /\ \A d \in Cmds \ {c} : cmd'[d] = cmd[d]
                 /\ cmd'[c].pc \in {"take", "describe", "ensure"}
      BY <3>1 DEF Invoke, Idle, TypeInv, TypeOK
    <3>2. /\ \A d \in Cmds \ {c} : cmd'[d] = cmd[d]
          /\ cmd'[c].pc \in {"take", "describe", "ensure"}
      BY <2>1, <3>1 DEF Invocation, Start, Stop, OpenNotebook, Exit
    <3>3. UNCHANGED <<of, spawned, active, marimo>>
      BY <2>1 DEF Invocation, Start, Stop, OpenNotebook, Exit, Invoke, processVars
    <3>4. QED
      BY <2>0, <3>2, <3>3, StepKeepsServers DEF ChildOK
  <2>2. CASE Teardown(c) /\ ~Quit(c)
    <3>a. DOMAIN cmd = Cmds /\ cmd[c].then \in {"none", "spawn", "clear", "fail", "quit"}
      BY CommandTyped DEF Command, TypeInv, TypeOK
    <3>b. ASSUME TakeAll(c) \/ ShutDown(c)
          PROVE  (\A d \in Cmds \ {c} : cmd'[d] = cmd[d]) /\ cmd'[c].pc = "kill"
      BY <3>a, <3>b, CommandTyped DEF TakeAll, ShutDown, At, Command
    <3>c. ASSUME AllDown(c) \/ Reset(c) \/ Clear(c)
          PROVE  /\ \A d \in Cmds \ {c} : cmd'[d] = cmd[d]
                 /\ cmd'[c].pc \in {"idle", "reset", "spawn", "clear"}
      <4>1. cmd[c].pc = "reset" => cmd[c].then \in {"spawn", "clear"}
        BY DEF TypeInv, CommandsOK
      <4>2. CASE Done(c)
        BY <3>a, <4>2 DEF Done, Idle
      <4>3. ASSUME NEW pc \in {"reset", "spawn", "clear"}, Goto(c, pc)
            PROVE  (\A d \in Cmds \ {c} : cmd'[d] = cmd[d]) /\ cmd'[c].pc = pc
        BY <3>a, <4>3, CommandTyped DEF Goto, Command
      <4>4. QED
        BY <3>c, <4>1, <4>2, <4>3 DEF AllDown, Reset, Clear, At
    <3>1. /\ \A d \in Cmds \ {c} : cmd'[d] = cmd[d]
          /\ cmd'[c].pc \in {"kill", "idle", "reset", "spawn", "clear"}
      BY <2>2, <3>b, <3>c DEF Teardown
    <3>2. UNCHANGED <<of, spawned>> /\ active' \in {active, NoActive} /\ marimo' \in {marimo, None}
      BY <2>2 DEF Teardown, TakeAll, ShutDown, AllDown, Reset, Clear, processVars
    <3>3. QED
      BY <2>0, <3>1, <3>2, StepKeepsServers DEF ChildOK
  <2>3. ASSUME GiveUp(c) PROVE ServersInv'
    BY <2>0, <2>3, StepKeepsServers DEF GiveUp, Done, Idle, processVars, ChildOK, TypeInv, TypeOK
  <2>4. ASSUME SpawnUc(c), ~GiveUp(c) PROVE ServersInv'
    <3>1. cmd[c].env \in Envs /\ Spawn(c, "uc")
      BY <2>4 DEF SpawnUc, At, TypeInv, CommandsOK
    <3>2. /\ Remembered /\ spawned + 1 \in 1..spawned'
          /\ of'[spawned + 1] = [env |-> cmd[c].env, label |-> "uc"]
      BY <3>1, SpawnRemembers
    <3>3. /\ \A d \in Cmds \ {c} : cmd'[d] = cmd[d]
          /\ cmd'[c].pc = "announce" /\ cmd'[c].child = spawned + 1 /\ cmd'[c].env = cmd[c].env
      BY <2>4 DEF SpawnUc, TypeInv, TypeOK, Command
    <3>4. QED
      BY <2>4, <3>2, <3>3, StepKeepsServers DEF SpawnUc, ChildOK
  <2>5. ASSUME Announce(c) \/ EnsureTelemetry(c) \/ Reconcile(c) \/ TrackProject(c) \/ ComposeUp(c)
        PROVE  ServersInv'
    <3>1. UNCHANGED <<of, spawned, active, marimo>>
      BY <2>5 DEF Announce, EnsureTelemetry, Reconcile, TrackProject, ComposeUp, processVars
    <3>2. cmd[c].pc \in {"announce", "telemetry", "reconcile", "track", "up"}
      BY <2>5 DEF Announce, EnsureTelemetry, Reconcile, TrackProject, ComposeUp, At
    <3>3. /\ \A d \in Cmds \ {c} : cmd'[d] = cmd[d]
          /\ \/ cmd'[c].pc \in {"idle", "take"}
             \/ /\ cmd'[c].pc \in {"telemetry", "reconcile", "track", "up", "activate"}
                /\ cmd'[c].child = cmd[c].child /\ cmd'[c].env = cmd[c].env
      BY <2>5 DEF Announce, EnsureTelemetry, Reconcile, TrackProject, ComposeUp, Done, Goto,
         TearDown, AfterUc, Idle, TypeInv, TypeOK, Command
    <3>4. ChildOK(c)'
      BY <3>1, <3>2, <3>3 DEF ServersInv, ChildOK
    <3>5. QED
      BY <2>0, <3>1, <3>3, <3>4, StepKeepsServers
  <2>6. ASSUME Activate(c), ~GiveUp(c) PROVE ServersInv'
    <3>0. DOMAIN cmd = Cmds /\ cmd' = [cmd EXCEPT ![c].pc = "describe"]
      BY <2>6 DEF Activate, Goto, TypeInv, TypeOK
    <3>1. /\ UNCHANGED <<of, spawned, marimo>>
          /\ \A d \in Cmds \ {c} : cmd'[d] = cmd[d]
          /\ cmd'[c].pc = "describe"
          /\ active' = [env |-> cmd[c].env, uc |-> cmd[c].child]
      BY <2>6, <3>0, CommandTyped DEF Activate, processVars, Command
    <3>2. /\ cmd[c].child \in 1..spawned
          /\ of[cmd[c].child] = [env |-> cmd[c].env, label |-> "uc"]
      BY <2>6 DEF Activate, At, ServersInv, ChildOK
    <3>3. cmd[c].env \in Envs /\ None \notin Envs
      BY <2>6, ConstantsOK DEF Activate, At, TypeInv, CommandsOK, Managed
    <3>4. QED
      BY <2>0, <3>1, <3>2, <3>3, StepKeepsServers DEF ChildOK
  <2>7. ASSUME EnsureMarimo(c), ~GiveUp(c) PROVE ServersInv'
    <3>1. cmd[c].env \in Envs /\ Spawn(c, "marimo")
      BY <2>7 DEF EnsureMarimo, At, TypeInv, CommandsOK
    <3>2. /\ Remembered /\ spawned + 1 \in 1..spawned'
          /\ of'[spawned + 1] = [env |-> cmd[c].env, label |-> "marimo"]
      BY <3>1, SpawnRemembers
    <3>3. /\ \A d \in Cmds \ {c} : cmd'[d] = cmd[d]
          /\ cmd'[c].pc = "scrape" /\ cmd'[c].child = spawned + 1
      BY <2>7 DEF EnsureMarimo, TypeInv, TypeOK, Command
    <3>4. active' = active /\ marimo' = marimo
      BY <2>7 DEF EnsureMarimo
    <3>5. ChildOK(c)'
      BY <3>2, <3>3 DEF ChildOK
    <3>6. QED
      BY <3>2, <3>3, <3>4, <3>5, StepKeepsServers
  <2>8. ASSUME Scrape(c) PROVE ServersInv'
    <3>1. /\ UNCHANGED <<of, spawned, active>>
          /\ \A d \in Cmds \ {c} : cmd'[d] = cmd[d]
          /\ cmd'[c].pc = "idle"
          /\ marimo' \in {marimo, cmd[c].child}
      BY <2>8 DEF Scrape, Done, Idle, TypeInv, TypeOK
    <3>2. cmd[c].child \in 1..spawned /\ of[cmd[c].child].label = "marimo"
      BY <2>8 DEF Scrape, At, ServersInv, ChildOK
    <3>3. QED
      BY <2>0, <3>1, <3>2, StepKeepsServers DEF ChildOK
  <2>9. QED
    BY <1>4, <2>1, <2>2, <2>3, <2>4, <2>5, <2>6, <2>7, <2>8 DEF Starting, Opening, Describe
<1>5. QED
  BY <1>1, <1>2, <1>3, <1>4 DEF Next

\* However many commands overlap, fail or are cut off, the UI's requests never reach the catalog server
\* of an environment other than the one that is active, nor its notebooks what is no notebook server.
THEOREM EndpointsAreOwnHolds == Spec => []EndpointsAreOwn
<1>1. Init => ServersInv
  BY DEF Init, NoActive, Idle, ServersInv, ChildOK, EndpointsAreOwn
<1>2. TypeInv /\ TypeInv' /\ ServersInv /\ [Next]_vars => ServersInv'
  BY NextServersInv
<1>3. ServersInv => EndpointsAreOwn
  BY DEF ServersInv
<1>4. QED
  BY <1>1, <1>2, <1>3, TypeCorrect, PTL DEF Spec

-----------------------------------------------------------------------------
(* What the supervisor promises                                             *)

\* The sidecars anyone knows of were spawned: a new one is in nobody's set.
SpawnedOK == (supervisor \cup Taken) \cap Sidecar \subseteq 1..spawned

SupervisorInv == SpawnedOK /\ SidecarsAreTracked /\ NoDoubleKill

\* Moving a command leaves what it took alone.
LEMMA TakenField ==
  ASSUME NEW x \in Command, NEW v, NEW w
  PROVE  /\ [x EXCEPT !.pc = v].taken = x.taken
         /\ [x EXCEPT !.pc = v, !.then = w].taken = x.taken
         /\ [x EXCEPT !.pc = v, !.child = w].taken = x.taken
  BY DEF Command

\* A command that holds no process and moves on holds none.
LEMMA TakenKept ==
  ASSUME TypeInv, NEW c \in Cmds, cmd[c].taken = {},
         \/ Done(c)
         \/ (\E pc : Goto(c, pc))
         \/ (\E then : TearDown(c, then))
         \/ (\E e, pc, then : Invoke(c, e, pc, then))
         \/ (\E pc, p : cmd' = [cmd EXCEPT ![c].pc = pc, ![c].child = p])
  PROVE  \A d \in Cmds : cmd'[d].taken = cmd[d].taken
<1>0. cmd[c] \in Command /\ cmd \in [Cmds -> Command]
  BY DEF TypeInv, TypeOK
<1>6. ASSUME NEW x, cmd' = [cmd EXCEPT ![c] = x], x.taken = {}
      PROVE  \A d \in Cmds : cmd'[d].taken = cmd[d].taken
  BY <1>0, <1>6
<1>1. CASE Done(c)
  BY <1>1, <1>6 DEF Done, Idle
<1>2. ASSUME NEW pc, Goto(c, pc) PROVE \A d \in Cmds : cmd'[d].taken = cmd[d].taken
  <2>1. cmd' = [cmd EXCEPT ![c] = [cmd[c] EXCEPT !.pc = pc]]
    BY <1>0, <1>2 DEF Goto
  <2>2. QED
    BY <1>0, <1>6, <2>1, TakenField
<1>3. ASSUME NEW then, TearDown(c, then) PROVE \A d \in Cmds : cmd'[d].taken = cmd[d].taken
  <2> DEFINE moved == [cmd[c] EXCEPT !.pc = "take", !.then = then]
  <2>1. moved.taken = {}
    BY <1>0, TakenField
  <2>2. cmd' = [cmd EXCEPT ![c] = moved]
    BY <1>0, <1>3 DEF TearDown
  <2> HIDE DEF moved
  <2>3. QED
    BY <1>6, <2>1, <2>2
<1>4. ASSUME NEW e, NEW pc, NEW then, Invoke(c, e, pc, then)
      PROVE  \A d \in Cmds : cmd'[d].taken = cmd[d].taken
  <2> DEFINE moved == [Idle EXCEPT !.env = e, !.pc = pc, !.then = then]
  <2>1. moved.taken = {}
    BY <1>0, TakenField DEF Idle
  <2>2. cmd' = [cmd EXCEPT ![c] = moved]
    BY <1>0, <1>4 DEF Invoke
  <2> HIDE DEF moved
  <2>3. QED
    BY <1>6, <2>1, <2>2
<1>5. ASSUME NEW pc, NEW p, cmd' = [cmd EXCEPT ![c].pc = pc, ![c].child = p]
      PROVE  \A d \in Cmds : cmd'[d].taken = cmd[d].taken
  <2> DEFINE moved == [cmd[c] EXCEPT !.pc = pc, !.child = p]
  <2>1. moved.taken = {}
    BY <1>0, TakenField
  <2>2. cmd' = [cmd EXCEPT ![c] = moved]
    BY <1>0, <1>5
  <2> HIDE DEF moved
  <2>3. QED
    BY <1>6, <2>1, <2>2
<1>7. QED
  BY <1>1, <1>2, <1>3, <1>4, <1>5

\* Steps that leave the sets alone keep what the supervisor promises.
LEMMA QuietSupervisorInv ==
  ASSUME TypeInv, SupervisorInv, supervisor' = supervisor, spawned' = spawned,
         \A c \in Cmds : cmd'[c].taken = cmd[c].taken,
         alive' \cap Sidecar \subseteq alive, alive \cap loose \cap Sidecar \subseteq loose'
  PROVE  SupervisorInv'
  BY DEF SupervisorInv, SpawnedOK, SidecarsAreTracked, NoDoubleKill, Taken

\* So do the bookkeeping steps of the supervisor for projects.
LEMMA TrackSupervisorInv ==
  ASSUME TypeInv, SupervisorInv, NEW e \in Envs, supervisor' = supervisor \cup {e},
         spawned' = spawned, alive' = alive, loose' = loose \ {e},
         \A c \in Cmds : cmd'[c].taken = cmd[c].taken
  PROVE  SupervisorInv'
<1>1. e \notin Sidecar
  BY ConstantsOK
<1>2. QED
  BY <1>1 DEF SupervisorInv, SpawnedOK, SidecarsAreTracked, NoDoubleKill, Taken

\* A spawned sidecar is tracked, and nobody is about to kill it.
LEMMA SpawnSupervisorInv ==
  ASSUME TypeInv, SupervisorInv, NEW c \in Cmds, NEW label, Spawn(c, label), loose' = loose,
         \A d \in Cmds : cmd'[d].taken = cmd[d].taken
  PROVE  SupervisorInv'
<1>1. spawned \in Nat /\ spawned + 1 \notin 1..spawned
  BY ConstantsOK DEF TypeInv, TypeOK
<1>2. Taken' = Taken
  BY DEF Taken
<1>3. spawned' = spawned + 1 /\ supervisor' = supervisor \cup {spawned + 1} /\ alive' = alive \cup {spawned + 1}
  BY DEF Spawn
<1>4. SpawnedOK'
  BY <1>1, <1>2, <1>3 DEF SupervisorInv, SpawnedOK
<1>5. SidecarsAreTracked'
  BY <1>2, <1>3 DEF SupervisorInv, SidecarsAreTracked
<1>6. NoDoubleKill'
  BY <1>1, <1>2, <1>3 DEF SupervisorInv, SpawnedOK, NoDoubleKill
<1>7. QED
  BY <1>4, <1>5, <1>6 DEF SupervisorInv

\* Taking the set moves it from the supervisor to one command.
LEMMA TakeSupervisorInv ==
  ASSUME TypeInv, SupervisorInv, NEW c \in Cmds, TakeAll(c) PROVE SupervisorInv'
<1>1. cmd[c].taken = {}
  BY DEF TakeAll, At, TypeInv, CommandsOK
<1>2. /\ cmd'[c].taken = supervisor /\ supervisor' = {}
      /\ \A d \in Cmds \ {c} : cmd'[d].taken = cmd[d].taken
      /\ alive' = alive /\ spawned' = spawned /\ loose' = loose
  BY DEF TakeAll, TypeInv, TypeOK, processVars
<1>3. Taken' = Taken \cup supervisor
  BY <1>1, <1>2 DEF Taken
<1>4. SpawnedOK' /\ SidecarsAreTracked'
  BY <1>2, <1>3 DEF SupervisorInv, SpawnedOK, SidecarsAreTracked
<1>5. NoDoubleKill'
  <2>1. \A d \in Cmds : cmd[d].taken \subseteq Taken
    BY DEF Taken
  <2>2. SUFFICES ASSUME NEW x \in Cmds, NEW y \in Cmds, x # y
                 PROVE  cmd'[x].taken \cap cmd'[y].taken \cap Sidecar = {}
    BY <1>2 DEF NoDoubleKill
  <2>3. CASE x = c
    <3>1. cmd'[x].taken = supervisor /\ cmd'[y].taken \subseteq Taken
      <4>1. y \in Cmds \ {c}
        BY <2>2, <2>3
      <4>2. cmd'[y].taken = cmd[y].taken
        BY <1>2, <4>1
      <4>3. QED
        BY <1>2, <2>1, <2>3, <4>2
    <3>2. QED
      BY <3>1 DEF SupervisorInv, NoDoubleKill
  <2>4. CASE y = c
    <3>1. cmd'[y].taken = supervisor /\ cmd'[x].taken \subseteq Taken
      <4>1. x \in Cmds \ {c}
        BY <2>2, <2>4
      <4>2. cmd'[x].taken = cmd[x].taken
        BY <1>2, <4>1
      <4>3. QED
        BY <1>2, <2>1, <2>4, <4>2
    <3>2. QED
      BY <3>1 DEF SupervisorInv, NoDoubleKill
  <2>5. CASE x # c /\ y # c
    BY <1>2, <2>2, <2>5 DEF SupervisorInv, NoDoubleKill
  <2>6. QED
    BY <2>3, <2>4, <2>5
<1>6. QED
  BY <1>4, <1>5 DEF SupervisorInv

\* Killing one of them keeps the others apart.
LEMMA KillSupervisorInv ==
  ASSUME TypeInv, SupervisorInv, NEW c \in Cmds, ShutDown(c) PROVE SupervisorInv'
<1> PICK p \in cmd[c].taken : /\ Down(p) \/ StaysUp(p)
                              /\ cmd' = [cmd EXCEPT ![c].taken = @ \ {p}]
  BY DEF ShutDown
<1>a. p \in Managed
  BY CommandTyped DEF Command
<1>b. alive' \subseteq (alive \ {p}) \cup loose' /\ loose \ {p} \subseteq loose'
  BY <1>a, Attempted
<1>1. /\ supervisor' = supervisor /\ spawned' = spawned
      /\ cmd'[c].taken = cmd[c].taken \ {p}
      /\ \A d \in Cmds \ {c} : cmd'[d].taken = cmd[d].taken
  BY DEF ShutDown, TypeInv, TypeOK, Command
<1>2. \A d \in Cmds : cmd'[d].taken \subseteq cmd[d].taken
  BY <1>1
<1>3. Taken' \subseteq Taken /\ Taken \subseteq Taken' \cup {p}
  BY <1>1, <1>2 DEF Taken
<1>4. SpawnedOK' /\ SidecarsAreTracked'
  BY <1>1, <1>3, <1>b DEF SupervisorInv, SpawnedOK, SidecarsAreTracked
<1>5. NoDoubleKill'
  BY <1>1, <1>2, <1>3 DEF SupervisorInv, NoDoubleKill
<1>6. QED
  BY <1>4, <1>5 DEF SupervisorInv

\* The end of the app, by its exit hook or by force: all that still runs is on
\* record as left behind.
LEMMA ForgetSupervisorInv ==
  ASSUME Forget, loose' = alive' PROVE SupervisorInv'
<1>1. supervisor' = {} /\ Taken' = {}
  BY DEF Forget, Taken, Idle
<1>2. QED
  BY <1>1 DEF Forget, Idle, SupervisorInv, SpawnedOK, SidecarsAreTracked, NoDoubleKill

\* The inductive invariant of the supervisor, for commands of every kind.
LEMMA SupervisorInvariant == Spec => []SupervisorInv
<1>1. Init => SupervisorInv
  BY DEF Init, Idle, SupervisorInv, SpawnedOK, SidecarsAreTracked, NoDoubleKill, Taken
<1>2. TypeInv /\ SupervisorInv /\ [Next]_vars => SupervisorInv'
  <2> SUFFICES ASSUME TypeInv, SupervisorInv, [Next]_vars PROVE SupervisorInv'
    OBVIOUS
  <2>1. CASE UNCHANGED vars
    BY <2>1, QuietSupervisorInv DEF vars, processVars
  <2>2. ASSUME NEW c \in Cmds, Invocation(c) PROVE SupervisorInv'
    <3>1. \A d \in Cmds : cmd'[d].taken = cmd[d].taken
      <4>1. cmd[c].taken = {} /\ \E e, pc, then : Invoke(c, e, pc, then)
        BY <2>2 DEF Invocation, Start, Stop, OpenNotebook, Exit, At, TypeInv, CommandsOK
      <4>2. QED
        BY <4>1, TakenKept
    <3>2. QED
      BY <2>2, <3>1, QuietSupervisorInv DEF Invocation, Start, Stop, OpenNotebook, Exit, processVars
  <2>3. ASSUME NEW c \in Cmds, Teardown(c) PROVE SupervisorInv'
    <3>1. CASE AllDown(c) \/ Reset(c) \/ Clear(c)
      <4>1. cmd[c].taken = {}
        BY <3>1 DEF AllDown, Reset, Clear, At, TypeInv, CommandsOK
      <4>2. \A d \in Cmds : cmd'[d].taken = cmd[d].taken
        <5>1. Done(c) \/ \E pc : Goto(c, pc)
          BY <3>1 DEF AllDown, Reset, Clear
        <5>2. QED
          BY <4>1, <5>1, TakenKept
      <4>3. QED
        BY <3>1, <4>2, QuietSupervisorInv DEF AllDown, Reset, Clear, processVars
    <3>2. CASE Quit(c)
      BY <3>2, ForgetSupervisorInv DEF Quit, processVars
    <3>3. QED
      BY <2>3, <3>1, <3>2, TakeSupervisorInv, KillSupervisorInv DEF Teardown
  <2>4. ASSUME NEW c \in Cmds, Starting(c) \/ Opening(c) PROVE SupervisorInv'
    <3>1. cmd[c].taken = {} /\ (cmd[c].pc = "track" => cmd[c].env \in Envs)
      BY <2>4 DEF Starting, Opening, SpawnUc, Announce, EnsureTelemetry, Reconcile, TrackProject,
         ComposeUp, Activate, Describe, EnsureMarimo, Scrape, At, TypeInv, CommandsOK
    <3>2. \A d \in Cmds : cmd'[d].taken = cmd[d].taken
      <4>1. CASE GiveUp(c) \/ SpawnUc(c) \/ EnsureMarimo(c) \/ Scrape(c)
        <5>1. Done(c) \/ \E pc, p : cmd' = [cmd EXCEPT ![c].pc = pc, ![c].child = p]
          BY <4>1 DEF GiveUp, SpawnUc, EnsureMarimo, Scrape
        <5>2. QED
          BY <3>1, <5>1, TakenKept
      <4>2. CASE \/ Announce(c) \/ EnsureTelemetry(c) \/ Reconcile(c) \/ TrackProject(c)
                 \/ ComposeUp(c) \/ Activate(c)
        <5>1. Done(c) \/ (\E pc : Goto(c, pc)) \/ (\E then : TearDown(c, then))
          BY <4>2 DEF Announce, EnsureTelemetry, Reconcile, TrackProject, ComposeUp, Activate, GiveUp
        <5>2. QED
          BY <3>1, <5>1, TakenKept
      <4>3. QED
        BY <2>4, <4>1, <4>2 DEF Starting, Opening, Describe
    <3>3. CASE TrackProject(c)
      BY <3>1, <3>2, <3>3, TrackSupervisorInv DEF TrackProject, At, processVars
    <3>4. CASE \E label \in {"uc", "marimo"} : Spawn(c, label) /\ loose' = loose
      BY <3>2, <3>4, SpawnSupervisorInv
    <3>5. CASE \/ GiveUp(c) \/ Announce(c) \/ EnsureTelemetry(c) \/ Reconcile(c) \/ ComposeUp(c)
               \/ Activate(c) \/ Scrape(c)
      <4>1. cmd[c].pc \in {"reconcile", "up"} => cmd[c].env \notin Sidecar
        BY ConstantsOK DEF TypeInv, CommandsOK
      <4>2. supervisor' = supervisor /\ spawned' = spawned
        BY <3>5 DEF GiveUp, Announce, EnsureTelemetry, Reconcile, ComposeUp, Activate, Scrape, processVars
      <4>3. alive' \cap Sidecar \subseteq alive /\ alive \cap loose \cap Sidecar \subseteq loose'
        BY <3>5, <4>1 DEF GiveUp, Announce, EnsureTelemetry, Reconcile, Down, StaysUp, ComposeUp,
           Activate, Scrape, At, processVars
      <4>4. QED
        BY <3>2, <4>2, <4>3, QuietSupervisorInv
    <3>6. QED
      BY <2>4, <3>3, <3>4, <3>5 DEF Starting, Opening, SpawnUc, EnsureMarimo, Describe
  <2>5. CASE ForceQuit
    BY <2>5, ForgetSupervisorInv DEF ForceQuit
  <2>6. QED
    BY <2>1, <2>2, <2>3, <2>4, <2>5 DEF Next
<1>3. QED
  BY <1>1, <1>2, TypeCorrect, PTL DEF Spec

\* Whatever commands interleave, every running sidecar is reached by the next
\* teardown or was left behind by the end of the app or a kill that failed, and
\* no two teardowns ever kill the same one.
THEOREM TrackedOnceHolds == Spec => []TrackedOnce
<1>1. SupervisorInv => TrackedOnce
  BY DEF SupervisorInv, TrackedOnce
<1>2. QED
  BY <1>1, SupervisorInvariant, PTL

-----------------------------------------------------------------------------
(* EnvHost implements HostCalls                                             *)

\* The points only a start, or only a stop, gets to.
PhasesOK ==
  \A c \in Cmds :
    /\ cmd[c].pc \in {"spawn", "announce", "telemetry", "reconcile", "track", "up", "activate"}
         => cmd[c].then = "spawn"
    /\ cmd[c].pc = "clear" => cmd[c].then = "clear"

\* A command of which only the place it got to changes.
LEMMA GotoFields ==
  ASSUME NEW x \in Command, NEW v
  PROVE  LET y == [x EXCEPT !.pc = v] IN y.pc = v /\ y.then = x.then /\ y.env = x.env
  BY DEF Command

\* Only starts and stops get to those points.
LEMMA PhasesInvariant == Spec => []PhasesOK
<1>1. Init => PhasesOK
  BY DEF Init, PhasesOK, Idle
<1>2. TypeInv /\ PhasesOK /\ [Next]_vars => PhasesOK'
  <2> SUFFICES ASSUME TypeInv, PhasesOK, [Next]_vars PROVE PhasesOK'
    OBVIOUS
  <2>0. cmd \in [Cmds -> Command]
    BY DEF TypeInv, TypeOK
  <2>1. CASE UNCHANGED vars
    BY <2>1 DEF vars, PhasesOK
  <2>2. ASSUME NEW c \in Cmds, NEW x, cmd' = [cmd EXCEPT ![c] = x],
               x.pc \in {"spawn", "announce", "telemetry", "reconcile", "track", "up", "activate"}
                 => x.then = "spawn",
               x.pc = "clear" => x.then = "clear"
        PROVE  PhasesOK'
    BY <2>0, <2>2 DEF PhasesOK
  <2>3. ASSUME NEW c \in Cmds, Done(c) PROVE PhasesOK'
    BY <2>2, <2>3 DEF Done, Idle
  <2>4. ASSUME NEW c \in Cmds, NEW pc, Goto(c, pc),
               \/ pc \in {"reset", "describe"}
               \/ pc = "clear" /\ cmd[c].then = "clear"
               \/ pc # "clear" /\ cmd[c].then = "spawn"
        PROVE  PhasesOK'
    <3> DEFINE moved == [cmd[c] EXCEPT !.pc = pc]
    <3>1. moved.pc = pc /\ moved.then = cmd[c].then
      BY <2>0, GotoFields
    <3>2. cmd' = [cmd EXCEPT ![c] = moved]
      BY <2>0, <2>4 DEF Goto
    <3> HIDE DEF moved
    <3>3. QED
      BY <2>2, <2>4, <3>1, <3>2
  <2>5. ASSUME NEW c \in Cmds, TearDown(c, "fail") PROVE PhasesOK'
    <3> DEFINE moved == [cmd[c] EXCEPT !.pc = "take", !.then = "fail"]
    <3>1. moved.pc = "take"
      BY <2>0 DEF Command
    <3>2. cmd' = [cmd EXCEPT ![c] = moved]
      BY <2>0, <2>5 DEF TearDown
    <3> HIDE DEF moved
    <3>3. QED
      BY <2>2, <3>1, <3>2
  <2>6. ASSUME NEW c \in Cmds, Invocation(c) PROVE PhasesOK'
    <3>1. ASSUME NEW e, NEW pc \in {"take", "describe", "ensure"}, NEW then, Invoke(c, e, pc, then)
          PROVE  PhasesOK'
      <4> DEFINE moved == [Idle EXCEPT !.env = e, !.pc = pc, !.then = then]
      <4>1. moved.pc \in {"take", "describe", "ensure"}
        BY DEF Idle
      <4>2. cmd' = [cmd EXCEPT ![c] = moved]
        BY <3>1 DEF Invoke
      <4> HIDE DEF moved
      <4>3. QED
        BY <2>2, <4>1, <4>2
    <3>2. QED
      BY <2>6, <3>1 DEF Invocation, Start, Stop, OpenNotebook, Exit
  <2>7. ASSUME NEW c \in Cmds, Teardown(c) PROVE PhasesOK'
    <3>1. CASE TakeAll(c)
      <4>1. cmd'[c].pc = "kill" /\ \A d \in Cmds \ {c} : cmd'[d] = cmd[d]
        BY <2>0, <3>1 DEF TakeAll, Command
      <4>2. QED
        BY <4>1 DEF PhasesOK
    <3>2. CASE ShutDown(c)
      <4>1. cmd'[c].pc = "kill" /\ \A d \in Cmds \ {c} : cmd'[d] = cmd[d]
        BY <2>0, <3>2 DEF ShutDown, At, Command
      <4>2. QED
        BY <4>1 DEF PhasesOK
    <3>3. CASE AllDown(c) \/ Clear(c)
      BY <2>3, <2>4, <3>3 DEF AllDown, Clear
    <3>4. CASE Quit(c)
      BY <3>4 DEF Quit, Forget, Idle, PhasesOK
    <3>5. CASE Reset(c)
      <4>1. cmd[c].then \in {"spawn", "clear"}
        BY <3>5 DEF Reset, At, TypeInv, CommandsOK
      <4>2. QED
        BY <2>4, <3>5, <4>1 DEF Reset
    <3>6. QED
      BY <2>7, <3>1, <3>2, <3>3, <3>4, <3>5 DEF Teardown
  <2>8. ASSUME NEW c \in Cmds, Starting(c) \/ Opening(c) PROVE PhasesOK'
    <3>1. ASSUME NEW pc \in {"announce", "scrape"}, NEW p,
                 cmd' = [cmd EXCEPT ![c].pc = pc, ![c].child = p],
                 pc = "announce" => cmd[c].then = "spawn"
          PROVE  PhasesOK'
      <4> DEFINE moved == [cmd[c] EXCEPT !.pc = pc, !.child = p]
      <4>1. moved.pc = pc /\ moved.then = cmd[c].then
        BY <2>0 DEF Command
      <4>2. cmd' = [cmd EXCEPT ![c] = moved]
        BY <2>0, <3>1
      <4> HIDE DEF moved
      <4>3. QED
        BY <2>2, <3>1, <4>1, <4>2
    <3>2. CASE SpawnUc(c)
      BY <2>3, <3>1, <3>2 DEF SpawnUc, GiveUp, At, PhasesOK
    <3>3. CASE EnsureMarimo(c) \/ Scrape(c) \/ Describe(c)
      BY <2>3, <3>1, <3>3 DEF EnsureMarimo, Scrape, Describe, GiveUp
    <3>4. CASE Announce(c) \/ EnsureTelemetry(c)
      <4>1. cmd[c].then = "spawn"
        BY <3>4 DEF Announce, EnsureTelemetry, At, PhasesOK
      <4>2. AfterUc(cmd[c].env) # "clear"
        BY DEF AfterUc
      <4>3. QED
        BY <2>3, <2>4, <2>5, <3>4, <4>1, <4>2 DEF Announce, EnsureTelemetry
    <3>5. CASE Reconcile(c) \/ TrackProject(c) \/ ComposeUp(c) \/ Activate(c)
      <4>1. cmd[c].then = "spawn"
        BY <3>5 DEF Reconcile, TrackProject, ComposeUp, Activate, At, PhasesOK
      <4>2. Done(c) \/ TearDown(c, "fail")
            \/ \E pc \in {"track", "up", "activate", "describe"} : Goto(c, pc)
        BY <3>5 DEF Reconcile, TrackProject, ComposeUp, Activate, GiveUp
      <4>3. QED
        BY <2>3, <2>4, <2>5, <4>1, <4>2
    <3>6. QED
      BY <2>8, <3>2, <3>3, <3>4, <3>5 DEF Starting, Opening
  <2>9. CASE ForceQuit
    BY <2>9 DEF ForceQuit, Forget, Idle, PhasesOK
  <2>10. QED
    BY <2>1, <2>6, <2>7, <2>8, <2>9 DEF Next
<1>3. QED
  BY <1>1, <1>2, TypeCorrect, PTL DEF Spec


\* The call a command stands for moves with it.
LEMMA CallMoves ==
  ASSUME TypeInv, NEW c \in Cmds, NEW x, cmd' = [cmd EXCEPT ![c] = x]
  PROVE  [d \in Cmds |-> CallOf(cmd[d])]' =
           [[d \in Cmds |-> CallOf(cmd[d])] EXCEPT ![c] = CallOf(x)]
  BY DEF TypeInv, TypeOK

\* A command that stays in its phase is a step the caller does not see.
LEMMA SamePhase ==
  ASSUME TypeInv, NEW c \in Cmds, NEW x, cmd' = [cmd EXCEPT ![c] = x],
         x.env = cmd[c].env \/ Phase(x) = "idle", Phase(x) = Phase(cmd[c]),
         active' = active
  PROVE  UNCHANGED Lifecycle!hostVars
<1>1. CallOf(x) = CallOf(cmd[c])
  BY DEF CallOf
<1>2. QED
  BY <1>1, CallMoves DEF Lifecycle!hostVars

\* The end of a command is the end of its call.
LEMMA CallEnds ==
  ASSUME TypeInv, NEW c \in Cmds, Done(c) PROVE Lifecycle!Ends(c)
<1>1. CallOf(Idle) = Lifecycle!IdleCall
  BY DEF CallOf, Phase, Idle, Lifecycle!IdleCall
<1>2. QED
  BY <1>1, CallMoves DEF Done, Lifecycle!Ends

\* Each invocation begins a call, or is none of the caller's.
LEMMA InvocationImplements ==
  ASSUME TypeInv, NEW c \in Cmds, Invocation(c)
  PROVE  Lifecycle!HostNext \/ UNCHANGED Lifecycle!hostVars
<1>1. ASSUME NEW e, NEW pc, NEW then, Invoke(c, e, pc, then), cmd[c].pc = "idle"
      PROVE  \E x : /\ x.env = e /\ x.pc = pc /\ x.then = then
                    /\ cmd' = [cmd EXCEPT ![c] = x]
                    /\ Phase(cmd[c]) = "idle" /\ CallOf(cmd[c]).pc = "idle"
  <2> DEFINE x == [Idle EXCEPT !.env = e, !.pc = pc, !.then = then]
  <2>1. x.env = e /\ x.pc = pc /\ x.then = then
    BY DEF Idle
  <2>2. cmd' = [cmd EXCEPT ![c] = x]
    BY <1>1 DEF Invoke
  <2> HIDE DEF x
  <2>3. Phase(cmd[c]) = "idle" /\ CallOf(cmd[c]).pc = "idle"
    BY <1>1 DEF Phase, CallOf
  <2>4. QED
    BY <2>1, <2>2, <2>3
<1>2. ASSUME NEW e \in Envs, Start(c, e) PROVE Lifecycle!HostNext
  <2> DEFINE pc == IF active.env = e THEN "describe" ELSE "take"
             then == IF active.env = e THEN "none" ELSE "spawn"
  <2>1. Invoke(c, e, pc, then) /\ active' = active /\ cmd[c].pc = "idle"
    BY <1>2 DEF Start, At
  <2>2. PICK x : /\ x.env = e /\ x.pc = pc /\ x.then = then
                 /\ cmd' = [cmd EXCEPT ![c] = x] /\ CallOf(cmd[c]).pc = "idle"
    BY <1>1, <2>1
  <2>3. CallOf(x) = [env |-> e, pc |-> IF active.env = e THEN "answering" ELSE "starting"]
    BY <2>2 DEF CallOf, Phase
  <2>4. [d \in Cmds |-> CallOf(cmd[d])]' =
          [[d \in Cmds |-> CallOf(cmd[d])] EXCEPT ![c] = CallOf(x)]
    BY <2>2, CallMoves
  <2>5. Lifecycle!BeginStart(c, e)
    BY <2>1, <2>2, <2>3, <2>4 DEF Lifecycle!BeginStart
  <2>6. QED
    BY <2>5 DEF Lifecycle!HostNext
<1>3. ASSUME NEW e \in Envs, Stop(c, e) PROVE Lifecycle!HostNext
  <2>1. Invoke(c, e, "take", "clear") /\ active' = active /\ cmd[c].pc = "idle" /\ active.env = e
    BY <1>3 DEF Stop, At
  <2>2. PICK x : /\ x.env = e /\ x.pc = "take" /\ x.then = "clear"
                 /\ cmd' = [cmd EXCEPT ![c] = x] /\ CallOf(cmd[c]).pc = "idle"
    BY <1>1, <2>1
  <2>3. CallOf(x) = [env |-> e, pc |-> "stopping"]
    BY <2>2 DEF CallOf, Phase
  <2>4. [d \in Cmds |-> CallOf(cmd[d])]' =
          [[d \in Cmds |-> CallOf(cmd[d])] EXCEPT ![c] = CallOf(x)]
    BY <2>2, CallMoves
  <2>5. Lifecycle!BeginStop(c, e)
    BY <2>1, <2>2, <2>3, <2>4 DEF Lifecycle!BeginStop
  <2>6. QED
    BY <2>5 DEF Lifecycle!HostNext
<1>4. ASSUME NEW e, NEW pc, NEW then, Invoke(c, e, pc, then), cmd[c].pc = "idle",
             active' = active, pc = "ensure" \/ then = "quit"
      PROVE  UNCHANGED Lifecycle!hostVars
  <2>1. PICK x : /\ x.pc = pc /\ x.then = then
                 /\ cmd' = [cmd EXCEPT ![c] = x] /\ Phase(cmd[c]) = "idle"
    BY <1>1, <1>4
  <2>2. Phase(x) = "idle"
    BY <1>4, <2>1 DEF Phase
  <2>3. QED
    BY <1>4, <2>1, <2>2, SamePhase
<1>5. CASE OpenNotebook(c) \/ Exit(c)
  BY <1>4, <1>5 DEF OpenNotebook, Exit, At
<1>6. QED
  BY <1>2, <1>3, <1>5 DEF Invocation


\* A command that goes on to another point of its phase.
LEMMA GotoSamePhase ==
  ASSUME TypeInv, NEW c \in Cmds, NEW pc, Goto(c, pc), active' = active,
         \A y : y.pc = pc /\ y.then = cmd[c].then => Phase(y) = Phase(cmd[c])
  PROVE  UNCHANGED Lifecycle!hostVars
<1> DEFINE y == [cmd[c] EXCEPT !.pc = pc]
<1>1. y.pc = pc /\ y.then = cmd[c].then /\ y.env = cmd[c].env
  BY GotoFields DEF TypeInv, TypeOK
<1>2. cmd' = [cmd EXCEPT ![c] = y]
  BY DEF Goto, TypeInv, TypeOK
<1> HIDE DEF y
<1>3. QED
  BY <1>1, <1>2, SamePhase

\* A command of a start that turns to the teardown has yet to fail.
LEMMA TearDownSamePhase ==
  ASSUME TypeInv, NEW c \in Cmds, TearDown(c, "fail"), active' = active,
         Phase(cmd[c]) = "starting"
  PROVE  UNCHANGED Lifecycle!hostVars
<1> DEFINE y == [cmd[c] EXCEPT !.pc = "take", !.then = "fail"]
<1>1. y.pc = "take" /\ y.then = "fail" /\ y.env = cmd[c].env
  BY DEF TypeInv, TypeOK, Command
<1>2. cmd' = [cmd EXCEPT ![c] = y]
  BY DEF TearDown, TypeInv, TypeOK
<1> HIDE DEF y
<1>3. Phase(y) = "starting"
  BY <1>1 DEF Phase
<1>4. QED
  BY <1>1, <1>2, <1>3, SamePhase

\* A start that ends before it is active has failed.
LEMMA DoneFails ==
  ASSUME TypeInv, NEW c \in Cmds, Done(c), active' = active, Phase(cmd[c]) = "starting"
  PROVE  Lifecycle!HostNext
<1>1. Lifecycle!Ends(c)
  BY CallEnds
<1>2. [d \in Cmds |-> CallOf(cmd[d])][c].pc = "starting"
  BY DEF CallOf
<1>3. Lifecycle!FailStart(c)
  BY <1>1, <1>2 DEF Lifecycle!FailStart
<1>4. QED
  BY <1>3 DEF Lifecycle!HostNext

\* The app ends for the UI as for the host.
LEMMA ForgetLoses ==
  ASSUME Forget PROVE Lifecycle!HostNext
<1>1. [d \in Cmds |-> CallOf(cmd[d])]' = [d \in Cmds |-> Lifecycle!IdleCall]
  BY DEF Forget, CallOf, Phase, Idle, Lifecycle!IdleCall
<1>2. active'.env = None
  BY DEF Forget, NoActive
<1>3. QED
  BY <1>1, <1>2 DEF Lifecycle!HostNext, Lifecycle!Lose

\* The steps of a teardown: all but the last are hidden from the caller.
LEMMA TeardownImplements ==
  ASSUME TypeInv, PhasesOK, NEW c \in Cmds, Teardown(c)
  PROVE  Lifecycle!HostNext \/ UNCHANGED Lifecycle!hostVars
<1>1. CASE TakeAll(c)
  <2> DEFINE y == [cmd[c] EXCEPT !.pc = "kill", !.taken = supervisor]
  <2>1. y.pc = "kill" /\ y.then = cmd[c].then /\ y.env = cmd[c].env
    BY DEF TypeInv, TypeOK, Command
  <2>2. cmd' = [cmd EXCEPT ![c] = y] /\ active' = active /\ cmd[c].pc = "take"
    BY <1>1 DEF TakeAll, At, TypeInv, TypeOK
  <2> HIDE DEF y
  <2>3. Phase(y) = Phase(cmd[c])
    BY <2>1, <2>2 DEF Phase
  <2>4. QED
    BY <2>1, <2>2, <2>3, SamePhase
<1>2. CASE ShutDown(c)
  <2> PICK p \in cmd[c].taken : cmd' = [cmd EXCEPT ![c].taken = @ \ {p}]
    BY <1>2 DEF ShutDown
  <2> DEFINE y == [cmd[c] EXCEPT !.taken = @ \ {p}]
  <2>1. y.pc = cmd[c].pc /\ y.then = cmd[c].then /\ y.env = cmd[c].env
    BY DEF TypeInv, TypeOK, Command
  <2>2. cmd' = [cmd EXCEPT ![c] = y] /\ active' = active
    BY <1>2 DEF ShutDown, TypeInv, TypeOK
  <2> HIDE DEF y
  <2>3. Phase(y) = Phase(cmd[c])
    BY <2>1 DEF Phase
  <2>4. QED
    BY <2>1, <2>2, <2>3, SamePhase
<1>3. CASE AllDown(c)
  <2>1. cmd[c].pc = "kill" /\ cmd[c].then # "quit" /\ active' = active
    BY <1>3 DEF AllDown, At
  <2>2. CASE cmd[c].then = "fail"
    <3>1. Phase(cmd[c]) = "starting"
      BY <2>1, <2>2 DEF Phase
    <3>2. QED
      BY <1>3, <2>1, <2>2, <3>1, DoneFails DEF AllDown
  <2>3. CASE cmd[c].then # "fail"
    <3>1. \A y : y.pc = "reset" /\ y.then = cmd[c].then => Phase(y) = Phase(cmd[c])
      BY <2>1 DEF Phase
    <3>2. QED
      BY <1>3, <2>1, <2>3, <3>1, GotoSamePhase DEF AllDown
  <2>4. QED
    BY <2>2, <2>3
<1>4. CASE Quit(c)
  BY <1>4, ForgetLoses DEF Quit
<1>5. CASE Reset(c)
  <2>1. cmd[c].pc = "reset" /\ cmd[c].then \in {"spawn", "clear"} /\ active' = active
    BY <1>5 DEF Reset, At, TypeInv, CommandsOK
  <2>2. \A y : y.pc = cmd[c].then /\ y.then = cmd[c].then => Phase(y) = Phase(cmd[c])
    BY <2>1 DEF Phase
  <2>3. QED
    BY <1>5, <2>1, <2>2, GotoSamePhase DEF Reset
<1>6. CASE Clear(c)
  <2>1. Phase(cmd[c]) = "stopping"
    BY <1>6 DEF Clear, At, PhasesOK, Phase
  <2>2. [d \in Cmds |-> CallOf(cmd[d])][c].pc = "stopping"
    BY <2>1 DEF CallOf
  <2>3. Lifecycle!Ends(c) /\ active'.env = None
    BY <1>6, CallEnds DEF Clear, NoActive
  <2>4. Lifecycle!Deactivated(c)
    BY <2>2, <2>3 DEF Lifecycle!Deactivated
  <2>5. QED
    BY <2>4 DEF Lifecycle!HostNext
<1>7. QED
  BY <1>1, <1>2, <1>3, <1>4, <1>5, <1>6 DEF Teardown

\* The steps of a start, and those of a notebook's opening, which no caller of a
\* lifecycle command sees.
LEMMA ProgressImplements ==
  ASSUME TypeInv, PhasesOK, NEW c \in Cmds, Starting(c) \/ Opening(c)
  PROVE  Lifecycle!HostNext \/ UNCHANGED Lifecycle!hostVars
<1>1. CASE EnsureMarimo(c) \/ Scrape(c)
  <2>1. Phase(cmd[c]) = "idle" /\ active' = active
    BY <1>1 DEF EnsureMarimo, GiveUp, Scrape, At, Phase
  <2>2. CASE Done(c)
    <3>1. Phase(Idle) = "idle"
      BY DEF Phase, Idle
    <3>2. QED
      BY <2>1, <2>2, <3>1, SamePhase DEF Done
  <2>3. CASE cmd' = [cmd EXCEPT ![c].pc = "scrape", ![c].child = spawned + 1]
    <3> DEFINE y == [cmd[c] EXCEPT !.pc = "scrape", !.child = spawned + 1]
    <3>1. y.pc = "scrape" /\ y.env = cmd[c].env
      BY DEF TypeInv, TypeOK, Command
    <3>2. cmd' = [cmd EXCEPT ![c] = y]
      BY <2>3 DEF TypeInv, TypeOK
    <3> HIDE DEF y
    <3>3. Phase(y) = "idle"
      BY <3>1 DEF Phase
    <3>4. QED
      BY <2>1, <3>1, <3>2, <3>3, SamePhase
  <2>4. QED
    BY <1>1, <2>2, <2>3 DEF EnsureMarimo, GiveUp, Scrape
<1>2. CASE \/ SpawnUc(c) \/ Announce(c) \/ EnsureTelemetry(c) \/ Reconcile(c)
           \/ TrackProject(c) \/ ComposeUp(c) \/ Activate(c)
  <2>1. Phase(cmd[c]) = "starting" /\ cmd[c].then = "spawn"
    BY <1>2 DEF SpawnUc, Announce, EnsureTelemetry, Reconcile, TrackProject, ComposeUp,
       Activate, At, PhasesOK, Phase
  <2>2. CASE Activate(c) /\ ~GiveUp(c)
    <3>1. active'.env = cmd[c].env /\ Goto(c, "describe")
      BY <2>2 DEF Activate
    <3> DEFINE y == [cmd[c] EXCEPT !.pc = "describe"]
    <3>2. y.pc = "describe" /\ y.then = cmd[c].then /\ y.env = cmd[c].env
      BY GotoFields DEF TypeInv, TypeOK
    <3>3. cmd' = [cmd EXCEPT ![c] = y]
      BY <3>1 DEF Goto, TypeInv, TypeOK
    <3> HIDE DEF y
    <3>4. CallOf(y) = [CallOf(cmd[c]) EXCEPT !.pc = "answering"]
      BY <2>1, <3>2 DEF CallOf, Phase
    <3>5. [d \in Cmds |-> CallOf(cmd[d])]' =
            [[d \in Cmds |-> CallOf(cmd[d])] EXCEPT ![c] = CallOf(y)]
      BY <3>3, CallMoves
    <3>6. [d \in Cmds |-> CallOf(cmd[d])][c] = CallOf(cmd[c])
      OBVIOUS
    <3>7. CallOf(cmd[c]).pc = "starting" /\ CallOf(cmd[c]).env = cmd[c].env
      BY <2>1 DEF CallOf
    <3>8. Lifecycle!Activated(c)
      BY <3>1, <3>4, <3>5, <3>6, <3>7 DEF Lifecycle!Activated, Lifecycle!Reaches
    <3>9. QED
      BY <3>8 DEF Lifecycle!HostNext
  <2>3. CASE ~(Activate(c) /\ ~GiveUp(c))
    <3>1. active' = active
      BY <1>2, <2>3 DEF SpawnUc, Announce, EnsureTelemetry, Reconcile, TrackProject, ComposeUp,
         GiveUp
    <3>2. CASE Done(c)
      BY <2>1, <3>1, <3>2, DoneFails
    <3>3. CASE TearDown(c, "fail")
      BY <2>1, <3>1, <3>3, TearDownSamePhase
    <3>4. ASSUME NEW pc \in {"announce", "telemetry", "reconcile", "track", "up", "activate"},
                 NEW y, y.pc = pc, y.then = cmd[c].then
          PROVE  Phase(y) = Phase(cmd[c])
      BY <2>1, <3>4 DEF Phase
    <3>5. CASE \E pc \in {"announce", "telemetry", "reconcile", "track", "up", "activate"} : Goto(c, pc)
      BY <3>1, <3>4, <3>5, GotoSamePhase
    <3>6. CASE cmd' = [cmd EXCEPT ![c].pc = "announce", ![c].child = spawned + 1]
      <4> DEFINE y == [cmd[c] EXCEPT !.pc = "announce", !.child = spawned + 1]
      <4>1. y.pc = "announce" /\ y.then = cmd[c].then /\ y.env = cmd[c].env
        BY DEF TypeInv, TypeOK, Command
      <4>2. cmd' = [cmd EXCEPT ![c] = y]
        BY <3>6 DEF TypeInv, TypeOK
      <4> HIDE DEF y
      <4>3. QED
        BY <3>1, <3>4, <4>1, <4>2, SamePhase
    <3>7. QED
      BY <1>2, <2>3, <3>2, <3>3, <3>5, <3>6 DEF SpawnUc, Announce, AfterUc, EnsureTelemetry,
         Reconcile, TrackProject, ComposeUp, GiveUp
  <2>4. QED
    BY <2>2, <2>3
<1>3. CASE Describe(c)
  <2>1. Lifecycle!Ends(c) /\ active' = active
    BY <1>3, CallEnds DEF Describe, GiveUp
  <2>2. CASE cmd[c].then = "quit"
    BY <1>3, <2>2 DEF Describe, At, TypeInv, CommandsOK
  <2>3. CASE cmd[c].then # "quit"
    <3>1. [d \in Cmds |-> CallOf(cmd[d])][c].pc = "answering"
      BY <1>3, <2>3 DEF Describe, At, CallOf, Phase
    <3>2. Lifecycle!Answer(c)
      BY <2>1, <3>1 DEF Lifecycle!Answer
    <3>3. QED
      BY <3>2 DEF Lifecycle!HostNext
  <2>4. QED
    BY <2>2, <2>3
<1>4. QED
  BY <1>1, <1>2, <1>3 DEF Starting, Opening

\* Starting and stopping environments look to the UI as HostCalls says, whatever
\* happens to the processes.
THEOREM HostCallsImplemented == Spec => ImplementsHostCalls
<1>1. Init => Lifecycle!HostInit
  BY DEF Init, Lifecycle!HostInit, Lifecycle!IdleCall, CallOf, Phase, Idle, NoActive
<1>2. TypeInv /\ PhasesOK /\ [Next]_vars => [Lifecycle!HostNext]_(Lifecycle!hostVars)
  <2>1. CASE UNCHANGED vars
    BY <2>1 DEF vars, Lifecycle!hostVars
  <2>2. CASE ForceQuit
    BY <2>2, ForgetLoses DEF ForceQuit
  <2>3. QED
    BY <2>1, <2>2, InvocationImplements, TeardownImplements, ProgressImplements DEF Next
<1>3. QED
  BY <1>1, <1>2, TypeCorrect, PhasesInvariant, PTL DEF Spec, ImplementsHostCalls, Lifecycle!HostSpec

-----------------------------------------------------------------------------
(* One command at a time                                                    *)

\* The points of a start at which its server is up.
Launching == {"announce", "telemetry", "reconcile", "track", "up", "activate"}

\* What a command that has the host to itself has established: the old environment's set and its
\* notebook server are gone before the new server is spawned, and what was spawned and brought up
\* since is the new environment's, tracked and running, whatever of the old ones could not be ended.
Stage(x) ==
  /\ x.pc \in {"kill", "reset", "spawn", "clear"} => supervisor = {}
  /\ x.pc \in Launching \cup {"spawn"} => marimo = None
  /\ x.pc \in Launching =>
       /\ \A m \in supervisor, e \in Envs : Serves(m, e) => e = x.env
       /\ x.child \in 1..spawned /\ x.child \in alive \cap supervisor
       /\ of[x.child] = [env |-> x.env, label |-> "uc"]
  /\ x.pc = "activate" /\ x.env \in WithModules => x.env \in alive \cap supervisor
  /\ x.pc = "up" => x.env \in supervisor
  /\ x.pc \in {"ensure", "scrape"} => active.env = x.env
  /\ x.pc = "scrape" => x.child \in 1..spawned /\ of[x.child].env = x.env

\* The notebook server that is known was spawned for the active environment.
ServerOK ==
  marimo # None => marimo \in 1..spawned /\ (active.env # None => of[marimo].env = active.env)

OneSet == \A m, n \in supervisor, e, f \in Envs : Serves(m, e) /\ Serves(n, f) => e = f

OthersIdle(c) == \A d \in Cmds \ {c} : At(d, "idle")

AloneInv ==
  alone =>
    /\ \A c \in Cmds : ~At(c, "idle") => OthersIdle(c)
    /\ \A c \in Cmds : Stage(cmd[c])
    /\ ServerOK
    /\ OneSet
    /\ alive \subseteq supervisor \cup Taken \cup loose

\* What holds when only the command c may be under way.
LEMMA AloneNow ==
  ASSUME TypeInv, AloneInv, alone, NEW c \in Cmds, OthersIdle(c)
  PROVE  /\ Stage(cmd[c]) /\ ServerOK /\ OneSet
         /\ alive \subseteq supervisor \cup cmd[c].taken \cup loose
<1>1. \A d \in Cmds \ {c} : cmd[d].taken = {}
  BY DEF OthersIdle, At, TypeInv, CommandsOK
<1>2. Taken \subseteq cmd[c].taken
  BY <1>1 DEF Taken
<1>3. QED
  BY <1>2 DEF AloneInv

\* What is to be shown of a step of the command c.
LEMMA AloneNext ==
  ASSUME TypeInv, AloneInv, NEW c \in Cmds,
         \A d \in Cmds \ {c} : cmd'[d] = cmd[d],
         alone' => /\ OthersIdle(c) /\ Stage(cmd[c])' /\ ServerOK' /\ OneSet'
                   /\ alive' \subseteq supervisor' \cup cmd'[c].taken \cup loose'
  PROVE  AloneInv'
<1> SUFFICES ASSUME alone'
             PROVE  /\ \A d \in Cmds : cmd'[d].pc # "idle" => \A x \in Cmds \ {d} : cmd'[x].pc = "idle"
                    /\ \A d \in Cmds : Stage(cmd[d])'
                    /\ ServerOK' /\ OneSet'
                    /\ alive' \subseteq supervisor' \cup Taken' \cup loose'
  BY DEF AloneInv, OthersIdle, At
<1>1. \A d \in Cmds \ {c} : cmd'[d].pc = "idle"
  BY DEF OthersIdle, At
<1>2. ASSUME NEW d \in Cmds, d # c PROVE Stage(cmd[d])'
  BY <1>1, <1>2 DEF Stage, Launching
<1>3. cmd'[c].taken \subseteq Taken'
  BY DEF Taken
<1>4. QED
  BY <1>1, <1>2, <1>3

\* The parts of a command that a move leaves alone.
LEMMA MovedFields ==
  ASSUME NEW x \in Command, NEW v, NEW w
  PROVE  /\ LET y == [x EXCEPT !.pc = v] IN
              y.pc = v /\ y.env = x.env /\ y.taken = x.taken /\ y.child = x.child
         /\ LET y == [x EXCEPT !.pc = v, !.then = w] IN
              y.pc = v /\ y.env = x.env /\ y.taken = x.taken /\ y.child = x.child
         /\ LET y == [x EXCEPT !.pc = v, !.child = w] IN
              y.pc = v /\ y.env = x.env /\ y.taken = x.taken /\ y.child = w
         /\ LET y == [x EXCEPT !.pc = v, !.taken = w] IN
              y.pc = v /\ y.env = x.env /\ y.taken = w /\ y.child = x.child
         /\ LET y == [x EXCEPT !.taken = w] IN
              y.pc = x.pc /\ y.env = x.env /\ y.taken = w /\ y.child = x.child
  BY DEF Command

\* How a step of the command c leaves the commands.
LEMMA MovedCommands ==
  ASSUME TypeInv, NEW c \in Cmds
  PROVE  /\ \A v : Goto(c, v) =>
              /\ \A d \in Cmds \ {c} : cmd'[d] = cmd[d]
              /\ cmd'[c].pc = v /\ cmd'[c].env = cmd[c].env
              /\ cmd'[c].taken = cmd[c].taken /\ cmd'[c].child = cmd[c].child
         /\ \A v : TearDown(c, v) =>
              /\ \A d \in Cmds \ {c} : cmd'[d] = cmd[d]
              /\ cmd'[c].pc = "take" /\ cmd'[c].taken = cmd[c].taken
         /\ Done(c) =>
              /\ \A d \in Cmds \ {c} : cmd'[d] = cmd[d]
              /\ cmd'[c].pc = "idle" /\ cmd'[c].taken = {}
<1>1. cmd \in [Cmds -> Command] /\ cmd[c] \in Command
  BY DEF TypeInv, TypeOK
<1>2. ASSUME NEW v, Goto(c, v)
      PROVE  /\ \A d \in Cmds \ {c} : cmd'[d] = cmd[d]
             /\ cmd'[c].pc = v /\ cmd'[c].env = cmd[c].env
             /\ cmd'[c].taken = cmd[c].taken /\ cmd'[c].child = cmd[c].child
  <2>1. cmd'[c] = [cmd[c] EXCEPT !.pc = v] /\ \A d \in Cmds \ {c} : cmd'[d] = cmd[d]
    BY <1>1, <1>2 DEF Goto
  <2>2. QED
    BY <1>1, <2>1, MovedFields
<1>3. ASSUME NEW v, TearDown(c, v)
      PROVE  /\ \A d \in Cmds \ {c} : cmd'[d] = cmd[d]
             /\ cmd'[c].pc = "take" /\ cmd'[c].taken = cmd[c].taken
  <2>1. cmd'[c] = [cmd[c] EXCEPT !.pc = "take", !.then = v] /\ \A d \in Cmds \ {c} : cmd'[d] = cmd[d]
    BY <1>1, <1>3 DEF TearDown
  <2>2. QED
    BY <1>1, <2>1, MovedFields
<1>4. ASSUME Done(c)
      PROVE  /\ \A d \in Cmds \ {c} : cmd'[d] = cmd[d]
             /\ cmd'[c].pc = "idle" /\ cmd'[c].taken = {}
  BY <1>1, <1>4 DEF Done, Idle
<1>5. QED
  BY <1>2, <1>3, <1>4

\* How the spawn of a child leaves the commands.
LEMMA MovedChild ==
  ASSUME TypeInv, NEW c \in Cmds, NEW v, NEW p, cmd' = [cmd EXCEPT ![c].pc = v, ![c].child = p]
  PROVE  /\ \A d \in Cmds \ {c} : cmd'[d] = cmd[d]
         /\ cmd'[c].pc = v /\ cmd'[c].env = cmd[c].env
         /\ cmd'[c].taken = cmd[c].taken /\ cmd'[c].child = p
<1>1. cmd \in [Cmds -> Command] /\ cmd[c] \in Command
  BY DEF TypeInv, TypeOK
<1>2. cmd'[c] = [cmd[c] EXCEPT !.pc = v, !.child = p] /\ \A d \in Cmds \ {c} : cmd'[d] = cmd[d]
  BY <1>1
<1>3. QED
  BY <1>1, <1>2, MovedFields

\* A command that is invoked alone finds the host as the last one left it.
LEMMA InvocationAlone ==
  ASSUME TypeInv, AloneInv, NEW c \in Cmds, Invocation(c) PROVE AloneInv'
<1>1. ASSUME NEW e, NEW pc \in {"take", "describe", "ensure"}, NEW then, Invoke(c, e, pc, then),
             At(c, "idle"), pc = "ensure" => active.env = e,
             UNCHANGED <<active, supervisor, processVars, marimo, loose>>
      PROVE  AloneInv'
  <2>1. /\ \A d \in Cmds \ {c} : cmd'[d] = cmd[d]
        /\ cmd'[c].pc = pc /\ cmd'[c].env = e /\ cmd'[c].taken = {}
    BY <1>1 DEF Invoke, Idle, TypeInv, TypeOK
  <2>2. ASSUME alone' PROVE alone /\ OthersIdle(c)
    BY <1>1, <2>2 DEF Invoke, OthersIdle, At
  <2>3. cmd[c].taken = {}
    BY <1>1 DEF At, TypeInv, CommandsOK
  <2>4. ASSUME alone'
        PROVE  /\ Stage(cmd[c])' /\ ServerOK' /\ OneSet'
               /\ alive' \subseteq supervisor' \cup cmd'[c].taken \cup loose'
    <3>1. ServerOK /\ OneSet /\ alive \subseteq supervisor \cup loose
      BY <2>2, <2>3, <2>4, AloneNow
    <3>2. Stage(cmd[c])'
      BY <1>1, <2>1 DEF Stage, Launching
    <3>3. QED
      BY <1>1, <2>1, <3>1, <3>2 DEF ServerOK, OneSet, Serves, processVars
  <2>5. QED
    BY <2>1, <2>2, <2>4, AloneNext
<1>2. QED
  BY <1>1 DEF Invocation, Start, Stop, OpenNotebook, Exit

\* A command under way that is alone has nobody beside it.
LEMMA UnderWay ==
  ASSUME AloneInv, NEW c \in Cmds, cmd[c].pc # "idle", alone' = alone, alone'
  PROVE  alone /\ OthersIdle(c)
  BY DEF AloneInv, At

\* Steps that leave the sets and the servers alone, to a point of which nothing is asked.
LEMMA QuietAlone ==
  ASSUME TypeInv, AloneInv, NEW c \in Cmds, cmd[c].pc # "idle", alone' = alone,
         \A d \in Cmds \ {c} : cmd'[d] = cmd[d],
         cmd'[c].pc \in {"idle", "take", "describe"}, cmd[c].taken = {},
         UNCHANGED <<active, supervisor, of, spawned, marimo>>,
         alive' \ loose' \subseteq (alive \ loose) \cup supervisor
  PROVE  AloneInv'
<1>1. ASSUME alone'
      PROVE  /\ OthersIdle(c) /\ Stage(cmd[c])' /\ ServerOK' /\ OneSet'
             /\ alive' \subseteq supervisor' \cup cmd'[c].taken \cup loose'
  <2>1. alone /\ OthersIdle(c)
    BY <1>1, UnderWay
  <2>2. ServerOK /\ OneSet /\ alive \subseteq supervisor \cup loose
    BY <2>1, AloneNow
  <2>3. Stage(cmd[c])'
    BY DEF Stage, Launching
  <2>4. QED
    BY <2>1, <2>2, <2>3 DEF ServerOK, OneSet, Serves
<1>2. QED
  BY <1>1, AloneNext

\* The end of the app leaves nothing tracked and nothing known.
LEMMA ForgetAlone ==
  ASSUME Forget, alive' \subseteq loose' PROVE AloneInv'
  BY DEF Forget, Idle, NoActive, AloneInv, OthersIdle, At, Stage, Launching, ServerOK, OneSet

\* A teardown that is alone leaves nothing tracked and no notebook server known.
LEMMA TeardownAlone ==
  ASSUME TypeInv, AloneInv, NEW c \in Cmds, Teardown(c) PROVE AloneInv'
<1>0. cmd \in [Cmds -> Command] /\ cmd[c] \in Command
  BY DEF TypeInv, TypeOK
<1>1. CASE TakeAll(c)
  <2>1. cmd'[c] = [cmd[c] EXCEPT !.pc = "kill", !.taken = supervisor] /\ \A d \in Cmds \ {c} : cmd'[d] = cmd[d]
    BY <1>0, <1>1 DEF TakeAll
  <2>2. cmd'[c].pc = "kill" /\ cmd'[c].taken = supervisor
    BY <1>0, <2>1, MovedFields
  <2>3. cmd[c].pc # "idle" /\ cmd[c].taken = {} /\ alone' = alone
    BY <1>1 DEF TakeAll, At, TypeInv, CommandsOK
  <2>4. ASSUME alone'
        PROVE  /\ OthersIdle(c) /\ Stage(cmd[c])' /\ ServerOK' /\ OneSet'
               /\ alive' \subseteq supervisor' \cup cmd'[c].taken \cup loose'
    <3>1. alone /\ OthersIdle(c)
      BY <2>3, <2>4, UnderWay
    <3>2. ServerOK /\ OneSet /\ alive \subseteq supervisor \cup loose
      BY <2>3, <3>1, AloneNow
    <3>3. QED
      BY <1>1, <2>2, <3>1, <3>2 DEF TakeAll, Stage, Launching, ServerOK, OneSet, processVars
  <2>5. QED
    BY <2>1, <2>4, AloneNext
<1>2. CASE ShutDown(c)
  <2> PICK p \in cmd[c].taken : /\ Down(p) \/ StaysUp(p)
                                /\ cmd' = [cmd EXCEPT ![c].taken = @ \ {p}]
    BY <1>2 DEF ShutDown
  <2>a. alive' \subseteq (alive \ {p}) \cup loose' /\ loose \ {p} \subseteq loose'
    BY <1>0, Attempted DEF Command
  <2>1. cmd'[c] = [cmd[c] EXCEPT !.taken = cmd[c].taken \ {p}] /\ \A d \in Cmds \ {c} : cmd'[d] = cmd[d]
    BY <1>0
  <2>2. cmd'[c].pc = "kill" /\ cmd'[c].taken = cmd[c].taken \ {p}
    BY <1>0, <1>2, <2>1, MovedFields DEF ShutDown, At
  <2>3. cmd[c].pc = "kill" /\ alone' = alone
    BY <1>2 DEF ShutDown, At
  <2>4. ASSUME alone'
        PROVE  /\ OthersIdle(c) /\ Stage(cmd[c])' /\ ServerOK' /\ OneSet'
               /\ alive' \subseteq supervisor' \cup cmd'[c].taken \cup loose'
    <3>1. alone /\ OthersIdle(c)
      BY <2>3, <2>4, UnderWay
    <3>2. Stage(cmd[c]) /\ ServerOK /\ OneSet /\ alive \subseteq supervisor \cup cmd[c].taken \cup loose
      BY <3>1, AloneNow
    <3>3. supervisor = {}
      BY <2>3, <3>2 DEF Stage
    <3>4. QED
      BY <1>2, <2>2, <2>a, <3>1, <3>2, <3>3 DEF ShutDown, Stage, Launching, ServerOK, OneSet, Serves
  <2>5. QED
    BY <2>1, <2>4, AloneNext
<1>3. CASE AllDown(c)
  <2>1. cmd[c].pc = "kill" /\ cmd[c].taken = {} /\ alone' = alone
    BY <1>3 DEF AllDown, At
  <2>2. CASE Done(c)
    <3>1. (\A d \in Cmds \ {c} : cmd'[d] = cmd[d]) /\ cmd'[c].pc = "idle"
      BY <2>2, MovedCommands
    <3>2. QED
      BY <1>3, <2>1, <3>1, QuietAlone DEF AllDown, processVars
  <2>3. CASE Goto(c, "reset")
    <3>1. /\ \A d \in Cmds \ {c} : cmd'[d] = cmd[d]
          /\ cmd'[c].pc = "reset" /\ cmd'[c].taken = {}
      BY <2>1, <2>3, MovedCommands
    <3>2. ASSUME alone'
          PROVE  /\ OthersIdle(c) /\ Stage(cmd[c])' /\ ServerOK' /\ OneSet'
                 /\ alive' \subseteq supervisor' \cup cmd'[c].taken \cup loose'
      <4>1. alone /\ OthersIdle(c)
        BY <2>1, <3>2, UnderWay
      <4>2. Stage(cmd[c]) /\ ServerOK /\ alive \subseteq supervisor \cup loose
        BY <2>1, <4>1, AloneNow
      <4>3. supervisor = {}
        BY <2>1, <4>2 DEF Stage
      <4>4. QED
        BY <1>3, <3>1, <4>1, <4>2, <4>3 DEF AllDown, Stage, Launching, ServerOK, OneSet, processVars
    <3>3. QED
      BY <3>1, <3>2, AloneNext
  <2>4. QED
    BY <1>3, <2>2, <2>3 DEF AllDown
<1>4. CASE Quit(c)
  <2>1. alive' = alive /\ loose' = alive /\ Forget
    BY <1>4 DEF Quit, processVars
  <2>2. QED
    BY <2>1, ForgetAlone
<1>5. CASE Reset(c)
  <2>1. /\ cmd[c].pc = "reset" /\ cmd[c].taken = {} /\ alone' = alone
        /\ cmd[c].then \in {"spawn", "clear"}
    BY <1>5 DEF Reset, At, TypeInv, CommandsOK
  <2>2. /\ \A d \in Cmds \ {c} : cmd'[d] = cmd[d]
        /\ cmd'[c].pc \in {"spawn", "clear"} /\ cmd'[c].taken = {}
    BY <1>5, <2>1, MovedCommands DEF Reset
  <2>3. ASSUME alone'
        PROVE  /\ OthersIdle(c) /\ Stage(cmd[c])' /\ ServerOK' /\ OneSet'
               /\ alive' \subseteq supervisor' \cup cmd'[c].taken \cup loose'
    <3>1. alone /\ OthersIdle(c)
      BY <2>1, <2>3, UnderWay
    <3>2. Stage(cmd[c]) /\ alive \subseteq supervisor \cup loose
      BY <2>1, <3>1, AloneNow
    <3>3. supervisor = {}
      BY <2>1, <3>2 DEF Stage
    <3>4. QED
      BY <1>5, <2>2, <3>1, <3>2, <3>3 DEF Reset, Stage, Launching, ServerOK, OneSet, processVars
  <2>4. QED
    BY <2>2, <2>3, AloneNext
<1>6. CASE Clear(c)
  <2>1. cmd[c].pc = "clear" /\ cmd[c].taken = {} /\ alone' = alone
    BY <1>6 DEF Clear, At, TypeInv, CommandsOK
  <2>2. (\A d \in Cmds \ {c} : cmd'[d] = cmd[d]) /\ cmd'[c].pc = "idle"
    BY <1>6, MovedCommands DEF Clear
  <2>3. ASSUME alone'
        PROVE  /\ OthersIdle(c) /\ Stage(cmd[c])' /\ ServerOK' /\ OneSet'
               /\ alive' \subseteq supervisor' \cup cmd'[c].taken \cup loose'
    <3>1. alone /\ OthersIdle(c)
      BY <2>1, <2>3, UnderWay
    <3>2. ServerOK /\ OneSet /\ alive \subseteq supervisor \cup loose
      BY <2>1, <3>1, AloneNow
    <3>3. QED
      BY <1>6, <2>2, <3>1, <3>2 DEF Clear, Stage, Launching, ServerOK, OneSet, Serves, NoActive, processVars
  <2>4. QED
    BY <2>2, <2>3, AloneNext
<1>7. QED
  BY <1>1, <1>2, <1>3, <1>4, <1>5, <1>6 DEF Teardown

\* A spawned sidecar has a number that is in nobody's set.
LEMMA SpawnAlone ==
  ASSUME TypeInv, SupervisorInv, NEW c \in Cmds, NEW label \in {"uc", "marimo"}, Spawn(c, label)
  PROVE  /\ spawned \in Nat /\ spawned + 1 \in Sidecar /\ spawned' = spawned + 1
         /\ spawned + 1 \notin Envs
         /\ supervisor' = supervisor \cup {spawned + 1} /\ alive' = alive \cup {spawned + 1}
         /\ of'[spawned + 1] = [env |-> cmd[c].env, label |-> label]
         /\ \A p \in 1..spawned : of'[p] = of[p]
         /\ \A m \in supervisor, e \in Envs : Serves(m, e)' <=> Serves(m, e)
<1>1. spawned \in Nat /\ spawned + 1 \in Sidecar /\ spawned' = spawned + 1
  BY ConstantsOK DEF Spawn, TypeInv, TypeOK, Sidecar
<1>2. spawned + 1 \notin Envs
  BY <1>1, ConstantsOK
<1>3. /\ of'[spawned + 1] = [env |-> cmd[c].env, label |-> label]
      /\ \A p \in Sidecar : p # spawned + 1 => of'[p] = of[p]
  BY <1>1 DEF Spawn, TypeInv, TypeOK
<1>4. \A p \in 1..spawned : p # spawned + 1 /\ p \in Sidecar
  BY <1>1, ConstantsOK DEF TypeInv, TypeOK, Sidecar
<1>5. \A m \in supervisor : m \in Sidecar => m \in 1..spawned
  BY DEF SupervisorInv, SpawnedOK
<1>6. ASSUME NEW m \in supervisor, NEW e \in Envs PROVE Serves(m, e)' <=> Serves(m, e)
  BY <1>3, <1>4, <1>5 DEF Serves
<1>7. QED
  BY <1>1, <1>2, <1>3, <1>4, <1>6 DEF Spawn

\* Where the step of a start takes it, the host still serves one environment.
LEMMA StartingAlone ==
  ASSUME TypeInv, SupervisorInv, AloneInv, NEW c \in Cmds, Starting(c) PROVE AloneInv'
<1> DEFINE Shown == /\ OthersIdle(c) /\ Stage(cmd[c])' /\ ServerOK' /\ OneSet'
                    /\ alive' \subseteq supervisor' \cup cmd'[c].taken \cup loose'
<1>1. /\ cmd[c].pc \notin {"idle", "take", "kill"} /\ cmd[c].taken = {}
      /\ cmd[c].pc # "describe" => cmd[c].env \in Envs
      /\ alone' = alone
  <2>1. cmd[c].pc \in Launching \cup {"spawn", "describe"}
    BY DEF Starting, SpawnUc, Announce, EnsureTelemetry, Reconcile, TrackProject, ComposeUp,
       Activate, Describe, At, Launching
  <2>2. alone' = alone
    BY DEF Starting, SpawnUc, Announce, EnsureTelemetry, Reconcile, TrackProject, ComposeUp,
       Activate, Describe, GiveUp
  <2>3. QED
    BY <2>1, <2>2 DEF TypeInv, CommandsOK, Launching
<1>2. ASSUME alone'
      PROVE  /\ alone /\ OthersIdle(c) /\ Stage(cmd[c]) /\ ServerOK /\ OneSet
             /\ alive \subseteq supervisor \cup loose
  BY <1>1, <1>2, UnderWay, AloneNow
<1>3. CASE GiveUp(c)
  <2>1. (\A d \in Cmds \ {c} : cmd'[d] = cmd[d]) /\ cmd'[c].pc = "idle"
    BY <1>3, MovedCommands DEF GiveUp
  <2>2. QED
    BY <1>1, <1>3, <2>1, QuietAlone DEF GiveUp, processVars
<1>4. CASE SpawnUc(c) /\ ~GiveUp(c)
  <2>1. /\ \A d \in Cmds \ {c} : cmd'[d] = cmd[d]
        /\ cmd'[c].pc = "announce" /\ cmd'[c].env = cmd[c].env /\ cmd'[c].taken = {}
        /\ cmd'[c].child = spawned + 1
    <3>1. cmd' = [cmd EXCEPT ![c].pc = "announce", ![c].child = spawned + 1]
      BY <1>4 DEF SpawnUc
    <3>2. cmd[c].taken = {}
      BY <1>1
    <3>3. cmd[c] \in Command /\ cmd \in [Cmds -> Command]
      BY DEF TypeInv, TypeOK
    <3>4. /\ cmd'[c] = [cmd[c] EXCEPT !.pc = "announce", !.child = spawned + 1]
          /\ \A d \in Cmds \ {c} : cmd'[d] = cmd[d]
      BY <3>1, <3>3
    <3>5. QED
      BY <3>2, <3>3, <3>4, MovedFields
  <2>2. Spawn(c, "uc") /\ cmd[c].pc = "spawn"
        /\ UNCHANGED <<active, marimo, telemetry, quits, loose, alone>>
    BY <1>4 DEF SpawnUc, At
  <2>3. /\ spawned \in Nat /\ spawned + 1 \in Sidecar /\ spawned' = spawned + 1
        /\ spawned + 1 \notin Envs
        /\ supervisor' = supervisor \cup {spawned + 1} /\ alive' = alive \cup {spawned + 1}
        /\ of'[spawned + 1] = [env |-> cmd[c].env, label |-> "uc"]
    BY <2>2, SpawnAlone
  <2>4. ASSUME alone' PROVE Shown
    <3>1. supervisor = {} /\ marimo = None
      BY <1>2, <2>2, <2>4 DEF Stage
    <3>2. \A m \in supervisor', e \in Envs : Serves(m, e)' => e = cmd[c].env
      BY <2>3, <3>1 DEF Serves
    <3>3. Stage(cmd[c])'
      BY <2>1, <2>2, <2>3, <3>1, <3>2 DEF Stage, Launching
    <3>4. OneSet' /\ ServerOK'
      BY <2>2, <3>1, <3>2 DEF OneSet, ServerOK
    <3>5. QED
      BY <1>2, <2>1, <2>2, <2>3, <2>4, <3>3, <3>4
  <2>5. QED
    BY <2>1, <2>4, AloneNext
<1>5. CASE Done(c) /\ Announce(c)
  <2>1. (\A d \in Cmds \ {c} : cmd'[d] = cmd[d]) /\ cmd'[c].pc = "idle"
    BY <1>5, MovedCommands
  <2>2. QED
    BY <1>1, <1>5, <2>1, QuietAlone DEF Announce
<1>6. ASSUME TearDown(c, "fail"), UNCHANGED <<active, supervisor, of, spawned, marimo>>,
             alive' \ loose' \subseteq (alive \ loose) \cup supervisor
      PROVE  AloneInv'
  <2>1. (\A d \in Cmds \ {c} : cmd'[d] = cmd[d]) /\ cmd'[c].pc = "take"
    BY <1>6, MovedCommands
  <2>2. QED
    BY <1>1, <1>6, <2>1, QuietAlone
<1>7. ASSUME NEW pc \in {"telemetry", "reconcile", "track", "up", "activate"}, Goto(c, pc),
             cmd[c].pc \in Launching,
             UNCHANGED <<active, of, spawned, marimo>>,
             supervisor' \in {supervisor, supervisor \cup {cmd[c].env}},
             alive' \in {alive, alive \ {cmd[c].env}, alive \cup {cmd[c].env}},
             pc # "activate" => alive' \in {alive, alive \ {cmd[c].env}},
             alone' => alive' \ loose' \subseteq (alive \ loose) \cup supervisor',
             alone' /\ pc = "activate" /\ cmd[c].env \in WithModules =>
               cmd[c].env \in alive' \cap supervisor',
             pc = "up" => cmd[c].env \in supervisor'
      PROVE  AloneInv'
  <2>1. /\ \A d \in Cmds \ {c} : cmd'[d] = cmd[d]
        /\ cmd'[c].pc = pc /\ cmd'[c].env = cmd[c].env /\ cmd'[c].taken = {}
        /\ cmd'[c].child = cmd[c].child
    BY <1>1, <1>7, MovedCommands
  <2>2. cmd[c].env \in Envs /\ cmd[c].env \notin Sidecar
    BY <1>1, <1>7, ConstantsOK DEF Launching
  <2>3. ASSUME alone' PROVE Shown
    <3>1. /\ \A m \in supervisor, e \in Envs : Serves(m, e) => e = cmd[c].env
          /\ cmd[c].child \in 1..spawned /\ cmd[c].child \in alive \cap supervisor
          /\ of[cmd[c].child] = [env |-> cmd[c].env, label |-> "uc"]
          /\ marimo = None
      BY <1>2, <1>7, <2>3 DEF Stage
    <3>2. cmd[c].child # cmd[c].env
      BY <2>2, <3>1, ConstantsOK DEF TypeInv, TypeOK, Sidecar
    <3>3. \A m \in supervisor', e \in Envs : Serves(m, e)' => e = cmd[c].env
      BY <1>7, <2>2, <3>1 DEF Serves
    <3>4. Stage(cmd[c])'
      <4>1. cmd[c].child \in alive' \cap supervisor'
        BY <1>7, <3>1, <3>2
      <4>2. QED
        BY <1>7, <2>1, <2>3, <3>1, <3>3, <4>1 DEF Stage, Launching
    <3>5. OneSet' /\ ServerOK'
      BY <1>7, <3>1, <3>3 DEF OneSet, ServerOK
    <3>6. QED
      BY <1>2, <1>7, <2>1, <2>3, <3>4, <3>5
  <2>4. QED
    BY <2>1, <2>3, AloneNext
<1>8. CASE Announce(c) /\ ~Done(c)
  <2>1. AfterUc(cmd[c].env) \in {"telemetry", "reconcile", "activate"}
    BY DEF AfterUc
  <2>2. AfterUc(cmd[c].env) = "activate" => cmd[c].env \notin WithModules
    BY DEF AfterUc
  <2>3. /\ Goto(c, AfterUc(cmd[c].env)) /\ cmd[c].pc \in Launching
        /\ UNCHANGED <<active, supervisor, alive, of, spawned, marimo, loose>>
    BY <1>8 DEF Announce, At, Launching
  <2>4. QED
    BY <1>7, <2>1, <2>2, <2>3
<1>9. CASE EnsureTelemetry(c)
  <2>1. CASE TearDown(c, "fail")
    BY <1>6, <1>9, <2>1 DEF EnsureTelemetry, processVars
  <2>2. CASE Goto(c, IF cmd[c].env \in WithModules THEN "reconcile" ELSE "activate")
    BY <1>7, <1>9, <2>2 DEF EnsureTelemetry, At, Launching, processVars
  <2>3. QED
    BY <1>9, <2>1, <2>2 DEF EnsureTelemetry
<1>10. CASE Reconcile(c)
  <2>1. /\ UNCHANGED <<active, supervisor, of, spawned, marimo>> /\ cmd[c].pc \in Launching
        /\ alive' \in {alive, alive \ {cmd[c].env}} /\ alive' \ loose' \subseteq alive \ loose
    BY <1>10 DEF Reconcile, Down, StaysUp, At, Launching
  <2>2. CASE TearDown(c, "fail")
    BY <1>6, <2>1, <2>2
  <2>3. CASE Goto(c, "track")
    BY <1>7, <2>1, <2>3
  <2>4. QED
    BY <1>10, <2>2, <2>3 DEF Reconcile
<1>11. CASE TrackProject(c)
  <2>1. /\ Goto(c, "up") /\ cmd[c].pc = "track" /\ cmd[c].pc \in Launching
        /\ supervisor' = supervisor \cup {cmd[c].env} /\ loose' = loose \ {cmd[c].env}
        /\ UNCHANGED <<active, alive, of, spawned, marimo>>
    BY <1>11 DEF TrackProject, At, Launching, processVars
  <2>2. QED
    BY <1>7, <2>1
<1>12. CASE ComposeUp(c)
  <2>1. /\ cmd[c].pc = "up" /\ cmd[c].pc \in Launching
        /\ UNCHANGED <<active, supervisor, of, spawned, marimo, loose>>
    BY <1>12 DEF ComposeUp, At, Launching
  <2>2. alone' => cmd[c].env \in supervisor
    BY <1>2, <2>1 DEF Stage
  <2>3. CASE Goto(c, "activate") /\ alive' = alive \cup {cmd[c].env}
    BY <1>7, <2>1, <2>2, <2>3
  <2>4. CASE TearDown(c, "fail") /\ (alive' = alive \cup {cmd[c].env} \/ UNCHANGED alive)
    <3>1. CASE cmd[c].env \in supervisor
      BY <1>6, <2>1, <2>4, <3>1
    <3>2. CASE ~alone'
      BY <3>2 DEF AloneInv
    <3>3. QED
      BY <2>2, <3>1, <3>2
  <2>5. QED
    BY <1>12, <2>3, <2>4 DEF ComposeUp
<1>13. CASE Activate(c) /\ ~GiveUp(c)
  <2>1. /\ active' = [env |-> cmd[c].env, uc |-> cmd[c].child] /\ Goto(c, "describe")
        /\ UNCHANGED <<supervisor, alive, of, spawned, marimo, loose>>
        /\ cmd[c].pc = "activate"
    BY <1>13 DEF Activate, At, processVars
  <2>2. /\ \A d \in Cmds \ {c} : cmd'[d] = cmd[d]
        /\ cmd'[c].pc = "describe" /\ cmd'[c].taken = {}
    BY <1>1, <2>1, MovedCommands
  <2>3. ASSUME alone' PROVE Shown
    <3>1. marimo = None
      BY <1>2, <2>1, <2>3 DEF Stage, Launching
    <3>2. QED
      BY <1>2, <2>1, <2>2, <2>3, <3>1 DEF Stage, Launching, ServerOK, OneSet, Serves
  <2>4. QED
    BY <2>2, <2>3, AloneNext
<1>14. QED
  BY <1>3, <1>4, <1>5, <1>8, <1>9, <1>10, <1>11, <1>12, <1>13 DEF Starting, Describe

\* A notebook server is spawned for the active environment and recorded while it still is.
LEMMA OpeningAlone ==
  ASSUME TypeInv, SupervisorInv, AloneInv, NEW c \in Cmds, Opening(c) PROVE AloneInv'
<1> DEFINE Shown == /\ OthersIdle(c) /\ Stage(cmd[c])' /\ ServerOK' /\ OneSet'
                    /\ alive' \subseteq supervisor' \cup cmd'[c].taken \cup loose'
<1>1. cmd[c].pc \in {"ensure", "scrape"} /\ cmd[c].taken = {} /\ alone' = alone
  BY DEF Opening, EnsureMarimo, Scrape, GiveUp, At, TypeInv, CommandsOK
<1>2. ASSUME alone'
      PROVE  /\ OthersIdle(c) /\ Stage(cmd[c]) /\ ServerOK /\ OneSet
             /\ alive \subseteq supervisor \cup loose
  BY <1>1, <1>2, UnderWay, AloneNow
<1>3. CASE GiveUp(c)
  <2>1. (\A d \in Cmds \ {c} : cmd'[d] = cmd[d]) /\ cmd'[c].pc = "idle"
    BY <1>3, MovedCommands DEF GiveUp
  <2>2. QED
    BY <1>1, <1>3, <2>1, QuietAlone DEF GiveUp, processVars
<1>4. CASE EnsureMarimo(c) /\ ~GiveUp(c)
  <2>1. /\ Spawn(c, "marimo") /\ cmd[c].pc = "ensure" /\ marimo = None
        /\ cmd' = [cmd EXCEPT ![c].pc = "scrape", ![c].child = spawned + 1]
        /\ UNCHANGED <<active, marimo, loose>>
    BY <1>4 DEF EnsureMarimo, At
  <2>2. /\ \A d \in Cmds \ {c} : cmd'[d] = cmd[d]
        /\ cmd'[c].pc = "scrape" /\ cmd'[c].env = cmd[c].env /\ cmd'[c].taken = {}
        /\ cmd'[c].child = spawned + 1
    BY <1>1, <2>1, MovedChild
  <2>3. /\ spawned \in Nat /\ spawned + 1 \in Sidecar /\ spawned' = spawned + 1
        /\ spawned + 1 \notin Envs
        /\ supervisor' = supervisor \cup {spawned + 1} /\ alive' = alive \cup {spawned + 1}
        /\ of'[spawned + 1] = [env |-> cmd[c].env, label |-> "marimo"]
        /\ \A m \in supervisor, e \in Envs : Serves(m, e)' <=> Serves(m, e)
    BY <2>1, SpawnAlone
  <2>4. ASSUME alone' PROVE Shown
    <3>1. Stage(cmd[c]) /\ OneSet /\ alive \subseteq supervisor \cup loose
      BY <1>2, <2>4
    <3>2. ASSUME NEW m, m = spawned + 1, NEW e \in Envs PROVE ~Serves(m, e)'
      <4>1. of'[m].label = "marimo" /\ m # e
        BY <2>3, <3>2
      <4>2. QED
        BY <4>1 DEF Serves
    <3>3. OneSet'
      BY <2>3, <3>1, <3>2 DEF OneSet
    <3>4. Stage(cmd[c])'
      <4>1. active.env = cmd[c].env
        BY <2>1, <3>1 DEF Stage
      <4>2. cmd'[c].child \in 1..spawned'
        BY <2>2, <2>3
      <4>3. of'[cmd'[c].child].env = cmd[c].env
        BY <2>2, <2>3
      <4>4. QED
        BY <2>1, <2>2, <4>1, <4>2, <4>3 DEF Stage, Launching
    <3>5. QED
      BY <1>2, <2>1, <2>2, <2>3, <2>4, <3>1, <3>3, <3>4 DEF ServerOK
  <2>5. QED
    BY <2>2, <2>4, AloneNext
<1>5. CASE Scrape(c)
  <2>1. (\A d \in Cmds \ {c} : cmd'[d] = cmd[d]) /\ cmd'[c].pc = "idle" /\ cmd'[c].taken = {}
    BY <1>5, MovedCommands DEF Scrape
  <2>2. /\ cmd[c].pc = "scrape" /\ marimo' \in {cmd[c].child, marimo} /\ alive' \subseteq alive
        /\ UNCHANGED <<active, supervisor, of, spawned, loose>>
    BY <1>5 DEF Scrape, At
  <2>3. ASSUME alone' PROVE Shown
    <3>1. /\ active.env = cmd[c].env
          /\ cmd[c].child \in 1..spawned /\ of[cmd[c].child].env = cmd[c].env
      BY <1>2, <2>2, <2>3 DEF Stage
    <3>2. ServerOK'
      BY <1>2, <2>2, <2>3, <3>1 DEF ServerOK
    <3>3. QED
      BY <1>2, <2>1, <2>2, <2>3, <3>2 DEF Stage, Launching, OneSet, Serves
  <2>4. QED
    BY <2>1, <2>3, AloneNext
<1>6. QED
  BY <1>3, <1>4, <1>5 DEF Opening, EnsureMarimo

\* The inductive invariant of the commands that come one at a time.
LEMMA AloneInvariant == Spec => []AloneInv
<1>1. Init => AloneInv
  BY DEF Init, Idle, NoActive, AloneInv, OthersIdle, At, Stage, Launching, ServerOK, OneSet
<1>2. TypeInv /\ SupervisorInv /\ AloneInv /\ [Next]_vars => AloneInv'
  <2> SUFFICES ASSUME TypeInv, SupervisorInv, AloneInv, [Next]_vars PROVE AloneInv'
    OBVIOUS
  <2>1. CASE UNCHANGED vars
    BY <2>1 DEF vars, processVars, AloneInv, OthersIdle, At, Stage, ServerOK, OneSet, Serves, Taken
  <2>2. CASE ForceQuit
    BY <2>2, ForgetAlone DEF ForceQuit
  <2>3. QED
    BY <2>1, <2>2, InvocationAlone, TeardownAlone, StartingAlone, OpeningAlone DEF Next
<1>3. QED
  BY <1>1, <1>2, TypeCorrect, SupervisorInvariant, PTL DEF Spec

\* While commands come one at a time, whatever fails and whenever the application is killed, the
\* servers and projects of two environments are never tracked together, and the notebook server that
\* is known is the active environment's (uc.rs, commands.rs).
THEOREM OneEnvironmentUpHolds == Spec => []OneEnvironmentUp
<1>1. AloneInv => OneEnvironmentUp
  BY DEF AloneInv, OneSet, ServerOK, OneEnvironmentUp, OneEnvironmentTracked, NotebookServerIsOwn
<1>2. QED
  BY <1>1, AloneInvariant, PTL

\* While commands come one at a time, an environment becomes active only with its server and its
\* project up and both of them tracked, whatever an earlier teardown failed to end (start_environment).
THEOREM ActivatesLiveHolds == Spec => ActivatesLive
<1> DEFINE Step ==
      LET e == active'.env
      IN alone /\ active' # active /\ e # None =>
           /\ active'.uc \in alive \cap supervisor
           /\ of[active'.uc] = [env |-> e, label |-> "uc"]
           /\ e \in WithModules => e \in alive \cap supervisor
<1>1. TypeInv /\ AloneInv /\ [Next]_vars => [Step]_vars
  <2> SUFFICES ASSUME TypeInv, AloneInv, [Next]_vars PROVE Step
    OBVIOUS
  <2>1. CASE active' = active \/ active'.env = None
    BY <2>1
  <2>2. ASSUME NEW c \in Cmds, Activate(c), ~GiveUp(c) PROVE Step
    <3>1. /\ active' = [env |-> cmd[c].env, uc |-> cmd[c].child]
          /\ cmd[c].pc = "activate" /\ alone' = alone
      BY <2>2 DEF Activate, At
    <3>2. SUFFICES ASSUME alone
                   PROVE  /\ cmd[c].child \in alive \cap supervisor
                          /\ of[cmd[c].child] = [env |-> cmd[c].env, label |-> "uc"]
                          /\ cmd[c].env \in WithModules => cmd[c].env \in alive \cap supervisor
      BY <3>1
    <3>3. Stage(cmd[c])
      BY <3>2 DEF AloneInv
    <3>4. QED
      BY <3>1, <3>3 DEF Stage, Launching
  <2>3. ASSUME NEW c \in Cmds, Invocation(c) PROVE active' = active
    BY <2>3 DEF Invocation, Start, Stop, OpenNotebook, Exit
  <2>4. ASSUME NEW c \in Cmds, Teardown(c) PROVE active' = active \/ active'.env = None
    BY <2>4 DEF Teardown, TakeAll, ShutDown, AllDown, Quit, Forget, Reset, Clear, NoActive
  <2>5. ASSUME NEW c \in Cmds, Starting(c) \/ Opening(c), ~(Activate(c) /\ ~GiveUp(c))
        PROVE  active' = active
    BY <2>5 DEF Starting, Opening, SpawnUc, Announce, EnsureTelemetry, Reconcile, TrackProject,
       ComposeUp, Describe, EnsureMarimo, Scrape, GiveUp
  <2>6. CASE ForceQuit
    BY <2>1, <2>6 DEF ForceQuit, Forget, NoActive
  <2>7. QED
    BY <2>1, <2>2, <2>3, <2>4, <2>5, <2>6 DEF Next, vars
<1>2. QED
  BY <1>1, TypeCorrect, AloneInvariant, PTL DEF Spec, ActivatesLive

\* While commands come one at a time, whatever runs is in reach of the next teardown, or was left
\* running by the end of the app or by a shutdown that was attempted and failed, and the exit hook
\* leaves nothing but that running.
THEOREM NothingEscapesHolds == Spec => NothingEscapes
<1> DEFINE Left == \A c \in Cmds : alone /\ Quit(c) => alive \subseteq loose
           Step == NothingLeftBehind' /\ Left
<1>1. TypeInv /\ AloneInv => Left
  <2> SUFFICES ASSUME TypeInv, AloneInv, NEW c \in Cmds, alone, Quit(c) PROVE alive \subseteq loose
    OBVIOUS
  <2>1. cmd[c].pc = "kill" /\ cmd[c].taken = {}
    BY DEF Quit, At
  <2>2. OthersIdle(c)
    BY <2>1 DEF AloneInv, At
  <2>3. Stage(cmd[c]) /\ alive \subseteq supervisor \cup cmd[c].taken \cup loose
    BY <2>2, AloneNow
  <2>4. QED
    BY <2>1, <2>3 DEF Stage
<1>2. AloneInv' => NothingLeftBehind'
  BY DEF AloneInv, NothingLeftBehind
<1>3. TypeInv /\ AloneInv /\ AloneInv' /\ [Next]_vars => [Step]_vars
  BY <1>1, <1>2
<1>4. QED
  BY <1>3, TypeCorrect, AloneInvariant, PTL DEF Spec, NothingEscapes
-----------------------------------------------------------------------------
(* The desktop as a whole                                                   *)

\* MCDesktop puts the commands and a notebook side by side: a behaviour of it is, for the variables of
\* each, one of EnvHost and of NotebookSessions, so that what is proved of them (DesktopProofs for the
\* notebook) holds of all that the run `host_commands` explores.
THEOREM DesktopIsItsParts == DesktopSpec => Spec /\ NotebookSpec
<1>1. DesktopInit => Init /\ NotebookInit
  BY DEF DesktopInit
<1>2. [DesktopNext]_<<part, vars, notebookVars>> => [Next]_vars /\ [NotebookNext]_notebookVars
  BY DEF DesktopNext
<1>3. QED
  BY <1>1, <1>2, PTL DEF DesktopSpec, Spec, NotebookSpec
=============================================================================
