------------------------------- MODULE MCDesktop -------------------------------
(***************************************************************************)
(* The desktop host: the commands that start and stop environments, and    *)
(* one notebook over environments that change.  The two parts share no     *)
(* state here (what a switch does to the notebook's sessions is in         *)
(* NotebookSessions): a behaviour is one of a single part, and the other   *)
(* one rests in an initial state.                                          *)
(***************************************************************************)
EXTENDS MCEnvHost, NotebookSessions

CONSTANTS t1, t2

VARIABLE part

\* The commands are interchangeable, and so are the tabs.
DesktopSymmetry == Permutations(Cmds) \union Permutations(Tabs)

DesktopInit ==
  /\ part \in {"commands", "notebook"}
  /\ Init /\ NotebookInit
  /\ part = "commands" => activeEnv = A

DesktopNext ==
  \/ part = "commands" /\ Next /\ UNCHANGED <<part, notebookVars>>
  \/ part = "notebook" /\ NotebookNext /\ UNCHANGED <<part, vars>>

DesktopSpec == DesktopInit /\ [][DesktopNext]_<<part, vars, notebookVars>>
=============================================================================
