------------------------------ MODULE MCEnvGate ------------------------------
(* Instances of EnvGate: two or three environments and two handlers.         *)
EXTENDS EnvGate, TLC

CONSTANTS c1, c2, A, B, C

GateSymmetry == Permutations(Cmds) \cup Permutations(Envs)
=============================================================================
