------------------------------ MODULE MCEnvHost ------------------------------
(* Instances of EnvHost: two environments of which one has modules and one   *)
(* opts in to telemetry, and one or two commands at a time.                  *)
EXTENDS EnvHost, TLC

CONSTANTS c1, c2, A, B
=============================================================================
