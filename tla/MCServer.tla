------------------------------- MODULE MCServer -------------------------------
(***************************************************************************)
(* The query server: its sessions and statements, and the response of one  *)
(* statement.  The two parts share no state here: a behaviour is one of a  *)
(* single part, with that part's fairness, and the other one rests in an   *)
(* initial state.                                                          *)
(***************************************************************************)
EXTENDS FlightSessions, QueryStream, TLC

CONSTANTS r1, r2, a

VARIABLE part

\* The requests are interchangeable.
RequestSymmetry == Permutations(Rpcs)

\* The request of a stream at rest.
AnyQuery == [surface |-> "connect", statement |-> "query", verdict |-> "allow", limit |-> 0]

ServerInit ==
  /\ part \in {"sessions", "stream"}
  /\ Init /\ StreamInit
  /\ part = "sessions" => query = AnyQuery

ServerNext ==
  \/ part = "sessions" /\ Next /\ UNCHANGED <<part, streamVars>>
  \/ part = "stream" /\ StreamNext /\ UNCHANGED <<part, vars>>

serverVars == <<part, vars, streamVars>>

ServerSpec == ServerInit /\ [][ServerNext]_serverVars

\* The fairness of FlightSessions and of QueryStream.
FairServerSpec ==
  /\ ServerSpec
  /\ WF_serverVars(part = "sessions" /\ Tick /\ UNCHANGED <<part, streamVars>>)
  /\ WF_serverVars(part = "sessions" /\ (SweepSessions \/ SweepStatements) /\ UNCHANGED <<part, streamVars>>)
  /\ WF_serverVars(part = "stream" /\ Drive /\ UNCHANGED <<part, vars>>)
  /\ WF_serverVars(part = "stream" /\ Join /\ UNCHANGED <<part, vars>>)
  /\ WF_serverVars(part = "stream" /\ Poll /\ UNCHANGED <<part, vars>>)
=============================================================================
