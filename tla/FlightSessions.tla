---------------------------- MODULE FlightSessions ----------------------------
(***************************************************************************)
(* The Flight SQL session layer of crates/hydrofoil: the SessionStore of   *)
(* engine.rs, the statements planned in each Session, and the RPC handlers *)
(* of server.rs that resolve a session and plan, execute or close a        *)
(* statement in it.                                                        *)
(*                                                                         *)
(* An RPC is a task that runs concurrently with the others and with the    *)
(* background sweeper.  One action is one access of a shared map together  *)
(* with the private work around it; every await and every gap between two  *)
(* accesses is a point where the others may step in.  A Session is a       *)
(* number: the order in which sessions enter the store, which also stands  *)
(* for the uuid a handshake returns.  Ages saturate at TTL, the only value *)
(* the code compares them with.                                            *)
(***************************************************************************)
EXTENDS Naturals

CONSTANTS
  Rpcs,         \* the request tasks the server runs
  Owners,       \* ephemeral keys: a principal uid with its token fingerprint
  Handshakers,  \* the principals whose clients perform a handshake
  Served,       \* the RPCs that clients call
  None,         \* no session, no handle, no parent run
  TTL,          \* the idle timeout, in ticks of the clock
  MaxSessions,  \* bound on the sessions stored in a behaviour
  MaxHandles,   \* bound on the statements planned in a behaviour
  MaxRuns       \* bound on the lineage run ids minted in a behaviour

Session == 1..MaxSessions
Handle  == 1..MaxHandles
Run     == 1..MaxRuns

\* Keys of SessionStore.sessions: "ephemeral:{uid}:{fp}" or a session uuid.
Key == Owners \cup Session

\* The RPCs that run the statement of a handle, those that present one, and all
\* that resolve a session.
Executes == {"execute", "execute_prepared", "update_prepared"}
Fetches == Executes \cup {"describe", "close"}
Ops == Fetches \cup {"plan", "prepare", "update", "ingest", "delta"}

ASSUME ConstantsOK ==
  /\ TTL \in Nat \ {0}
  /\ MaxSessions \in Nat /\ MaxHandles \in Nat /\ MaxRuns \in Nat
  /\ None \notin Key \cup Handle \cup Run
  /\ Owners \cap Session = {}
  /\ Handshakers \subseteq Owners

ASSUME ServedOK == Served \subseteq Ops

VARIABLES
  sessions,     \* SessionStore.sessions: the session under each key
  owner,        \* the principal (and token) bound into each session
  idle,         \* Session::idle of each session
  statements,   \* Session.statements: the handles stored in each session
  stmt,         \* the StoredStatement behind each handle
  rpc,          \* each request task: what it asks and how far it got
  sweeper,      \* SessionStore::sweep: between its two passes or not
  built,        \* sessions stored so far
  planned,      \* handles minted so far
  minted,       \* run ids minted so far
  executions,   \* history: every execution started, with its lineage run
  consumed      \* history: handles a do_get or a close took out

storeVars == <<sessions, owner, idle, built>>
stmtVars  == <<statements, stmt, planned>>
runVars   == <<minted, executions>>
vars == <<storeVars, stmtVars, runVars, rpc, sweeper, consumed>>

\* A request: the principal its metadata carries while it resolves a session,
\* the statement handle it presents, and the session it holds once resolved.
Request == [stage : {"idle", "ephemeral", "insert", "touch", "resolved", "found", "remove"},
            op : Ops, owner : Owners \cup {None}, handle : Handle \cup {None},
            session : Session \cup {None}]

NoRequest == [stage |-> "idle", op |-> "update", owner |-> None, handle |-> None,
              session |-> None]

\* A stored statement: its planning run and its age.  The rest is history:
\* the time since its last use, the RPC that planned it and the session.
Statement == [run : Run \cup {None}, age : 0..TTL, used : 0..TTL,
              kind : {"plan", "prepare"}, home : Session \cup {None}]

NoStatement == [run |-> None, age |-> 0, used |-> 0, kind |-> "plan", home |-> None]

Execution == [handle : Handle \cup {None}, run : Run, parent : Run \cup {None},
              session : Session, via : Ops]

TypeOK ==
  /\ sessions \in [Key -> Session \cup {None}]
  /\ owner \in [Session -> Owners \cup {None}]
  /\ idle \in [Session -> 0..TTL]
  /\ statements \in [Session -> SUBSET Handle]
  /\ stmt \in [Handle -> Statement]
  /\ rpc \in [Rpcs -> Request]
  /\ sweeper \in {"waiting", "statements"}
  /\ built \in 0..MaxSessions
  /\ planned \in 0..MaxHandles
  /\ minted \in 0..MaxRuns
  /\ executions \in SUBSET Execution
  /\ consumed \in SUBSET Handle

Init ==
  /\ sessions = [k \in Key |-> None]
  /\ owner = [s \in Session |-> None]
  /\ idle = [s \in Session |-> 0]
  /\ statements = [s \in Session |-> {}]
  /\ stmt = [h \in Handle |-> NoStatement]
  /\ rpc = [r \in Rpcs |-> NoRequest]
  /\ sweeper = "waiting"
  /\ built = 0 /\ planned = 0 /\ minted = 0
  /\ executions = {}
  /\ consumed = {}

-----------------------------------------------------------------------------
(* Resolving a session                                                      *)

\* A session of its own for principal o, with no statement, under key k.
NewSession(k, o) ==
  /\ built < MaxSessions
  /\ built' = built + 1
  /\ owner' = [owner EXCEPT ![built + 1] = o]
  /\ idle' = [idle EXCEPT ![built + 1] = 0]
  /\ sessions' = [sessions EXCEPT ![k] = built + 1]

\* do_handshake: a new session under its own id.  A failure to enrich the
\* principal or to build the session leaves no trace.
Handshake(o) ==
  /\ NewSession(built + 1, o)
  /\ UNCHANGED <<stmtVars, runVars, rpc, sweeper, consumed>>

\* A client presents a handle it was given, to an RPC of its kind.
Presents(op, h) ==
  IF op \in Fetches
  THEN /\ h \in 1..planned
       /\ stmt[h].kind = IF op = "execute" THEN "plan" ELSE "prepare"
  ELSE h = None

\* The request continues with session s, cloned out of the map.
Holding(r, s) == [rpc EXCEPT ![r].session = s, ![r].owner = None, ![r].stage = "touch"]

\* The request ends, with a response or with an error.
Finished(r) == [rpc EXCEPT ![r] = NoRequest]

Fail(r) ==
  /\ rpc' = Finished(r)
  /\ UNCHANGED <<storeVars, stmtVars, runVars, sweeper, consumed>>

\* A request of principal o arrives and resolve_session looks its session id up,
\* if it has one.  The id may be any key of the map, and nothing compares the
\* session found with o; an unknown or expired id, or none, falls through to the
\* ephemeral session of o.
Arrive(r, op, sid, o, h) ==
  /\ rpc[r].stage = "idle"
  /\ Presents(op, h)
  /\ LET found == sid # None /\ sessions[sid] # None
     IN rpc' = [rpc EXCEPT ![r] =
          [stage |-> IF found THEN "touch" ELSE "ephemeral", op |-> op, handle |-> h,
           owner |-> IF found THEN None ELSE o,
           session |-> IF found THEN sessions[sid] ELSE None]]
  /\ UNCHANGED <<storeVars, stmtVars, runVars, sweeper, consumed>>

\* The principal is enriched, an error ending the request, and ephemeral_for
\* looks its key up.
EphemeralGet(r) ==
  /\ rpc[r].stage = "ephemeral"
  /\ \/ /\ LET s == sessions[rpc[r].owner]
           IN rpc' = IF s # None THEN Holding(r, s)
                                 ELSE [rpc EXCEPT ![r].stage = "insert"]
        /\ UNCHANGED <<storeVars, stmtVars, runVars, sweeper, consumed>>
     \/ Fail(r)

\* Mutant: a plain insert, without the entry guard.
InsertAlways(r) ==
  /\ rpc[r].stage = "insert"
  /\ NewSession(rpc[r].owner, rpc[r].owner)
  /\ rpc' = Holding(r, built + 1)
  /\ UNCHANGED <<stmtVars, runVars, sweeper, consumed>>

\* ephemeral_for after its await: entry(key).or_insert keeps the session a
\* concurrent request put there first, and the one built here is dropped.
EntryOrInsert(r) ==
  /\ rpc[r].stage = "insert"
  /\ LET k == rpc[r].owner
     IN IF sessions[k] # None
        THEN rpc' = Holding(r, sessions[k]) /\ UNCHANGED storeVars
        ELSE NewSession(k, k) /\ rpc' = Holding(r, built + 1)
  /\ UNCHANGED <<stmtVars, runVars, sweeper, consumed>>

\* Session::touch.
Touch(r) ==
  /\ rpc[r].stage = "touch"
  /\ idle' = [idle EXCEPT ![rpc[r].session] = 0]
  /\ rpc' = [rpc EXCEPT ![r].stage = "resolved"]
  /\ UNCHANGED <<sessions, owner, built, stmtVars, runVars, sweeper, consumed>>

BuildFails(r) == rpc[r].stage = "insert" /\ Fail(r)

Resolve(r) ==
  EphemeralGet(r) \/ EntryOrInsert(r) \/ BuildFails(r) \/ Touch(r)

-----------------------------------------------------------------------------
(* The statement RPCs, in the session the request holds                     *)

Ready(r, op) == rpc[r].stage = "resolved" /\ rpc[r].op = op

\* Mutant: one global map of statements.
StoredAnywhere(s, h) == \E t \in Session : h \in statements[t]

\* The session holds the handle.  The map is per session: the handle of a
\* statement planned in another session is not found.
Stores(s, h) == h \in statements[s]

\* Planned under a run minted for it, the statement is stored in the session
\* that was resolved when the request arrived, however long the planning took.
StorePlan(r, op) ==
  /\ Ready(r, op)
  /\ planned < MaxHandles /\ minted < MaxRuns
  /\ planned' = planned + 1
  /\ minted' = minted + 1
  /\ LET s == rpc[r].session
     IN /\ statements' = [statements EXCEPT ![s] = @ \cup {planned + 1}]
        /\ stmt' = [stmt EXCEPT ![planned + 1] =
             [run |-> minted + 1, age |-> 0, used |-> 0, kind |-> op, home |-> s]]
  /\ rpc' = Finished(r)
  /\ UNCHANGED <<storeVars, executions, sweeper, consumed>>

\* get_flight_info_statement.
PlanStatement(r) == StorePlan(r, "plan")

\* do_action_create_prepared_statement.
CreatePrepared(r) == StorePlan(r, "prepare")

\* A statement that does not plan is not stored, nor is anything executed.
PlanningFails(r) ==
  /\ rpc[r].stage = "resolved" /\ rpc[r].op \notin Fetches
  /\ Fail(r)

\* Mutant: the planning run is reused.
PinnedContext(r, h) ==
  [handle |-> h, run |-> stmt[h].run, parent |-> stmt[h].run,
   session |-> rpc[r].session, via |-> rpc[r].op]

\* The lineage of an execution: a fresh run, with the planning run of the
\* statement as its parent.
ExecutionContext(r, h) ==
  [handle |-> h, run |-> minted + 1, parent |-> stmt[h].run,
   session |-> rpc[r].session, via |-> rpc[r].op]

\* The update path plans physically on the session's own state, which carries
\* no lineage context: the planner mints a run with no parent.
BareContext(r, h) ==
  [handle |-> h, run |-> minted + 1, parent |-> None,
   session |-> rpc[r].session, via |-> rpc[r].op]

Start(cx) ==
  /\ minted < MaxRuns
  /\ minted' = minted + 1
  /\ executions' = executions \cup {cx}

MarkUsed(h) == [stmt EXCEPT ![h].used = 0]

NotFound(r) ==
  /\ rpc[r].stage = "resolved"
  /\ rpc[r].op \in Fetches
  /\ ~Stores(rpc[r].session, rpc[r].handle)
  /\ Fail(r)

\* get_flight_info_prepared_statement answers with the schema of the plan.
DescribePrepared(r) ==
  /\ Ready(r, "describe")
  /\ Stores(rpc[r].session, rpc[r].handle)
  /\ rpc' = Finished(r)
  /\ UNCHANGED <<storeVars, stmtVars, runVars, sweeper, consumed>>

\* A request that executes a statement clones it out of the map: whatever happens
\* to the handle from here on, this request runs the clone.
FindStatement(r) ==
  /\ rpc[r].stage = "resolved" /\ rpc[r].op \in Executes
  /\ Stores(rpc[r].session, rpc[r].handle)
  /\ rpc' = [rpc EXCEPT ![r].stage = "found"]
  /\ UNCHANGED <<storeVars, stmtVars, runVars, sweeper, consumed>>

Found(r, op) == rpc[r].stage = "found" /\ rpc[r].op = op

\* verify_plan refuses what a do_get or an update must not run; do_get_statement
\* goes on to take the handle out all the same.
RefusePlan(r) ==
  /\ rpc[r].stage = "found"
  /\ rpc' = IF rpc[r].op = "execute" THEN [rpc EXCEPT ![r].stage = "remove"] ELSE Finished(r)
  /\ UNCHANGED <<storeVars, stmtVars, runVars, sweeper, consumed>>

\* do_get_statement starts the stream of its clone; taking the handle out of the
\* map is another access.
ExecuteStatement(r) ==
  /\ Found(r, "execute")
  /\ Start(ExecutionContext(r, rpc[r].handle))
  /\ stmt' = MarkUsed(rpc[r].handle)
  /\ rpc' = [rpc EXCEPT ![r].stage = "remove"]
  /\ UNCHANGED <<storeVars, statements, planned, sweeper, consumed>>

\* Mutant: the handle is left in the map.
RemoveNothing(r) ==
  /\ consumed' = consumed \cup {rpc[r].handle}
  /\ rpc' = Finished(r)
  /\ UNCHANGED <<storeVars, stmtVars, runVars, sweeper>>

\* Drop the handle from the session the request holds.
Remove(r) ==
  /\ statements' = [statements EXCEPT ![rpc[r].session] = @ \ {rpc[r].handle}]
  /\ consumed' = consumed \cup {rpc[r].handle}
  /\ rpc' = Finished(r)
  /\ UNCHANGED <<storeVars, stmt, planned, runVars, sweeper>>

RemoveExecuted(r) == rpc[r].stage = "remove" /\ Remove(r)

\* do_action_close_prepared_statement.
ClosePrepared(r) ==
  /\ Ready(r, "close")
  /\ Stores(rpc[r].session, rpc[r].handle)
  /\ Remove(r)

\* Mutant: fetching a prepared statement takes it out, as for a query.
ExecutePreparedOnce(r) ==
  /\ Found(r, "execute_prepared")
  /\ Start(ExecutionContext(r, rpc[r].handle))
  /\ stmt' = MarkUsed(rpc[r].handle)
  /\ statements' = [statements EXCEPT ![rpc[r].session] = @ \ {rpc[r].handle}]
  /\ rpc' = Finished(r)
  /\ UNCHANGED <<storeVars, planned, sweeper, consumed>>

\* do_get_prepared_statement: the handle stays.
ExecutePrepared(r) ==
  /\ Found(r, "execute_prepared")
  /\ Start(ExecutionContext(r, rpc[r].handle))
  /\ stmt' = MarkUsed(rpc[r].handle)
  /\ rpc' = Finished(r)
  /\ UNCHANGED <<storeVars, statements, planned, sweeper, consumed>>

\* do_put_prepared_statement_update: the handle stays, and the execution does
\* not go through execution_context.
UpdatePrepared(r) ==
  /\ Found(r, "update_prepared")
  /\ Start(BareContext(r, rpc[r].handle))
  /\ stmt' = MarkUsed(rpc[r].handle)
  /\ rpc' = Finished(r)
  /\ UNCHANGED <<storeVars, statements, planned, sweeper, consumed>>

\* Plan and execute, storing no statement.
RunUnstored(r, op) ==
  /\ Ready(r, op)
  /\ Start(BareContext(r, None))
  /\ rpc' = Finished(r)
  /\ UNCHANGED <<storeVars, stmtVars, sweeper, consumed>>

\* do_put_statement_update.
UpdateStatement(r) == RunUnstored(r, "update")

\* do_put_statement_ingest: an INSERT, or an append under a run of its own
\* (ManagedIngest).
IngestRows(r) == RunUnstored(r, "ingest")

\* do_put_fallback, of a DeltaCommand.
RunDeltaCommand(r) == RunUnstored(r, "delta")

Statements(r) ==
  \/ PlanStatement(r) \/ CreatePrepared(r) \/ PlanningFails(r) \/ NotFound(r)
  \/ DescribePrepared(r) \/ FindStatement(r) \/ RefusePlan(r) \/ ExecuteStatement(r)
  \/ RemoveExecuted(r) \/ ClosePrepared(r) \/ ExecutePrepared(r) \/ UpdatePrepared(r)
  \/ UpdateStatement(r) \/ IngestRows(r) \/ RunDeltaCommand(r)

-----------------------------------------------------------------------------
(* The sweeper and the clock                                                *)

\* First pass of SessionStore::sweep: drop the sessions idle for the TTL.
SweepSessions ==
  /\ sweeper = "waiting"
  /\ sessions' = [k \in Key |->
       IF sessions[k] # None /\ idle[sessions[k]] >= TTL THEN None ELSE sessions[k]]
  /\ sweeper' = "statements"
  /\ UNCHANGED <<owner, idle, built, stmtVars, runVars, rpc, consumed>>

Surviving(s) == \E k \in Key : sessions[k] = s

\* Mutant: the statements of the survivors are left alone.
SweepOrphanedStatements ==
  /\ sweeper = "statements"
  /\ statements' = [s \in Session |->
       IF ~Surviving(s) THEN {h \in statements[s] : stmt[h].age < TTL} ELSE statements[s]]
  /\ sweeper' = "waiting"
  /\ UNCHANGED <<storeVars, stmt, planned, runVars, rpc, consumed>>

\* Second pass: drop the old statements of the sessions still in the map.
SweepStatements ==
  /\ sweeper = "statements"
  /\ statements' = [s \in Session |->
       IF Surviving(s) THEN {h \in statements[s] : stmt[h].age < TTL} ELSE statements[s]]
  /\ sweeper' = "waiting"
  /\ UNCHANGED <<storeVars, stmt, planned, runVars, rpc, consumed>>

Older(n) == IF n < TTL THEN n + 1 ELSE n

\* Time passes for every session and every statement alike.
Tick ==
  /\ idle' = [s \in Session |-> IF s <= built THEN Older(idle[s]) ELSE idle[s]]
  /\ stmt' = [h \in Handle |->
       IF h <= planned THEN [stmt[h] EXCEPT !.age = Older(@), !.used = Older(@)]
                       ELSE stmt[h]]
  /\ UNCHANGED <<sessions, owner, built, statements, planned, runVars, rpc,
                 sweeper, consumed>>

Next ==
  \/ \E r \in Rpcs, op \in Served, sid \in Key \cup {None}, o \in Owners,
        h \in Handle \cup {None} : Arrive(r, op, sid, o, h)
  \/ \E r \in Rpcs : Resolve(r) \/ Statements(r)
  \/ \E o \in Handshakers : Handshake(o)
  \/ SweepSessions \/ SweepStatements \/ Tick

Spec == Init /\ [][Next]_vars

\* The sweeper is a tokio interval that never stops, and time passes.
FairSpec == Spec /\ WF_vars(Tick) /\ WF_vars(SweepSessions \/ SweepStatements)

-----------------------------------------------------------------------------
(* What the session layer promises                                          *)

\* A statement runs only in the session that planned it, whichever session a
\* presented handle is looked up in: the map of statements is the session's.
ExecutedWherePlanned ==
  \A e \in executions : e.handle # None => e.session = stmt[e.handle].home

RunsAreDistinct ==
  /\ \A e, f \in executions : e.run = f.run => e = f
  /\ \A e \in executions, h \in 1..planned : e.run # stmt[h].run

FetchesAreParented ==
  \A e \in executions :
    e.via \in {"execute", "execute_prepared"} => e.parent = stmt[e.handle].run

\* Every execution has a lineage run of its own, shared with no other
\* execution and with no planning run, so that no run's terminal event
\* overwrites another's; and one fetched by do_get traces back to the planning
\* run of the very statement it runs (lineage.rs, execution_context).
RunsAreTraced == RunsAreDistinct /\ FetchesAreParented

\* A statement that is younger than the TTL and that no do_get or close took
\* is still in the session that planned it, whatever was swept meanwhile.
YoungStatementsStay ==
  \A h \in 1..planned :
    stmt[h].age < TTL /\ h \notin consumed => h \in statements[stmt[h].home]

\* A session leaves the map only because it has been idle for the TTL: a
\* concurrent request for the same key never displaces it (the entry guard of
\* ephemeral_for), nor does the sweeper take one that was just used.
OnlyIdleSessionsLeave ==
  [][\A k \in Key : sessions[k] \notin {None, sessions'[k]} =>
        sessions'[k] = None /\ idle[sessions[k]] >= TTL]_vars

\* Once a do_get took a query handle out, or a close a prepared one, no request
\* finds it any more, in whichever session it looks: an execution that starts
\* later is that of a request which had cloned the statement before.
NoneFoundAfterRemoval ==
  [][\A r \in Rpcs : rpc[r].stage # "found" /\ rpc'[r].stage = "found" =>
        rpc[r].handle \notin consumed]_vars

UnusedSessionsEvicted ==
  \A s \in Session :
    Surviving(s) ~> (~Surviving(s) \/ idle[s] = 0)

StatementsReclaimed ==
  \A h \in Handle : \A s \in Session :
    (h \in statements[s] /\ Surviving(s)) ~> ~(h \in statements[s] /\ Surviving(s))

\* A session nobody uses any more is evicted in the end, with the statements
\* and the credentials it holds (spawn_sweeper); and a ticket that was minted
\* and never fetched does not stay in a live one (sweep_statements), however
\* often the session itself is used.
UnusedIsReleased == UnusedSessionsEvicted /\ StatementsReclaimed

-----------------------------------------------------------------------------
(* What a comment says and the code does not do                             *)

\* sweep_statements drops the statements idle longer than the TTL, and so
\* none that was executed more recently than that.
SweepSparesUsedStatements ==
  [][SweepStatements => \A s \in Session : \A h \in statements[s] \ statements'[s] :
        stmt[h].used >= TTL]_vars

=============================================================================
