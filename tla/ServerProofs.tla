------------------------------ MODULE ServerProofs ------------------------------
(***************************************************************************)
(* Proofs about FlightSessions and QueryStream, for any number of          *)
(* requests, principals, sessions, statements and runs and any TTL, and    *)
(* for every buffer size, row cap and length of the result.  Of the        *)
(* sessions: what a request holds at each stage, and where a handle and    *)
(* its run come from.  Of a response: how far the driver is, against what  *)
(* was sent and what the reader has.                                       *)
(***************************************************************************)
EXTENDS MCServer, SequenceTheorems, TLAPS

\* What a request has established by the stage it reached.
RequestsOK ==
  \A r \in Rpcs :
    /\ rpc[r].stage \in {"ephemeral", "insert"} => rpc[r].owner \in Owners
    /\ rpc[r].stage \in {"touch", "resolved", "found", "remove"} => rpc[r].session \in Session
    /\ rpc[r].stage # "idle" /\ rpc[r].op \in Fetches => rpc[r].handle \in 1..planned
    /\ rpc[r].stage = "found" => rpc[r].op \in Executes
    /\ rpc[r].stage = "remove" => rpc[r].op = "execute"

\* A handle is only ever in the session that planned it, under a run minted
\* before.
StatementsOK ==
  /\ \A s \in Session : \A h \in statements[s] : h \in 1..planned /\ stmt[h].home = s
  /\ \A h \in 1..planned : stmt[h].home \in Session /\ stmt[h].run \in 1..minted

ExecutionsOK ==
  \A e \in executions :
    /\ e.run \in 1..minted
    /\ e.handle # None => e.handle \in 1..planned
    /\ e.via \in Fetches => e.handle # None

TypeInv == TypeOK /\ RequestsOK

-----------------------------------------------------------------------------
(* Types                                                                    *)

\* The initial state is well typed.
LEMMA InitTypeInv == ASSUME Init PROVE TypeInv
  BY ConstantsOK DEF Init, TypeInv, TypeOK, RequestsOK, Request, NoRequest,
     Statement, NoStatement, Session, Handle, Run, Ops, Executes, Fetches

\* The age of anything stays within the saturated clock.
LEMMA OlderType == \A n \in 0..TTL : Older(n) \in 0..TTL
  BY ConstantsOK DEF Older

\* A statement that ages stays a statement.
LEMMA OlderStatement ==
  \A x \in Statement : [x EXCEPT !.age = Older(@), !.used = Older(@)] \in Statement
<1> SUFFICES ASSUME NEW x \in Statement
             PROVE  [x EXCEPT !.age = Older(x.age), !.used = Older(x.used)] \in Statement
  OBVIOUS
<1> DEFINE age == Older(x.age)
           used == Older(x.used)
<1>1. x.age \in 0..TTL /\ x.used \in 0..TTL
  BY DEF Statement
<1>2. age \in 0..TTL /\ used \in 0..TTL
  BY <1>1, OlderType
<1> HIDE DEF age, used
<1>3. [x EXCEPT !.age = age, !.used = used] \in Statement
  BY <1>2 DEF Statement
<1>4. QED
  BY <1>3 DEF age, used

\* Using a statement keeps it a statement.
LEMMA UsedType == \A x \in Statement : [x EXCEPT !.used = 0] \in Statement
<1> SUFFICES ASSUME NEW x \in Statement PROVE [x EXCEPT !.used = 0] \in Statement
  OBVIOUS
<1>1. 0 \in 0..TTL
  BY ConstantsOK
<1>2. QED
  BY <1>1 DEF Statement

\* A step that only ends a request keeps the types.
LEMMA FailTypeInv ==
  ASSUME TypeInv, NEW r \in Rpcs, Fail(r) PROVE TypeInv'
  BY ConstantsOK DEF TypeInv, TypeOK, RequestsOK, Fail, Finished, Request,
     NoRequest, Ops, Fetches, storeVars, stmtVars, runVars

\* An arriving request keeps the types.
LEMMA ArriveTypeInv ==
  ASSUME TypeInv, NEW r \in Rpcs, NEW op \in Ops, NEW sid \in Key \cup {None},
         NEW o \in Owners, NEW h \in Handle \cup {None}, Arrive(r, op, sid, o, h)
  PROVE  TypeInv'
<1> DEFINE found == sid # None /\ sessions[sid] # None
           q == [stage |-> IF found THEN "touch" ELSE "ephemeral", op |-> op,
                 handle |-> h, owner |-> IF found THEN None ELSE o,
                 session |-> IF found THEN sessions[sid] ELSE None]
<1>1. rpc' = [rpc EXCEPT ![r] = q]
  BY DEF Arrive
<1>2. found => sessions[sid] \in Session
  BY DEF TypeInv, TypeOK
<1>3. q \in Request
  BY <1>2 DEF Request
<1>4. op \in Fetches => h \in 1..planned
  BY DEF Arrive, Presents
<1>5. TypeOK'
  BY <1>1, <1>3 DEF Arrive, TypeInv, TypeOK, storeVars, stmtVars, runVars
<1>6. RequestsOK'
  BY <1>1, <1>2, <1>4 DEF Arrive, TypeInv, TypeOK, RequestsOK, stmtVars
<1>7. QED
  BY <1>5, <1>6 DEF TypeInv

\* Resolving a session leads to a session of the store.
LEMMA ResolveTypeInv ==
  ASSUME TypeInv, NEW r \in Rpcs, Resolve(r) PROVE TypeInv'
<1> USE ConstantsOK DEF TypeInv, TypeOK, RequestsOK, Request, storeVars, stmtVars, runVars
<1>1. CASE EphemeralGet(r)
  <2>1. CASE Fail(r)
    BY <2>1, FailTypeInv
  <2>2. CASE ~Fail(r)
    <3>1. rpc[r].owner \in Key
      BY <1>1, <2>2 DEF EphemeralGet, Key
    <3>2. QED
      BY <1>1, <2>2, <3>1 DEF EphemeralGet, Holding
  <2>3. QED
    BY <2>1, <2>2
<1>2. CASE EntryOrInsert(r)
  <2>1. rpc[r].owner \in Key /\ rpc[r].owner \in Owners
    BY <1>2 DEF EntryOrInsert, Key
  <2>2. CASE sessions[rpc[r].owner] # None
    BY <1>2, <2>1, <2>2 DEF EntryOrInsert, Holding
  <2>3. CASE sessions[rpc[r].owner] = None
    <3>1. NewSession(rpc[r].owner, rpc[r].owner) /\ rpc' = Holding(r, built + 1)
      BY <1>2, <2>3 DEF EntryOrInsert
    <3>2. built + 1 \in Session /\ built' \in 0..MaxSessions
      BY <3>1 DEF NewSession, Session
    <3>3. rpc' \in [Rpcs -> Request] /\ RequestsOK'
      BY <1>2, <3>1, <3>2 DEF EntryOrInsert, Holding
    <3>4. /\ sessions' \in [Key -> Session \cup {None}]
          /\ owner' \in [Session -> Owners \cup {None}]
          /\ idle' \in [Session -> 0..TTL]
      BY <2>1, <3>1, <3>2 DEF NewSession
    <3>5. QED
      BY <1>2, <3>2, <3>3, <3>4 DEF EntryOrInsert
  <2>4. QED
    BY <2>2, <2>3
<1>3. CASE BuildFails(r)
  BY <1>3, FailTypeInv DEF BuildFails
<1>4. CASE Touch(r)
  BY <1>4 DEF Touch
<1>5. QED
  BY <1>1, <1>2, <1>3, <1>4 DEF Resolve

\* The statement RPCs keep the types.
LEMMA StatementsTypeInv ==
  ASSUME TypeInv, NEW r \in Rpcs, Statements(r) PROVE TypeInv'
<1>0. \A st \in {"found", "remove"} : [rpc[r] EXCEPT !.stage = st] \in Request
  BY DEF TypeInv, TypeOK, Request
<1> USE ConstantsOK DEF TypeInv, TypeOK, RequestsOK, Request, storeVars, stmtVars,
        runVars, Handle, Run, Executes, Fetches, Ops
<1>1. ASSUME NEW op \in {"plan", "prepare"}, StorePlan(r, op) PROVE TypeInv'
  <2>1. /\ planned + 1 \in Handle /\ planned' = planned + 1
        /\ minted + 1 \in Run /\ minted' = minted + 1
        /\ rpc[r].session \in Session
    BY <1>1 DEF StorePlan, Ready
  <2>2. stmt' \in [Handle -> Statement]
    BY <1>1, <2>1 DEF StorePlan, Statement
  <2>3. statements' \in [Session -> SUBSET Handle]
    BY <1>1, <2>1 DEF StorePlan
  <2>4. rpc' \in [Rpcs -> Request] /\ RequestsOK'
    BY <1>1, <2>1 DEF StorePlan, Finished, NoRequest
  <2>5. QED
    BY <1>1, <2>1, <2>2, <2>3, <2>4 DEF StorePlan
<1>2. CASE PlanningFails(r)
  BY <1>2, FailTypeInv DEF PlanningFails
<1>3. CASE NotFound(r)
  BY <1>3, FailTypeInv DEF NotFound
<1>4. CASE ExecuteStatement(r) \/ ExecutePrepared(r) \/ UpdatePrepared(r)
  <2>1. /\ rpc[r].session \in Session /\ rpc[r].handle \in Handle
        /\ rpc[r].op \in Ops /\ stmt[rpc[r].handle] \in Statement
        /\ minted' = minted + 1 /\ minted + 1 \in Run
    BY <1>4 DEF ExecuteStatement, ExecutePrepared, UpdatePrepared, Found, Start
  <2>2. executions' \in SUBSET Execution
    BY <1>4, <2>1 DEF ExecuteStatement, ExecutePrepared, UpdatePrepared, Start,
       ExecutionContext, BareContext, Execution, Statement
  <2>3. stmt' \in [Handle -> Statement]
    <3>1. stmt' = [stmt EXCEPT ![rpc[r].handle].used = 0]
      BY <1>4 DEF ExecuteStatement, ExecutePrepared, UpdatePrepared, MarkUsed
    <3>2. [stmt[rpc[r].handle] EXCEPT !.used = 0] \in Statement
      BY <2>1, UsedType
    <3>3. QED
      BY <2>1, <3>1, <3>2
  <2>4. rpc' \in [Rpcs -> Request] /\ RequestsOK'
    <3>1. planned' = planned
      BY <1>4 DEF ExecuteStatement, ExecutePrepared, UpdatePrepared
    <3>2. CASE rpc' = [rpc EXCEPT ![r] = NoRequest]
      BY <3>1, <3>2 DEF NoRequest
    <3>3. CASE ExecuteStatement(r)
      <4>1. [rpc[r] EXCEPT !.stage = "remove"] \in Request
        BY <1>0
      <4>2. rpc' = [rpc EXCEPT ![r] = [rpc[r] EXCEPT !.stage = "remove"]]
        BY <3>3 DEF ExecuteStatement
      <4>3. rpc' \in [Rpcs -> Request]
        BY <4>1, <4>2
      <4>4. rpc[r].op = "execute" /\ rpc[r].session \in Session /\ rpc[r].handle \in 1..planned
        BY <3>3 DEF ExecuteStatement, Found
      <4>5. RequestsOK'
        BY <3>1, <4>2, <4>4
      <4>6. QED
        BY <4>3, <4>5
    <3>4. QED
      BY <1>4, <3>2, <3>3 DEF ExecutePrepared, UpdatePrepared, Finished
  <2>5. QED
    BY <1>4, <2>1, <2>2, <2>3, <2>4 DEF ExecuteStatement, ExecutePrepared, UpdatePrepared
<1>5. CASE RemoveExecuted(r) \/ ClosePrepared(r)
  <2>1. rpc[r].session \in Session /\ rpc[r].handle \in Handle /\ Remove(r)
    BY <1>5 DEF RemoveExecuted, ClosePrepared, Ready
  <2>2. QED
    BY <2>1 DEF Remove, Finished, NoRequest
<1>6. ASSUME NEW op \in Ops, RunUnstored(r, op) PROVE TypeInv'
  <2>1. rpc[r].session \in Session /\ minted' = minted + 1 /\ minted + 1 \in Run
    BY <1>6 DEF RunUnstored, Ready, Start
  <2>2. executions' \in SUBSET Execution
    BY <1>6, <2>1 DEF RunUnstored, Ready, Start, BareContext, Execution
  <2>3. QED
    BY <1>6, <2>1, <2>2 DEF RunUnstored, Finished, NoRequest
<1>7. CASE DescribePrepared(r)
  BY <1>7 DEF DescribePrepared, Finished, NoRequest
<1>8. CASE FindStatement(r)
  <2>1. rpc' = [rpc EXCEPT ![r] = [rpc[r] EXCEPT !.stage = "found"]]
    BY <1>8 DEF FindStatement
  <2>2. rpc' \in [Rpcs -> Request] /\ RequestsOK'
    BY <1>0, <1>8, <2>1 DEF FindStatement
  <2>3. QED
    BY <1>8, <2>2 DEF FindStatement
<1>9. CASE RefusePlan(r)
  <2>1. \/ /\ rpc' = [rpc EXCEPT ![r] = [rpc[r] EXCEPT !.stage = "remove"]]
           /\ rpc[r].op = "execute"
        \/ rpc' = [rpc EXCEPT ![r] = NoRequest]
    BY <1>9 DEF RefusePlan, Finished
  <2>2. rpc[r].handle \in 1..planned /\ rpc[r].session \in Session /\ planned' = planned
    BY <1>9 DEF RefusePlan
  <2>3. rpc' \in [Rpcs -> Request] /\ RequestsOK'
    <3>1. CASE /\ rpc' = [rpc EXCEPT ![r] = [rpc[r] EXCEPT !.stage = "remove"]]
               /\ rpc[r].op = "execute"
      <4>1. rpc' \in [Rpcs -> Request]
        BY <1>0, <3>1
      <4>2. RequestsOK'
        BY <2>2, <3>1
      <4>3. QED
        BY <4>1, <4>2
    <3>2. CASE rpc' = [rpc EXCEPT ![r] = NoRequest]
      BY <2>2, <3>2 DEF NoRequest
    <3>3. QED
      BY <2>1, <3>1, <3>2
  <2>4. QED
    BY <1>9, <2>3 DEF RefusePlan
<1>10. QED
  BY <1>1, <1>2, <1>3, <1>4, <1>5, <1>6, <1>7, <1>8, <1>9
     DEF Statements, PlanStatement, CreatePrepared, UpdateStatement, IngestRows, RunDeltaCommand

\* Every step of the specification keeps the types.
LEMMA NextTypeInv ==
  ASSUME TypeInv, [Next]_vars PROVE TypeInv'
<1> USE ConstantsOK DEF TypeInv, TypeOK, RequestsOK, storeVars, stmtVars, runVars
<1>1. ASSUME NEW o \in Handshakers, Handshake(o) PROVE TypeInv'
  <2>1. built + 1 \in Session /\ built' \in 0..MaxSessions /\ built + 1 \in Key
    BY <1>1 DEF Handshake, NewSession, Session, Key
  <2>2. QED
    BY <1>1, <2>1 DEF Handshake, NewSession
<1>2. CASE SweepSessions
  BY <1>2 DEF SweepSessions
<1>3. CASE SweepStatements
  BY <1>3 DEF SweepStatements
<1>4. CASE Tick
  <2>1. idle' \in [Session -> 0..TTL]
    BY <1>4, OlderType DEF Tick
  <2>2. stmt' \in [Handle -> Statement]
    <3>1. ASSUME NEW h \in Handle PROVE stmt'[h] \in Statement
      BY <1>4, OlderStatement DEF Tick
    <3>2. QED
      BY <1>4, <3>1 DEF Tick
  <2>3. QED
    BY <1>4, <2>1, <2>2 DEF Tick
<1>5. CASE UNCHANGED vars
  BY <1>5 DEF vars
<1>6. QED
  BY <1>1, <1>2, <1>3, <1>4, <1>5, ServedOK, ArriveTypeInv, ResolveTypeInv,
     StatementsTypeInv DEF Next

\* The types, and what a request has established at each stage, always hold.
THEOREM TypeCorrect == Spec => []TypeInv
<1>1. Init => TypeInv
  BY InitTypeInv
<1>2. TypeInv /\ [Next]_vars => TypeInv'
  BY NextTypeInv
<1>3. QED
  BY <1>1, <1>2, PTL DEF Spec

-----------------------------------------------------------------------------
(* Statements and executions                                                *)

\* What is inductive about the statement store: where each handle is, which
\* runs are taken, and the properties the runs check.
StoreInv ==
  /\ StatementsOK
  /\ ExecutionsOK
  /\ ExecutedWherePlanned
  /\ RunsAreDistinct
  /\ FetchesAreParented
  /\ YoungStatementsStay

\* A handle that was taken out is in no session any more, and a request that has
\* cloned a statement holds the session which planned it, the only one its handle
\* can be in.
HandlesOK ==
  /\ \A h \in consumed : h \in 1..planned /\ \A s \in Session : h \notin statements[s]
  /\ \A r \in Rpcs :
       rpc[r].stage \in {"found", "remove"} => stmt[rpc[r].handle].home = rpc[r].session

\* The store starts empty.
LEMMA InitStoreInv == ASSUME Init PROVE StoreInv
  BY ConstantsOK DEF Init, StoreInv, StatementsOK, ExecutionsOK, ExecutedWherePlanned,
     RunsAreDistinct, FetchesAreParented, YoungStatementsStay

\* Steps that resolve sessions touch no statement and start nothing.
LEMMA QuietStoreInv ==
  ASSUME StoreInv, UNCHANGED <<stmtVars, runVars, consumed>> PROVE StoreInv'
  BY DEF StoreInv, StatementsOK, ExecutionsOK, ExecutedWherePlanned, RunsAreDistinct,
     FetchesAreParented, YoungStatementsStay, stmtVars, runVars

\* A new statement gets a handle and a run nobody has.
LEMMA StorePlanStoreInv ==
  ASSUME TypeInv, StoreInv, NEW r \in Rpcs, NEW op \in {"plan", "prepare"}, StorePlan(r, op)
  PROVE  StoreInv'
<1> DEFINE h == planned + 1
           s == rpc[r].session
<1>1. /\ h \in Handle /\ s \in Session /\ minted + 1 \in Run
      /\ planned' = h /\ minted' = minted + 1 /\ planned \in Nat /\ minted \in Nat
      /\ executions' = executions /\ consumed' = consumed
      /\ statements' = [statements EXCEPT ![s] = @ \cup {h}]
  BY ConstantsOK DEF StorePlan, Ready, TypeInv, TypeOK, RequestsOK, Handle, Run
<1>2. /\ stmt'[h].run = minted + 1 /\ stmt'[h].home = s
      /\ \A g \in 1..planned : stmt'[g] = stmt[g]
      /\ \A g \in 1..planned' : g \in 1..planned \/ g = h
  BY <1>1, ConstantsOK DEF StorePlan, TypeInv, TypeOK, Handle
<1>3. statements \in [Session -> SUBSET Handle]
  BY DEF TypeInv, TypeOK
<1>4. StatementsOK'
  BY <1>1, <1>2, <1>3 DEF StoreInv, StatementsOK
<1>5. ExecutionsOK' /\ ExecutedWherePlanned' /\ FetchesAreParented'
  BY <1>1, <1>2 DEF StoreInv, ExecutionsOK, ExecutedWherePlanned, FetchesAreParented, Executes, Fetches
<1>6. RunsAreDistinct'
  BY <1>1, <1>2 DEF StoreInv, ExecutionsOK, RunsAreDistinct
<1>7. YoungStatementsStay'
  BY <1>1, <1>2, <1>3 DEF StoreInv, StatementsOK, YoungStatementsStay
<1>8. QED
  BY <1>4, <1>5, <1>6, <1>7 DEF StoreInv

\* An execution takes a run nobody has, in the session that planned its statement.
LEMMA StartStoreInv ==
  ASSUME TypeInv, StoreInv, HandlesOK, NEW r \in Rpcs,
         ExecuteStatement(r) \/ ExecutePrepared(r) \/ UpdatePrepared(r)
  PROVE  StoreInv'
<1> DEFINE h == rpc[r].handle
           s == rpc[r].session
<1>1. PICK cx \in {ExecutionContext(r, h), BareContext(r, h)} :
        /\ executions' = executions \cup {cx}
        /\ cx.via \in {"execute", "execute_prepared"} => cx.parent = stmt[h].run
  BY DEF ExecuteStatement, ExecutePrepared, UpdatePrepared, Start, Found,
     ExecutionContext, BareContext
<1>2. cx.handle = h /\ cx.run = minted + 1 /\ cx.session = s /\ cx.via = rpc[r].op
  BY <1>1 DEF ExecutionContext, BareContext
<1>3. /\ stmt[h].home = s /\ s \in Session /\ h \in 1..planned
      /\ minted' = minted + 1 /\ minted \in Nat /\ planned \in Nat
      /\ planned' = planned /\ statements' = statements /\ consumed' = consumed
      /\ stmt' = [stmt EXCEPT ![h].used = 0]
  BY ConstantsOK DEF ExecuteStatement, ExecutePrepared, UpdatePrepared, Found, Start,
     MarkUsed, TypeInv, TypeOK, RequestsOK, HandlesOK, Executes, Fetches
<1>4. \A g \in 1..planned : /\ stmt'[g].run = stmt[g].run /\ stmt'[g].home = stmt[g].home
                             /\ stmt'[g].age = stmt[g].age
  BY <1>3, ConstantsOK DEF TypeInv, TypeOK, Handle, Statement
<1>5. stmt[h].home = s /\ h # None
  BY <1>3, ConstantsOK DEF Handle, TypeInv, TypeOK
<1>6. StatementsOK' /\ YoungStatementsStay'
  BY <1>3, <1>4 DEF StoreInv, StatementsOK, YoungStatementsStay
<1>7. ExecutionsOK' /\ ExecutedWherePlanned'
  BY <1>1, <1>2, <1>3, <1>4, <1>5 DEF StoreInv, ExecutionsOK, ExecutedWherePlanned
<1>8. FetchesAreParented'
  BY <1>1, <1>2, <1>3, <1>4 DEF StoreInv, ExecutionsOK, FetchesAreParented, Executes, Fetches
<1>9. RunsAreDistinct'
  BY <1>1, <1>2, <1>3, <1>4 DEF StoreInv, StatementsOK, ExecutionsOK, RunsAreDistinct
<1>10. QED
  BY <1>6, <1>7, <1>8, <1>9 DEF StoreInv

\* An update without a statement takes a run nobody has either.
LEMMA UpdateStoreInv ==
  ASSUME TypeInv, StoreInv, NEW r \in Rpcs, NEW op \in Ops \ Fetches, RunUnstored(r, op)
  PROVE  StoreInv'
<1> DEFINE cx == BareContext(r, None)
<1>1. /\ executions' = executions \cup {cx} /\ minted' = minted + 1 /\ minted \in Nat
      /\ stmt' = stmt /\ statements' = statements /\ planned' = planned
      /\ consumed' = consumed /\ planned \in Nat
  BY ConstantsOK DEF RunUnstored, Start, stmtVars, TypeInv, TypeOK
<1>2. cx.handle = None /\ cx.run = minted + 1 /\ cx.via \notin Fetches
  BY DEF BareContext, RunUnstored, Ready
<1>3. StatementsOK' /\ YoungStatementsStay'
  BY <1>1 DEF StoreInv, StatementsOK, YoungStatementsStay
<1>4. ExecutionsOK' /\ ExecutedWherePlanned' /\ FetchesAreParented'
  BY <1>1, <1>2 DEF StoreInv, ExecutionsOK, ExecutedWherePlanned, FetchesAreParented, Executes, Fetches
<1>5. RunsAreDistinct'
  BY <1>1, <1>2 DEF StoreInv, StatementsOK, ExecutionsOK, RunsAreDistinct
<1>6. QED
  BY <1>3, <1>4, <1>5 DEF StoreInv

\* Taking a handle out is accounted for in consumed.
LEMMA RemoveStoreInv ==
  ASSUME TypeInv, StoreInv, NEW r \in Rpcs, Remove(r),
         rpc[r].session \in Session
  PROVE  StoreInv'
<1>1. /\ stmt' = stmt /\ planned' = planned /\ UNCHANGED runVars
      /\ consumed' = consumed \cup {rpc[r].handle}
      /\ \A s \in Session : /\ statements'[s] \subseteq statements[s]
                             /\ \A g \in statements[s] : g # rpc[r].handle => g \in statements'[s]
  BY DEF Remove, TypeInv, TypeOK
<1>2. QED
  BY <1>1 DEF StoreInv, StatementsOK, ExecutionsOK, ExecutedWherePlanned, RunsAreDistinct,
     FetchesAreParented, YoungStatementsStay, runVars

\* The sweeper takes only statements as old as the TTL.
LEMMA SweepStoreInv ==
  ASSUME TypeInv, StoreInv, SweepStatements PROVE StoreInv'
<1>1. /\ stmt' = stmt /\ planned' = planned /\ UNCHANGED runVars /\ consumed' = consumed
      /\ \A s \in Session : /\ statements'[s] \subseteq statements[s]
                             /\ \A g \in statements[s] : stmt[g].age < TTL => g \in statements'[s]
  BY DEF SweepStatements
<1>2. QED
  BY <1>1 DEF StoreInv, StatementsOK, ExecutionsOK, ExecutedWherePlanned, RunsAreDistinct,
     FetchesAreParented, YoungStatementsStay, runVars

\* Time makes no statement younger.
LEMMA TickStoreInv ==
  ASSUME TypeInv, StoreInv, Tick PROVE StoreInv'
<1>1. ASSUME NEW h \in 1..planned
      PROVE  /\ stmt'[h].run = stmt[h].run /\ stmt'[h].home = stmt[h].home
             /\ stmt'[h].age < TTL => stmt[h].age < TTL
  <2>1. h \in Handle /\ h <= planned
    BY ConstantsOK DEF TypeInv, TypeOK, Handle
  <2>2. stmt[h] \in Statement /\ stmt[h].age \in 0..TTL
    BY <2>1 DEF TypeInv, TypeOK, Statement
  <2>3. stmt'[h] = [stmt[h] EXCEPT !.age = Older(@), !.used = Older(@)]
    BY <2>1 DEF Tick
  <2>4. /\ stmt'[h].run = stmt[h].run /\ stmt'[h].home = stmt[h].home
        /\ stmt'[h].age = Older(stmt[h].age)
    BY <2>2, <2>3 DEF Statement
  <2>5. QED
    BY <2>2, <2>4, ConstantsOK DEF Older
<1>2. /\ statements' = statements /\ planned' = planned /\ minted' = minted
      /\ executions' = executions /\ consumed' = consumed
  BY DEF Tick, runVars
<1>3. StatementsOK' /\ ExecutionsOK'
  BY <1>1, <1>2 DEF StoreInv, StatementsOK, ExecutionsOK
<1>4. YoungStatementsStay'
  BY <1>1, <1>2 DEF StoreInv, YoungStatementsStay
<1>5. ExecutedWherePlanned'
  BY <1>1, <1>2 DEF StoreInv, ExecutionsOK, ExecutedWherePlanned
<1>6. RunsAreDistinct'
  BY <1>1, <1>2 DEF StoreInv, RunsAreDistinct
<1>7. FetchesAreParented'
  BY <1>1, <1>2 DEF StoreInv, ExecutionsOK, FetchesAreParented, Executes, Fetches
<1>8. QED
  BY <1>3, <1>4, <1>5, <1>6, <1>7 DEF StoreInv

\* Every step keeps the statements where they were planned and the runs apart.
LEMMA NextStoreInv ==
  ASSUME TypeInv, StoreInv, HandlesOK, [Next]_vars PROVE StoreInv'
<1>1. ASSUME NEW r \in Rpcs, Resolve(r) PROVE StoreInv'
  BY <1>1, QuietStoreInv DEF Resolve, EphemeralGet, EntryOrInsert, BuildFails, Touch, Fail
<1>2. ASSUME NEW r \in Rpcs, Statements(r) PROVE StoreInv'
  <2>1. CASE Fail(r)
    BY <2>1, QuietStoreInv DEF Fail
  <2>2. CASE RemoveExecuted(r) \/ ClosePrepared(r)
    BY <2>2, RemoveStoreInv DEF RemoveExecuted, ClosePrepared, Ready, TypeInv, RequestsOK
  <2>3. CASE PlanStatement(r) \/ CreatePrepared(r)
    BY <2>3, StorePlanStoreInv DEF PlanStatement, CreatePrepared
  <2>4. CASE UpdateStatement(r) \/ IngestRows(r) \/ RunDeltaCommand(r)
    BY <2>4, UpdateStoreInv DEF UpdateStatement, IngestRows, RunDeltaCommand, Ops, Executes, Fetches
  <2>5. CASE DescribePrepared(r) \/ FindStatement(r) \/ RefusePlan(r)
    BY <2>5, QuietStoreInv DEF DescribePrepared, FindStatement, RefusePlan
  <2>6. QED
    BY <1>2, <2>1, <2>2, <2>3, <2>4, <2>5, StartStoreInv DEF Statements, PlanningFails, NotFound
<1>3. ASSUME NEW r \in Rpcs, NEW op \in Ops, NEW sid \in Key \cup {None},
             NEW o \in Owners, NEW h \in Handle \cup {None}, Arrive(r, op, sid, o, h)
      PROVE StoreInv'
  BY <1>3, QuietStoreInv DEF Arrive
<1>4. ASSUME NEW o \in Handshakers, Handshake(o) PROVE StoreInv'
  BY <1>4, QuietStoreInv DEF Handshake
<1>5. CASE SweepSessions
  BY <1>5, QuietStoreInv DEF SweepSessions
<1>6. CASE UNCHANGED vars
  BY <1>6, QuietStoreInv DEF vars
<1>7. QED
  BY <1>1, <1>2, <1>3, <1>4, <1>5, <1>6, ServedOK, SweepStoreInv, TickStoreInv
     DEF Next

-----------------------------------------------------------------------------
(* Handles that were taken out                                              *)

\* A step that stores no handle, takes none out and moves no statement, and brings on at most
\* requests of the session that planned their statement.
LEMMA KeptHandlesOK ==
  ASSUME TypeInv, HandlesOK, consumed' = consumed, planned' = planned,
         \A s \in Session : statements'[s] \subseteq statements[s],
         \A h \in 1..planned : stmt'[h].home = stmt[h].home,
         \A r \in Rpcs : rpc'[r].stage \in {"found", "remove"} =>
           \/ rpc'[r] = rpc[r]
           \/ /\ rpc'[r].handle \in 1..planned
              /\ stmt[rpc'[r].handle].home = rpc'[r].session
  PROVE  HandlesOK'
<1>1. ASSUME NEW h \in consumed' PROVE h \in 1..planned' /\ \A s \in Session : h \notin statements'[s]
  BY <1>1 DEF HandlesOK
<1>2. ASSUME NEW r \in Rpcs, rpc'[r].stage \in {"found", "remove"}
      PROVE  stmt'[rpc'[r].handle].home = rpc'[r].session
  <2>1. CASE rpc'[r] = rpc[r]
    <3>1. rpc[r].stage \in {"found", "remove"}
      BY <1>2, <2>1
    <3>2. rpc[r].handle \in 1..planned
      BY <3>1 DEF TypeInv, RequestsOK, Executes, Fetches
    <3>3. QED
      BY <2>1, <3>1, <3>2 DEF HandlesOK
  <2>2. QED
    BY <1>2, <2>1
<1>3. QED
  BY <1>1, <1>2 DEF HandlesOK

\* A step that brings no request on and leaves the statements alone.
LEMMA QuietHandlesOK ==
  ASSUME TypeInv, HandlesOK, UNCHANGED <<stmtVars, consumed>>,
         \A r \in Rpcs : rpc'[r].stage \in {"found", "remove"} => rpc'[r] = rpc[r]
  PROVE  HandlesOK'
  BY KeptHandlesOK DEF stmtVars

\* The end of a request keeps the removals apart from what is stored.
LEMMA FailHandlesOK ==
  ASSUME TypeInv, HandlesOK, NEW r \in Rpcs, Fail(r) PROVE HandlesOK'
<1>1. \A q \in Rpcs : rpc'[q].stage \in {"found", "remove"} => rpc'[q] = rpc[q]
  BY DEF Fail, Finished, NoRequest, TypeInv, TypeOK
<1>2. QED
  BY <1>1, QuietHandlesOK DEF Fail

\* A new statement gets a handle that was never taken out.
LEMMA StorePlanHandlesOK ==
  ASSUME TypeInv, HandlesOK, NEW r \in Rpcs, NEW op \in {"plan", "prepare"}, StorePlan(r, op)
  PROVE  HandlesOK'
<1> DEFINE h == planned + 1
           s == rpc[r].session
<1>1. /\ h \in Handle /\ s \in Session /\ planned' = h /\ planned \in Nat
      /\ consumed' = consumed
      /\ statements' = [statements EXCEPT ![s] = @ \cup {h}]
      /\ rpc' = [rpc EXCEPT ![r] = NoRequest]
  BY ConstantsOK DEF StorePlan, Ready, TypeInv, TypeOK, RequestsOK, Handle, Finished
<1>2. \A g \in 1..planned : stmt'[g] = stmt[g] /\ g # h /\ g \in 1..planned'
  BY <1>1, ConstantsOK DEF StorePlan, TypeInv, TypeOK, Handle
<1>3. ASSUME NEW g \in consumed' PROVE g \in 1..planned' /\ \A t \in Session : g \notin statements'[t]
  BY <1>1, <1>2 DEF HandlesOK, TypeInv, TypeOK
<1>4. ASSUME NEW q \in Rpcs, rpc'[q].stage \in {"found", "remove"}
      PROVE  stmt'[rpc'[q].handle].home = rpc'[q].session
  <2>1. rpc'[q] = rpc[q]
    BY <1>1, <1>4 DEF NoRequest, TypeInv, TypeOK
  <2>2. rpc[q].handle \in 1..planned
    BY <1>4, <2>1 DEF TypeInv, RequestsOK, Executes, Fetches
  <2>3. QED
    BY <1>2, <1>4, <2>1, <2>2 DEF HandlesOK
<1>5. QED
  BY <1>3, <1>4 DEF HandlesOK

\* A request clones only what its session holds, and keeps to it until its handle is taken out.
LEMMA StartHandlesOK ==
  ASSUME TypeInv, StoreInv, HandlesOK, NEW r \in Rpcs,
         \/ FindStatement(r) \/ RefusePlan(r)
         \/ ExecuteStatement(r) \/ ExecutePrepared(r) \/ UpdatePrepared(r)
  PROVE  HandlesOK'
<1> DEFINE h == rpc[r].handle
<1>1. /\ planned' = planned /\ statements' = statements /\ consumed' = consumed
      /\ stmt' = stmt \/ stmt' = [stmt EXCEPT ![h].used = 0]
      /\ \/ \E st \in {"found", "remove"} : rpc' = [rpc EXCEPT ![r].stage = st]
         \/ rpc' = [rpc EXCEPT ![r] = NoRequest]
  BY DEF FindStatement, RefusePlan, ExecuteStatement, ExecutePrepared, UpdatePrepared,
     MarkUsed, Finished, stmtVars
<1>2. h \in 1..planned /\ stmt[h].home = rpc[r].session
  <2>1. CASE FindStatement(r)
    <3>1. rpc[r].session \in Session /\ h \in statements[rpc[r].session]
      BY <2>1 DEF FindStatement, Stores, TypeInv, RequestsOK
    <3>2. QED
      BY <3>1 DEF StoreInv, StatementsOK
  <2>2. CASE rpc[r].stage = "found"
    BY <2>2 DEF HandlesOK, TypeInv, RequestsOK, Executes, Fetches
  <2>3. QED
    BY <2>1, <2>2 DEF RefusePlan, ExecuteStatement, ExecutePrepared, UpdatePrepared, Found
<1>3. ASSUME NEW g \in 1..planned PROVE stmt'[g].home = stmt[g].home
  <2>1. g \in Handle /\ stmt[g] \in Statement
    BY ConstantsOK DEF TypeInv, TypeOK, Handle
  <2>2. CASE stmt' = [stmt EXCEPT ![h].used = 0]
    BY <2>1, <2>2 DEF TypeInv, TypeOK, Statement
  <2>3. QED
    BY <1>1, <2>2
<1>4. ASSUME NEW q \in Rpcs, rpc'[q].stage \in {"found", "remove"}
      PROVE  \/ rpc'[q] = rpc[q]
             \/ rpc'[q].handle \in 1..planned /\ stmt[rpc'[q].handle].home = rpc'[q].session
  <2>1. CASE q # r
    BY <1>1, <2>1 DEF TypeInv, TypeOK
  <2>2. CASE q = r
    <3>1. PICK st \in {"found", "remove"} : rpc' = [rpc EXCEPT ![r].stage = st]
      BY <1>1, <1>4, <2>2 DEF NoRequest, TypeInv, TypeOK
    <3>2. rpc'[r].handle = h /\ rpc'[r].session = rpc[r].session
      BY <3>1 DEF TypeInv, TypeOK, Request
    <3>3. QED
      BY <1>2, <2>2, <3>2
  <2>3. QED
    BY <2>1, <2>2
<1>5. QED
  BY <1>1, <1>3, <1>4, KeptHandlesOK

\* A handle taken out of the session that planned it is in no other one.
LEMMA RemoveHandlesOK ==
  ASSUME TypeInv, StoreInv, HandlesOK, NEW r \in Rpcs, RemoveExecuted(r) \/ ClosePrepared(r)
  PROVE  HandlesOK'
<1> DEFINE h == rpc[r].handle
           s == rpc[r].session
<1>1. /\ s \in Session /\ h \in 1..planned
      /\ stmt' = stmt /\ planned' = planned /\ consumed' = consumed \cup {h}
      /\ statements' = [statements EXCEPT ![s] = @ \ {h}]
      /\ rpc' = [rpc EXCEPT ![r] = NoRequest]
  BY DEF RemoveExecuted, ClosePrepared, Remove, Ready, Finished, stmtVars, TypeInv, RequestsOK,
     Executes, Fetches
<1>2. stmt[h].home = s
  <2>1. CASE rpc[r].stage = "remove"
    BY <2>1 DEF HandlesOK
  <2>2. CASE ClosePrepared(r)
    BY <1>1, <2>2 DEF ClosePrepared, Stores, StoreInv, StatementsOK
  <2>3. QED
    BY <2>1, <2>2 DEF RemoveExecuted
<1>3. ASSUME NEW t \in Session PROVE h \notin statements'[t] /\ statements'[t] \subseteq statements[t]
  <2>1. CASE t = s
    BY <1>1, <2>1 DEF TypeInv, TypeOK
  <2>2. CASE t # s
    BY <1>1, <1>2, <2>2 DEF TypeInv, TypeOK, StoreInv, StatementsOK
  <2>3. QED
    BY <2>1, <2>2
<1>4. ASSUME NEW q \in Rpcs, rpc'[q].stage \in {"found", "remove"}
      PROVE  stmt'[rpc'[q].handle].home = rpc'[q].session
  <2>1. rpc'[q] = rpc[q]
    BY <1>1, <1>4 DEF NoRequest, TypeInv, TypeOK
  <2>2. QED
    BY <1>1, <1>4, <2>1 DEF HandlesOK
<1>5. QED
  BY <1>1, <1>3, <1>4 DEF HandlesOK

\* Every step keeps what was taken out away from what is stored.
LEMMA NextHandlesOK ==
  ASSUME TypeInv, StoreInv, HandlesOK, [Next]_vars PROVE HandlesOK'
<1>1. ASSUME NEW r \in Rpcs, Resolve(r) PROVE HandlesOK'
  <2>1. CASE Fail(r)
    BY <2>1, FailHandlesOK
  <2>2. CASE ~Fail(r)
    <3>1. UNCHANGED <<stmtVars, consumed>>
      BY <1>1, <2>2 DEF Resolve, EphemeralGet, EntryOrInsert, BuildFails, Touch
    <3>2. ASSUME NEW q \in Rpcs, rpc'[q].stage \in {"found", "remove"} PROVE rpc'[q] = rpc[q]
      BY <1>1, <2>2, <3>2 DEF Resolve, EphemeralGet, EntryOrInsert, BuildFails, Touch, Holding,
         TypeInv, TypeOK, Request
    <3>3. QED
      BY <3>1, <3>2, QuietHandlesOK
  <2>3. QED
    BY <2>1, <2>2
<1>2. ASSUME NEW r \in Rpcs, Statements(r) PROVE HandlesOK'
  <2>1. CASE Fail(r)
    BY <2>1, FailHandlesOK
  <2>2. CASE DescribePrepared(r) \/ UpdateStatement(r) \/ IngestRows(r) \/ RunDeltaCommand(r)
    <3>1. UNCHANGED <<stmtVars, consumed>> /\ rpc' = [rpc EXCEPT ![r] = NoRequest]
      BY <2>2 DEF DescribePrepared, UpdateStatement, IngestRows, RunDeltaCommand, RunUnstored,
         Finished
    <3>2. \A q \in Rpcs : rpc'[q].stage \in {"found", "remove"} => rpc'[q] = rpc[q]
      BY <3>1 DEF NoRequest, TypeInv, TypeOK
    <3>3. QED
      BY <3>1, <3>2, QuietHandlesOK
  <2>3. CASE PlanStatement(r) \/ CreatePrepared(r)
    BY <2>3, StorePlanHandlesOK DEF PlanStatement, CreatePrepared
  <2>4. QED
    BY <1>2, <2>1, <2>2, <2>3, StartHandlesOK, RemoveHandlesOK
       DEF Statements, PlanningFails, NotFound
<1>3. ASSUME NEW r \in Rpcs, NEW op \in Ops, NEW sid \in Key \cup {None},
             NEW o \in Owners, NEW h \in Handle \cup {None}, Arrive(r, op, sid, o, h)
      PROVE HandlesOK'
  <2>1. \A q \in Rpcs : rpc'[q].stage \in {"found", "remove"} => rpc'[q] = rpc[q]
    BY <1>3 DEF Arrive, TypeInv, TypeOK
  <2>2. QED
    BY <1>3, <2>1, QuietHandlesOK DEF Arrive
<1>4. CASE UNCHANGED <<stmtVars, consumed, rpc>>
  BY <1>4, QuietHandlesOK
<1>5. CASE SweepStatements
  <2>1. /\ stmt' = stmt /\ planned' = planned /\ consumed' = consumed /\ rpc' = rpc
        /\ \A s \in Session : statements'[s] \subseteq statements[s]
    BY <1>5 DEF SweepStatements
  <2>2. QED
    BY <2>1, KeptHandlesOK
<1>6. CASE Tick
  <2>1. planned' = planned /\ consumed' = consumed /\ rpc' = rpc /\ statements' = statements
    BY <1>6 DEF Tick
  <2>2. ASSUME NEW h \in 1..planned PROVE stmt'[h].home = stmt[h].home
    <3>1. h \in Handle /\ h <= planned /\ stmt[h] \in Statement
      BY ConstantsOK DEF TypeInv, TypeOK, Handle
    <3>2. QED
      BY <1>6, <3>1 DEF Tick, Statement
  <2>3. QED
    BY <2>1, <2>2, KeptHandlesOK
<1>7. QED
  BY <1>1, <1>2, <1>3, <1>4, <1>5, <1>6, ServedOK DEF Next, Handshake, SweepSessions, vars

\* The inductive invariant of the store.
LEMMA StoreInvariant == Spec => [](TypeInv /\ StoreInv /\ HandlesOK)
<1>1. Init => TypeInv /\ StoreInv /\ HandlesOK
  BY InitTypeInv, InitStoreInv DEF Init, HandlesOK, NoRequest
<1>2. TypeInv /\ StoreInv /\ HandlesOK /\ [Next]_vars => (TypeInv /\ StoreInv /\ HandlesOK)'
  BY NextTypeInv, NextStoreInv, NextHandlesOK
<1>3. QED
  BY <1>1, <1>2, PTL DEF Spec

-----------------------------------------------------------------------------
(* The theorems                                                             *)

\* The state of the session layer is always well typed (TypeOK), and a request
\* never acts on a session or a handle it has not resolved.
THEOREM TypesHold == Spec => []TypeOK
<1>1. TypeInv => TypeOK
  BY DEF TypeInv
<1>2. QED
  BY <1>1, TypeCorrect, PTL

\* A statement runs only in the session that planned it, whatever handles the
\* clients present and however sessions are evicted and rebuilt meanwhile.
THEOREM ExecutedWherePlannedHolds == Spec => []ExecutedWherePlanned
<1>1. StoreInv => ExecutedWherePlanned
  BY DEF StoreInv
<1>2. QED
  BY <1>1, StoreInvariant, PTL

\* No two executions, and no execution and no planning, share a lineage run;
\* a fetched execution names its statement's planning run as its parent.
THEOREM RunsAreTracedHolds == Spec => []RunsAreTraced
<1>1. StoreInv => RunsAreTraced
  BY DEF StoreInv, RunsAreTraced
<1>2. QED
  BY <1>1, StoreInvariant, PTL

\* No statement is lost before the TTL unless a do_get or a close took it.
THEOREM YoungStatementsStayHolds == Spec => []YoungStatementsStay
<1>1. StoreInv => YoungStatementsStay
  BY DEF StoreInv
<1>2. QED
  BY <1>1, StoreInvariant, PTL

-----------------------------------------------------------------------------
(* Whose session a request gets                                             *)

\* An ephemeral key holds a session of its own principal, and the id of a handshake its own session.
OwnersOK ==
  /\ \A o \in Owners : sessions[o] # None => sessions[o] <= built /\ owner[sessions[o]] = o
  /\ \A s \in Session : sessions[s] # None => s <= built /\ sessions[s] = s

\* Sessions are only ever added to the map under a key that is theirs.
LEMMA OwnersInvariant == Spec => []OwnersOK
<1>1. Init => OwnersOK
  BY DEF Init, OwnersOK, Key
<1>2. TypeInv /\ OwnersOK /\ [Next]_vars => OwnersOK'
  <2> SUFFICES ASSUME TypeInv, OwnersOK, [Next]_vars PROVE OwnersOK'
    OBVIOUS
  <2>1. CASE UNCHANGED <<sessions, owner, built>>
    BY <2>1 DEF OwnersOK
  <2>2. ASSUME NEW k \in Key, NEW o \in Owners, NewSession(k, o), k = o \/ k = built + 1
        PROVE  OwnersOK'
    <3>1. /\ built \in Nat /\ built' = built + 1 /\ built + 1 \in Session
          /\ sessions' = [sessions EXCEPT ![k] = built + 1]
          /\ owner' = [owner EXCEPT ![built + 1] = o]
      BY <2>2, ConstantsOK DEF NewSession, TypeInv, TypeOK, Session
    <3>2. ASSUME NEW p \in Owners, sessions'[p] # None
          PROVE  sessions'[p] <= built' /\ owner'[sessions'[p]] = p
      <4>1. CASE p = k
        <5>1. p = o
          BY <2>2, <3>1, <4>1, ConstantsOK
        <5>2. QED
          BY <3>1, <4>1, <5>1 DEF TypeInv, TypeOK, Key
      <4>2. CASE p # k
        <5>1. sessions'[p] = sessions[p] /\ sessions[p] \in Session
          BY <3>1, <3>2, <4>2 DEF TypeInv, TypeOK, Key
        <5>2. sessions[p] <= built /\ owner[sessions[p]] = p
          BY <3>2, <5>1 DEF OwnersOK
        <5>3. sessions[p] # built + 1 /\ sessions[p] \in Nat
          BY <3>1, <5>1, <5>2 DEF Session
        <5>4. QED
          BY <3>1, <5>1, <5>2, <5>3 DEF TypeInv, TypeOK
      <4>3. QED
        BY <4>1, <4>2
    <3>3. ASSUME NEW s \in Session, sessions'[s] # None PROVE s <= built' /\ sessions'[s] = s
      <4>1. CASE s = k
        <5>1. s = built + 1
          BY <2>2, <4>1, ConstantsOK
        <5>2. QED
          BY <3>1, <4>1, <5>1 DEF TypeInv, TypeOK
      <4>2. CASE s # k
        <5>1. sessions'[s] = sessions[s] /\ s \in Nat
          BY <3>1, <4>2 DEF TypeInv, TypeOK, Key, Session
        <5>2. QED
          BY <3>1, <3>3, <5>1 DEF OwnersOK
      <4>3. QED
        BY <4>1, <4>2
    <3>4. QED
      BY <3>2, <3>3 DEF OwnersOK
  <2>3. ASSUME NEW o \in Handshakers, Handshake(o) PROVE OwnersOK'
    <3>1. built + 1 \in Key /\ o \in Owners
      BY <2>3, ConstantsOK DEF Handshake, NewSession, TypeInv, TypeOK, Key, Session
    <3>2. QED
      BY <2>2, <2>3, <3>1 DEF Handshake
  <2>4. ASSUME NEW r \in Rpcs, EntryOrInsert(r) PROVE OwnersOK'
    BY <2>1, <2>2, <2>4 DEF EntryOrInsert, storeVars, TypeInv, RequestsOK, Key
  <2>5. CASE SweepSessions
    BY <2>5 DEF SweepSessions, OwnersOK, Key
  <2>6. QED
    BY <2>1, <2>3, <2>4, <2>5 DEF Next, Arrive, Resolve, EphemeralGet, BuildFails, Touch,
       Statements, PlanStatement, CreatePrepared, StorePlan, PlanningFails, NotFound,
       DescribePrepared, FindStatement, RefusePlan, ExecuteStatement, RemoveExecuted, ClosePrepared, Remove,
       ExecutePrepared, UpdatePrepared, UpdateStatement, IngestRows, RunDeltaCommand,
       RunUnstored, Fail,
       SweepStatements, Tick, vars, storeVars
<1>3. QED
  BY <1>1, <1>2, TypeCorrect, PTL DEF Spec

\* A session leaves the map only by a sweep that finds it idle for the TTL.
THEOREM OnlyIdleSessionsLeaveHolds == Spec => OnlyIdleSessionsLeave
<1> DEFINE Step == \A k \in Key : sessions[k] \notin {None, sessions'[k]} =>
                      sessions'[k] = None /\ idle[sessions[k]] >= TTL
<1>1. TypeInv /\ OwnersOK /\ [Next]_vars => [Step]_vars
  <2> SUFFICES ASSUME TypeInv, OwnersOK, [Next]_vars PROVE Step
    OBVIOUS
  <2>1. CASE sessions' = sessions
    BY <2>1
  <2>2. CASE SweepSessions
    BY <2>2 DEF SweepSessions
  <2>3. ASSUME NEW k \in Key, NEW o, NewSession(k, o), sessions[k] = None PROVE Step
    BY <2>3 DEF NewSession, TypeInv, TypeOK
  <2>4. ASSUME NEW o \in Handshakers, Handshake(o) PROVE Step
    <3>1. built + 1 \in Session /\ built \in Nat
      BY <2>4, ConstantsOK DEF Handshake, NewSession, TypeInv, TypeOK, Session
    <3>2. sessions[built + 1] = None
      BY <3>1 DEF OwnersOK
    <3>3. QED
      BY <2>3, <2>4, <3>1, <3>2 DEF Handshake, Key
  <2>5. ASSUME NEW r \in Rpcs, EntryOrInsert(r) PROVE Step
    BY <2>1, <2>3, <2>5 DEF EntryOrInsert, storeVars, TypeInv, RequestsOK, Key
  <2>6. QED
    BY <2>1, <2>2, <2>4, <2>5 DEF Next, Arrive, Resolve, EphemeralGet, BuildFails, Touch,
       Statements, PlanStatement, CreatePrepared, StorePlan, PlanningFails, NotFound,
       DescribePrepared, FindStatement, RefusePlan, ExecuteStatement, RemoveExecuted, ClosePrepared, Remove,
       ExecutePrepared, UpdatePrepared, UpdateStatement, IngestRows, RunDeltaCommand,
       RunUnstored, Fail,
       SweepStatements, Tick, vars, storeVars
<1>2. QED
  BY <1>1, TypeCorrect, OwnersInvariant, PTL DEF Spec, OnlyIdleSessionsLeave

\* A request that presents an id the map has gets the session that id names: the one of that
\* handshake, or the ephemeral one of the key, whose principal need not be the request's.  Any other
\* request gets a session of the principal its metadata carries (engine.rs, ephemeral_for).
GetsTheNamedSession(r) ==
  /\ rpc[r].stage \in {"ephemeral", "insert"} /\ rpc'[r].stage = "touch" =>
       owner'[rpc'[r].session] = rpc[r].owner
  /\ \A op \in Served, sid \in Key \cup {None}, o \in Owners, h \in Handle \cup {None} :
       Arrive(r, op, sid, o, h) /\ rpc'[r].stage = "touch" =>
         IF sid \in Session THEN rpc'[r].session = sid ELSE owner'[rpc'[r].session] = sid

ResolvedAsNamed == [][\A r \in Rpcs : GetsTheNamedSession(r)]_vars

\* However requests race to create a session or are evicted under one another, the session a request
\* gets is the one its id names, or else one with the credentials of its own principal.
THEOREM ResolvedAsNamedHolds == Spec => ResolvedAsNamed
<1> DEFINE Step == \A r \in Rpcs : GetsTheNamedSession(r)
<1>1. TypeInv /\ OwnersOK /\ [Next]_vars => [Step]_vars
  <2> SUFFICES ASSUME TypeInv, OwnersOK, [Next]_vars, NEW r \in Rpcs PROVE GetsTheNamedSession(r)
    OBVIOUS
  <2>1. ASSUME NEW op \in Served, NEW sid \in Key \cup {None}, NEW o \in Owners,
               NEW h \in Handle \cup {None}, Arrive(r, op, sid, o, h), rpc'[r].stage = "touch"
        PROVE  IF sid \in Session THEN rpc'[r].session = sid ELSE owner'[rpc'[r].session] = sid
    <3>1. sid # None /\ sessions[sid] # None /\ rpc'[r].session = sessions[sid] /\ owner' = owner
      BY <2>1 DEF Arrive, TypeInv, TypeOK, storeVars
    <3>2. CASE sid \in Session
      BY <3>1, <3>2 DEF OwnersOK
    <3>3. CASE sid \notin Session
      <4>1. sid \in Owners
        BY <2>1, <3>1, <3>3 DEF Key
      <4>2. QED
        BY <3>1, <3>3, <4>1 DEF OwnersOK
    <3>4. QED
      BY <3>2, <3>3
  <2>2. ASSUME rpc[r].stage \in {"ephemeral", "insert"}, rpc'[r].stage = "touch"
        PROVE  owner'[rpc'[r].session] = rpc[r].owner
    <3>a. DOMAIN rpc = Rpcs /\ rpc[r] \in Request
      BY DEF TypeInv, TypeOK
    <3>0. rpc[r].owner \in Owners /\ rpc'[r] # rpc[r]
      BY <2>2 DEF TypeInv, RequestsOK
    <3>1. EphemeralGet(r) \/ EntryOrInsert(r)
      <4>1. ASSUME NEW q \in Rpcs, Resolve(q) \/ Statements(q) PROVE q = r
        <5>1. rpc' = [rpc EXCEPT ![q] = rpc'[q]]
          BY <4>1 DEF Resolve, EphemeralGet, EntryOrInsert, BuildFails, Touch, Holding,
             Statements, PlanStatement, CreatePrepared, StorePlan, PlanningFails, NotFound,
             DescribePrepared, FindStatement, RefusePlan, ExecuteStatement, RemoveExecuted, ClosePrepared, Remove,
             ExecutePrepared, UpdatePrepared, UpdateStatement, IngestRows, RunDeltaCommand,
             RunUnstored, Fail, Finished, TypeInv, TypeOK
        <5>2. QED
          BY <3>0, <5>1 DEF TypeInv, TypeOK
      <4>2. ~Statements(r) /\ ~BuildFails(r) /\ ~Touch(r)
        BY <2>2 DEF BuildFails, Touch,
           Statements, PlanStatement, CreatePrepared, StorePlan, PlanningFails, NotFound,
           DescribePrepared, FindStatement, RefusePlan, ExecuteStatement, RemoveExecuted, ClosePrepared,
           ExecutePrepared, UpdatePrepared, UpdateStatement, IngestRows, RunDeltaCommand,
           RunUnstored, Ready, Found, Fail, Finished, NoRequest, TypeInv, TypeOK
      <4>3. ~\E q \in Rpcs, op \in Served, sid \in Key \cup {None}, o \in Owners,
                h \in Handle \cup {None} : Arrive(q, op, sid, o, h)
        BY <2>2, <3>0 DEF Arrive, TypeInv, TypeOK
      <4>4. rpc' # rpc
        BY <3>0
      <4>5. QED
        BY <4>1, <4>2, <4>3, <4>4
           DEF Next, Resolve, Handshake, SweepSessions, SweepStatements, Tick, vars
    <3>2. CASE EphemeralGet(r)
      <4>1. CASE Fail(r)
        BY <2>2, <3>a, <4>1 DEF Fail, Finished, NoRequest
      <4>2. CASE rpc' = [rpc EXCEPT ![r].stage = "insert"]
        <5>1. rpc'[r].stage = "insert"
          BY <3>a, <4>2 DEF Request
        <5>2. QED
          BY <2>2, <5>1
      <4>3. CASE /\ sessions[rpc[r].owner] # None /\ owner' = owner
                 /\ rpc' = Holding(r, sessions[rpc[r].owner])
        <5>1. rpc'[r].session = sessions[rpc[r].owner]
          BY <3>a, <4>3 DEF Holding, Request
        <5>2. QED
          BY <3>0, <4>3, <5>1 DEF OwnersOK
      <4>4. QED
        BY <3>2, <4>1, <4>2, <4>3 DEF EphemeralGet, storeVars
    <3>3. CASE EntryOrInsert(r)
      <4>1. CASE sessions[rpc[r].owner] # None
        <5>1. rpc' = Holding(r, sessions[rpc[r].owner]) /\ owner' = owner
          BY <3>3, <4>1 DEF EntryOrInsert, storeVars
        <5>2. rpc'[r].session = sessions[rpc[r].owner]
          BY <5>1, <3>a DEF Holding, Request
        <5>3. QED
          BY <3>0, <4>1, <5>1, <5>2 DEF OwnersOK
      <4>2. CASE sessions[rpc[r].owner] = None
        <5>1. built + 1 \in Session /\ owner' = [owner EXCEPT ![built + 1] = rpc[r].owner]
          BY <3>3, <4>2, ConstantsOK DEF EntryOrInsert, NewSession, TypeInv, TypeOK, Session
        <5>2. rpc'[r].session = built + 1
          BY <3>3, <4>2 DEF EntryOrInsert, Holding, TypeInv, TypeOK, Request
        <5>3. QED
          BY <5>1, <5>2 DEF TypeInv, TypeOK
      <4>3. QED
        BY <4>1, <4>2
    <3>4. QED
      BY <3>1, <3>2, <3>3
  <2>3. QED
    BY <2>1, <2>2 DEF GetsTheNamedSession
<1>2. QED
  BY <1>1, TypeCorrect, OwnersInvariant, PTL DEF Spec, ResolvedAsNamed

-----------------------------------------------------------------------------
(* Handles that were taken out                                              *)

\* No request finds a handle that a do_get or a close took out, however the
\* requests that hold it interleave: it is in no session any more.
THEOREM NoneFoundAfterRemovalHolds == Spec => NoneFoundAfterRemoval
<1> DEFINE Step == \A r \in Rpcs : rpc[r].stage # "found" /\ rpc'[r].stage = "found" =>
                     rpc[r].handle \notin consumed
<1>1. TypeInv /\ HandlesOK /\ [Next]_vars => [Step]_vars
  <2> SUFFICES ASSUME TypeInv, HandlesOK, [Next]_vars,
                      NEW r \in Rpcs, rpc[r].stage # "found", rpc'[r].stage = "found"
               PROVE  rpc[r].handle \notin consumed
    OBVIOUS
  <2>1. DOMAIN rpc = Rpcs /\ \A q \in Rpcs : rpc[q] \in Request
    BY DEF TypeInv, TypeOK
  <2>2. ~UNCHANGED rpc
    OBVIOUS
  <2>3. ASSUME NEW q \in Rpcs, FindStatement(q) PROVE rpc[r].handle \notin consumed
    <3>1. q = r
      BY <2>1, <2>3 DEF FindStatement
    <3>2. rpc[r].session \in Session /\ rpc[r].handle \in statements[rpc[r].session]
      BY <2>3, <3>1 DEF FindStatement, Stores, TypeInv, RequestsOK
    <3>3. QED
      BY <3>2 DEF HandlesOK
  <2>4. ASSUME NEW q \in Rpcs, NEW op \in Served, NEW sid \in Key \cup {None},
               NEW o \in Owners, NEW h \in Handle \cup {None}, Arrive(q, op, sid, o, h)
        PROVE  FALSE
    BY <2>1, <2>4 DEF Arrive
  <2>5. ASSUME NEW q \in Rpcs, Resolve(q) PROVE FALSE
    BY <2>1, <2>5 DEF Resolve, EphemeralGet, EntryOrInsert, BuildFails, Touch, Fail, Finished,
       NoRequest, Holding, Request
  <2>6. ASSUME NEW q \in Rpcs, Statements(q) PROVE FindStatement(q)
    BY <2>1, <2>6 DEF Statements, PlanStatement, CreatePrepared, StorePlan, PlanningFails, NotFound,
       DescribePrepared, RefusePlan, ExecuteStatement, RemoveExecuted, ClosePrepared, Remove,
       ExecutePrepared, UpdatePrepared, UpdateStatement, IngestRows, RunDeltaCommand, RunUnstored,
       Fail, Finished, NoRequest, Request
  <2>7. QED
    BY <2>2, <2>3, <2>4, <2>5, <2>6 DEF Next, Handshake, SweepSessions, SweepStatements, Tick, vars
<1>2. QED
  BY <1>1, StoreInvariant, PTL DEF Spec, NoneFoundAfterRemoval

-----------------------------------------------------------------------------
(* The response.                                                            *)

\* The items of the pipeline are told apart by their kind.
LEMMA ItemKinds ==
  /\ Error \in Items /\ Schema \in Items /\ Error # Schema
  /\ \A k \in 1..MaxBatches : [kind |-> "batch", n |-> k] \in Items
  /\ \A k : [kind |-> "batch", n |-> k] # Error /\ [kind |-> "batch", n |-> k] # Schema
<1>1. /\ Error.kind = "error" /\ Schema.kind = "schema"
      /\ \A k : [kind |-> "batch", n |-> k].kind = "batch"
  BY DEF Error, Schema
<1>2. \A k \in 1..MaxBatches : [kind |-> "batch", n |-> k] \in Batches
  BY DEF Batches
<1>3. QED
  BY <1>1, <1>2 DEF Items

\* The row cap is a number of batches a plan may yield.
LEMMA RowCapType ==
  ASSUME query \in Queries
  PROVE  /\ RowCap \in 0..MaxBatches
         /\ query.surface = "connect" => RowCap <= MaxLimit
BY StreamConstants DEF RowCap, Queries

\* A step of the driver that only moves on, or takes an item in hand.
LEMMA DriverTypes ==
  ASSUME driver \in [pc : PCs, item : Items]
  PROVE  /\ \A pc \in PCs : [driver EXCEPT !.pc = pc] \in [pc : PCs, item : Items]
         /\ \A item \in Items : [pc |-> "send", item |-> item] \in [pc : PCs, item : Items]
BY DEF PCs, Ended

LEMMA InitTypeOK == StreamInit => StreamTypeOK
<1>1. /\ <<>> \in Seq(Items) /\ 0 \in 0..MaxBatches
  BY StreamConstants
<1>2. ASSUME StreamInit PROVE driver \in [pc : PCs, item : Items]
  BY <1>2, ItemKinds DEF StreamInit, PCs
<1>3. QED
  BY <1>1, <1>2 DEF StreamInit, StreamTypeOK

\* Every step keeps the types.
LEMMA NextTypeOK == StreamTypeOK /\ [StreamNext]_streamVars => StreamTypeOK'
<1> SUFFICES ASSUME StreamTypeOK, [StreamNext]_streamVars PROVE StreamTypeOK'
  OBVIOUS
<1>0. query' = query /\ query \in Queries
  BY DEF StreamTypeOK, StreamNext, Drive, Poll, Over, streamVars, PlanQuery, Refuse, Authorize, Lower, Execute, Yield,
     PlanFails, Exhaust, Send, SendFails, Panic, Abort, Join, Receive, EndOfStream, ResumePanic, Drop
<1>1. ASSUME Drive PROVE driver' \in [pc : PCs, item : Items] /\ yielded' \in 0..MaxBatches
  <2>1. {"plan", "authorize", "lower", "execute", "poll", "send", "finished", "panicked", "aborted"} \subseteq PCs
    BY DEF PCs, Ended
  <2>2. CASE Yield
    <3>1. yielded' = yielded + 1 /\ yielded' \in 0..MaxBatches /\ yielded' \in 1..MaxBatches
      BY <2>2, RowCapType, StreamConstants, <1>0 DEF Yield, StreamTypeOK
    <3>2. QED
      BY <2>2, <3>1, ItemKinds, DriverTypes DEF Yield, StreamTypeOK, Sending
  <2>3. CASE ~Yield
    <3>1. yielded' = yielded
      BY <1>1, <2>3 DEF Drive, PlanQuery, Refuse, Authorize, Lower, Execute, PlanFails, Exhaust, Send,
         SendFails, Panic, Abort
    <3>2. (\E pc \in PCs : Goto(pc)) \/ Sending(Error) \/ Sending(Schema)
      BY <1>1, <2>3, <2>1 DEF Drive, PlanQuery, Refuse, Authorize, Lower, Execute, PlanFails, Exhaust, Send,
         SendFails, Panic, Abort
    <3>3. QED
      BY <3>1, <3>2, ItemKinds, DriverTypes DEF StreamTypeOK, Goto, Sending
  <2>4. QED
    BY <2>2, <2>3
<1>2. ASSUME Drive PROVE chan' \in Seq(Items) /\ got' = got
  <2>1. driver.item \in Items /\ chan \in Seq(Items)
    BY DEF StreamTypeOK
  <2>2. Append(chan, driver.item) \in Seq(Items)
    BY <2>1, AppendProperties, Zenon
  <2>3. QED
    BY <1>2, <2>1, <2>2 DEF Drive, PlanQuery, Refuse, Authorize, Lower, Execute, Yield, PlanFails, Exhaust,
       Send, SendFails, Panic, Abort
<1>3. ASSUME Drive PROVE StreamTypeOK'
  <2>1. /\ joined' = joined
        /\ exhausted' \in BOOLEAN /\ started' \in BOOLEAN
        /\ reader' \in {"waiting", "refused", "reading", "ended", "unwound", "dropped"}
    BY <1>3 DEF StreamTypeOK, Drive, PlanQuery, Refuse, Authorize, Lower, Execute, Yield, PlanFails, Exhaust,
       Send, SendFails, Panic, Abort
  <2>2. QED
    BY <2>1, <1>0, <1>1, <1>2, <1>3 DEF StreamTypeOK
<1>4. CASE Join
  BY <1>4 DEF Join, StreamTypeOK
<1>5. CASE Receive
  <2>1. Head(chan) \in Items /\ Tail(chan) \in Seq(Items)
    BY <1>5, HeadTailProperties DEF Receive, StreamTypeOK
  <2>2. Append(got, Head(chan)) \in Seq(Items)
    BY <2>1, AppendProperties, Zenon DEF StreamTypeOK
  <2>3. QED
    BY <1>5, <2>1, <2>2 DEF Receive, StreamTypeOK
<1>6. CASE EndOfStream
  BY <1>6 DEF EndOfStream, StreamTypeOK
<1>7. CASE ResumePanic \/ Drop
  <2>1. <<>> \in Seq(Items)
    OBVIOUS
  <2>2. QED
    BY <1>7, <2>1 DEF ResumePanic, Drop, StreamTypeOK
<1>8. CASE Over \/ UNCHANGED streamVars
  BY <1>8 DEF Over, streamVars, StreamTypeOK
<1>9. QED
  BY <1>3, <1>4, <1>5, <1>6, <1>7, <1>8 DEF StreamNext, Poll

\* The variables keep their types.
THEOREM StreamTypesHold == StreamSpec => []StreamTypeOK
<1>1. QED
  BY InitTypeOK, NextTypeOK, PTL DEF StreamSpec

\* What was sent stays what was sent when the client receives the next item.
LEMMA ReceiveKeepsFlow ==
  ASSUME StreamTypeOK, Receive
  PROVE  Flow' = Flow
<1>1. /\ got \in Seq(Items) /\ chan \in Seq(Items) /\ chan # <<>>
      /\ Head(chan) \in Items /\ Tail(chan) \in Seq(Items)
  BY HeadTailProperties DEF StreamTypeOK, Receive
<1>2. got' = got \o <<Head(chan)>>
  BY <1>1, AppendIsConcat, Zenon DEF Receive
<1>3. <<Head(chan)>> \in Seq(Items) /\ chan = <<Head(chan)>> \o Tail(chan)
  BY <1>1
<1>4. (got \o <<Head(chan)>>) \o Tail(chan) = got \o (<<Head(chan)>> \o Tail(chan))
  BY <1>1, <1>3, ConcatAssociative
<1>5. QED
  BY <1>2, <1>3, <1>4 DEF Flow, Receive

\* Sending appends the item in hand to what was sent.
LEMMA SendExtendsFlow ==
  ASSUME StreamTypeOK, Send
  PROVE  /\ Flow \in Seq(Items) /\ Flow' \in Seq(Items)
         /\ Len(Flow') = Len(Flow) + 1
         /\ \A i \in 1..Len(Flow) : Flow'[i] = Flow[i]
         /\ Flow'[Len(Flow) + 1] = driver.item
         /\ Flow' # <<>>
<1>1. got \in Seq(Items) /\ chan \in Seq(Items) /\ driver.item \in Items /\ <<driver.item>> \in Seq(Items)
  BY DEF StreamTypeOK
<1>2. chan' = chan \o <<driver.item>> /\ got' = got
  BY <1>1, AppendIsConcat, Zenon DEF Send
<1>3. got \o (chan \o <<driver.item>>) = (got \o chan) \o <<driver.item>>
  BY <1>1, ConcatAssociative
<1>4. Flow \in Seq(Items)
  BY <1>1, ConcatProperties, Zenon DEF Flow
<1>5. Flow' = Append(Flow, driver.item)
  BY <1>1, <1>2, <1>3, <1>4, AppendIsConcat, Zenon DEF Flow
<1>6. QED
  BY <1>1, <1>4, <1>5, AppendProperties

LEMMA FlowType ==
  ASSUME StreamTypeOK
  PROVE  /\ Flow \in Seq(Items) /\ Len(Flow) = Len(got) + Len(chan)
         /\ Len(Flow) \in Nat /\ Len(got) \in Nat /\ Len(chan) \in Nat
         /\ chan = <<>> => Flow = got
         /\ Flow = <<>> => got = <<>> /\ chan = <<>>
         /\ got = <<>> /\ chan = <<>> => Flow = <<>>
<1>1. got \in Seq(Items) /\ chan \in Seq(Items)
  BY DEF StreamTypeOK
<1>2. QED
  BY <1>1, ConcatProperties, ConcatEmptySeq, ConcatEqualIffEmpty, LenProperties DEF Flow

------------------------------------------------------------------------------
(* How far the driver is, against what it has sent. *)

\* The reader, the JoinSet and the driver agree on whether there is a stream.
ReaderOK ==
  /\ reader = "waiting" <=> At("plan")
  /\ reader \in {"waiting", "refused"} => got = <<>> /\ chan = <<>> /\ yielded = 0 /\ ~started
  /\ reader = "refused" => At("finished")
  /\ reader = "ended" => chan = <<>> /\ At("finished") /\ joined
  /\ joined => driver.pc \in Ended /\ reader # "refused"
  /\ ~StillRead => chan = <<>>

\* What the driver holds while it waits for room in the channel.
InHand ==
  \/ /\ driver.item = Error /\ ~exhausted
  \/ /\ driver.item = [kind |-> "batch", n |-> yielded] /\ ~exhausted
     /\ yielded >= 1 /\ Len(Flow) + 1 = yielded + Lead
  \/ /\ driver.item = Schema /\ Flow = <<>> /\ yielded = 0
     /\ exhausted <=> query.surface = "connect"

\* The result is whole or its last item is an error.
Settled ==
  /\ Flow # <<>>
  /\ Flow[Len(Flow)] # Error =>
       exhausted /\ Len(Flow) = IF yielded = 0 THEN 1 ELSE yielded + Lead

\* Where the driver is in the plan's output tells what it has sent.
Position ==
  StillRead /\ reader # "refused" =>
     /\ yielded <= Len(Flow) + 1
     /\ driver.pc \in {"plan", "authorize", "lower", "execute"} =>
          Flow = <<>> /\ yielded = 0 /\ ~exhausted
     /\ At("poll") => Len(Flow) = yielded + Lead /\ ~exhausted
     /\ At("send") => InHand
     /\ At("finished") => Settled

\* A statement that must not run stops at the gate with the error in hand.
Denied ==
  query.verdict # "allow" \/ ~Admitted =>
     /\ ~started /\ yielded = 0
     /\ driver.pc \in {"plan", "authorize", "send"} \cup Ended
     /\ At("send") => driver.item = Error
     /\ \A i \in 1..Len(got) : got[i] = Error
     /\ \A i \in 1..Len(chan) : chan[i] = Error

\* The driver is past planning only for an admitted statement, and within the cap.
Bounded ==
  /\ Len(chan) <= Capacity
  /\ yielded <= RowCap
  /\ ~Admitted => driver.pc \in {"plan"} \cup Ended

StreamInv == StreamTypeOK /\ ReaderOK /\ Position /\ InOrder /\ Denied /\ Bounded

LEMMA InitStreamInv == StreamInit => StreamInv
<1> SUFFICES ASSUME StreamInit PROVE StreamInv
  OBVIOUS
<1>1. StreamTypeOK
  BY InitTypeOK
<1>2. Flow = <<>> /\ Len(Flow) = 0 /\ Len(got) = 0 /\ Len(chan) = 0
  BY <1>1, FlowType DEF StreamInit
<1>3. ReaderOK
  BY DEF StreamInit, ReaderOK, At, StillRead, Ended
<1>4. Position /\ InOrder
  BY <1>2 DEF StreamInit, Position, InOrder, At
<1>5. Denied
  BY <1>2 DEF StreamInit, Denied, At
<1>6. 0 <= RowCap
  BY RowCapType DEF StreamInit
<1>7. Bounded
  BY <1>2, <1>6, StreamConstants DEF StreamInit, Bounded
<1>8. QED
  BY <1>1, <1>3, <1>4, <1>5, <1>7 DEF StreamInv

------------------------------------------------------------------------------
(* Each step keeps the invariant. *)

\* Before and while the statement is planned.
LEMMA PlanningSteps ==
  ASSUME StreamInv, StreamTypeOK', PlanQuery \/ Refuse
  PROVE  StreamInv'
<1>1. At("plan") /\ reader = "waiting" /\ Len(chan) = 0
  BY FlowType DEF StreamInv, ReaderOK, PlanQuery, Refuse, At
<1>2. /\ query' = query /\ chan' = chan /\ got' = got /\ joined' = joined /\ yielded' = yielded
      /\ exhausted' = exhausted /\ started' = started /\ Flow' = Flow
  BY DEF PlanQuery, Refuse, Flow
<1>3. \/ reader' = "reading" /\ driver'.pc = "authorize" /\ Admitted
      \/ reader' = "refused" /\ driver'.pc = "finished"
  BY DEF PlanQuery, Refuse, Goto, StreamInv, StreamTypeOK
<1>4. ~joined /\ Flow = <<>> /\ yielded = 0 /\ ~exhausted
  BY <1>1 DEF StreamInv, ReaderOK, Position, StillRead, At, Ended
<1>5. ReaderOK'
  BY <1>1, <1>2, <1>3, <1>4 DEF StreamInv, ReaderOK, StillRead, At, Ended
<1>6. Position'
  BY <1>2, <1>3, <1>4, FlowType DEF StreamInv, Position, At
<1>7. InOrder'
  BY <1>2, <1>4 DEF InOrder
<1>8. Denied' /\ Bounded'
  BY <1>1, <1>2, <1>3 DEF StreamInv, Denied, Bounded, Admitted, RowCap, At, Ended
<1>9. QED
  BY <1>5, <1>6, <1>7, <1>8 DEF StreamInv

\* What the driver does before it polls the plan.
LEMMA OpeningSteps ==
  ASSUME StreamInv, StreamTypeOK', Authorize \/ Lower \/ Execute
  PROVE  StreamInv'
<1>1. /\ driver.pc \in {"authorize", "lower", "execute"} /\ Admitted
      /\ reader # "waiting" /\ reader # "refused" /\ reader # "ended" /\ ~joined
  BY DEF StreamInv, ReaderOK, Bounded, Authorize, Lower, Execute, At, Ended
<1>2. /\ query' = query /\ chan' = chan /\ got' = got /\ joined' = joined /\ yielded' = yielded
      /\ exhausted' = exhausted /\ reader' = reader /\ Flow' = Flow
  BY DEF Authorize, Lower, Execute, Flow
<1>3. \/ At("authorize") /\ query.verdict = "allow" /\ driver'.pc = "lower" /\ started' = started
      \/ At("authorize") /\ driver' = [pc |-> "send", item |-> Error] /\ started' = started
      \/ ~At("authorize") /\ driver'.pc \in {"execute", "poll"} /\ (driver'.pc = "poll" => query.surface # "flight")
      \/ ~At("authorize") /\ driver' = [pc |-> "send", item |-> Error]
      \/ ~At("authorize") /\ driver' = [pc |-> "send", item |-> Schema] /\ query.surface = "flight"
  BY DEF Authorize, Lower, Execute, At, Goto, Sending, StreamInv, StreamTypeOK
<1>4. ~At("authorize") => query.verdict = "allow"
  BY <1>1 DEF StreamInv, Denied, At, Ended
<1>5. ReaderOK'
  BY <1>1, <1>2, <1>3 DEF StreamInv, ReaderOK, StillRead, At, Ended
<1>6. Position'
  <2>1. StillRead => Flow = <<>> /\ yielded = 0 /\ ~exhausted /\ Len(Flow) = 0
    BY <1>1, FlowType DEF StreamInv, Position
  <2>2. Lead' = Lead /\ (query.surface # "flight" => Lead = 0)
    BY <1>2 DEF Lead
  <2>3. query.surface = "flight" => query.surface # "connect"
    OBVIOUS
  <2>4. StillRead /\ driver'.pc = "send" => InHand'
    BY <1>2, <1>3, <2>1, <2>3 DEF InHand
  <2>5. StillRead /\ driver'.pc = "poll" => Lead = 0
    BY <1>3, <2>2
  <2>6. driver'.pc \in {"lower", "execute", "poll", "send"}
    BY <1>3
  <2>7. StillRead' = StillRead
    BY <1>2 DEF StillRead
  <2>8. ASSUME StillRead, driver'.pc = "poll" PROVE Len(Flow) = yielded + Lead
    BY <2>1, <2>5, <2>8
  <2>9. QED
    BY <1>2, <2>1, <2>2, <2>4, <2>6, <2>7, <2>8 DEF Position, At
<1>7. InOrder'
  <2>1. StillRead => Len(Flow) = 0
    BY <1>1, FlowType DEF StreamInv, Position
  <2>2. QED
    BY <1>2, <2>1 DEF InOrder, StillRead
<1>8. Denied'
  BY <1>1, <1>2, <1>3, <1>4 DEF StreamInv, Denied, Admitted, At
<1>9. Bounded'
  BY <1>1, <1>2 DEF StreamInv, Bounded, Admitted, RowCap
<1>10. QED
  BY <1>5, <1>6, <1>7, <1>8, <1>9 DEF StreamInv

\* What the plan answers to a poll.
LEMMA PollSteps ==
  ASSUME StreamInv, StreamTypeOK', Yield \/ PlanFails \/ Exhaust
  PROVE  StreamInv'
<1>1. /\ At("poll") /\ Admitted /\ query.verdict = "allow"
      /\ reader # "waiting" /\ reader # "refused" /\ reader # "ended" /\ ~joined
  BY DEF StreamInv, ReaderOK, Bounded, Denied, Yield, PlanFails, Exhaust, At, Ended
<1>2. /\ query' = query /\ chan' = chan /\ got' = got /\ joined' = joined
      /\ started' = started /\ reader' = reader /\ Flow' = Flow /\ Lead' = Lead /\ StillRead' = StillRead
  BY DEF Yield, PlanFails, Exhaust, Flow, Lead, StillRead
<1>3. StillRead => Len(Flow) = yielded + Lead /\ ~exhausted
  BY <1>1 DEF StreamInv, Position
<1>4. /\ yielded \in Nat /\ Lead \in {0, 1} /\ Len(Flow) \in Nat
      /\ query.surface = "flight" <=> Lead = 1
      /\ query.surface = "connect" <=> Lead = 0
      /\ exhausted \in BOOLEAN
  BY FlowType DEF StreamInv, StreamTypeOK, Lead, Queries
<1>5. \/ /\ yielded' = yielded + 1 /\ exhausted' = exhausted /\ yielded < RowCap
         /\ driver' = [pc |-> "send", item |-> [kind |-> "batch", n |-> yielded']]
      \/ /\ yielded' = yielded + 1 /\ exhausted' = exhausted /\ yielded < RowCap
         /\ driver' = [pc |-> "send", item |-> Error]
      \/ /\ yielded' = yielded /\ exhausted' = exhausted
         /\ driver' = [pc |-> "send", item |-> Error]
      \/ /\ yielded' = yielded /\ exhausted' = TRUE /\ Lead = 0 /\ yielded = 0
         /\ driver' = [pc |-> "send", item |-> Schema]
      \/ /\ yielded' = yielded /\ exhausted' = TRUE /\ (Lead = 1 \/ yielded > 0)
         /\ driver'.pc = "finished"
  BY <1>4 DEF Yield, PlanFails, Exhaust, Sending, Goto, StreamInv, StreamTypeOK
<1>6. ReaderOK'
  BY <1>1, <1>2, <1>5 DEF StreamInv, ReaderOK, At, Ended
<1>7. Position'
  <2>1. StillRead => yielded' <= Len(Flow) + 1
    BY <1>3, <1>4, <1>5
  <2>2. StillRead /\ driver'.pc = "send" => InHand'
    <3>1. Flow = <<>> <=> Len(Flow) = 0
      BY FlowType DEF StreamInv
    <3>2. QED
      BY <1>2, <1>3, <1>4, <1>5, <3>1 DEF InHand
  <2>3. StillRead /\ driver'.pc = "finished" => Settled'
    <3>1. Len(Flow) # 0 => Flow # <<>>
      OBVIOUS
    <3>2. QED
      BY <1>2, <1>3, <1>4, <1>5, <3>1 DEF Settled
  <2>4. driver'.pc \in {"send", "finished"}
    BY <1>5
  <2>5. QED
    BY <1>2, <2>1, <2>2, <2>3, <2>4 DEF Position, At
<1>8. InOrder'
  <2> SUFFICES ASSUME StillRead, NEW i \in 1..Len(Flow)
               PROVE  \/ Flow[i] = BatchAt(i) /\ i - Lead \in 1..yielded'
                      \/ Flow[i] = Schema /\ i = 1 /\ (query.surface = "flight" \/ yielded' = 0)
    BY <1>2 DEF InOrder, BatchAt
  <2>1. \/ Flow[i] = BatchAt(i) /\ i - Lead \in 1..yielded
        \/ Flow[i] = Schema /\ i = 1 /\ (query.surface = "flight" \/ yielded = 0)
    BY <1>1 DEF StreamInv, InOrder, At, Ended
  <2>2. i - Lead \in 1..yielded => i - Lead \in 1..yielded'
    BY <1>4, <1>5
  <2>3. query.surface = "flight" \/ yielded # 0
    BY <1>3, <1>4
  <2>4. QED
    BY <2>1, <2>2, <2>3
<1>9. Denied'
  BY <1>1, <1>2 DEF Denied, Admitted
<1>10. Bounded'
  <2>1. RowCap \in Nat /\ RowCap' = RowCap /\ yielded' <= RowCap
    BY <1>2, <1>4, <1>5, RowCapType DEF StreamInv, StreamTypeOK, Bounded, RowCap
  <2>2. QED
    BY <1>1, <1>2, <2>1 DEF StreamInv, Bounded, Admitted
<1>11. QED
  BY <1>6, <1>7, <1>8, <1>9, <1>10 DEF StreamInv

\* The driver hands its item over.
LEMMA SendStep ==
  ASSUME StreamInv, StreamTypeOK', Send
  PROVE  StreamInv'
<1>1. /\ At("send") /\ StillRead /\ driver.pc \notin Ended /\ ~joined
      /\ reader # "waiting" /\ reader # "refused" /\ reader # "ended"
  BY DEF StreamInv, ReaderOK, Send, At, StillRead, ReceiverGone, Ended
<1>2. /\ query' = query /\ got' = got /\ joined' = joined /\ yielded' = yielded /\ exhausted' = exhausted
      /\ started' = started /\ reader' = reader /\ Lead' = Lead /\ StillRead' = StillRead
  BY DEF Send, Lead, StillRead
<1>3. /\ Len(Flow') = Len(Flow) + 1 /\ Flow' # <<>> /\ Len(Flow) \in Nat
      /\ \A i \in 1..Len(Flow) : Flow'[i] = Flow[i]
      /\ Flow'[Len(Flow) + 1] = driver.item
  BY SendExtendsFlow, FlowType DEF StreamInv
<1>4. driver'.pc = IF driver.item = Error \/ exhausted THEN "finished" ELSE "poll"
  BY DEF Send, Goto, StreamInv, StreamTypeOK
<1>5. InHand /\ yielded <= Len(Flow) + 1
  BY <1>1 DEF StreamInv, Position, At
<1>6. /\ yielded \in Nat /\ Lead \in {0, 1} /\ exhausted \in BOOLEAN
      /\ query.surface = "flight" <=> Lead = 1
      /\ query.surface = "connect" <=> Lead = 0
  BY DEF StreamInv, StreamTypeOK, Lead, Queries
<1>7. /\ Error # Schema /\ Schema # Error
      /\ [kind |-> "batch", n |-> yielded] # Error /\ [kind |-> "batch", n |-> yielded] # Schema
  BY ItemKinds
<1>8. Flow = <<>> => Len(Flow) = 0
  OBVIOUS
<1>9. ReaderOK'
  BY <1>1, <1>2, <1>4 DEF StreamInv, ReaderOK, At, Ended, StillRead
<1>10. Position'
  <2>1. driver'.pc = "poll" => Len(Flow') = yielded + Lead /\ ~exhausted
    BY <1>3, <1>4, <1>5, <1>6, <1>7, <1>8 DEF InHand
  <2>2. driver'.pc = "finished" => Settled'
    <3>1. Flow'[Len(Flow')] = driver.item
      BY <1>3
    <3>2. driver'.pc = "finished" /\ driver.item # Error => exhausted /\ Len(Flow') = 1 /\ yielded = 0
      BY <1>3, <1>4, <1>5, <1>6, <1>8 DEF InHand
    <3>3. QED
      BY <1>2, <1>3, <3>1, <3>2 DEF Settled
  <2>3. yielded <= Len(Flow') + 1
    BY <1>3, <1>5, <1>6
  <2>4. QED
    BY <1>2, <1>4, <2>1, <2>2, <2>3 DEF Position, At
<1>11. InOrder'
  <2> SUFFICES ASSUME NEW i \in 1..Len(Flow')
               PROVE  \/ Flow'[i] = BatchAt(i) /\ i - Lead \in 1..yielded
                      \/ Flow'[i] = Schema /\ i = 1 /\ (query.surface = "flight" \/ yielded = 0)
                      \/ Flow'[i] = Error /\ i = Len(Flow') /\ driver'.pc \in Ended
    BY <1>2 DEF InOrder, BatchAt
  <2>1. CASE i \in 1..Len(Flow)
    BY <1>1, <1>3, <2>1 DEF StreamInv, InOrder
  <2>2. CASE i = Len(Flow) + 1
    <3>1. Flow'[i] = driver.item
      BY <1>3, <2>2
    <3>2. CASE driver.item = Error
      BY <1>3, <1>4, <2>2, <3>1, <3>2 DEF Ended
    <3>3. CASE driver.item = [kind |-> "batch", n |-> yielded] /\ yielded >= 1 /\ Len(Flow) + 1 = yielded + Lead
      BY <1>3, <1>6, <2>2, <3>1, <3>3 DEF BatchAt
    <3>4. CASE driver.item = Schema /\ Flow = <<>> /\ yielded = 0
      BY <1>8, <2>2, <3>1, <3>4
    <3>5. QED
      BY <1>5, <3>2, <3>3, <3>4 DEF InHand
  <2>3. QED
    BY <1>3, <2>1, <2>2
<1>12. Denied'
  <2> SUFFICES ASSUME query.verdict # "allow" \/ ~Admitted
               PROVE  /\ driver'.pc \in Ended
                      /\ \A i \in 1..Len(chan') : chan'[i] = Error
    BY <1>2, <1>4 DEF StreamInv, Denied, Admitted, At, Ended
  <2>1. driver.item = Error /\ \A i \in 1..Len(chan) : chan[i] = Error
    BY <1>1 DEF StreamInv, Denied
  <2>2. /\ Len(chan') = Len(chan) + 1 /\ Len(chan) \in Nat
        /\ \A i \in 1..Len(chan) : chan'[i] = chan[i]
        /\ chan'[Len(chan) + 1] = driver.item
    BY AppendProperties DEF Send, StreamInv, StreamTypeOK
  <2>3. QED
    BY <1>4, <2>1, <2>2 DEF Ended
<1>13. Bounded'
  <2>1. Len(chan') = Len(chan) + 1 /\ Len(chan) \in Nat /\ Len(chan) < Capacity
    BY AppendProperties DEF Send, StreamInv, StreamTypeOK
  <2>2. RowCap' = RowCap /\ Admitted' = Admitted
    BY <1>2 DEF RowCap, Admitted
  <2>3. QED
    BY <1>1, <1>2, <2>1, <2>2, StreamConstants DEF StreamInv, Bounded, At, Ended
<1>14. QED
  BY <1>9, <1>10, <1>11, <1>12, <1>13 DEF StreamInv

\* The driver ends, and is joined.
LEMMA EndingSteps ==
  ASSUME StreamInv, StreamTypeOK', SendFails \/ Panic \/ Abort \/ Join
  PROVE  StreamInv'
<1>1. /\ query' = query /\ chan' = chan /\ got' = got /\ yielded' = yielded /\ exhausted' = exhausted
      /\ started' = started /\ reader' = reader /\ Flow' = Flow
  BY DEF SendFails, Panic, Abort, Join, Flow
<1>2. \/ driver.pc \notin Ended /\ ~At("plan") /\ joined' = joined /\ driver'.pc \in Ended
         /\ (driver'.pc = "finished" => ~StillRead)
      \/ driver' = driver /\ driver.pc \in Ended /\ reader # "refused"
  BY DEF SendFails, Panic, Abort, Join, Goto, At, Ended, StillRead, ReceiverGone, StreamInv, StreamTypeOK, ReaderOK
<1>3. ReaderOK'
  BY <1>1, <1>2 DEF StreamInv, ReaderOK, StillRead, At, Ended, SendFails, Panic, Abort, Join
<1>4. Position'
  BY <1>1, <1>2 DEF StreamInv, Position, Settled, Lead, StillRead, At, Ended
<1>5. InOrder'
  BY <1>1, <1>2 DEF StreamInv, InOrder, StillRead, BatchAt, Lead
<1>6. Denied'
  BY <1>1, <1>2 DEF StreamInv, Denied, Admitted, At, Ended
<1>7. Bounded'
  BY <1>1, <1>2 DEF StreamInv, Bounded, Admitted, RowCap
<1>8. QED
  BY <1>3, <1>4, <1>5, <1>6, <1>7 DEF StreamInv

\* The client reads, or stops reading.
LEMMA ReaderSteps ==
  ASSUME StreamInv, StreamTypeOK', Receive \/ EndOfStream \/ ResumePanic \/ Drop
  PROVE  StreamInv'
<1>1. /\ query' = query /\ driver' = driver /\ joined' = joined /\ yielded' = yielded
      /\ exhausted' = exhausted /\ started' = started /\ reader = "reading" /\ ~At("plan")
  BY DEF Receive, EndOfStream, ResumePanic, Drop, StreamInv, ReaderOK
<1>2. /\ Lead' = Lead /\ RowCap' = RowCap /\ Admitted' = Admitted
  BY <1>1 DEF Lead, RowCap, Admitted
<1>3. \/ Flow' = Flow /\ reader' \in {"reading", "ended"}
      \/ reader' \in {"dropped", "unwound"} /\ chan' = <<>> /\ got' = got
  BY ReceiveKeepsFlow DEF Receive, EndOfStream, ResumePanic, Drop, Flow, StreamInv
<1>4. reader' = "ended" => chan' = <<>> /\ At("finished") /\ joined
  BY <1>1 DEF Receive, EndOfStream, ResumePanic, Drop, RxAtEnd, CheckAtEnd, At
<1>5. ReaderOK'
  BY <1>1, <1>3, <1>4 DEF StreamInv, ReaderOK, StillRead, At
<1>6. Position' /\ InOrder'
  <2>1. CASE Flow' = Flow /\ reader' \in {"reading", "ended"}
    BY <1>1, <1>2, <2>1 DEF StreamInv, Position, InHand, Settled, InOrder, BatchAt, StillRead, At
  <2>2. CASE reader' \in {"dropped", "unwound"}
    BY <2>2 DEF Position, InOrder, StillRead
  <2>3. QED
    BY <1>3, <2>1, <2>2
<1>7. /\ Len(chan') <= Len(chan) /\ Len(chan) \in Nat /\ Len(chan') \in Nat
      /\ (\A i \in 1..Len(chan) : chan[i] = Error) => \A i \in 1..Len(chan') : chan'[i] = Error
      /\ (\A i \in 1..Len(got) : got[i] = Error) /\ (\A i \in 1..Len(chan) : chan[i] = Error)
           => \A i \in 1..Len(got') : got'[i] = Error
  <2>1. CASE Receive
    <3>1. /\ Len(Tail(chan)) = Len(chan) - 1 /\ Len(chan) \in Nat /\ Len(chan) > 0
          /\ \A i \in 1..Len(Tail(chan)) : Tail(chan)[i] = chan[i + 1]
          /\ Head(chan) = chan[1] /\ Head(chan) \in Items
      BY <2>1, HeadTailProperties DEF Receive, StreamInv, StreamTypeOK
    <3>2. /\ Len(Append(got, Head(chan))) = Len(got) + 1 /\ Len(got) \in Nat
          /\ \A i \in 1..Len(got) : Append(got, Head(chan))[i] = got[i]
          /\ Append(got, Head(chan))[Len(got) + 1] = Head(chan)
      BY <3>1, AppendProperties DEF StreamInv, StreamTypeOK
    <3>3. QED
      BY <2>1, <3>1, <3>2 DEF Receive
  <2>2. CASE ~Receive
    <3>1. got' = got /\ (chan' = chan \/ chan' = <<>>) /\ Len(chan) \in Nat
      BY <2>2, FlowType DEF EndOfStream, ResumePanic, Drop, StreamInv
    <3>2. QED
      BY <3>1
  <2>3. QED
    BY <2>1, <2>2
<1>8. Denied'
  BY <1>1, <1>2, <1>7 DEF StreamInv, Denied, At
<1>9. Bounded'
  BY <1>1, <1>2, <1>7, StreamConstants DEF StreamInv, Bounded
<1>10. QED
  BY <1>5, <1>6, <1>8, <1>9 DEF StreamInv

\* Every step keeps the invariant.
LEMMA NextStreamInv == StreamInv /\ [StreamNext]_streamVars => StreamInv'
<1> SUFFICES ASSUME StreamInv, [StreamNext]_streamVars PROVE StreamInv'
  OBVIOUS
<1>1. StreamTypeOK'
  BY NextTypeOK DEF StreamInv
<1>2. CASE Drive
  BY <1>1, <1>2, PlanningSteps, OpeningSteps, PollSteps, SendStep, EndingSteps DEF Drive
<1>3. CASE Join
  BY <1>1, <1>3, EndingSteps
<1>4. CASE Poll \/ Drop
  BY <1>1, <1>4, ReaderSteps DEF Poll
<1>5. CASE Over \/ UNCHANGED streamVars
  <2>1. /\ query' = query /\ driver' = driver /\ chan' = chan /\ got' = got /\ joined' = joined
        /\ yielded' = yielded /\ exhausted' = exhausted /\ started' = started /\ reader' = reader
    BY <1>5 DEF Over, streamVars
  <2>2. /\ Flow' = Flow /\ Lead' = Lead /\ RowCap' = RowCap /\ Admitted' = Admitted
        /\ StillRead' = StillRead /\ \A pc : At(pc)' = At(pc)
    BY <2>1 DEF Flow, Lead, RowCap, Admitted, StillRead, At
  <2>3. ReaderOK' /\ Denied' /\ Bounded'
    BY <2>1, <2>2 DEF StreamInv, ReaderOK, Denied, Bounded, At
  <2>4. Position' /\ InOrder'
    BY <2>1, <2>2 DEF StreamInv, Position, InHand, Settled, InOrder, BatchAt, At
  <2>5. QED
    BY <1>1, <2>3, <2>4 DEF StreamInv
<1>6. QED
  BY <1>2, <1>3, <1>4, <1>5 DEF StreamNext

LEMMA StreamInvHolds == StreamSpec => []StreamInv
<1>1. QED
  BY InitStreamInv, NextStreamInv, PTL DEF StreamSpec

------------------------------------------------------------------------------
(* The results. *)

\* Nothing is lost, repeated or reordered on its way to a client that still reads.
THEOREM InOrderHolds == StreamSpec => []InOrder
<1>1. StreamInv => InOrder
  BY DEF StreamInv
<1>2. QED
  BY <1>1, StreamInvHolds, PTL

\* A response that ends without an error is the whole result.
THEOREM EndIsWholeHolds == StreamSpec => []EndIsWhole
<1>1. ASSUME StreamInv PROVE EndIsWhole
  <2> SUFFICES ASSUME reader = "ended"
               PROVE  /\ got # <<>>
                      /\ got[Len(got)] # Error =>
                           exhausted /\ Len(got) = IF yielded = 0 THEN 1 ELSE yielded + Lead
    BY DEF EndIsWhole
  <2>1. Flow = got /\ At("finished") /\ StillRead
    BY <1>1, FlowType DEF StreamInv, ReaderOK, StillRead
  <2>2. Settled
    BY <1>1, <2>1 DEF StreamInv, Position
  <2>3. QED
    BY <2>1, <2>2 DEF Settled
<1>2. QED
  BY <1>1, StreamInvHolds, PTL

\* A slow client holds the plan back, and RunQuery's row cap is never passed.
THEOREM HeldBackHolds == StreamSpec => []HeldBack
<1>1. ASSUME StreamInv PROVE HeldBack
  <2>1. /\ Len(chan) <= Capacity /\ yielded <= RowCap /\ yielded \in Nat
        /\ Len(Flow) = Len(got) + Len(chan) /\ Len(got) \in Nat /\ Len(chan) \in Nat
    BY <1>1, FlowType DEF StreamInv, Bounded, StreamTypeOK
  <2>2. StillRead => yielded <= Len(Flow) + 1
    <3>1. CASE reader = "refused"
      BY <1>1, <2>1, <3>1 DEF StreamInv, ReaderOK
    <3>2. CASE reader # "refused"
      BY <1>1, <3>2 DEF StreamInv, Position
    <3>3. QED
      BY <3>1, <3>2
  <2>3. RowCap \in Nat /\ (query.surface = "connect" => RowCap <= MaxLimit)
    BY <1>1, RowCapType DEF StreamInv, StreamTypeOK
  <2>4. QED
    BY <2>1, <2>2, <2>3, StreamConstants DEF HeldBack
<1>2. QED
  BY <1>1, StreamInvHolds, PTL

\* Policy and the statement gate come before any lineage run and any data.
THEOREM GateBeforeDataHolds == StreamSpec => []GateBeforeData
<1>1. StreamInv => GateBeforeData
  BY DEF StreamInv, Denied, GateBeforeData
<1>2. QED
  BY <1>1, StreamInvHolds, PTL
-------------------------------------------------------------------------------
(* The server as a whole. *)

\* MCServer puts the sessions and a response side by side: for the variables of each, a behaviour of it
\* is one of that module.
LEMMA ServerIsItsParts == ServerSpec => Spec /\ StreamSpec
<1>1. ServerInit => Init /\ StreamInit
  BY DEF ServerInit
<1>2. [ServerNext]_serverVars => [Next]_vars /\ [StreamNext]_streamVars
  BY DEF ServerNext, serverVars
<1>3. QED
  BY <1>1, <1>2, PTL DEF ServerSpec, Spec, StreamSpec

\* What the run `server_safety` checks of every state.
ServerProperties ==
  /\ ExecutedWherePlanned /\ YoungStatementsStay /\ RunsAreTraced
  /\ InOrder /\ EndIsWhole /\ HeldBack /\ GateBeforeData

\* The safety properties of the query server, for any number of requests, principals, sessions, statements
\* and runs, every RPC being served, and any buffer, row cap and length of a result: the run checks them for
\* two requests and the RPCs that plan, execute and close.
THEOREM ServerKeepsItsProperties ==
  ServerSpec => []ServerProperties /\ OnlyIdleSessionsLeave /\ NoneFoundAfterRemoval
<1>1. /\ ExecutedWherePlanned /\ YoungStatementsStay /\ RunsAreTraced
      /\ InOrder /\ EndIsWhole /\ HeldBack /\ GateBeforeData
      => ServerProperties
  BY DEF ServerProperties
<1>2. ServerSpec => OnlyIdleSessionsLeave /\ NoneFoundAfterRemoval
  BY ServerIsItsParts, OnlyIdleSessionsLeaveHolds, NoneFoundAfterRemovalHolds
<1>3. QED
  BY <1>1, <1>2, ServerIsItsParts, ExecutedWherePlannedHolds, YoungStatementsStayHolds,
     RunsAreTracedHolds, InOrderHolds, EndIsWholeHolds, HeldBackHolds, GateBeforeDataHolds, PTL
=============================================================================
