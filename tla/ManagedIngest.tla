---------------------------- MODULE ManagedIngest ----------------------------
(***************************************************************************)
(* Bulk ingest into one table: IngestService.IngestTable (surface          *)
(* "connect") and Flight SQL's DoPut(CommandStatementIngest) ("flight").   *)
(* A managed table is committed through the catalog (`ratified`); an       *)
(* external one by an INSERT plan, which writes the table's own log        *)
(* (`logged`).  The requests are of one session, whose catalog list keeps  *)
(* what was last resolved (`registered`).  The catalog, its commit         *)
(* endpoint and delta-rs are external: they answer, refuse, or do the work *)
(* and lose the answer.  A client may leave at any await, which drops the  *)
(* handler where it is.                                                    *)
(***************************************************************************)
EXTENDS Integers, FiniteSets

CONSTANTS Ingests, \* requests
          Shadow   \* TRUE iff hydrofoil.default has a table of the same short name

ASSUME ShadowAssumption == Shadow \in BOOLEAN

VARIABLES table,      \* what the catalog has under the qualified name
          creator,    \* who created it
          registered, \* the provider the session's catalog list has for it
          ing,        \* the requests
          ratified,   \* requests whose rows the catalog ratified
          logged,     \* requests whose rows an INSERT wrote to the table's log
          local,      \* requests whose rows went to the table in hydrofoil.default
          emitted,    \* requests with a COMPLETE lineage event
          refusals,   \* requests the policy refused (history)
          unsure      \* requests whose commit's or create's answer was lost (history)

ingestVars == <<table, creator, registered, ing, ratified, logged, local,
                emitted, refusals, unsure>>

Kinds == {"managed", "partitioned", "external"}
Rows == {"some", "none", "bad", "misfit"}
  \* a frame that does not decode; a column that is missing or does not cast
Names == {"full", "split", "bare"}
  \* c.s.t in the table field; c and s in fields of their own; t alone
Steps == {"new", "resolve", "create", "again", "collect", "schema", "append",
          "commit", "emit", "plan", "insert", "done"}
Answers == {"none", "ok", "empty", "error", "gone"}

Ingest == [pc : Steps, via : {"connect", "flight"}, make : BOOLEAN, name : Names,
           rows : Rows, created : BOOLEAN, answer : Answers]

IngestTypeOK ==
  /\ table \in Kinds \union {"absent"}
  /\ creator \in Ingests \union {"nobody", "other"}
  /\ registered \in Kinds \union {"absent"}
  /\ ing \in [Ingests -> Ingest]
  /\ {ratified, logged, local, emitted, refusals, unsure} \subseteq SUBSET Ingests

IngestInit ==
  /\ table = "absent"
  /\ creator = "nobody"
  /\ registered = "absent"
  /\ ing = [r \in Ingests |-> [pc |-> "new", via |-> "flight", make |-> FALSE,
                               name |-> "full", rows |-> "none", created |-> FALSE,
                               answer |-> "none"]]
  /\ ratified = {} /\ logged = {} /\ local = {}
  /\ emitted = {} /\ refusals = {} /\ unsure = {}

stores == <<ratified, logged, local>>
history == <<refusals, unsure>>

Go(r, pc) == ing' = [ing EXCEPT ![r].pc = pc]
Reply(r, answer) == ing' = [ing EXCEPT ![r].pc = "done", ![r].answer = answer]
Fail(r) == Reply(r, "error")

(***************************************************************************)
(* Another client creates the table; another statement of this session     *)
(* resolves it, which registers its catalog on the session.                *)
(***************************************************************************)
OthersCreate ==
  /\ table = "absent"
  /\ table' \in Kinds
  /\ creator' = "other"
  /\ UNCHANGED <<registered, ing, stores, emitted, history>>

OthersResolve ==
  /\ table # registered
  /\ registered' = table
  /\ UNCHANGED <<table, creator, ing, stores, emitted, history>>

(***************************************************************************)
(* Requests.                                                               *)
(***************************************************************************)
\* The frame or ticket is checked and the session resolved.
Begin(r) ==
  /\ ing[r].pc = "new"
  /\ \E via \in {"connect", "flight"}, make \in BOOLEAN, name \in Names, rows \in Rows :
       /\ via = "connect" => name = "full"
       /\ via = "flight" => ~make
       /\ ing' = [ing EXCEPT ![r] = [pc |-> "resolve", via |-> via, make |-> make,
                                     name |-> name, rows |-> rows, created |-> FALSE,
                                     answer |-> "none"]]
  /\ UNCHANGED <<table, creator, registered, stores, emitted, history>>

Reject(r) ==
  /\ ing[r].pc = "new"
  /\ Fail(r)
  /\ UNCHANGED <<table, creator, registered, stores, emitted, history>>

\* What load_table makes of the name: any error of it is "not managed".
Loaded(r, reachable) ==
  IF ing[r].name = "bare" \/ ~reachable \/ table \in {"absent", "external"}
  THEN "none" ELSE table

Found(r, reachable, missing) ==
  CASE Loaded(r, reachable) = "managed" ->
         Go(r, IF ing[r].via = "connect" THEN "collect" ELSE "schema")
    [] Loaded(r, reachable) = "partitioned" -> Fail(r)
    [] OTHER -> missing

Resolve(r) ==
  /\ ing[r].pc = "resolve"
  /\ \E reachable \in BOOLEAN :
       Found(r, reachable, CASE ing[r].via = "flight" -> Go(r, "plan")
                             [] ing[r].make -> Go(r, "create")
                             [] OTHER -> Fail(r))
  /\ UNCHANGED <<table, creator, registered, stores, emitted, history>>

\* create_managed_table: the DDL is planned, authorised and run by the catalog,
\* which has one table per name.
Create(r) ==
  /\ ing[r].pc = "create"
  /\ \/ Fail(r) /\ UNCHANGED <<table, creator, history>> \* a column type, planning, "exists"
     \/ /\ Fail(r)
        /\ refusals' = refusals \union {r}
        /\ UNCHANGED <<table, creator, unsure>>
     \/ /\ table = "absent"
        /\ table' = "managed" /\ creator' = r
        /\ \/ /\ ing' = [ing EXCEPT ![r].pc = "again", ![r].created = TRUE]
              /\ UNCHANGED history
           \/ Fail(r) /\ unsure' = unsure \union {r} /\ UNCHANGED refusals
  /\ UNCHANGED <<registered, stores, emitted>>

Again(r) ==
  /\ ing[r].pc = "again"
  /\ \E reachable \in BOOLEAN : Found(r, reachable, Fail(r))
  /\ UNCHANGED <<table, creator, registered, stores, emitted, history>>

\* The frames of the stream, or the file at source_path.
Collect(r) ==
  /\ ing[r].pc = "collect"
  /\ IF ing[r].rows = "bad" THEN Fail(r) ELSE Go(r, "append")
  /\ UNCHANGED <<table, creator, registered, stores, emitted, history>>

\* ingest_managed: the wire batches are coerced to the schema of the provider.
Schema(r) ==
  /\ ing[r].pc = "schema"
  /\ \/ Fail(r) /\ UNCHANGED registered
     \/ /\ registered' = table
        /\ IF ing[r].rows \in {"bad", "misfit"} THEN Fail(r) ELSE Go(r, "append")
  /\ UNCHANGED <<table, creator, stores, emitted, history>>

\* Mutant: the decision of the policy is computed and not looked at.
AppendUngated(r) ==
  /\ ing[r].pc = "append"
  /\ registered' = table
  /\ Go(r, "commit")
  /\ \/ refusals' = refusals \union {r}
     \/ UNCHANGED refusals
  /\ UNCHANGED <<table, creator, stores, emitted, unsure>>

\* append_managed_batches up to the commit: provider, policy, coercion, nothing to do.
AppendRows(r) ==
  /\ ing[r].pc = "append"
  /\ \/ Fail(r) /\ UNCHANGED <<registered, refusals>>
     \/ /\ registered' = table
        /\ \/ Fail(r) /\ refusals' = refusals \union {r}
           \/ /\ CASE ing[r].rows = "misfit" -> Fail(r)
                   [] ing[r].rows = "none" -> Reply(r, "empty")
                   [] OTHER -> Go(r, "commit")
              /\ UNCHANGED refusals
  /\ UNCHANGED <<table, creator, stores, emitted, unsure>>

\* Mutant: the events are emitted when the append is begun.
CommitAnnounced(r) ==
  /\ ing[r].pc = "commit"
  /\ \/ Fail(r) /\ UNCHANGED ratified
     \/ Go(r, "emit") /\ ratified' = ratified \union {r}
  /\ emitted' = emitted \union {r}
  /\ UNCHANGED <<table, creator, registered, logged, local, history>>

\* append_to_managed_table: the catalog ratifies the commit or refuses it.
Commit(r) ==
  /\ ing[r].pc = "commit"
  /\ \/ Fail(r) /\ UNCHANGED ratified
     \/ Go(r, "emit") /\ ratified' = ratified \union {r}
  /\ UNCHANGED <<table, creator, registered, logged, local, emitted, history>>

\* Mutant: a lineage event that cannot be emitted fails the request.
EmitOrFail(r) ==
  /\ ing[r].pc = "emit"
  /\ Fail(r)
  /\ UNCHANGED <<table, creator, registered, stores, emitted, history>>

\* The catalog's answer to the commit arrives, and the rest of the handler runs; or it is lost.
Emit(r) ==
  /\ ing[r].pc = "emit"
  /\ \/ Reply(r, "ok") /\ emitted' = emitted \union {r} /\ UNCHANGED unsure
     \/ Fail(r) /\ unsure' = unsure \union {r} /\ UNCHANGED emitted
  /\ UNCHANGED <<table, creator, registered, stores, refusals>>

\* plan_ingest looks up the table field alone.
Plan(r) ==
  /\ ing[r].pc = "plan"
  /\ IF IF ing[r].name = "full" THEN registered # "absent" ELSE Shadow
     THEN Go(r, "insert") ELSE Fail(r)
  /\ UNCHANGED <<table, creator, registered, stores, emitted, history>>

\* The INSERT plan is authorised and run on the CPU runtime, also if the client has left.
RunInsert(r) ==
  LET Ends(a) == Reply(r, IF ing[r].answer = "gone" THEN "gone" ELSE a) IN
  /\ ing[r].pc = "insert"
  /\ \/ Ends("error") /\ UNCHANGED <<logged, local, refusals>>
     \/ /\ Ends("error")
        /\ refusals' = refusals \union {r}
        /\ UNCHANGED <<logged, local>>
     \/ /\ ing[r].rows = "none"
        /\ Ends("empty")
        /\ UNCHANGED <<logged, local, refusals>>
     \/ /\ ing[r].rows = "some"
        /\ Ends("ok")
        /\ IF ing[r].name = "full"
           THEN logged' = logged \union {r} /\ UNCHANGED local
           ELSE local' = local \union {r} /\ UNCHANGED logged
        /\ UNCHANGED refusals
  /\ UNCHANGED <<table, creator, registered, ratified, emitted, unsure>>

\* The client disconnects.
Leave(r) ==
  /\ ing[r].pc \notin {"new", "done"}
  /\ ing[r].answer = "none"
  /\ IF ing[r].pc = "insert" THEN ing' = [ing EXCEPT ![r].answer = "gone"]
     ELSE Reply(r, "gone")
  /\ UNCHANGED <<table, creator, registered, stores, emitted, history>>

IngestStep(r) ==
  \/ Begin(r) \/ Reject(r) \/ Resolve(r) \/ Create(r) \/ Again(r)
  \/ Collect(r) \/ Schema(r) \/ AppendRows(r) \/ Commit(r) \/ Emit(r)
  \/ Plan(r) \/ RunInsert(r) \/ Leave(r)

IngestNext == OthersCreate \/ OthersResolve \/ \E r \in Ingests : IngestStep(r)

IngestSpec == IngestInit /\ [][IngestNext]_ingestVars

-----------------------------------------------------------------------------
Stored == ratified \union logged \union local

\* What the client is told is what happened: "ok" means that all its rows are in one table, and on
\* the ingest service in the managed one; "error" that none is, unless the answer of the catalog was
\* lost; and the request said to have created the table is the one that did.
AnswersAreTrue ==
  \A r \in Ingests :
    /\ ing[r].answer = "ok" => r \in IF ing[r].via = "connect" THEN ratified ELSE Stored
    /\ ing[r].answer = "empty" \/ (ing[r].answer = "error" /\ r \notin unsure) => r \notin Stored
    /\ ing[r].created => creator = r

PolicyBeforeRows == refusals \intersect Stored = {}

WholeOrNothing == \A r \in Stored : ing[r].rows = "some"

LineageFollowsCommit ==
  /\ emitted \subseteq ratified
  /\ \A r \in ratified : ing[r].answer = "ok" => r \in emitted

\* No row is stored for a request the policy refused, neither by the catalog's commit nor by an INSERT
\* (append_managed_batches and execute_logical_plan authorise the same INSERT plan); a stream with one
\* undecodable or misfitting batch stores nothing, the batches become one commit; and lineage tells of
\* a managed write iff it was committed, at the latest when the client is told.
WritesAreGoverned == PolicyBeforeRows /\ WholeOrNothing /\ LineageFollowsCommit
=============================================================================
