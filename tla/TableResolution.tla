--------------------------- MODULE TableResolution ---------------------------
(***************************************************************************)
(* How the statements of one session come by a Unity Catalog table: each   *)
(* one resolves it again (create_logical_plan), gathers its facts into the *)
(* session's fact sink and builds a provider over a snapshot of it         *)
(* (catalog/unity.rs), wraps that in the view policy asks for, overlays it *)
(* on the session's catalog list, and is planned and authorised.  The sink *)
(* and the catalog list belong to the session; two statements of it share  *)
(* them.  The catalog is external: writers commit versions of the table,   *)
(* stewards change its tags, and any call of it may fail.                  *)
(***************************************************************************)
EXTENDS Naturals

CONSTANTS Queries,    \* statements of the session
          Nothing,    \* no facts recorded, no provider registered
          MaxUpdates  \* bound on the commits of other writers and the changes of the table's tags

ASSUME ResolutionAssumption == MaxUpdates \in Nat

VARIABLES deployment, \* what the catalog says of the table
          commits,    \* the latest version the catalog ratified
          backfilled, \* the latest version in the table's _delta_log
          tags,       \* the version of the table's tags and ACLs
          sink,       \* CatalogFactSink: the facts recorded of the table
          overlay,    \* the provider registered on the session's catalog list
          query       \* the statements

resolutionVars == <<deployment, commits, backfilled, tags, sink, overlay, query>>

\* "managed": loadTable says so.  "log": it says that the log is authoritative, or the catalog has no
\* /delta/v1 loadTable.
Deployments == {"managed", "log"}
Facts == [at : 0..MaxUpdates, tagged : BOOLEAN] \* tagged: tags were read, not lost to an error
Provider == [version : 0..MaxUpdates, under : Facts \union {Nothing}]
Phases == {"new", "record", "load", "govern", "register", "plan", "authorize", "done"}

\* The last four are history: what commits and tags were when it began, whether it had the session to
\* itself, and the facts it was authorised under.
Statement ==
  [phase : Phases, facts : Facts \union {Nothing}, version : 0..MaxUpdates,
   provider : Provider \union {Nothing},
   since : [commits : 0..MaxUpdates, tags : 0..MaxUpdates], alone : BOOLEAN,
   gate : Facts \union {Nothing}]

ResolutionTypeOK ==
  /\ deployment \in Deployments
  /\ commits \in 0..MaxUpdates /\ backfilled \in 0..MaxUpdates
  /\ tags \in 0..MaxUpdates
  /\ sink \in Facts \union {Nothing}
  /\ overlay \in Provider \union {Nothing}
  /\ query \in [Queries -> Statement]

NewQuery == [phase |-> "new", facts |-> Nothing, version |-> 0, provider |-> Nothing,
             since |-> [commits |-> 0, tags |-> 0], alone |-> TRUE, gate |-> Nothing]

ResolutionInit ==
  /\ deployment = "managed"
  /\ commits = 0 /\ backfilled = 0 /\ tags = 0
  /\ sink = Nothing /\ overlay = Nothing
  /\ query = [q \in Queries |-> NewQuery]

world == <<deployment, commits, backfilled, tags>>

-----------------------------------------------------------------------------
(* The catalog's side.                                                      *)
Deploy ==
  /\ commits = 0 /\ \A q \in Queries : query[q].phase = "new"
  /\ deployment' \in Deployments \ {deployment}
  /\ UNCHANGED <<commits, backfilled, tags, sink, overlay, query>>

\* A commit is ratified; the log of a table the catalog does not manage has it at once.
CommitVersion ==
  /\ commits + tags < MaxUpdates
  /\ commits' = commits + 1
  /\ backfilled' = IF deployment = "managed" THEN backfilled ELSE commits'
  /\ UNCHANGED <<deployment, tags, sink, overlay, query>>

Backfill ==
  /\ backfilled < commits
  /\ backfilled' = commits
  /\ UNCHANGED <<deployment, commits, tags, sink, overlay, query>>

ChangeTags ==
  /\ commits + tags < MaxUpdates
  /\ tags' = tags + 1
  /\ UNCHANGED <<deployment, commits, backfilled, sink, overlay, query>>

-----------------------------------------------------------------------------
(* A statement.                                                             *)
Running(q) == query[q].phase \notin {"new", "done"}

\* UnityCatalogProviderList::resolve looks the table up and vends credentials; both may fail.
ResolveTable(q) ==
  LET others == {p \in Queries \ {q} : Running(p)} IN
  /\ query[q].phase = "new"
  /\ query' = [p \in Queries |->
       IF p = q
       THEN [NewQuery EXCEPT !.phase = "record", !.alone = others = {},
                             !.since = [commits |-> commits, tags |-> tags]]
       ELSE IF p \in others THEN [query[p] EXCEPT !.alone = FALSE] ELSE query[p]]
  /\ UNCHANGED <<world, sink, overlay>>

Failing(q) ==
  /\ query[q].phase \in {"record", "load", "govern", "authorize"}
  /\ query' = [query EXCEPT ![q] = NewQuery]
  /\ UNCHANGED <<world, sink, overlay>>

\* record_facts asks for the tags.  An error means "no tags" and does not block.
AskTags(q) ==
  /\ query[q].phase = "record"
  /\ query[q].facts = Nothing
  /\ \E answered \in BOOLEAN :
       query' = [query EXCEPT ![q].facts = [at |-> tags, tagged |-> answered]]
  /\ UNCHANGED <<world, sink, overlay>>

\* The facts replace those of an earlier resolution.
RecordFacts(q) ==
  /\ query[q].phase = "record"
  /\ query[q].facts # Nothing
  /\ sink' = query[q].facts
  /\ query' = [query EXCEPT ![q].phase = "load", ![q].facts = Nothing]
  /\ UNCHANGED <<world, overlay>>

\* Mutant: any error of loadTable falls back to the log.
LoadOrFallBack(q) ==
  /\ query[q].phase = "load"
  /\ \E version \in {commits, backfilled} :
       query' = [query EXCEPT ![q].phase = "govern", ![q].version = version]
  /\ UNCHANGED <<world, sink, overlay>>

\* loadTable, and a snapshot of the ratified commits; or, where the log is authoritative or the catalog
\* has no loadTable, of the log.  Any other error of it is Failing.
Load(q) ==
  /\ query[q].phase = "load"
  /\ query' = [query EXCEPT ![q].phase = "govern",
                            ![q].version = IF deployment = "managed" THEN commits ELSE backfilled]
  /\ UNCHANGED <<world, sink, overlay>>

\* govern wraps the provider under the facts the sink has now.
Govern(q) ==
  /\ query[q].phase = "govern"
  /\ query' = [query EXCEPT ![q].phase = "register", ![q].version = 0,
                            ![q].provider = [version |-> query[q].version, under |-> sink]]
  /\ UNCHANGED <<world, sink, overlay>>

\* register_catalog replaces the overlay of an earlier statement.
Register(q) ==
  /\ query[q].phase = "register"
  /\ overlay' = query[q].provider
  /\ query' = [query EXCEPT ![q].phase = "plan", ![q].provider = Nothing]
  /\ UNCHANGED <<world, sink>>

\* statement_to_plan takes the provider the catalog list has.
ToPlan(q) ==
  /\ query[q].phase = "plan"
  /\ query' = [query EXCEPT ![q].phase = "authorize", ![q].provider = overlay]
  /\ UNCHANGED <<world, sink, overlay>>

\* create_physical_plan: the gate reads the sink (GovernedLineagePlanner).
AuthorizePlan(q) ==
  /\ query[q].phase = "authorize"
  /\ query' = [query EXCEPT ![q].phase = "done", ![q].gate = sink]
  /\ UNCHANGED <<world, sink, overlay>>

NextStatement(q) ==
  /\ query[q].phase = "done"
  /\ query' = [query EXCEPT ![q] = NewQuery]
  /\ UNCHANGED <<world, sink, overlay>>

ResolutionNext ==
  \/ Deploy \/ CommitVersion \/ Backfill \/ ChangeTags
  \/ \E q \in Queries :
       \/ ResolveTable(q) \/ Failing(q) \/ AskTags(q) \/ RecordFacts(q) \/ Load(q)
       \/ Govern(q) \/ Register(q) \/ ToPlan(q) \/ AuthorizePlan(q) \/ NextStatement(q)

ResolutionSpec == ResolutionInit /\ [][ResolutionNext]_resolutionVars

-----------------------------------------------------------------------------
Done(q) == query[q].phase = "done"

\* A statement that had the session to itself read a snapshot with every version ratified when it
\* began, and was governed and authorised under facts read since then.
FreshWhenAlone ==
  \A q \in Queries : Done(q) /\ query[q].alone =>
    /\ query[q].provider.version >= query[q].since.commits
    /\ query[q].provider.under = query[q].gate
    /\ query[q].gate.at >= query[q].since.tags
=============================================================================
