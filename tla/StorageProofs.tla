----------------------------- MODULE StorageProofs -----------------------------
(***************************************************************************)
(* Proofs about TableResolution, ManagedIngest, FileUploads, FileStores    *)
(* and PagedListing, for any number of statements, requests, commits,      *)
(* tags, chunks, files and changes, and for any tree.  Of the statements:  *)
(* what one that has the session to itself reads back from the session is  *)
(* what it put there.  Of the ingests: where each request has been, and    *)
(* so what was stored, refused and announced for it.  Of the uploads: how  *)
(* far the file of one that is alone has come.  Of the listings and the    *)
(* walks: what those still under way have seen of what was there.          *)
(***************************************************************************)
EXTENDS TableResolution, ManagedIngest, FileUploads, FileStores, PagedListing, SequenceTheorems,
        FiniteSetTheorems, WellFoundedInduction, TLAPS

\* The provider p has every version, and the facts f every tag, there was when the statement began.
FreshProvider(s, p) == p.version >= s.since.commits /\ p.under = sink

StatementAlone(q) ==
  LET s == query[q] IN
  /\ Running(q) => \A p \in Queries : p # q => ~Running(p)
  /\ s.phase \in {"load", "govern", "register", "plan", "authorize"} => sink.at >= s.since.tags
  /\ s.phase = "govern" => s.version >= s.since.commits
  /\ s.phase \in {"register", "authorize"} => FreshProvider(s, s.provider)
  /\ s.phase = "plan" => FreshProvider(s, overlay)
  /\ s.phase = "done" => /\ s.provider.version >= s.since.commits
                         /\ s.provider.under = s.gate
                         /\ s.gate.at >= s.since.tags

StatementInv(q) ==
  LET s == query[q] IN
  /\ s.since.commits <= commits /\ s.since.tags <= tags
  /\ s.facts # Nothing => s.facts.at >= s.since.tags
  /\ s.alone => StatementAlone(q)

ResolutionInv ==
  /\ ResolutionTypeOK
  /\ backfilled <= commits
  /\ deployment # "managed" => backfilled = commits
  /\ \A q \in Queries : StatementInv(q)

-----------------------------------------------------------------------------
(* Statements.                                                              *)

LEMMA NewQueryTyped == NewQuery \in Statement /\ NewQuery.since.commits = 0 /\ NewQuery.since.tags = 0
BY ResolutionAssumption DEF NewQuery, Statement, Phases

LEMMA ResolutionInit_Inv == ResolutionInit => ResolutionInv
<1>1. ASSUME ResolutionInit PROVE ResolutionTypeOK
  BY <1>1, NewQueryTyped, ResolutionAssumption DEF ResolutionInit, ResolutionTypeOK, Deployments
<1>2. ASSUME ResolutionInit, NEW q \in Queries PROVE StatementInv(q)
  BY <1>2 DEF ResolutionInit, StatementInv, StatementAlone, Running, NewQuery
<1>3. QED
  BY <1>1, <1>2 DEF ResolutionInv, ResolutionInit

\* The catalog goes on: nothing a statement relies on is taken back.
LEMMA WorldKept ==
  ASSUME ResolutionInv, UNCHANGED <<sink, overlay, query>>,
         commits' \in 0..MaxUpdates, backfilled' \in 0..MaxUpdates, tags' \in 0..MaxUpdates,
         commits' >= commits, tags' >= tags, deployment' \in Deployments,
         backfilled' <= commits', deployment' # "managed" => backfilled' = commits'
  PROVE  ResolutionInv'
<1>1. ResolutionTypeOK'
  BY DEF ResolutionInv, ResolutionTypeOK
<1>2. ASSUME NEW q \in Queries PROVE StatementInv(q)'
  <2>1. StatementAlone(q)' <=> StatementAlone(q)
    BY DEF StatementAlone, Running, FreshProvider
  <2>2. query[q].since.commits \in 0..MaxUpdates /\ query[q].since.tags \in 0..MaxUpdates
    BY DEF ResolutionInv, ResolutionTypeOK, Statement
  <2>3. QED
    BY <2>1, <2>2, ResolutionAssumption DEF ResolutionInv, ResolutionTypeOK, StatementInv
<1>3. QED
  BY <1>1, <1>2 DEF ResolutionInv

LEMMA WorldInv ==
  ASSUME ResolutionInv, Deploy \/ CommitVersion \/ Backfill \/ ChangeTags
  PROVE  ResolutionInv'
<1>1. /\ commits \in 0..MaxUpdates /\ backfilled \in 0..MaxUpdates /\ tags \in 0..MaxUpdates
      /\ deployment \in Deployments /\ backfilled <= commits
      /\ deployment # "managed" => backfilled = commits
  BY DEF ResolutionInv, ResolutionTypeOK
<1>2. CASE Deploy
  BY <1>1, <1>2, WorldKept, ResolutionAssumption DEF Deploy, Deployments
<1>3. CASE CommitVersion
  BY <1>1, <1>3, WorldKept, ResolutionAssumption DEF CommitVersion, Deployments
<1>4. CASE Backfill
  BY <1>1, <1>4, WorldKept, ResolutionAssumption DEF Backfill
<1>5. CASE ChangeTags
  BY <1>1, <1>5, WorldKept, ResolutionAssumption DEF ChangeTags
<1>6. QED
  BY <1>2, <1>3, <1>4, <1>5

\* A step of the statement q, which runs: no other statement that runs has the session to itself.
LEMMA StepKept ==
  ASSUME ResolutionInv, NEW q \in Queries, Running(q), NEW s \in Statement,
         query' = [query EXCEPT ![q] = s], UNCHANGED world,
         sink' \in Facts \union {Nothing}, overlay' \in Provider \union {Nothing},
         StatementInv(q)'
  PROVE  ResolutionInv'
<1>1. UNCHANGED <<deployment, commits, backfilled, tags>>
  BY DEF world
<1>2. ResolutionTypeOK'
  BY <1>1 DEF ResolutionInv, ResolutionTypeOK
<1>3. ASSUME NEW p \in Queries, p # q PROVE StatementInv(p)'
  <2>1. query'[p] = query[p] /\ StatementInv(p)
    BY <1>3 DEF ResolutionInv, ResolutionTypeOK
  <2>2. query[p].alone => query[p].phase \in {"new", "done"}
    BY <1>3, <2>1 DEF StatementInv, StatementAlone, Running
  <2>3. query[p].alone => StatementAlone(p)'
    BY <2>1, <2>2 DEF StatementInv, StatementAlone, Running
  <2>4. QED
    BY <1>1, <2>1, <2>3 DEF StatementInv
<1>4. QED
  BY <1>1, <1>2, <1>3 DEF ResolutionInv

\* The same, with the parts of the statement's invariant spelled out.
LEMMA OwnStep ==
  ASSUME ResolutionInv, NEW q \in Queries, Running(q), NEW s \in Statement,
         query' = [query EXCEPT ![q] = s], UNCHANGED world,
         sink' \in Facts \union {Nothing}, overlay' \in Provider \union {Nothing},
         s.since = query[q].since, s.alone = query[q].alone,
         s.facts # Nothing => s.facts.at >= s.since.tags,
         s.alone /\ s.phase \in {"load", "govern", "register", "plan", "authorize"} =>
           sink'.at >= s.since.tags,
         s.alone /\ s.phase = "govern" => s.version >= s.since.commits,
         s.alone /\ s.phase \in {"register", "authorize"} =>
           s.provider.version >= s.since.commits /\ s.provider.under = sink',
         s.alone /\ s.phase = "plan" =>
           overlay'.version >= s.since.commits /\ overlay'.under = sink',
         s.alone /\ s.phase = "done" =>
           /\ s.provider.version >= s.since.commits
           /\ s.provider.under = s.gate /\ s.gate.at >= s.since.tags
  PROVE  ResolutionInv'
<1>1. query'[q] = s /\ StatementInv(q)
  BY DEF ResolutionInv, ResolutionTypeOK
<1>2. s.alone => \A p \in Queries : p # q => query'[p] = query[p] /\ ~Running(p)
  BY <1>1 DEF StatementInv, StatementAlone, ResolutionInv, ResolutionTypeOK
<1>3. s.alone => (\A p \in Queries : p # q => ~Running(p))'
  BY <1>2 DEF Running
<1>4. s.alone => StatementAlone(q)'
  BY <1>1, <1>3 DEF StatementAlone, FreshProvider
<1>5. StatementInv(q)'
  BY <1>1, <1>4 DEF StatementInv, world
<1>6. QED
  BY <1>5, StepKept

\* What is known of the statement that takes a step.
LEMMA StatementTyped ==
  ASSUME ResolutionInv, NEW q \in Queries
  PROVE  /\ query[q] \in Statement /\ query \in [Queries -> Statement]
         /\ sink \in Facts \union {Nothing} /\ overlay \in Provider \union {Nothing}
         /\ commits \in 0..MaxUpdates /\ backfilled \in 0..MaxUpdates /\ tags \in 0..MaxUpdates
         /\ query[q].since.commits \in 0..MaxUpdates /\ query[q].since.tags \in 0..MaxUpdates
         /\ query[q].since.commits <= commits /\ query[q].since.tags <= tags
         /\ query[q].facts # Nothing => query[q].facts.at >= query[q].since.tags
         /\ query[q].alone => StatementAlone(q)
         /\ deployment # "managed" => backfilled = commits
BY DEF ResolutionInv, ResolutionTypeOK, StatementInv, Statement

LEMMA ResolveTableInv ==
  ASSUME ResolutionInv, NEW q \in Queries, ResolveTable(q)
  PROVE  ResolutionInv'
<1> DEFINE others == {p \in Queries \ {q} : Running(p)}
           only == others = {}
           s == [NewQuery EXCEPT !.phase = "record", !.alone = only,
                                 !.since = [commits |-> commits, tags |-> tags]]
<1>1. /\ UNCHANGED <<deployment, commits, backfilled, tags, sink, overlay>>
      /\ query' = [p \in Queries |->
                    IF p = q THEN s
                    ELSE IF p \in others THEN [query[p] EXCEPT !.alone = FALSE] ELSE query[p]]
  BY DEF ResolveTable, world
<1>2. /\ s \in Statement /\ s.phase = "record" /\ s.facts = Nothing /\ s.alone = only
      /\ s.since.commits = commits /\ s.since.tags = tags
  <2>1. only \in BOOLEAN
    OBVIOUS
  <2> HIDE DEF only
  <2>2. [commits |-> commits, tags |-> tags] \in [commits : 0..MaxUpdates, tags : 0..MaxUpdates]
    BY StatementTyped
  <2>3. s \in Statement
    BY <2>1, <2>2, NewQueryTyped DEF Statement, Phases
  <2>4. /\ s.phase = "record" /\ s.facts = NewQuery.facts /\ s.alone = only
        /\ s.since = [commits |-> commits, tags |-> tags]
    BY NewQueryTyped DEF Statement
  <2>5. NewQuery.facts = Nothing
    BY DEF NewQuery
  <2>6. QED
    BY <2>3, <2>4, <2>5
<1>3. ASSUME NEW p \in Queries, p # q
      PROVE  /\ query'[p] \in Statement /\ query'[p].phase = query[p].phase
             /\ query'[p].since = query[p].since /\ query'[p].facts = query[p].facts
             /\ query'[p].provider = query[p].provider /\ query'[p].gate = query[p].gate
             /\ query'[p].alone => query[p].alone /\ ~Running(p)
  BY <1>1, <1>3, StatementTyped DEF Statement
<1>4. ResolutionTypeOK'
  <2>1. query' \in [Queries -> Statement]
    <3> HIDE DEF s, others
    <3>1. QED
      BY <1>1, <1>2, <1>3
  <2>2. QED
    BY <1>1, <2>1 DEF ResolutionInv, ResolutionTypeOK
<1>5. ASSUME NEW p \in Queries, p # q PROVE StatementInv(p)'
  <2>1. query[p].alone => StatementAlone(p)
    BY <1>5, StatementTyped
  <2>2. query'[p].alone => StatementAlone(p)'
    BY <1>3, <1>5, <2>1 DEF StatementAlone, Running
  <2>3. StatementInv(p)
    BY DEF ResolutionInv
  <2>4. QED
    <3> HIDE DEF s, others
    <3>1. QED
      BY <1>1, <1>3, <1>5, <2>2, <2>3 DEF StatementInv
<1>6. StatementInv(q)'
  <2>1. query'[q] = s
    BY <1>1
  <2>2. s.alone => \A p \in Queries : p # q => ~Running(p)
    BY <1>2
  <2>3. s.alone => (\A p \in Queries : p # q => ~Running(p))'
    BY <1>3, <2>2 DEF Running
  <2>4. s.alone => StatementAlone(q)'
    <3> HIDE DEF s
    <3>1. QED
      BY <1>2, <2>1, <2>3 DEF StatementAlone
  <2>5. QED
    <3> HIDE DEF s, others
    <3>1. QED
      BY <1>1, <1>2, <2>1, <2>4, StatementTyped DEF StatementInv
<1>7. QED
  BY <1>1, <1>4, <1>5, <1>6 DEF ResolutionInv

\* A statement that is not running any more, or not yet.
LEMMA RestingInv ==
  ASSUME ResolutionInv, NEW q \in Queries, query' = [query EXCEPT ![q] = NewQuery],
         UNCHANGED <<world, sink, overlay>>
  PROVE  ResolutionInv'
<1>1. UNCHANGED <<deployment, commits, backfilled, tags>>
  BY DEF world
<1>2. ResolutionTypeOK'
  BY <1>1, NewQueryTyped DEF ResolutionInv, ResolutionTypeOK
<1>3. query'[q] = NewQuery /\ ~Running(q)'
  BY StatementTyped DEF Running, NewQuery
<1>4. ASSUME NEW p \in Queries, p # q PROVE StatementInv(p)'
  <2>1. query'[p] = query[p]
    BY <1>4, StatementTyped
  <2>2. \A x \in Queries : Running(x)' => Running(x)
    BY <1>3, StatementTyped DEF Running
  <2>3. query[p].alone => StatementAlone(p)'
    BY <1>4, <2>1, <2>2, StatementTyped DEF StatementAlone, FreshProvider, Running
  <2>4. QED
    BY <1>1, <1>4, <2>1, <2>3, StatementTyped DEF StatementInv
<1>5. StatementInv(q)'
  BY <1>1, <1>3, NewQueryTyped, StatementTyped DEF StatementInv, StatementAlone, NewQuery
<1>6. QED
  BY <1>1, <1>2, <1>4, <1>5 DEF ResolutionInv

LEMMA AskTagsInv ==
  ASSUME ResolutionInv, NEW q \in Queries, AskTags(q)
  PROVE  ResolutionInv'
<1>1. PICK a \in BOOLEAN :
        query' = [query EXCEPT ![q].facts = [at |-> tags, tagged |-> a]]
  BY DEF AskTags
<1> DEFINE s == [query[q] EXCEPT !.facts = [at |-> tags, tagged |-> a]]
<1>2. /\ query' = [query EXCEPT ![q] = s] /\ s \in Statement /\ s.phase = "record"
      /\ s.since = query[q].since /\ s.alone = query[q].alone /\ s.facts.at = tags
  <2>1. DOMAIN query = Queries /\ query[q] \in Statement /\ query[q].phase = "record"
    BY StatementTyped DEF AskTags
  <2>2. PICK f \in Facts : f = [at |-> tags, tagged |-> a]
    BY StatementTyped DEF Facts
  <2>3. s = [query[q] EXCEPT !.facts = f] /\ query' = [query EXCEPT ![q] = s]
    BY <1>1, <2>1, <2>2
  <2>4. /\ s \in Statement /\ s.phase = query[q].phase /\ s.since = query[q].since
        /\ s.alone = query[q].alone /\ s.facts = f
    BY <2>1, <2>3 DEF Statement
  <2>5. QED
    BY <2>1, <2>2, <2>3, <2>4
<1>3. UNCHANGED <<world, sink, overlay>> /\ Running(q)
  BY DEF AskTags, Running
<1> HIDE DEF s
<1>4. QED
  BY <1>2, <1>3, OwnStep, StatementTyped

LEMMA RecordFactsInv ==
  ASSUME ResolutionInv, NEW q \in Queries, RecordFacts(q)
  PROVE  ResolutionInv'
<1> DEFINE s == [query[q] EXCEPT !.phase = "load", !.facts = Nothing]
<1>1. /\ query' = [query EXCEPT ![q] = s] /\ s \in Statement /\ s.phase = "load"
      /\ s.since = query[q].since /\ s.alone = query[q].alone /\ s.facts = Nothing
      /\ query[q].facts # Nothing /\ sink' = query[q].facts
      /\ query[q].facts \in Facts \union {Nothing}
  BY StatementTyped DEF RecordFacts, Statement, Phases
<1>2. UNCHANGED <<world, overlay>> /\ Running(q)
  BY DEF RecordFacts, Running
<1> HIDE DEF s
<1>3. QED
  BY <1>1, <1>2, OwnStep, StatementTyped

LEMMA LoadInv ==
  ASSUME ResolutionInv, NEW q \in Queries, Load(q)
  PROVE  ResolutionInv'
<1> DEFINE v == IF deployment = "managed" THEN commits ELSE backfilled
           s == [query[q] EXCEPT !.phase = "govern", !.version = v]
<1>1. v \in 0..MaxUpdates /\ v >= query[q].since.commits
  BY StatementTyped, ResolutionAssumption
<1>2. /\ query' = [query EXCEPT ![q] = s] /\ s \in Statement /\ s.phase = "govern"
      /\ s.since = query[q].since /\ s.alone = query[q].alone /\ s.facts = query[q].facts
      /\ s.version = v
  BY <1>1, StatementTyped DEF Load, Statement, Phases
<1>3. UNCHANGED <<world, sink, overlay>> /\ Running(q)
  BY DEF Load, Running
<1>4. query[q].alone => sink.at >= query[q].since.tags
  BY StatementTyped DEF StatementAlone, Load
<1> HIDE DEF s, v
<1>5. QED
  BY <1>1, <1>2, <1>3, <1>4, OwnStep, StatementTyped

LEMMA GovernInv ==
  ASSUME ResolutionInv, NEW q \in Queries, Govern(q)
  PROVE  ResolutionInv'
<1> DEFINE p == [version |-> query[q].version, under |-> sink]
           s == [query[q] EXCEPT !.phase = "register", !.version = 0, !.provider = p]
<1>1. p \in Provider
  BY StatementTyped DEF Statement, Provider
<1>2. /\ query' = [query EXCEPT ![q] = s] /\ s \in Statement /\ s.phase = "register"
      /\ s.since = query[q].since /\ s.alone = query[q].alone /\ s.facts = query[q].facts
      /\ s.provider = p
  <2>1. query' = [query EXCEPT ![q] = s]
    BY StatementTyped DEF Govern
  <2> HIDE DEF p
  <2>2. query[q] \in Statement /\ 0 \in 0..MaxUpdates
    BY StatementTyped, ResolutionAssumption
  <2>3. s \in Statement
    BY <1>1, <2>2 DEF Statement, Phases
  <2>4. /\ s.phase = "register" /\ s.since = query[q].since /\ s.alone = query[q].alone
        /\ s.facts = query[q].facts /\ s.provider = p
    BY <2>2 DEF Statement
  <2>5. QED
    BY <2>1, <2>3, <2>4
<1>3. UNCHANGED <<world, sink, overlay>> /\ Running(q)
  BY DEF Govern, Running
<1>4. query[q].alone => sink.at >= query[q].since.tags /\ query[q].version >= query[q].since.commits
  BY StatementTyped DEF StatementAlone, Govern
<1>5. p.version = query[q].version /\ p.under = sink
  OBVIOUS
<1> HIDE DEF s, p
<1>6. QED
  BY <1>1, <1>2, <1>3, <1>4, <1>5, OwnStep, StatementTyped

LEMMA RegisterInv ==
  ASSUME ResolutionInv, NEW q \in Queries, Register(q)
  PROVE  ResolutionInv'
<1> DEFINE s == [query[q] EXCEPT !.phase = "plan", !.provider = Nothing]
<1>1. /\ query' = [query EXCEPT ![q] = s] /\ s \in Statement /\ s.phase = "plan"
      /\ s.since = query[q].since /\ s.alone = query[q].alone /\ s.facts = query[q].facts
      /\ overlay' = query[q].provider /\ overlay' \in Provider \union {Nothing}
  BY StatementTyped DEF Register, Statement, Phases
<1>2. UNCHANGED <<world, sink>> /\ Running(q)
  BY DEF Register, Running
<1>3. query[q].alone => sink.at >= query[q].since.tags /\ FreshProvider(query[q], query[q].provider)
  BY StatementTyped DEF StatementAlone, Register
<1> HIDE DEF s
<1>4. QED
  BY <1>1, <1>2, <1>3, OwnStep, StatementTyped DEF FreshProvider

LEMMA ToPlanInv ==
  ASSUME ResolutionInv, NEW q \in Queries, ToPlan(q)
  PROVE  ResolutionInv'
<1> DEFINE s == [query[q] EXCEPT !.phase = "authorize", !.provider = overlay]
<1>1. /\ query' = [query EXCEPT ![q] = s] /\ s \in Statement /\ s.phase = "authorize"
      /\ s.since = query[q].since /\ s.alone = query[q].alone /\ s.facts = query[q].facts
      /\ s.provider = overlay
  BY StatementTyped DEF ToPlan, Statement, Phases
<1>2. UNCHANGED <<world, sink, overlay>> /\ Running(q)
  BY DEF ToPlan, Running
<1>3. query[q].alone => sink.at >= query[q].since.tags /\ FreshProvider(query[q], overlay)
  BY StatementTyped DEF StatementAlone, ToPlan
<1> HIDE DEF s
<1>4. QED
  BY <1>1, <1>2, <1>3, OwnStep, StatementTyped DEF FreshProvider

LEMMA AuthorizePlanInv ==
  ASSUME ResolutionInv, NEW q \in Queries, AuthorizePlan(q)
  PROVE  ResolutionInv'
<1> DEFINE s == [query[q] EXCEPT !.phase = "done", !.gate = sink]
<1>1. /\ query' = [query EXCEPT ![q] = s] /\ s \in Statement /\ s.phase = "done"
      /\ s.since = query[q].since /\ s.alone = query[q].alone /\ s.facts = query[q].facts
      /\ s.provider = query[q].provider /\ s.gate = sink
  BY StatementTyped DEF AuthorizePlan, Statement, Phases
<1>2. UNCHANGED <<world, sink, overlay>> /\ Running(q)
  BY DEF AuthorizePlan, Running
<1>3. query[q].alone => sink.at >= query[q].since.tags /\ FreshProvider(query[q], query[q].provider)
  BY StatementTyped DEF StatementAlone, AuthorizePlan
<1> HIDE DEF s
<1>4. QED
  BY <1>1, <1>2, <1>3, OwnStep, StatementTyped DEF FreshProvider

LEMMA ResolutionStep == ASSUME ResolutionInv, ResolutionNext PROVE ResolutionInv'
<1>1. ASSUME NEW q \in Queries, Failing(q) \/ NextStatement(q) PROVE ResolutionInv'
  BY <1>1, RestingInv DEF Failing, NextStatement
<1>2. QED
  BY <1>1, WorldInv, ResolveTableInv, AskTagsInv, RecordFactsInv, LoadInv, GovernInv, RegisterInv,
     ToPlanInv, AuthorizePlanInv DEF ResolutionNext

LEMMA ResolutionInvariant == ResolutionSpec => []ResolutionInv
<1>1. ASSUME ResolutionInv, UNCHANGED resolutionVars PROVE ResolutionInv'
  <2>1. UNCHANGED <<deployment, commits, backfilled, tags, sink, overlay, query>>
    BY <1>1 DEF resolutionVars
  <2>2. QED
    BY <1>1, <2>1 DEF ResolutionInv, ResolutionTypeOK, StatementInv, StatementAlone, Running, FreshProvider
<1>2. ResolutionInv /\ [ResolutionNext]_resolutionVars => ResolutionInv'
  BY <1>1, ResolutionStep
<1>3. QED
  BY <1>2, ResolutionInit_Inv, PTL DEF ResolutionSpec

\* Whatever the catalog does meanwhile, and after any number of earlier statements: one that has the
\* session to itself reads the versions ratified, and is governed under the tags set, when it began
\* (catalog/unity.rs, session/mod.rs create_logical_plan).
THEOREM FreshWhenAloneHolds == ResolutionSpec => []FreshWhenAlone
<1>1. ResolutionInv => FreshWhenAlone
  BY DEF ResolutionInv, StatementInv, StatementAlone, FreshWhenAlone, Done
<1>2. QED
  BY <1>1, ResolutionInvariant, PTL

-----------------------------------------------------------------------------
(* Ingests.                                                                 *)

\* Where the request r has been.
OfRequest(r) ==
  LET i == ing[r] IN
  /\ r \in Stored => i.rows = "some" /\ i.pc \in {"emit", "done"}
  /\ r \in refusals => i.pc = "done" /\ r \notin Stored
  /\ i.pc = "append" => i.rows # "bad"
  /\ i.pc = "commit" => i.rows = "some"
  /\ i.pc = "emit" => r \in ratified
  /\ i.pc \in {"schema", "plan", "insert"} => i.via = "flight"
  /\ i.pc # "done" => i.answer \in {"none", "gone"}
  /\ i.answer = "ok" => r \in Stored /\ (i.via = "connect" => r \in ratified)
  /\ i.answer = "empty" \/ (i.answer = "error" /\ r \notin unsure) => r \notin Stored
  /\ r \in emitted => r \in ratified
  /\ r \in ratified /\ i.answer = "ok" => r \in emitted

\* The table was created by the request said to have done it.
CreatorInv == \A r \in Ingests : ing[r].created => creator = r /\ table # "absent"

IngestInv ==
  /\ IngestTypeOK
  /\ CreatorInv
  /\ \A r \in Ingests : OfRequest(r)

LEMMA IngestInit_Inv == IngestInit => IngestInv
BY DEF IngestInit, IngestInv, IngestTypeOK, CreatorInv, OfRequest, Stored, Ingest, Kinds, Rows, Names,
       Steps, Answers

LEMMA IngestTyped ==
  ASSUME IngestInv, NEW r \in Ingests
  PROVE  /\ ing \in [Ingests -> Ingest] /\ ing[r] \in Ingest /\ OfRequest(r)
         /\ table \in Kinds \union {"absent"} /\ registered \in Kinds \union {"absent"}
         /\ creator \in Ingests \union {"nobody", "other"}
BY DEF IngestInv, IngestTypeOK

\* A step of the request r, which changes of the others nothing.
LEMMA RequestStep ==
  ASSUME IngestInv, NEW r \in Ingests, NEW i \in Ingest, ing' = [ing EXCEPT ![r] = i],
         table' \in Kinds \union {"absent"}, creator' \in Ingests \union {"nobody", "other"},
         registered' \in Kinds \union {"absent"}, CreatorInv',
         ratified' \in {ratified, ratified \union {r}}, logged' \in {logged, logged \union {r}},
         local' \in {local, local \union {r}}, emitted' \in {emitted, emitted \union {r}},
         refusals' \in {refusals, refusals \union {r}}, unsure' \in {unsure, unsure \union {r}},
         OfRequest(r)'
  PROVE  IngestInv'
<1>1. IngestTypeOK'
  BY DEF IngestInv, IngestTypeOK
<1>2. ASSUME NEW x \in Ingests, x # r PROVE OfRequest(x)'
  <2>1. /\ ing'[x] = ing[x] /\ OfRequest(x)
        /\ x \in ratified' <=> x \in ratified
        /\ x \in logged' <=> x \in logged
        /\ x \in local' <=> x \in local
        /\ x \in emitted' <=> x \in emitted
        /\ x \in refusals' <=> x \in refusals
        /\ x \in unsure' <=> x \in unsure
    BY <1>2 DEF IngestInv, IngestTypeOK
  <2>2. QED
    BY <2>1 DEF OfRequest, Stored
<1>3. QED
  BY <1>1, <1>2 DEF IngestInv

\* Nobody else is said to have created the table.
LEMMA CreatorKept ==
  ASSUME IngestInv, NEW r \in Ingests, NEW i \in Ingest, ing' = [ing EXCEPT ![r] = i],
         i.created => ing[r].created, UNCHANGED <<table, creator>>
  PROVE  CreatorInv'
BY DEF IngestInv, IngestTypeOK, CreatorInv

\* A request goes on, with nothing stored so far.
LEMMA GoInv ==
  ASSUME IngestInv, NEW r \in Ingests, NEW pc \in Steps, Go(r, pc),
         ing[r].pc \notin {"emit", "done"}, pc \notin {"emit", "done"},
         pc = "append" => ing[r].rows # "bad", pc = "commit" => ing[r].rows = "some",
         pc \in {"schema", "plan", "insert"} => ing[r].via = "flight",
         registered' \in Kinds \union {"absent"},
         UNCHANGED <<table, creator, stores, emitted, history>>
  PROVE  IngestInv'
<1> DEFINE i == [ing[r] EXCEPT !.pc = pc]
<1>1. /\ ing' = [ing EXCEPT ![r] = i] /\ i \in Ingest /\ i.pc = pc /\ i.rows = ing[r].rows
      /\ i.via = ing[r].via /\ i.answer = ing[r].answer /\ i.created = ing[r].created
  BY IngestTyped DEF Go, Ingest
<1>2. UNCHANGED <<table, creator, ratified, logged, local, emitted, refusals, unsure>>
  BY DEF stores, history
<1> HIDE DEF i
<1>3. ing'[r] = i
  BY <1>1, IngestTyped
<1>4. OfRequest(r)'
  BY <1>1, <1>2, <1>3, IngestTyped DEF OfRequest, Stored
<1>5. QED
  BY <1>1, <1>2, <1>4, RequestStep, CreatorKept, IngestTyped

\* A request is over, with nothing stored.
LEMMA OverInv ==
  ASSUME IngestInv, NEW r \in Ingests, NEW answer \in {"error", "empty", "gone"}, Reply(r, answer),
         ing[r].pc \notin {"emit", "done"},
         registered' \in Kinds \union {"absent"},
         refusals' \in {refusals, refusals \union {r}},
         UNCHANGED <<table, creator, stores, emitted, unsure>>
  PROVE  IngestInv'
<1> DEFINE i == [ing[r] EXCEPT !.pc = "done", !.answer = answer]
<1>1. /\ ing' = [ing EXCEPT ![r] = i] /\ i \in Ingest /\ i.pc = "done" /\ i.rows = ing[r].rows
      /\ i.via = ing[r].via /\ i.answer = answer /\ i.created = ing[r].created
  BY IngestTyped DEF Reply, Ingest, Steps, Answers
<1>2. UNCHANGED <<table, creator, ratified, logged, local, emitted, unsure>>
  BY DEF stores
<1> HIDE DEF i
<1>3. ing'[r] = i
  BY <1>1, IngestTyped
<1>4. OfRequest(r)'
  BY <1>1, <1>2, <1>3, IngestTyped DEF OfRequest, Stored
<1>5. QED
  BY <1>1, <1>2, <1>4, RequestStep, CreatorKept, IngestTyped

LEMMA IngestOthersInv ==
  ASSUME IngestInv, OthersCreate \/ OthersResolve
  PROVE  IngestInv'
<1>1. UNCHANGED <<ing, ratified, logged, local, emitted, refusals, unsure>>
  BY DEF OthersCreate, OthersResolve, stores, history
<1>2. IngestTypeOK'
  BY <1>1 DEF OthersCreate, OthersResolve, IngestInv, IngestTypeOK
<1>3. CreatorInv'
  BY <1>1 DEF OthersCreate, OthersResolve, IngestInv, CreatorInv
<1>4. (\A r \in Ingests : OfRequest(r))'
  BY <1>1 DEF IngestInv, OfRequest, Stored
<1>5. QED
  BY <1>2, <1>3, <1>4 DEF IngestInv

LEMMA BeginInv == ASSUME IngestInv, NEW r \in Ingests, Begin(r) PROVE IngestInv'
<1>1. PICK via \in {"connect", "flight"}, make \in BOOLEAN, name \in Names, rows \in Rows :
        ing' = [ing EXCEPT ![r] = [pc |-> "resolve", via |-> via, make |-> make, name |-> name,
                                   rows |-> rows, created |-> FALSE, answer |-> "none"]]
  BY DEF Begin
<1> DEFINE i == [pc |-> "resolve", via |-> via, make |-> make, name |-> name,
                 rows |-> rows, created |-> FALSE, answer |-> "none"]
<1>2. /\ i \in Ingest /\ i.pc = "resolve" /\ i.answer = "none" /\ ~i.created
  BY DEF Ingest, Steps, Answers
<1>3. UNCHANGED <<table, creator, registered, ratified, logged, local, emitted, refusals, unsure>>
  BY DEF Begin, stores, history
<1>4. ing'[r] = i
  BY <1>1, IngestTyped
<1> HIDE DEF i
<1>5. r \notin Stored /\ r \notin refusals
  BY IngestTyped DEF Begin, OfRequest
<1>6. OfRequest(r)'
  BY <1>2, <1>3, <1>4, <1>5, IngestTyped DEF OfRequest, Stored
<1>7. ing' = [ing EXCEPT ![r] = i]
  BY <1>1 DEF i
<1>8. QED
  BY <1>2, <1>3, <1>6, <1>7, RequestStep, CreatorKept, IngestTyped

\* What the lookup of the table leads to.
LEMMA LookupInvs ==
  ASSUME IngestInv, NEW r \in Ingests, Resolve(r) \/ Again(r)
  PROVE  IngestInv'
<1>1. /\ ing[r].pc \notin {"emit", "done"} /\ ing[r].via \in {"connect", "flight"}
      /\ registered' \in Kinds \union {"absent"}
      /\ UNCHANGED <<table, creator, stores, emitted, history>>
  BY IngestTyped DEF Resolve, Again, Ingest
<1>2. \/ Fail(r)
      \/ \E pc \in {"collect", "create"} : Go(r, pc)
      \/ ing[r].via = "flight" /\ \E pc \in {"schema", "plan"} : Go(r, pc)
  BY <1>1 DEF Resolve, Again, Found
<1>3. CASE Fail(r)
  BY <1>1, <1>3, OverInv DEF Fail, history
<1>4. ASSUME NEW pc \in {"collect", "create"}, Go(r, pc) PROVE IngestInv'
  <2>1. pc \in Steps
    BY DEF Steps
  <2>2. QED
    BY <1>1, <1>4, <2>1, GoInv
<1>5. ASSUME ing[r].via = "flight", NEW pc \in {"schema", "plan"}, Go(r, pc) PROVE IngestInv'
  <2>1. pc \in Steps
    BY DEF Steps
  <2>2. QED
    BY <1>1, <1>5, <2>1, GoInv
<1>6. QED
  BY <1>2, <1>3, <1>4, <1>5

LEMMA CreateInv == ASSUME IngestInv, NEW r \in Ingests, Create(r) PROVE IngestInv'
<1>1. /\ ing[r].pc = "create" /\ registered' \in Kinds \union {"absent"}
      /\ UNCHANGED <<registered, ratified, logged, local, emitted>>
  BY IngestTyped DEF Create, stores
<1>2. CASE Fail(r) /\ UNCHANGED <<table, creator, unsure>> /\ refusals' \in {refusals, refusals \union {r}}
  BY <1>1, <1>2, OverInv DEF Fail, stores
<1>3. ASSUME table = "absent", table' = "managed", creator' = r, refusals' = refusals,
             NEW i \in Ingest, ing' = [ing EXCEPT ![r] = i], i.rows = ing[r].rows,
             \/ i.pc = "again" /\ i.answer = ing[r].answer /\ unsure' = unsure
             \/ i.pc = "done" /\ i.answer = "error" /\ unsure' = unsure \union {r}
      PROVE  IngestInv'
  <2>1. ing'[r] = i
    BY <1>3, IngestTyped
  <2>2. OfRequest(r)'
    BY <1>1, <1>3, <2>1, IngestTyped DEF OfRequest, Stored
  <2>3. CreatorInv'
    BY <1>3, <2>1, IngestTyped DEF IngestInv, CreatorInv
  <2>4. QED
    BY <1>1, <1>3, <2>2, <2>3, RequestStep DEF Kinds
<1>4. CASE /\ table = "absent" /\ table' = "managed" /\ creator' = r
           /\ ing' = [ing EXCEPT ![r].pc = "again", ![r].created = TRUE] /\ UNCHANGED history
  <2> DEFINE i == [ing[r] EXCEPT !.pc = "again", !.created = TRUE]
  <2>1. /\ ing' = [ing EXCEPT ![r] = i] /\ i \in Ingest /\ i.pc = "again"
        /\ i.rows = ing[r].rows /\ i.answer = ing[r].answer
    BY <1>4, IngestTyped DEF Ingest, Steps
  <2> HIDE DEF i
  <2>2. QED
    BY <1>3, <1>4, <2>1 DEF history
<1>5. CASE /\ table = "absent" /\ table' = "managed" /\ creator' = r
           /\ Fail(r) /\ unsure' = unsure \union {r} /\ UNCHANGED refusals
  <2> DEFINE i == [ing[r] EXCEPT !.pc = "done", !.answer = "error"]
  <2>1. /\ ing' = [ing EXCEPT ![r] = i] /\ i \in Ingest /\ i.pc = "done"
        /\ i.rows = ing[r].rows /\ i.answer = "error"
    BY <1>5, IngestTyped DEF Ingest, Steps, Answers, Fail, Reply
  <2> HIDE DEF i
  <2>2. QED
    BY <1>3, <1>5, <2>1
<1>6. QED
  BY <1>2, <1>4, <1>5 DEF Create, history

LEMMA CollectInv == ASSUME IngestInv, NEW r \in Ingests, Collect(r) PROVE IngestInv'
<1>1. /\ ing[r].pc = "collect" /\ registered' \in Kinds \union {"absent"} /\ "append" \in Steps
      /\ UNCHANGED <<table, creator, stores, emitted, history>>
  BY IngestTyped DEF Collect, Steps
<1>2. CASE Fail(r)
  BY <1>1, <1>2, OverInv DEF Fail, history
<1>3. CASE ing[r].rows # "bad" /\ Go(r, "append")
  BY <1>1, <1>3, GoInv
<1>4. QED
  BY <1>2, <1>3 DEF Collect

LEMMA SchemaInv == ASSUME IngestInv, NEW r \in Ingests, Schema(r) PROVE IngestInv'
<1>1. /\ ing[r].pc = "schema" /\ registered' \in Kinds \union {"absent"} /\ "append" \in Steps
      /\ UNCHANGED <<table, creator, stores, emitted, history>>
  BY IngestTyped DEF Schema, Steps
<1>2. CASE Fail(r)
  BY <1>1, <1>2, OverInv DEF Fail, history
<1>3. CASE ing[r].rows # "bad" /\ Go(r, "append")
  BY <1>1, <1>3, GoInv
<1>4. QED
  BY <1>2, <1>3 DEF Schema

LEMMA AppendInv == ASSUME IngestInv, NEW r \in Ingests, AppendRows(r) PROVE IngestInv'
<1>1. /\ ing[r].pc = "append" /\ registered' \in Kinds \union {"absent"} /\ "commit" \in Steps
      /\ ing[r].rows \in Rows /\ ing[r].rows # "bad"
      /\ UNCHANGED <<table, creator, stores, emitted, unsure>>
      /\ refusals' \in {refusals, refusals \union {r}}
  BY IngestTyped DEF AppendRows, Steps, Ingest, OfRequest
<1>2. CASE Fail(r)
  BY <1>1, <1>2, OverInv DEF Fail
<1>3. CASE Reply(r, "empty")
  BY <1>1, <1>3, OverInv
<1>4. CASE ing[r].rows = "some" /\ Go(r, "commit") /\ UNCHANGED refusals
  BY <1>1, <1>4, GoInv DEF history
<1>5. QED
  BY <1>1, <1>2, <1>3, <1>4 DEF AppendRows, Rows

LEMMA CommitInv == ASSUME IngestInv, NEW r \in Ingests, Commit(r) PROVE IngestInv'
<1>1. /\ ing[r].pc = "commit" /\ registered' \in Kinds \union {"absent"}
      /\ UNCHANGED <<table, creator, registered, logged, local, emitted, refusals, unsure>>
  BY IngestTyped DEF Commit, history
<1>2. CASE Fail(r) /\ UNCHANGED ratified
  BY <1>1, <1>2, OverInv DEF Fail, stores
<1>3. CASE Go(r, "emit") /\ ratified' = ratified \union {r}
  <2> DEFINE i == [ing[r] EXCEPT !.pc = "emit"]
  <2>1. /\ ing' = [ing EXCEPT ![r] = i] /\ i \in Ingest /\ i.pc = "emit" /\ i.rows = ing[r].rows
        /\ i.via = ing[r].via /\ i.answer = ing[r].answer /\ i.created = ing[r].created
    BY <1>3, IngestTyped DEF Go, Ingest, Steps
  <2> HIDE DEF i
  <2>2. ing'[r] = i
    BY <2>1, IngestTyped
  <2>3. OfRequest(r)'
    BY <1>1, <1>3, <2>1, <2>2, IngestTyped DEF OfRequest, Stored
  <2>4. QED
    BY <1>1, <1>3, <2>1, <2>3, RequestStep, CreatorKept, IngestTyped
<1>4. QED
  BY <1>2, <1>3 DEF Commit

LEMMA EmitInv == ASSUME IngestInv, NEW r \in Ingests, Emit(r) PROVE IngestInv'
<1>1. /\ ing[r].pc = "emit" /\ r \in ratified
      /\ UNCHANGED <<table, creator, registered, ratified, logged, local, refusals>>
  BY IngestTyped DEF Emit, stores, OfRequest
<1>2. ASSUME NEW answer \in {"ok", "error"}, Reply(r, answer),
             \/ answer = "ok" /\ emitted' = emitted \union {r} /\ unsure' = unsure
             \/ answer = "error" /\ unsure' = unsure \union {r} /\ emitted' = emitted
      PROVE  IngestInv'
  <2> DEFINE i == [ing[r] EXCEPT !.pc = "done", !.answer = answer]
  <2>1. /\ ing' = [ing EXCEPT ![r] = i] /\ i \in Ingest /\ i.pc = "done" /\ i.rows = ing[r].rows
        /\ i.via = ing[r].via /\ i.answer = answer /\ i.created = ing[r].created
    BY <1>2, IngestTyped DEF Reply, Ingest, Steps, Answers
  <2> HIDE DEF i
  <2>2. ing'[r] = i
    BY <2>1, IngestTyped
  <2>3. OfRequest(r)'
    BY <1>1, <1>2, <2>1, <2>2, IngestTyped DEF OfRequest, Stored
  <2>4. QED
    BY <1>1, <1>2, <2>1, <2>3, RequestStep, CreatorKept, IngestTyped
<1>3. QED
  BY <1>2 DEF Emit, Fail

LEMMA PlanInv == ASSUME IngestInv, NEW r \in Ingests, Plan(r) PROVE IngestInv'
<1>1. /\ ing[r].pc = "plan" /\ registered' \in Kinds \union {"absent"} /\ "insert" \in Steps
      /\ ing[r].via = "flight"
      /\ UNCHANGED <<table, creator, stores, emitted, history>>
  BY IngestTyped DEF Plan, Steps, OfRequest
<1>2. CASE Fail(r)
  BY <1>1, <1>2, OverInv DEF Fail, history
<1>3. CASE Go(r, "insert")
  BY <1>1, <1>3, GoInv
<1>4. QED
  BY <1>2, <1>3 DEF Plan

LEMMA RunInsertInv == ASSUME IngestInv, NEW r \in Ingests, RunInsert(r) PROVE IngestInv'
<1>1. /\ ing[r].pc = "insert" /\ ing[r].via = "flight" /\ ing[r].answer \in {"none", "gone"}
      /\ registered' \in Kinds \union {"absent"}
      /\ UNCHANGED <<table, creator, registered, ratified, emitted, unsure>>
  BY IngestTyped DEF RunInsert, OfRequest
<1>2. CASE /\ \E answer \in {"error", "empty", "gone"} : Reply(r, answer)
           /\ UNCHANGED <<logged, local>> /\ refusals' \in {refusals, refusals \union {r}}
  BY <1>1, <1>2, OverInv DEF stores
<1>3. ASSUME ing[r].rows = "some", NEW answer \in {"ok", "gone"}, Reply(r, answer),
             \/ logged' = logged \union {r} /\ local' = local
             \/ local' = local \union {r} /\ logged' = logged,
             UNCHANGED refusals
      PROVE  IngestInv'
  <2> DEFINE i == [ing[r] EXCEPT !.pc = "done", !.answer = answer]
  <2>1. /\ ing' = [ing EXCEPT ![r] = i] /\ i \in Ingest /\ i.pc = "done" /\ i.rows = "some"
        /\ i.via = "flight" /\ i.answer = answer /\ i.created = ing[r].created
    BY <1>1, <1>3, IngestTyped DEF Reply, Ingest, Steps, Answers
  <2> HIDE DEF i
  <2>2. ing'[r] = i
    BY <2>1, IngestTyped
  <2>3. r \notin ratified /\ r \notin refusals /\ r \notin emitted
    BY <1>1, IngestTyped DEF OfRequest, Stored
  <2>4. OfRequest(r)'
    BY <1>1, <1>3, <2>1, <2>2, <2>3 DEF OfRequest, Stored
  <2>5. QED
    BY <1>1, <1>3, <2>1, <2>4, RequestStep, CreatorKept, IngestTyped
<1>4. QED
  BY <1>1, <1>2, <1>3 DEF RunInsert

LEMMA LeaveIngestInv == ASSUME IngestInv, NEW r \in Ingests, Leave(r) PROVE IngestInv'
<1>1. /\ ing[r].pc # "done" /\ ing[r].answer = "none"
      /\ UNCHANGED <<table, creator, registered, ratified, logged, local, emitted, refusals, unsure>>
  BY DEF Leave, stores, history
<1> DEFINE i == [ing[r] EXCEPT !.pc = IF ing[r].pc = "insert" THEN "insert" ELSE "done",
                               !.answer = "gone"]
<1>2. ing' = [ing EXCEPT ![r] = i]
  <2>1. CASE ing[r].pc = "insert"
    <3>1. i = [ing[r] EXCEPT !.answer = "gone"]
      BY <2>1, IngestTyped DEF Ingest
    <3>2. QED
      BY <2>1, <3>1, IngestTyped DEF Leave
  <2>2. CASE ing[r].pc # "insert"
    <3>1. i = [ing[r] EXCEPT !.pc = "done", !.answer = "gone"]
      BY <2>2
    <3>2. QED
      BY <2>2, <3>1, IngestTyped DEF Leave, Reply
  <2>3. QED
    BY <2>1, <2>2
<1>3. /\ i \in Ingest /\ i.pc = (IF ing[r].pc = "insert" THEN "insert" ELSE "done")
      /\ i.rows = ing[r].rows /\ i.via = ing[r].via /\ i.answer = "gone"
      /\ i.created = ing[r].created
  BY IngestTyped DEF Ingest, Steps, Answers
<1> HIDE DEF i
<1>4. ing'[r] = i
  BY <1>2, IngestTyped
<1>5. OfRequest(r)'
  BY <1>1, <1>3, <1>4, IngestTyped DEF OfRequest, Stored
<1>6. QED
  BY <1>1, <1>2, <1>3, <1>5, RequestStep, CreatorKept, IngestTyped

LEMMA IngestStepInv == ASSUME IngestInv, IngestNext PROVE IngestInv'
<1>1. ASSUME NEW r \in Ingests, Reject(r) PROVE IngestInv'
  BY <1>1, OverInv, IngestTyped DEF Reject, Fail, history
<1>2. QED
  BY <1>1, IngestOthersInv, BeginInv, LookupInvs, CreateInv, CollectInv, SchemaInv, AppendInv,
     CommitInv, EmitInv, PlanInv, RunInsertInv, LeaveIngestInv DEF IngestNext, IngestStep

LEMMA IngestInvariant == IngestSpec => []IngestInv
<1>1. ASSUME IngestInv, UNCHANGED ingestVars PROVE IngestInv'
  <2>1. UNCHANGED <<table, creator, registered, ing, ratified, logged, local, emitted, refusals, unsure>>
    BY <1>1 DEF ingestVars
  <2>2. QED
    BY <1>1, <2>1 DEF IngestInv, IngestTypeOK, CreatorInv, OfRequest, Stored
<1>2. IngestInv /\ [IngestNext]_ingestVars => IngestInv'
  BY <1>1, IngestStepInv
<1>3. QED
  BY <1>2, IngestInit_Inv, PTL DEF IngestSpec

\* For any number of requests: the client is told what happened to its rows and who created the table
\* (IngestService::ingest_table, do_put_statement_ingest).
THEOREM AnswersAreTrueHolds == IngestSpec => []AnswersAreTrue
<1>1. IngestInv => AnswersAreTrue
  BY DEF IngestInv, OfRequest, CreatorInv, AnswersAreTrue
<1>2. QED
  BY <1>1, IngestInvariant, PTL

\* For any number of requests: rows are stored whole, and for no request the policy refused; a lineage
\* event is of a commit, and no commit the client was told of is without one (append_managed_batches,
\* GovernedLineagePlanner).
THEOREM WritesAreGovernedHolds == IngestSpec => []WritesAreGoverned
<1>1. IngestInv => /\ refusals \subseteq Ingests /\ Stored \subseteq Ingests
                   /\ emitted \subseteq Ingests /\ ratified \subseteq Ingests
  BY DEF IngestInv, IngestTypeOK, Stored
<1>2. IngestInv => PolicyBeforeRows /\ WholeOrNothing
  BY <1>1 DEF IngestInv, OfRequest, PolicyBeforeRows, WholeOrNothing
<1>3. IngestInv => LineageFollowsCommit
  BY <1>1 DEF IngestInv, OfRequest, LineageFollowsCommit
<1>4. IngestInv => WritesAreGoverned
  BY <1>2, <1>3 DEF WritesAreGoverned
<1>5. QED
  BY <1>4, IngestInvariant, PTL

-----------------------------------------------------------------------------
(* Uploads.                                                                 *)

\* The first n chunks of the upload u.
FirstChunks(u, n) == [i \in 1..n |-> [by |-> u, chunk |-> i]]

\* What an upload has done to its file, if nobody else has touched it.
UploadInv(u) ==
  LET r == upload[u] IN
  /\ r.got <= r.length
  /\ r.step = "create" => r.to = "home" /\ r.got = 0
  /\ r.step = "stat" => r.to = "volume"
  /\ r.answer = "ok" => r.step = "done"
  /\ r.alone => r.linked
  /\ r.alone /\ r.step = "chunks" /\ r.to = "home" =>
       file[r.to].there /\ file[r.to].content = FirstChunks(u, r.got)
  /\ r.alone /\ (r.step = "stat" \/ r.answer = "ok") =>
       file[r.to].there /\ file[r.to].content = FirstChunks(u, r.length)

\* A file in memory or in a volume is the whole of an upload that was completed.
WholeInv ==
  \A s \in {"memory", "volume"} : file[s].there =>
    \E u \in Uploads : /\ upload[u].to = s /\ upload[u].step \in {"stat", "done"}
                      /\ file[s].content = FirstChunks(u, upload[u].length)

UploadsInv ==
  /\ DOMAIN file = Stores
  /\ upload \in [Uploads -> Upload]
  /\ WholeInv
  /\ \A u \in Uploads : UploadInv(u)

LEMMA WholeIsFirst == \A u \in Uploads : Whole(u) = FirstChunks(u, upload[u].length)
BY DEF Whole, FirstChunks

LEMMA UploadsInit_Inv == UploadsInit => UploadsInv
<1>1. ASSUME UploadsInit PROVE upload \in [Uploads -> Upload] /\ DOMAIN file = Stores
  <2>1. 1 \in 1..MaxChunks /\ 0 \in 0..MaxChunks
    BY UploadsAssumption
  <2>2. QED
    BY <1>1, <2>1 DEF UploadsInit, Upload, Stores
<1>2. ASSUME UploadsInit PROVE WholeInv
  BY <1>2 DEF UploadsInit, WholeInv, Stores
<1>3. ASSUME UploadsInit, NEW u \in Uploads PROVE UploadInv(u)
  BY <1>3 DEF UploadsInit, UploadInv
<1>4. QED
  BY <1>1, <1>2, <1>3 DEF UploadsInv

LEMMA UploadTyped ==
  ASSUME UploadsInv, NEW u \in Uploads
  PROVE  /\ upload \in [Uploads -> Upload] /\ upload[u] \in Upload /\ UploadInv(u)
         /\ DOMAIN file = Stores /\ upload[u].to \in Stores
BY DEF UploadsInv, Upload

\* Another upload is as it was, with its file, or is no longer alone.
LEMMA OtherKept ==
  ASSUME UploadsInv, NEW v \in Uploads,
         \/ upload'[v] = upload[v] /\ file'[upload[v].to] = file[upload[v].to]
         \/ upload'[v] = [upload[v] EXCEPT !.alone = FALSE]
  PROVE  UploadInv(v)'
<1>1. CASE upload'[v] = upload[v] /\ file'[upload[v].to] = file[upload[v].to]
  BY <1>1, UploadTyped DEF UploadInv
<1>2. CASE upload'[v] = [upload[v] EXCEPT !.alone = FALSE]
  <2>1. /\ upload'[v].alone = FALSE /\ upload'[v].step = upload[v].step
        /\ upload'[v].to = upload[v].to /\ upload'[v].answer = upload[v].answer
        /\ upload'[v].got = upload[v].got /\ upload'[v].length = upload[v].length
    BY <1>2, UploadTyped DEF Upload
  <2>2. QED
    BY <2>1, UploadTyped DEF UploadInv
<1>3. QED
  BY <1>1, <1>2

\* A completed upload stays what it is.
LEMMA WholeKept ==
  ASSUME UploadsInv,
         \A v \in Uploads : upload[v].step \in {"stat", "done"} =>
           /\ upload'[v].to = upload[v].to /\ upload'[v].length = upload[v].length
           /\ upload'[v].step \in {"stat", "done"},
         NEW s \in {"memory", "volume"}, file'[s] = file[s], file'[s].there
  PROVE  \E u \in Uploads : /\ upload'[u].to = s /\ upload'[u].step \in {"stat", "done"}
                           /\ file'[s].content = FirstChunks(u, upload'[u].length)
<1>1. PICK u \in Uploads : /\ upload[u].to = s /\ upload[u].step \in {"stat", "done"}
                          /\ file[s].content = FirstChunks(u, upload[u].length)
  BY DEF UploadsInv, WholeInv
<1>2. QED
  BY <1>1

\* A step of the upload u that leaves the files alone.
LEMMA OnlyStep ==
  ASSUME UploadsInv, NEW u \in Uploads, NEW r \in Upload, Only(u, r), UNCHANGED file, UploadInv(u)',
         upload[u].step \in {"stat", "done"} =>
           r.to = upload[u].to /\ r.length = upload[u].length /\ r.step \in {"stat", "done"}
  PROVE  UploadsInv'
<1>1. upload' \in [Uploads -> Upload] /\ upload'[u] = r
  BY UploadTyped DEF Only
<1>2. \A v \in Uploads : v # u => upload'[v] = upload[v]
  BY UploadTyped DEF Only
<1>3. \A v \in Uploads : UploadInv(v)'
  BY <1>2, OtherKept
<1>4. WholeInv'
  BY <1>1, <1>2, WholeKept DEF WholeInv
<1>5. QED
  BY <1>1, <1>3, <1>4 DEF UploadsInv

\* A step of u that writes the file of its store, which then is a whole upload, or of the home store.
LEMMA WritingStep ==
  ASSUME UploadsInv, NEW u \in Uploads, NEW r \in Upload, NEW content,
         Disturbing(u, r), Put(r.to, content), UploadInv(u)',
         upload[u].step \notin {"stat", "done"},
         r.to = "home" \/ (r.step \in {"stat", "done"} /\ content = FirstChunks(u, r.length))
  PROVE  UploadsInv'
<1>1. /\ upload'[u] = r
      /\ \A v \in Uploads : v # u =>
           upload'[v] = IF upload[v].to = r.to THEN [upload[v] EXCEPT !.alone = FALSE] ELSE upload[v]
  BY DEF Disturbing
<1>2. r.to \in Stores
  BY DEF Upload
<1>3. /\ DOMAIN file' = Stores /\ file'[r.to] = [there |-> TRUE, content |-> content]
      /\ \A s \in Stores : s # r.to => file'[s] = file[s]
  BY <1>2 DEF Put, UploadsInv
<1>4. ASSUME NEW v \in Uploads, v # u
      PROVE  /\ upload'[v] \in Upload /\ upload'[v].to = upload[v].to
             /\ upload'[v].length = upload[v].length /\ upload'[v].step = upload[v].step
  <2>1. upload[v] \in Upload
    BY UploadTyped
  <2>2. CASE upload'[v] = upload[v]
    BY <2>1, <2>2
  <2>3. CASE upload'[v] = [upload[v] EXCEPT !.alone = FALSE]
    BY <2>1, <2>3 DEF Upload
  <2>4. QED
    BY <1>1, <1>4, <2>2, <2>3
<1>5. upload' \in [Uploads -> Upload]
  <2>1. ASSUME NEW v \in Uploads PROVE upload'[v] \in Upload
    BY <1>1, <1>4
  <2>2. DOMAIN upload' = Uploads /\ upload' = [v \in Uploads |-> upload'[v]]
    BY DEF Disturbing
  <2>3. QED
    BY <2>1, <2>2
<1>6. ASSUME NEW v \in Uploads, v # u PROVE UploadInv(v)'
  BY <1>1, <1>3, <1>6, OtherKept, UploadTyped
<1>7. \A v \in Uploads : upload[v].step \in {"stat", "done"} =>
        /\ upload'[v].to = upload[v].to /\ upload'[v].length = upload[v].length
        /\ upload'[v].step \in {"stat", "done"}
  BY <1>4
<1>8. WholeInv'
  <2>1. ASSUME NEW s \in {"memory", "volume"}, file'[s].there
        PROVE  \E w \in Uploads : /\ upload'[w].to = s /\ upload'[w].step \in {"stat", "done"}
                                 /\ file'[s].content = FirstChunks(w, upload'[w].length)
    <3>1. CASE s = r.to
      BY <1>1, <1>3, <2>1, <3>1
    <3>2. CASE s # r.to
      BY <1>3, <1>7, <2>1, <3>2, WholeKept DEF Stores
    <3>3. QED
      BY <3>1, <3>2
  <2>2. QED
    BY <2>1 DEF WholeInv
<1>9. QED
  BY <1>3, <1>5, <1>6, <1>8 DEF UploadsInv

\* The record of u after a step: the fields that changed, and those that did not.
LEMMA FailedTyped ==
  ASSUME UploadsInv, NEW u \in Uploads
  PROVE  /\ Failed(u) \in Upload /\ Failed(u).step = "done" /\ Failed(u).answer = "error"
         /\ Failed(u).to = upload[u].to /\ Failed(u).length = upload[u].length
         /\ Failed(u).alone = upload[u].alone /\ Failed(u).linked = upload[u].linked
         /\ Failed(u).got = upload[u].got /\ Answered(u).got = upload[u].got
         /\ Answered(u) \in Upload /\ Answered(u).step = "done" /\ Answered(u).answer = "ok"
         /\ Answered(u).to = upload[u].to /\ Answered(u).length = upload[u].length
         /\ Answered(u).alone = upload[u].alone /\ Answered(u).linked = upload[u].linked
BY UploadTyped DEF Failed, Answered, Upload

LEMMA FailInvs ==
  ASSUME UploadsInv, NEW u \in Uploads, Only(u, Failed(u)), UNCHANGED file
  PROVE  UploadsInv'
<1>1. upload'[u] = Failed(u)
  BY UploadTyped DEF Only
<1>2. UploadInv(u)'
  BY <1>1, FailedTyped, UploadTyped DEF UploadInv
<1>3. QED
  BY <1>2, FailedTyped, OnlyStep

LEMMA BeginUploadInv == ASSUME UploadsInv, NEW u \in Uploads, BeginUpload(u) PROVE UploadsInv'
<1>1. PICK s \in Stores, n \in 1..MaxChunks :
        Only(u, [step |-> IF s = "home" THEN "create" ELSE "chunks", to |-> s, length |-> n,
                 got |-> 0, linked |-> TRUE, answer |-> "none", alone |-> TRUE])
  BY DEF BeginUpload
<1> DEFINE step == IF s = "home" THEN "create" ELSE "chunks"
           r == [step |-> step, to |-> s, length |-> n, got |-> 0, linked |-> TRUE,
                 answer |-> "none", alone |-> TRUE]
<1>2. r \in Upload /\ Only(u, r) /\ UNCHANGED file /\ upload[u].step = "new"
  BY <1>1, UploadsAssumption DEF BeginUpload, Upload
<1>3. /\ r.step = step /\ r.to = s /\ r.linked /\ r.answer = "none" /\ r.got = 0
      /\ r.length = n /\ 0 <= n
  BY UploadsAssumption
<1> HIDE DEF r
<1>4. upload'[u] = r
  BY <1>2, UploadTyped DEF Only
<1>5. UploadInv(u)'
  <2>1. (file[r.to].content = FirstChunks(u, 0) /\ file[r.to].there) \/ ~(r.step = "chunks" /\ r.to = "home")
    BY <1>3
  <2>2. QED
    BY <1>3, <1>4, <2>1 DEF UploadInv
<1>6. QED
  BY <1>2, <1>5, OnlyStep

LEMMA CreateFileInv == ASSUME UploadsInv, NEW u \in Uploads, CreateFile(u) PROVE UploadsInv'
<1> DEFINE r == [upload[u] EXCEPT !.step = "chunks"]
<1>1. /\ r \in Upload /\ r.step = "chunks" /\ r.to = "home" /\ r.got = 0
      /\ r.length = upload[u].length /\ r.answer = upload[u].answer
      /\ r.alone = upload[u].alone /\ r.linked = upload[u].linked
  BY UploadTyped DEF CreateFile, Upload, UploadInv
<1>2. Disturbing(u, r) /\ Put(r.to, <<>>) /\ upload[u].step = "create"
  BY <1>1 DEF CreateFile
<1> HIDE DEF r
<1>3. upload'[u] = r /\ file'["home"].there /\ file'["home"].content = <<>>
  BY <1>1, <1>2, UploadTyped DEF Disturbing, Put, Stores
<1>4. FirstChunks(u, 0) = <<>>
  BY DEF FirstChunks
<1>5. UploadInv(u)'
  BY <1>1, <1>2, <1>3, <1>4, UploadTyped DEF UploadInv
<1>6. QED
  BY <1>1, <1>2, <1>5, WritingStep

\* A chunk that is taken: the upload has one more.
LEMMA TakenTyped ==
  ASSUME UploadsInv, NEW u \in Uploads, upload[u].step = "chunks", ~AllTaken(u),
         NEW r, r = [upload[u] EXCEPT !.got = upload[u].got + 1]
  PROVE  /\ r \in Upload /\ r.step = "chunks" /\ r.to = upload[u].to /\ r.length = upload[u].length
         /\ r.got = upload[u].got + 1 /\ r.got <= r.length /\ r.answer = upload[u].answer
         /\ r.alone = upload[u].alone /\ r.linked = upload[u].linked
<1>1. /\ upload[u].got \in 0..MaxChunks /\ upload[u].length \in 1..MaxChunks
      /\ upload[u].got <= upload[u].length /\ upload[u].got # upload[u].length
  BY UploadTyped DEF Upload, UploadInv, AllTaken
<1>2. upload[u].got + 1 \in 0..MaxChunks /\ upload[u].got + 1 <= upload[u].length
  BY <1>1, UploadsAssumption
<1>3. QED
  BY <1>2, UploadTyped DEF Upload

LEMMA TakeInv == ASSUME UploadsInv, NEW u \in Uploads, Take(u) PROVE UploadsInv'
<1> DEFINE r == [upload[u] EXCEPT !.got = upload[u].got + 1]
<1>1. /\ Only(u, r) /\ UNCHANGED file /\ upload[u].step = "chunks" /\ upload[u].to # "home"
      /\ ~AllTaken(u)
  BY DEF Take
<1>2. /\ r \in Upload /\ r.step = "chunks" /\ r.to = upload[u].to /\ r.length = upload[u].length
      /\ r.got <= r.length /\ r.answer = upload[u].answer
      /\ r.alone = upload[u].alone /\ r.linked = upload[u].linked
  BY <1>1, TakenTyped
<1> HIDE DEF r
<1>3. upload'[u] = r
  BY <1>1, UploadTyped DEF Only
<1>4. UploadInv(u)'
  BY <1>1, <1>2, <1>3, UploadTyped DEF UploadInv
<1>5. QED
  BY <1>1, <1>2, <1>4, OnlyStep

\* A chunk written after the first n of u leaves the first n + 1.
LEMMA WrittenIsFirst ==
  ASSUME NEW u, NEW n \in Nat PROVE Written(FirstChunks(u, n), u, n + 1) = FirstChunks(u, n + 1)
<1>1. Len(FirstChunks(u, n)) = n
  BY DEF FirstChunks
<1>2. \A j \in 1..n : FirstChunks(u, n)[j] = [by |-> u, chunk |-> j]
  BY DEF FirstChunks
<1> DEFINE before == FirstChunks(u, n)
<1> HIDE DEF before
<1>3. before = FirstChunks(u, n)
  BY DEF before
<1>4. Len(before) = n /\ \A j \in 1..n : before[j] = [by |-> u, chunk |-> j]
  BY <1>1, <1>2, <1>3
<1>5. Written(before, u, n + 1) = [j \in 1..(n + 1) |-> [by |-> u, chunk |-> j]]
  <2>1. (IF n + 1 > Len(before) THEN n + 1 ELSE Len(before)) = n + 1
    BY <1>4
  <2>2. ASSUME NEW j \in 1..(n + 1)
        PROVE  (IF j = n + 1 THEN [by |-> u, chunk |-> n + 1]
                ELSE IF j <= Len(before) THEN before[j] ELSE Hole) = [by |-> u, chunk |-> j]
    <3>1. CASE j = n + 1
      BY <3>1
    <3>2. CASE j # n + 1
      <4>1. j \in 1..n /\ j <= Len(before)
        BY <1>4, <3>2
      <4>2. QED
        BY <1>4, <3>2, <4>1
    <3>3. QED
      BY <3>1, <3>2
  <2>3. QED
    BY <2>1, <2>2 DEF Written
<1>6. QED
  BY <1>3, <1>5 DEF FirstChunks

LEMMA WriteInv == ASSUME UploadsInv, NEW u \in Uploads, Write(u) PROVE UploadsInv'
<1> DEFINE r == [upload[u] EXCEPT !.got = upload[u].got + 1]
<1>1. /\ upload[u].step = "chunks" /\ upload[u].to = "home" /\ ~AllTaken(u)
      /\ IF upload[u].linked
         THEN Disturbing(u, r) /\ Put("home", Written(file["home"].content, u, r.got))
         ELSE Only(u, r) /\ UNCHANGED file
  BY DEF Write, To
<1>2. /\ r \in Upload /\ r.step = "chunks" /\ r.to = "home" /\ r.length = upload[u].length
      /\ r.got = upload[u].got + 1 /\ r.got <= r.length /\ r.answer = upload[u].answer
      /\ r.alone = upload[u].alone /\ r.linked = upload[u].linked
  BY <1>1, TakenTyped
<1> HIDE DEF r
<1>3. upload[u].got \in Nat
  BY UploadTyped DEF Upload
<1>4. upload'[u] = r
  BY <1>1, UploadTyped DEF Only, Disturbing
<1>5. CASE upload[u].linked
  <2> DEFINE content == Written(file["home"].content, u, r.got)
  <2>1. file'["home"] = [there |-> TRUE, content |-> content]
    BY <1>1, <1>5, UploadTyped DEF Put, Stores
  <2>2. r.alone => content = FirstChunks(u, r.got)
    <3>1. r.alone => file["home"].content = FirstChunks(u, upload[u].got)
      BY <1>1, <1>2, UploadTyped DEF UploadInv
    <3>2. Written(FirstChunks(u, upload[u].got), u, upload[u].got + 1) = FirstChunks(u, upload[u].got + 1)
      BY <1>3, WrittenIsFirst
    <3>3. r.got = upload[u].got + 1
      BY <1>2
    <3>4. QED
      BY <3>1, <3>2, <3>3
  <2> HIDE DEF content
  <2>3. UploadInv(u)'
    <3>1. file'[r.to].there /\ file'[r.to].content = content
      BY <1>2, <2>1
    <3>2. upload[u].answer # "ok" /\ (r.alone => r.linked)
      BY <1>1, <1>2, UploadTyped DEF UploadInv
    <3>3. QED
      BY <1>2, <1>4, <2>2, <3>1, <3>2 DEF UploadInv
  <2>4. QED
    BY <1>1, <1>2, <1>5, <2>3, WritingStep DEF content
<1>6. CASE ~upload[u].linked
  <2>1. UploadInv(u)'
    BY <1>1, <1>2, <1>4, <1>6, UploadTyped DEF UploadInv
  <2>2. QED
    BY <1>1, <1>2, <1>6, <2>1, OnlyStep
<1>7. QED
  BY <1>5, <1>6

LEMMA InsertFileInv == ASSUME UploadsInv, NEW u \in Uploads, InsertFile(u) PROVE UploadsInv'
<1> DEFINE r == Answered(u)
<1>1. /\ Disturbing(u, r) /\ Put("memory", FirstChunks(u, upload[u].length))
      /\ upload[u].to = "memory" /\ upload[u].step = "chunks"
  BY WholeIsFirst DEF InsertFile, To
<1>2. /\ r \in Upload /\ r.step = "done" /\ r.answer = "ok" /\ r.to = "memory"
      /\ r.length = upload[u].length /\ r.got = upload[u].got /\ r.alone = upload[u].alone
      /\ r.linked = upload[u].linked
  BY <1>1, FailedTyped
<1> HIDE DEF r
<1>3. upload'[u] = r /\ file'["memory"] = [there |-> TRUE, content |-> FirstChunks(u, upload[u].length)]
  BY <1>1, UploadTyped DEF Disturbing, Put, Stores
<1>4. UploadInv(u)'
  BY <1>2, <1>3, UploadTyped DEF UploadInv
<1>5. QED
  BY <1>1, <1>2, <1>4, WritingStep

LEMMA FinishPartsInv == ASSUME UploadsInv, NEW u \in Uploads, FinishParts(u) PROVE UploadsInv'
<1> DEFINE stat == [upload[u] EXCEPT !.step = "stat"]
<1>1. /\ Put("volume", FirstChunks(u, upload[u].length))
      /\ upload[u].to = "volume" /\ upload[u].step = "chunks"
      /\ Disturbing(u, stat) \/ Disturbing(u, Failed(u))
  BY WholeIsFirst DEF FinishParts, To
<1>2. PICK r \in Upload :
        /\ Disturbing(u, r) /\ r.step \in {"stat", "done"} /\ r.to = "volume" /\ r.answer # "ok"
        /\ r.length = upload[u].length /\ r.got = upload[u].got /\ r.alone = upload[u].alone
        /\ r.linked = upload[u].linked
  <2>1. /\ stat \in Upload /\ stat.step = "stat" /\ stat.to = "volume" /\ stat.answer # "ok"
        /\ stat.length = upload[u].length /\ stat.got = upload[u].got /\ stat.alone = upload[u].alone
        /\ stat.linked = upload[u].linked
    BY <1>1, UploadTyped DEF Upload, UploadInv
  <2>2. QED
    BY <1>1, <2>1, FailedTyped
<1>3. upload'[u] = r /\ file'["volume"] = [there |-> TRUE, content |-> FirstChunks(u, upload[u].length)]
  BY <1>1, <1>2, UploadTyped DEF Disturbing, Put, Stores
<1>4. UploadInv(u)'
  BY <1>2, <1>3, UploadTyped DEF UploadInv
<1>5. QED
  BY <1>1, <1>2, <1>4, WritingStep

\* The answer to an upload whose file is what it should be.
LEMMA AnswerInvs ==
  ASSUME UploadsInv, NEW u \in Uploads, Only(u, Answered(u)), UNCHANGED file,
         upload[u].alone =>
           file[upload[u].to].there /\ file[upload[u].to].content = FirstChunks(u, upload[u].length)
  PROVE  UploadsInv'
<1>1. upload'[u] = Answered(u)
  BY UploadTyped DEF Only
<1>2. UploadInv(u)'
  BY <1>1, FailedTyped, UploadTyped DEF UploadInv
<1>3. QED
  BY <1>2, FailedTyped, OnlyStep

LEMMA StatFileInv == ASSUME UploadsInv, NEW u \in Uploads, StatFile(u) PROVE UploadsInv'
<1>1. upload[u].step = "stat" /\ UNCHANGED file
  BY DEF StatFile
<1>2. CASE Only(u, Answered(u))
  BY <1>1, <1>2, UploadTyped, AnswerInvs DEF UploadInv
<1>3. QED
  BY <1>1, <1>2, FailInvs DEF StatFile

LEMMA FlushFileInv == ASSUME UploadsInv, NEW u \in Uploads, FlushFile(u) PROVE UploadsInv'
<1>1. /\ upload[u].step = "chunks" /\ upload[u].to = "home" /\ UNCHANGED file
      /\ upload[u].got = upload[u].length /\ Only(u, Answered(u))
  BY DEF FlushFile, To, AllTaken
<1>2. QED
  BY <1>1, UploadTyped, AnswerInvs DEF UploadInv

LEMMA DeleteFileInv == ASSUME UploadsInv, NEW s \in Stores, DeleteFile(s) PROVE UploadsInv'
<1>1. /\ DOMAIN file' = Stores /\ ~file'[s].there
      /\ \A x \in Stores : x # s => file'[x] = file[x]
  BY DEF DeleteFile, UploadsInv
<1>2. ASSUME NEW u \in Uploads
      PROVE  \/ upload'[u] = upload[u] /\ (upload[u].to # s \/ upload[u].step = "new")
             \/ /\ upload'[u] \in Upload /\ ~upload'[u].alone /\ upload'[u].step = upload[u].step
                /\ upload'[u].to = upload[u].to /\ upload'[u].length = upload[u].length
                /\ upload'[u].got = upload[u].got /\ upload'[u].answer = upload[u].answer
  <2>1. CASE upload[u].to # s \/ upload[u].step = "new"
    BY <2>1 DEF DeleteFile
  <2>2. CASE ~(upload[u].to # s \/ upload[u].step = "new")
    <3> DEFINE linked == upload[u].linked /\ upload[u].step # "chunks"
               r == [upload[u] EXCEPT !.alone = FALSE, !.linked = linked]
    <3>1. upload'[u] = r
      BY <2>2 DEF DeleteFile
    <3>2. linked \in BOOLEAN
      OBVIOUS
    <3> HIDE DEF linked
    <3>3. /\ r \in Upload /\ ~r.alone /\ r.step = upload[u].step /\ r.to = upload[u].to
          /\ r.length = upload[u].length /\ r.got = upload[u].got /\ r.answer = upload[u].answer
      BY <3>2, UploadTyped DEF Upload
    <3>4. QED
      BY <3>1, <3>3
  <2>3. QED
    BY <2>1, <2>2
<1>3. upload' \in [Uploads -> Upload]
  <2>1. \A u \in Uploads : upload'[u] \in Upload
    BY <1>2, UploadTyped
  <2>2. upload' = [u \in Uploads |-> upload'[u]]
    BY DEF DeleteFile
  <2>3. QED
    BY <2>1, <2>2
<1>4. ASSUME NEW u \in Uploads PROVE UploadInv(u)'
  <2>1. CASE upload'[u] = upload[u] /\ upload[u].to # s
    BY <1>1, <2>1, OtherKept, UploadTyped
  <2>2. CASE upload'[u] = upload[u] /\ upload[u].step = "new"
    BY <2>2, UploadTyped DEF UploadInv
  <2>3. CASE /\ ~upload'[u].alone /\ upload'[u].step = upload[u].step
             /\ upload'[u].to = upload[u].to /\ upload'[u].length = upload[u].length
             /\ upload'[u].got = upload[u].got /\ upload'[u].answer = upload[u].answer
    BY <2>3, UploadTyped DEF UploadInv
  <2>4. QED
    BY <1>2, <2>1, <2>2, <2>3
<1>5. \A v \in Uploads : upload[v].step \in {"stat", "done"} =>
        /\ upload'[v].to = upload[v].to /\ upload'[v].length = upload[v].length
        /\ upload'[v].step \in {"stat", "done"}
  BY <1>2
<1>6. WholeInv'
  BY <1>1, <1>5, WholeKept DEF WholeInv, Stores
<1>7. QED
  BY <1>1, <1>3, <1>4, <1>6 DEF UploadsInv

LEMMA UploadsStep == ASSUME UploadsInv, UploadsNext PROVE UploadsInv'
<1>1. ASSUME NEW u \in Uploads, Break(u) PROVE UploadsInv'
  BY <1>1, FailInvs DEF Break
<1>2. QED
  BY <1>1, BeginUploadInv, CreateFileInv, TakeInv, WriteInv, InsertFileInv, FinishPartsInv, StatFileInv,
     FlushFileInv, DeleteFileInv DEF UploadsNext

LEMMA UploadsInvariant == UploadsSpec => []UploadsInv
<1>1. ASSUME UploadsInv, UNCHANGED uploadVars PROVE UploadsInv'
  <2>1. UNCHANGED <<file, upload>>
    BY <1>1 DEF uploadVars
  <2>2. QED
    BY <1>1, <2>1 DEF UploadsInv, WholeInv, UploadInv
<1>2. UploadsInv /\ [UploadsNext]_uploadVars => UploadsInv'
  BY <1>1, UploadsStep
<1>3. QED
  BY <1>2, UploadsInit_Inv, PTL DEF UploadsSpec

\* For any number of uploads and chunks: a file in memory or in a volume is one upload, whole
\* (store/memory.rs, store/unity.rs, put_file_stream); and in every store an answered upload that met
\* nobody is what the file holds, in the home store because each chunk lands behind those before it
\* (store/local.rs).
THEOREM UploadsAreKeptHolds == UploadsSpec => []UploadsAreKept
<1>1. UploadsInv => OneWholeUpload
  BY WholeIsFirst DEF UploadsInv, WholeInv, OneWholeUpload
<1>2. UploadsInv => AnsweredIsStored
  BY WholeIsFirst DEF UploadsInv, UploadInv, AnsweredIsStored
<1>3. UploadsInv => UploadsAreKept
  BY <1>1, <1>2 DEF UploadsAreKept
<1>4. QED
  BY <1>3, UploadsInvariant, PTL

\* What the stores hold is chunks of uploads, and holes where nobody wrote.
Files == [Stores -> [there : BOOLEAN, content : Content]]

LEMMA WholeIsContent == ASSUME UploadsInv, NEW u \in Uploads PROVE Whole(u) \in Content
<1>1. upload[u].length \in 1..MaxChunks
  BY UploadTyped DEF Upload
<1>2. \A i \in 1..upload[u].length : [by |-> u, chunk |-> i] \in Part
  BY <1>1, UploadsAssumption DEF Part
<1>3. upload[u].length \in Nat
  BY <1>1, UploadsAssumption
<1>4. QED
  BY <1>2, <1>3 DEF Whole, Content

LEMMA WrittenIsContent ==
  ASSUME NEW u \in Uploads, NEW i \in 1..MaxChunks, NEW content \in Content
  PROVE  Written(content, u, i) \in Content
<1> DEFINE n == IF i > Len(content) THEN i ELSE Len(content)
<1>1. Len(content) \in Nat /\ i \in Nat /\ n \in Nat /\ \A j \in 1..Len(content) : content[j] \in Part \union {Hole}
  BY UploadsAssumption DEF Content
<1>2. [by |-> u, chunk |-> i] \in Part
  BY DEF Part
<1>3. \A j \in 1..n : (IF j = i THEN [by |-> u, chunk |-> i]
                       ELSE IF j <= Len(content) THEN content[j] ELSE Hole) \in Part \union {Hole}
  BY <1>1, <1>2
<1>4. Written(content, u, i) = [j \in 1..n |-> IF j = i THEN [by |-> u, chunk |-> i]
                                               ELSE IF j <= Len(content) THEN content[j] ELSE Hole]
  BY DEF Written
<1> HIDE DEF n
<1>5. QED
  BY <1>1, <1>3, <1>4 DEF Content

LEMMA PutTyped ==
  ASSUME file \in Files, NEW s \in Stores, NEW content \in Content, Put(s, content) PROVE file' \in Files
BY DEF Files, Put

LEMMA FilesStep ==
  ASSUME UploadsInv, file \in Files, [UploadsNext]_uploadVars PROVE file' \in Files
<1>0. /\ "memory" \in Stores /\ "volume" \in Stores /\ "home" \in Stores /\ <<>> \in Content
      /\ file["home"].content \in Content
  BY DEF Stores, Content, Files
<1>1. CASE UNCHANGED file
  BY <1>1
<1>2. ASSUME NEW s \in Stores, DeleteFile(s) PROVE file' \in Files
  BY <1>0, <1>2 DEF DeleteFile, Files
<1>3. ASSUME NEW u \in Uploads, CreateFile(u) PROVE file' \in Files
  BY <1>0, <1>3, PutTyped DEF CreateFile
<1>4. ASSUME NEW u \in Uploads, InsertFile(u) \/ FinishParts(u) PROVE file' \in Files
  <2>1. Whole(u) \in Content
    BY WholeIsContent
  <2>2. Put("memory", Whole(u)) \/ Put("volume", Whole(u))
    BY <1>4 DEF InsertFile, FinishParts
  <2>3. QED
    BY <1>0, <2>1, <2>2, PutTyped
<1>5. ASSUME NEW u \in Uploads, Write(u), file' # file PROVE file' \in Files
  <2> DEFINE i == upload[u].got + 1
  <2>1. Put("home", Written(file["home"].content, u, [upload[u] EXCEPT !.got = @ + 1].got))
    BY <1>5 DEF Write
  <2>2. [upload[u] EXCEPT !.got = @ + 1].got = i /\ i \in 1..MaxChunks
    <3>1. upload[u] \in Upload /\ ~AllTaken(u) /\ upload[u].got <= upload[u].length
      BY <1>5, UploadTyped DEF Write, UploadsInv, UploadInv
    <3>2. QED
      BY <3>1, UploadsAssumption DEF Upload, AllTaken
  <2> HIDE DEF i
  <2>3. Put("home", Written(file["home"].content, u, i))
    BY <2>1, <2>2
  <2>4. Written(file["home"].content, u, i) \in Content
    BY <1>0, <2>2, WrittenIsContent
  <2>5. QED
    BY <1>0, <2>3, <2>4, PutTyped
<1>6. QED
  BY <1>1, <1>2, <1>3, <1>4, <1>5
     DEF UploadsNext, uploadVars, BeginUpload, Take, Break, StatFile, FlushFile

\* The uploads and the files of put_file_stream are always well typed.
THEOREM UploadsTypesHold == UploadsSpec => []UploadsTypeOK
<1>1. UploadsInit => file \in Files
  <2>1. <<>> \in Content
    BY DEF Content
  <2>2. QED
    BY <2>1 DEF UploadsInit, Files
<1>2. UploadsInv /\ file \in Files => UploadsTypeOK
  BY DEF UploadsInv, Files, UploadsTypeOK
<1>3. UploadsSpec => [](file \in Files)
  <2>1. UploadsInv /\ file \in Files /\ [UploadsNext]_uploadVars => (file \in Files)'
    BY FilesStep
  <2>2. QED
    BY <1>1, <2>1, UploadsInvariant, PTL DEF UploadsSpec
<1>4. QED
  BY <1>2, <1>3, UploadsInvariant, PTL

-----------------------------------------------------------------------------
(* The tree of files.                                                       *)

\* At home whatever is there is in directories that are there.
ClosedTree(F, D) == kind = "home" => \A p \in F \union D : Ancestors(p) \subseteq D

\* A file or a directory that the listing k is to look at.
IsOf(k, p) == \/ k.op = "list" /\ Child(k.path, p)
              \/ k.op = "walk" /\ Below(k.path, p)

\* A file that the listing k will still come to: it is to be looked at, or it is below a directory
\* that is to be read, or to be found to be one.
IsAhead(k, p) ==
  \/ p \in k.todo
  \/ \E i \in Len(k.path)..(Len(p) - 1) :
       SubSeq(p, 1, i) \in k.left \/ (k.op = "walk" /\ SubSeq(p, 1, i) \in k.todo)

CallOK(k) ==
  /\ k.op = "rmdir" => k.bare
  /\ k.op = "put" => k.path \in TreePaths
  /\ k.step = "read" =>
       /\ kind = "home" /\ k.op \in {"list", "walk"}
       /\ k.got \subseteq k.seen
       /\ \A p \in k.todo : IsOf(k, p)
       /\ \A d \in k.left : d = k.path \/ (k.op = "walk" /\ Below(k.path, d))
       /\ \A p \in k.stayed : IsOf(k, p) /\ (p \in k.got \/ IsAhead(k, p))

\* What a call has lived through is up to date.
UpToDate(k) == k.step = "read" => k.stayed \subseteq names /\ Concern(k, names) \subseteq k.seen

\* What is answered was sound.
AnswerOK(a) ==
  /\ a.op = "rmdir" => a.bare
  /\ a.op \in {"list", "walk"} => a.stayed \subseteq a.got /\ a.got \subseteq a.seen

TreeInv ==
  /\ TreeTypeOK
  /\ ClosedTree(names, folders)
  /\ \A c \in Callers : CallOK(calls[c]) /\ UpToDate(calls[c])
  /\ AnswerOK(answered)

-----------------------------------------------------------------------------
LEMMA PathTyped ==
  ASSUME NEW p \in AnyPath
  PROVE  p \in Seq(STRING) /\ Len(p) \in Nat /\ (p = Root <=> Len(p) = 0) /\ (p # Root => p \in TreePaths)
<1>1. p \in Seq(STRING)
  BY TreeAssumption, EmptySeq DEF AnyPath, Root
<1>2. QED
  BY <1>1, EmptySeq, LenProperties DEF AnyPath, Root

LEMMA PrefixOfPrefix ==
  ASSUME NEW p \in Seq(STRING), NEW i \in 0..Len(p), NEW j \in 0..i
  PROVE  /\ SubSeq(p, 1, i) \in Seq(STRING) /\ Len(SubSeq(p, 1, i)) = i
         /\ SubSeq(SubSeq(p, 1, i), 1, j) = SubSeq(p, 1, j)
<1>1. Len(p) \in Nat /\ \A n \in 1..Len(p) : p[n] \in STRING
  BY LenProperties, ElementOfSeq
<1>2. ASSUME NEW q \in Seq(STRING), NEW n \in 0..Len(q)
      PROVE  /\ SubSeq(q, 1, n) \in Seq(STRING) /\ Len(SubSeq(q, 1, n)) = n
             /\ \A m \in 1..n : SubSeq(q, 1, n)[m] = q[m]
  <2>1. Len(q) \in Nat /\ \A m \in 1..n : q[m] \in STRING
    BY LenProperties, ElementOfSeq
  <2>2. 1 \in Int /\ n \in Int
    BY <2>1
  <2>3. /\ SubSeq(q, 1, n) \in Seq(STRING)
        /\ Len(SubSeq(q, 1, n)) = IF 1 <= n THEN n - 1 + 1 ELSE 0
        /\ \A m \in 1..(n - 1 + 1) : SubSeq(q, 1, n)[m] = q[1 + m - 1]
    BY <2>1, <2>2, SubSeqProperties
  <2>4. QED
    BY <2>1, <2>3
<1> DEFINE a == SubSeq(p, 1, i)
<1>3. a \in Seq(STRING) /\ Len(a) = i /\ \A m \in 1..i : a[m] = p[m]
  BY <1>1, <1>2
<1>4. SubSeq(a, 1, j) \in Seq(STRING) /\ Len(SubSeq(a, 1, j)) = j /\ \A m \in 1..j : SubSeq(a, 1, j)[m] = a[m]
  <2>1. j \in 0..Len(a)
    BY <1>3
  <2> HIDE DEF a
  <2>2. QED
    BY <1>2, <1>3, <2>1
<1>5. SubSeq(p, 1, j) \in Seq(STRING) /\ Len(SubSeq(p, 1, j)) = j /\ \A m \in 1..j : SubSeq(p, 1, j)[m] = p[m]
  BY <1>1, <1>2
<1>6. \A m \in 1..j : SubSeq(a, 1, j)[m] = SubSeq(p, 1, j)[m]
  BY <1>1, <1>3, <1>4, <1>5
<1>7. SubSeq(a, 1, j) = SubSeq(p, 1, j)
  BY <1>4, <1>5, <1>6, SeqEqual
<1>8. QED
  BY <1>3, <1>7

\* A prefix of a path is a path, and its prefixes are the path's.
LEMMA PathPrefixes ==
  ASSUME NEW p \in AnyPath, NEW i \in 0..Len(p)
  PROVE  /\ SubSeq(p, 1, i) \in AnyPath /\ Len(SubSeq(p, 1, i)) = i
         /\ i > 0 => SubSeq(p, 1, i) \in TreePaths
         /\ i = Len(p) => SubSeq(p, 1, i) = p
         /\ \A j \in 0..i : SubSeq(SubSeq(p, 1, i), 1, j) = SubSeq(p, 1, j)
<1>1. p \in Seq(STRING) /\ Len(p) \in Nat
  BY PathTyped
<1>2. /\ Len(SubSeq(p, 1, i)) = i /\ SubSeq(p, 1, i) \in Seq(STRING)
      /\ \A j \in 0..i : SubSeq(SubSeq(p, 1, i), 1, j) = SubSeq(p, 1, j)
  BY <1>1, PrefixOfPrefix
<1>3. i > 0 => SubSeq(p, 1, i) \in TreePaths
  BY <1>1, PathTyped, TreeAssumption
<1>4. i = 0 => SubSeq(p, 1, i) = Root
  BY <1>2, EmptySeq DEF Root
<1>5. i = Len(p) => SubSeq(p, 1, i) = p
  BY <1>1, SubSeqFull
<1>6. QED
  BY <1>1, <1>2, <1>3, <1>4, <1>5 DEF AnyPath

\* The ancestors of a path are its proper prefixes, and the ancestors of an ancestor are among them.
LEMMA AncestorsArePrefixes ==
  ASSUME NEW p \in AnyPath
  PROVE  /\ Ancestors(p) = {SubSeq(p, 1, i) : i \in 0..(Len(p) - 1)}
         /\ \A a \in Ancestors(p) : a \in AnyPath /\ Len(a) < Len(p) /\ SubSeq(p, 1, Len(a)) = a
                                    /\ Ancestors(a) \subseteq Ancestors(p)
<1>1. Len(p) \in Nat /\ SubSeq(p, 1, Len(p)) = p
  BY PathTyped, PathPrefixes
<1>2. \A i \in 0..Len(p) : Len(SubSeq(p, 1, i)) = i /\ SubSeq(p, 1, i) \in AnyPath
  BY PathPrefixes
<1>3. Ancestors(p) = {SubSeq(p, 1, i) : i \in 0..(Len(p) - 1)}
  BY <1>1, <1>2 DEF Ancestors
<1>4. ASSUME NEW a \in Ancestors(p)
      PROVE  a \in AnyPath /\ Len(a) < Len(p) /\ SubSeq(p, 1, Len(a)) = a /\ Ancestors(a) \subseteq Ancestors(p)
  <2>1. PICK i \in 0..(Len(p) - 1) : a = SubSeq(p, 1, i)
    BY <1>3
  <2>2. i \in 0..Len(p) /\ i \in Nat /\ i < Len(p)
    BY <1>1
  <2>3. Len(a) = i /\ a \in AnyPath /\ \A j \in 0..i : SubSeq(a, 1, j) = SubSeq(p, 1, j)
    BY <2>1, <2>2, PathPrefixes
  <2>4. ASSUME NEW b \in Ancestors(a) PROVE b \in Ancestors(p)
    <3>1. PICK j \in 0..i : b = SubSeq(a, 1, j)
      BY <2>3 DEF Ancestors
    <3>2. j \in 0..(Len(p) - 1) /\ b = SubSeq(p, 1, j)
      BY <2>2, <2>3, <3>1
    <3>3. QED
      BY <1>3, <3>2
  <2>5. QED
    BY <2>1, <2>2, <2>3, <2>4
<1>5. QED
  BY <1>3, <1>4

\* Of what is below a directory d, one prefix is a child of d.
LEMMA ChildOnTheWay ==
  ASSUME NEW d \in AnyPath, NEW p \in AnyPath, Below(d, p)
  PROVE  /\ Len(d) + 1 \in 0..Len(p)
         /\ Child(d, SubSeq(p, 1, Len(d) + 1))
         /\ SubSeq(p, 1, Len(d)) = d
         /\ d \in Ancestors(p)
         /\ SubSeq(p, 1, Len(d) + 1) = p \/ SubSeq(p, 1, Len(d) + 1) \in Ancestors(p)
<1>1. Len(d) \in Nat /\ Len(p) \in Nat /\ Len(d) < Len(p) /\ SubSeq(p, 1, Len(d)) = d
  BY PathTyped DEF Below
<1> DEFINE n == Len(d) + 1
<1>2. n \in 0..Len(p) /\ n - 1 = Len(d) /\ Len(d) \in 0..n
  BY <1>1
<1>3. Len(SubSeq(p, 1, n)) = n /\ SubSeq(SubSeq(p, 1, n), 1, Len(d)) = d
  BY <1>1, <1>2, PathPrefixes
<1>4. Child(d, SubSeq(p, 1, n))
  BY <1>1, <1>2, <1>3 DEF Child, Below
<1>5. SubSeq(p, 1, n) = p \/ SubSeq(p, 1, n) \in Ancestors(p)
  BY <1>2 DEF Ancestors
<1>6. d \in Ancestors(p)
  BY <1>1, AncestorsArePrefixes
<1>7. QED
  BY <1>1, <1>2, <1>4, <1>5, <1>6

\* A closed tree has nothing below a directory that has nothing in it.
LEMMA EmptyIsBare ==
  ASSUME TreeInv, kind = "home", NEW d \in AnyPath, Inside(d) = {}
  PROVE  \A p \in names \union folders : ~Below(d, p)
<1> SUFFICES ASSUME NEW p \in names \union folders, Below(d, p) PROVE FALSE
  OBVIOUS
<1>1. p \in AnyPath
  BY DEF TreeInv, TreeTypeOK, AnyPath
<1>2. SubSeq(p, 1, Len(d) + 1) \in names \union folders
  BY <1>1, ChildOnTheWay DEF TreeInv, ClosedTree
<1>3. QED
  BY <1>1, <1>2, ChildOnTheWay DEF Inside

-----------------------------------------------------------------------------
\* A call that lives through an access stays sound, and is up to date with it.
LEMMA LivedOK ==
  ASSUME NEW k \in TreeCall, CallOK(k), NEW F \in SUBSET TreePaths
  PROVE  /\ Lived(k, F) \in TreeCall /\ CallOK(Lived(k, F))
         /\ Lived(k, F).stayed \subseteq F /\ Concern(Lived(k, F), F) \subseteq Lived(k, F).seen
<1> DEFINE l == Lived(k, F)
<1>1. Concern(k, F) \subseteq F
  BY DEF Concern
<1>2. /\ l \in TreeCall /\ l.op = k.op /\ l.path = k.path /\ l.step = k.step /\ l.left = k.left
      /\ l.todo = k.todo /\ l.got = k.got /\ l.stayed = k.stayed \intersect F
      /\ l.seen = k.seen \union Concern(k, F) /\ (k.bare => l.bare)
  BY <1>1 DEF Lived, TreeCall
<1>3. /\ Concern(l, F) = Concern(k, F)
      /\ \A p : (IsOf(l, p) <=> IsOf(k, p)) /\ (IsAhead(l, p) <=> IsAhead(k, p))
  BY <1>2 DEF Concern, IsOf, IsAhead
<1> HIDE DEF l
<1>4. CallOK(l)
  BY <1>2, <1>3 DEF CallOK, TreeCall
<1>5. QED
  BY <1>2, <1>3, <1>4 DEF l

\* An access keeps the invariant when what it makes of the tree is closed and its call and its answer
\* are sound.
LEMMA AccessInv ==
  ASSUME TreeInv, NEW c \in Callers, NEW F \in SUBSET TreePaths, NEW D \in SUBSET AnyPath,
         NEW k \in TreeCall, NEW a \in TreeCall, Access(c, F, D, k, a), CallOK(k), ClosedTree(F, D),
         AnswerOK(a)
  PROVE  TreeInv'
<1>1. kind' = kind /\ names' = F /\ folders' = D /\ answered' = a
  BY DEF Access
<1>2. ASSUME NEW d \in Callers PROVE calls'[d] \in TreeCall /\ CallOK(calls[d])' /\ UpToDate(calls[d])'
  <2> DEFINE o == IF d = c THEN k ELSE calls[d]
  <2>1. o \in TreeCall /\ CallOK(o)
    BY DEF TreeInv, TreeTypeOK
  <2>2. calls'[d] = Lived(o, F)
    BY DEF Access
  <2> HIDE DEF o
  <2>3. Lived(o, F) \in TreeCall /\ CallOK(Lived(o, F))
    BY <2>1, LivedOK
  <2>4. Lived(o, F).stayed \subseteq F /\ Concern(Lived(o, F), F) \subseteq Lived(o, F).seen
    BY <2>1, LivedOK
  <2>5. CallOK(calls[d])'
    BY <1>1, <2>2, <2>3 DEF CallOK, IsOf, IsAhead
  <2>6. UpToDate(calls[d])'
    BY <1>1, <2>2, <2>4 DEF UpToDate, Concern
  <2>7. QED
    BY <2>2, <2>3, <2>5, <2>6
<1>3. TreeTypeOK'
  <2>1. calls' \in [Callers -> TreeCall]
    BY <1>2 DEF Access
  <2>2. QED
    BY <1>1, <2>1 DEF TreeInv, TreeTypeOK
<1>4. ClosedTree(names, folders)'
  BY <1>1 DEF ClosedTree
<1>5. AnswerOK(answered)'
  BY <1>1 DEF AnswerOK
<1>6. QED
  BY <1>2, <1>3, <1>4, <1>5 DEF TreeInv

LEMMA NoCallOK == NoCall \in TreeCall /\ CallOK(NoCall) /\ AnswerOK(NoCall)
BY DEF NoCall, CallOK, AnswerOK, TreeCall, AnyPath

\* A call that begins has nothing to show yet.
LEMMA BegunOK ==
  ASSUME TreeInv, NEW op \in {"put", "delete", "rmdir", "list", "walk"}, NEW p \in AnyPath,
         NEW s \in {"idle", "create", "dirs", "remove", "read"}
  PROVE  /\ Begun(op, p, s) \in TreeCall
         /\ Begun(op, p, s).op = op /\ Begun(op, p, s).path = p /\ Begun(op, p, s).step = s
         /\ Begun(op, p, s).left = {} /\ Begun(op, p, s).todo = {} /\ Begun(op, p, s).got = {}
         /\ Begun(op, p, s).stayed = {q \in names : IsOf(Begun(op, p, s), q)}
         /\ Begun(op, p, s).seen = {q \in names : IsOf(Begun(op, p, s), q)}
         /\ op = "rmdir" /\ FilesBelow(p, names) = {} => Begun(op, p, s).bare
<1> DEFINE k == [NoCall EXCEPT !.op = op, !.path = p, !.step = s]
<1>1. /\ k.op = op /\ k.path = p /\ k.step = s /\ k.left = {} /\ k.todo = {} /\ k.got = {}
      /\ k \in TreeCall
  BY DEF NoCall, TreeCall
<1>2. Begun(op, p, s) = [k EXCEPT !.stayed = Concern(k, names), !.seen = Concern(k, names),
                                  !.bare = op = "rmdir" /\ FilesBelow(p, names) = {}]
  BY DEF Begun
<1>3. Concern(k, names) = {q \in names : IsOf(k, q)} /\ names \subseteq TreePaths
  BY DEF Concern, IsOf, TreeInv, TreeTypeOK
<1> DEFINE b == op = "rmdir" /\ FilesBelow(p, names) = {}
<1>b. b \in BOOLEAN
  OBVIOUS
<1>n. Begun(op, p, s) = [k EXCEPT !.stayed = Concern(k, names), !.seen = Concern(k, names), !.bare = b]
  BY <1>2
<1> HIDE DEF k, b
<1>4. /\ Begun(op, p, s) \in TreeCall
      /\ Begun(op, p, s).op = op /\ Begun(op, p, s).path = p /\ Begun(op, p, s).step = s
      /\ Begun(op, p, s).left = {} /\ Begun(op, p, s).todo = {} /\ Begun(op, p, s).got = {}
      /\ Begun(op, p, s).stayed = Concern(k, names) /\ Begun(op, p, s).seen = Concern(k, names)
      /\ Begun(op, p, s).bare = b
  <2> DEFINE n == Concern(k, names)
  <2>1. n \in SUBSET TreePaths
    BY <1>3
  <2>2. Begun(op, p, s) = [k EXCEPT !.stayed = n, !.seen = n, !.bare = b]
    BY <1>n
  <2> HIDE DEF n
  <2>3. [k EXCEPT !.stayed = n, !.seen = n, !.bare = b] \in TreeCall
    BY <1>1, <1>b, <2>1 DEF TreeCall
  <2>4. /\ Begun(op, p, s).op = k.op /\ Begun(op, p, s).path = k.path /\ Begun(op, p, s).step = k.step
        /\ Begun(op, p, s).left = k.left /\ Begun(op, p, s).todo = k.todo /\ Begun(op, p, s).got = k.got
        /\ Begun(op, p, s).stayed = n /\ Begun(op, p, s).seen = n /\ Begun(op, p, s).bare = b
    BY <1>1, <2>2 DEF TreeCall
  <2>5. QED
    BY <1>1, <2>2, <2>3, <2>4 DEF n
<1>5. \A q : IsOf(Begun(op, p, s), q) <=> IsOf(k, q)
  BY <1>1, <1>4 DEF IsOf
<1>6. QED
  BY <1>3, <1>4, <1>5 DEF b

\* What is in the tree is below its root, and in a closed tree a directory goes when nothing is in it.
LEMMA ClosedTreeKept ==
  ASSUME TreeInv, kind = "home", NEW p \in folders, Inside(p) = {}
  PROVE  ClosedTree(names, folders \ {p})
<1>1. p \in AnyPath /\ names \union folders \subseteq AnyPath
  BY DEF TreeInv, TreeTypeOK, AnyPath
<1>2. ASSUME NEW q \in names \union folders PROVE p \notin Ancestors(q)
  <2>1. ~Below(p, q)
    BY <1>1, EmptyIsBare
  <2>2. QED
    BY <1>1, <2>1, AncestorsArePrefixes DEF Below
<1>3. QED
  BY <1>2 DEF TreeInv, ClosedTree

LEMMA GrownTree ==
  ASSUME TreeInv, NEW p \in TreePaths, NEW G \in SUBSET (Ancestors(p) \union {p}),
         kind = "home" => Ancestors(p) \subseteq folders \union G
  PROVE  /\ G \subseteq AnyPath
         /\ ClosedTree(names, folders \union G) /\ ClosedTree(names \union {p}, folders \union G)
<1>1. p \in AnyPath
  BY DEF AnyPath
<1>2. G \subseteq AnyPath
  BY <1>1, AncestorsArePrefixes
<1>3. \A a \in Ancestors(p) : Ancestors(a) \subseteq Ancestors(p)
  BY <1>1, AncestorsArePrefixes
<1>4. QED
  BY <1>2, <1>3 DEF TreeInv, ClosedTree

-----------------------------------------------------------------------------
LEMMA CallTyped ==
  ASSUME TreeInv, NEW c \in Callers
  PROVE  /\ calls[c] \in TreeCall /\ CallOK(calls[c]) /\ UpToDate(calls[c])
         /\ names \in SUBSET TreePaths /\ folders \in SUBSET AnyPath
         /\ ClosedTree(names, folders) /\ Root \in AnyPath /\ TreePaths \subseteq AnyPath
         /\ \A d : Inside(d) \subseteq TreePaths
<1>1. calls[c] \in TreeCall /\ CallOK(calls[c]) /\ UpToDate(calls[c])
      /\ names \in SUBSET TreePaths /\ folders \in SUBSET AnyPath /\ ClosedTree(names, folders)
  BY DEF TreeInv, TreeTypeOK
<1>2. ASSUME NEW d, NEW p \in Inside(d) PROVE p \in TreePaths
  <2>1. p \in AnyPath /\ Below(d, p)
    BY <1>1 DEF Inside, Child, AnyPath
  <2>2. p # Root
    BY DEF Inside, Child, Below, Root
  <2>3. QED
    BY <2>1, <2>2 DEF AnyPath
<1>3. QED
  BY <1>1, <1>2 DEF AnyPath

\* An access that leaves the tree as it is.
LEMMA GoesInv ==
  ASSUME TreeInv, NEW c \in Callers, NEW k \in TreeCall, Goes(c, k), CallOK(k)
  PROVE  TreeInv'
BY CallTyped, AccessInv, NoCallOK DEF Goes

LEMMA FailCallInv == ASSUME TreeInv, NEW c \in Callers, FailCall(c) PROVE TreeInv'
BY GoesInv, NoCallOK DEF FailCall

LEMMA PutObjectInv == ASSUME TreeInv, NEW c \in Callers, PutObject(c) PROVE TreeInv'
<1>1. PICK p \in TreePaths : Access(c, names \union {p}, folders, NoCall, NoCall)
  BY DEF PutObject
<1>2. ClosedTree(names \union {p}, folders)
  BY DEF PutObject, ClosedTree
<1>3. names \union {p} \in SUBSET TreePaths /\ folders \in SUBSET AnyPath
  BY CallTyped
<1>4. QED
  BY <1>1, <1>2, <1>3, AccessInv, NoCallOK

LEMMA MakeParentsInv == ASSUME TreeInv, NEW c \in Callers, MakeParents(c) PROVE TreeInv'
<1>1. PICK p \in TreePaths :
        Access(c, names, folders \union Ancestors(p), Begun("put", p, "create"), NoCall)
  BY DEF MakeParents
<1>2. /\ Ancestors(p) \subseteq AnyPath /\ ClosedTree(names, folders \union Ancestors(p))
  BY GrownTree
<1>3. Begun("put", p, "create") \in TreeCall /\ CallOK(Begun("put", p, "create"))
  BY BegunOK, CallTyped DEF CallOK
<1>4. names \in SUBSET TreePaths /\ folders \union Ancestors(p) \in SUBSET AnyPath
  BY <1>2, CallTyped
<1>5. QED
  BY <1>1, <1>2, <1>3, <1>4, AccessInv, NoCallOK

LEMMA CreateInFolderInv == ASSUME TreeInv, NEW c \in Callers, CreateInFolder(c) PROVE TreeInv'
<1> DEFINE p == calls[c].path
<1>1. p \in TreePaths /\ SubSeq(p, 1, Len(p) - 1) \in folders
      /\ Access(c, names \union {p}, folders, NoCall, NoCall)
  BY CallTyped DEF CreateInFolder, AtStep, CallOK
<1>2. p \in AnyPath /\ Len(p) \in Nat /\ Len(p) > 0
  BY <1>1, PathTyped, CallTyped, TreeAssumption
<1>3. ASSUME kind = "home" PROVE Ancestors(p) \subseteq folders
  <2> DEFINE d == SubSeq(p, 1, Len(p) - 1)
  <2>1. Len(p) - 1 \in 0..Len(p)
    BY <1>2
  <2>2. d \in AnyPath /\ Len(d) = Len(p) - 1 /\ \A j \in 0..(Len(p) - 1) : SubSeq(d, 1, j) = SubSeq(p, 1, j)
    BY <1>2, <2>1, PathPrefixes
  <2>3. Ancestors(d) \subseteq folders /\ d \in folders
    BY <1>1, <1>3 DEF TreeInv, ClosedTree
  <2> HIDE DEF p
  <2>4. ASSUME NEW i \in 0..(Len(p) - 1) PROVE SubSeq(p, 1, i) \in folders
    <3>1. SubSeq(p, 1, i) = SubSeq(d, 1, i) /\ i \in 0..Len(d)
      BY <2>2
    <3>2. SubSeq(d, 1, i) = d \/ SubSeq(d, 1, i) \in Ancestors(d)
      BY <3>1 DEF Ancestors
    <3>3. QED
      BY <2>3, <3>1, <3>2
  <2>5. Ancestors(p) = {SubSeq(p, 1, i) : i \in 0..(Len(p) - 1)}
    BY <1>2, AncestorsArePrefixes
  <2>6. QED
    BY <2>4, <2>5
<1>4. ClosedTree(names \union {p}, folders)
  BY <1>3 DEF TreeInv, ClosedTree
<1>5. names \union {p} \in SUBSET TreePaths /\ folders \in SUBSET AnyPath
  BY <1>1, CallTyped
<1>6. QED
  BY <1>1, <1>4, <1>5, AccessInv, NoCallOK

LEMMA MakeDirectoryInv == ASSUME TreeInv, NEW c \in Callers, MakeDirectory(c) PROVE TreeInv'
<1>1. PICK p \in TreePaths :
        Access(c, names, folders \union {p} \union (IF kind = "home" THEN Ancestors(p) ELSE {}), NoCall, NoCall)
  BY DEF MakeDirectory
<1> DEFINE G == {p} \union (IF kind = "home" THEN Ancestors(p) ELSE {})
<1>2. folders \union {p} \union (IF kind = "home" THEN Ancestors(p) ELSE {}) = folders \union G
  OBVIOUS
<1>3. G \in SUBSET (Ancestors(p) \union {p}) /\ (kind = "home" => Ancestors(p) \subseteq folders \union G)
  OBVIOUS
<1> HIDE DEF G
<1>4. G \subseteq AnyPath /\ ClosedTree(names, folders \union G)
  BY <1>3, GrownTree
<1>5. names \in SUBSET TreePaths /\ folders \union G \in SUBSET AnyPath
  BY <1>4, CallTyped
<1>6. QED
  BY <1>1, <1>2, <1>4, <1>5, AccessInv, NoCallOK

LEMMA DeleteNamedInv == ASSUME TreeInv, NEW c \in Callers, DeleteNamed(c) PROVE TreeInv'
<1>1. PICK p \in names : Access(c, names \ {p}, folders, NoCall, Begun("delete", p, "idle"))
  BY DEF DeleteNamed
<1>2. /\ names \ {p} \in SUBSET TreePaths /\ folders \in SUBSET AnyPath
      /\ p \in AnyPath
  BY CallTyped
<1>3. ClosedTree(names \ {p}, folders)
  BY DEF TreeInv, ClosedTree
<1>4. Begun("delete", p, "idle") \in TreeCall /\ AnswerOK(Begun("delete", p, "idle"))
  BY <1>2, BegunOK DEF AnswerOK
<1>5. QED
  BY <1>1, <1>2, <1>3, <1>4, AccessInv, NoCallOK

LEMMA RemoveUnlessFilesInv == ASSUME TreeInv, NEW c \in Callers, RemoveUnlessFiles(c) PROVE TreeInv'
<1>1. PICK p \in AnyPath :
        /\ FilesBelow(p, names) = {}
        /\ \/ Access(c, names, folders, NoCall, Begun("rmdir", p, "dirs"))
           \/ Goes(c, Begun("rmdir", p, "dirs"))
  BY DEF RemoveUnlessFiles
<1> DEFINE k == Begun("rmdir", p, "dirs")
<1>2. k \in TreeCall /\ k.op = "rmdir" /\ k.step = "dirs" /\ k.bare
  BY <1>1, BegunOK
<1>3. CallOK(k) /\ AnswerOK(k)
  BY <1>2 DEF CallOK, AnswerOK
<1> HIDE DEF k
<1>4. CASE Access(c, names, folders, NoCall, k)
  BY <1>2, <1>3, <1>4, CallTyped, AccessInv, NoCallOK
<1>5. CASE Goes(c, k)
  BY <1>2, <1>3, <1>5, GoesInv
<1>6. QED
  BY <1>1, <1>4, <1>5 DEF k

LEMMA RemoveUnlessFoldersInv == ASSUME TreeInv, NEW c \in Callers, RemoveUnlessFolders(c) PROVE TreeInv'
<1> DEFINE k == [calls[c] EXCEPT !.step = "remove"]
<1>1. calls[c] \in TreeCall /\ CallOK(calls[c]) /\ calls[c].op = "rmdir" /\ Goes(c, k)
  BY CallTyped DEF RemoveUnlessFolders, AtStep
<1>2. k \in TreeCall /\ k.op = "rmdir" /\ k.step = "remove" /\ k.bare = calls[c].bare
  BY <1>1 DEF TreeCall
<1> HIDE DEF k
<1>3. CallOK(k)
  BY <1>1, <1>2 DEF CallOK
<1>4. QED
  BY <1>1, <1>2, <1>3, GoesInv

LEMMA RemoveMarkerInv == ASSUME TreeInv, NEW c \in Callers, RemoveMarker(c) PROVE TreeInv'
<1> DEFINE p == calls[c].path
<1>1. kind = "memory" /\ calls[c].op = "rmdir" /\ Access(c, names, folders \ {p}, NoCall, calls[c])
  BY DEF RemoveMarker, AtStep
<1>2. names \in SUBSET TreePaths /\ folders \ {p} \in SUBSET AnyPath /\ calls[c] \in TreeCall
      /\ AnswerOK(calls[c])
  BY <1>1, CallTyped DEF CallOK, AnswerOK
<1>3. ClosedTree(names, folders \ {p})
  BY <1>1 DEF ClosedTree
<1>4. QED
  BY <1>1, <1>2, <1>3, AccessInv, NoCallOK

LEMMA ReadBeforeRemoveInv == ASSUME TreeInv, NEW c \in Callers, ReadBeforeRemove(c) PROVE TreeInv'
<1>1. PICK p \in folders : Inside(p) = {} /\ Goes(c, Begun("rmdir", p, "remove"))
  BY DEF ReadBeforeRemove
<1>2. kind = "home" /\ p \in AnyPath /\ names \subseteq AnyPath
  BY CallTyped DEF ReadBeforeRemove
<1>3. FilesBelow(p, names) = {}
  BY <1>1, <1>2, EmptyIsBare DEF FilesBelow
<1> DEFINE k == Begun("rmdir", p, "remove")
<1>4. k \in TreeCall /\ k.op = "rmdir" /\ k.step = "remove" /\ k.bare
  BY <1>2, <1>3, BegunOK
<1> HIDE DEF k
<1>5. CallOK(k)
  BY <1>4 DEF CallOK
<1>6. QED
  BY <1>1, <1>4, <1>5, GoesInv DEF k

LEMMA RemoveFolderInv == ASSUME TreeInv, NEW c \in Callers, RemoveFolder(c) PROVE TreeInv'
<1> DEFINE p == calls[c].path
<1>1. kind = "home" /\ calls[c].op = "rmdir" /\ p \in folders /\ Inside(p) = {}
      /\ Access(c, names, folders \ {p}, NoCall, calls[c])
  BY DEF RemoveFolder, AtStep
<1>2. names \in SUBSET TreePaths /\ folders \ {p} \in SUBSET AnyPath /\ calls[c] \in TreeCall
      /\ AnswerOK(calls[c])
  BY <1>1, CallTyped DEF CallOK, AnswerOK
<1> HIDE DEF p
<1>3. ClosedTree(names, folders \ {p})
  BY <1>1, ClosedTreeKept
<1>4. QED
  BY <1>1, <1>2, <1>3, AccessInv, NoCallOK

\* What a listing of the store finds in one access is what it should.
LEMMA ListAtOnceInv == ASSUME TreeInv, NEW c \in Callers, ListAtOnce(c) PROVE TreeInv'
<1>1. PICK op \in {"list", "walk"}, d \in AnyPath :
        Access(c, names, folders, NoCall,
          [Begun(op, d, "idle") EXCEPT
             !.got = IF op = "walk" THEN FilesBelow(d, names)
                     ELSE {e.path : e \in {f \in Entries(d) : ~f.is_directory}}])
  BY DEF ListAtOnce
<1> DEFINE k == Begun(op, d, "idle")
           G == IF op = "walk" THEN FilesBelow(d, names)
                ELSE {e.path : e \in {f \in Entries(d) : ~f.is_directory}}
           a == [k EXCEPT !.got = G]
<1>2. k \in TreeCall /\ k.op = op /\ k.path = d
      /\ k.stayed = {q \in names : IsOf(k, q)} /\ k.seen = {q \in names : IsOf(k, q)}
  BY BegunOK
<1>3. ASSUME op = "list" PROVE {e.path : e \in {f \in Entries(d) : ~f.is_directory}} = {q \in names : Child(d, q)}
  <2>1. {f \in Entries(d) : ~f.is_directory} = {Entry(q, FALSE) : q \in {r \in names : Child(d, r)}}
    BY DEF Entries, FileEntries, Entry
  <2>2. \A q : Entry(q, FALSE).path = q
    BY DEF Entry
  <2>3. {e.path : e \in {Entry(q, FALSE) : q \in {r \in names : Child(d, r)}}} = {q \in names : Child(d, q)}
    BY <2>2
  <2>4. QED
    BY <2>1, <2>3
<1>4. G = {q \in names : IsOf(k, q)} /\ G \subseteq TreePaths
  BY <1>2, <1>3, CallTyped DEF IsOf, FilesBelow
<1> HIDE DEF k, G
<1>5. a \in TreeCall /\ a.op = k.op /\ a.stayed = k.stayed /\ a.seen = k.seen /\ a.got = G
  BY <1>2, <1>4 DEF TreeCall
<1>6. AnswerOK(a)
  BY <1>2, <1>4, <1>5 DEF AnswerOK
<1>7. Access(c, names, folders, NoCall, a)
  BY <1>1 DEF G, k
<1> HIDE DEF a
<1>8. QED
  BY <1>5, <1>6, <1>7, CallTyped, AccessInv, NoCallOK

\* A listing that begins has all that it should find below the directory it is to read.
LEMMA BeginListingInv == ASSUME TreeInv, NEW c \in Callers, BeginListing(c) PROVE TreeInv'
<1>1. PICK op \in {"list", "walk"}, d \in AnyPath : Goes(c, [Begun(op, d, "read") EXCEPT !.left = {d}])
  BY DEF BeginListing
<1> DEFINE b == Begun(op, d, "read")
           k == [b EXCEPT !.left = {d}]
<1>2. /\ b \in TreeCall /\ b.op = op /\ b.path = d /\ b.step = "read"
      /\ b.todo = {} /\ b.got = {}
      /\ b.stayed = {q \in names : IsOf(b, q)}
  BY BegunOK
<1>3. Goes(c, k)
  BY <1>1
<1> HIDE DEF b
<1>4. /\ k \in TreeCall /\ k.op = op /\ k.path = d /\ k.step = "read" /\ k.left = {d}
      /\ k.todo = {} /\ k.got = {} /\ k.stayed = b.stayed /\ k.seen = b.seen
  BY <1>2 DEF TreeCall
<1> HIDE DEF k
<1>5. ASSUME NEW p \in k.stayed PROVE IsOf(k, p) /\ IsAhead(k, p)
  <2>1. p \in AnyPath /\ IsOf(b, p)
    BY <1>2, <1>4, CallTyped
  <2>2. IsOf(k, p) /\ Below(d, p)
    BY <1>2, <1>4, <2>1 DEF IsOf, Child
  <2>3. Len(d) \in Nat /\ Len(p) \in Nat /\ Len(d) < Len(p) /\ SubSeq(p, 1, Len(d)) = d
    BY <2>1, <2>2, PathTyped DEF Below
  <2>4. Len(d) \in Len(k.path)..(Len(p) - 1) /\ SubSeq(p, 1, Len(d)) \in k.left
    BY <1>4, <2>3
  <2>5. QED
    BY <2>2, <2>4 DEF IsAhead
<1>6. CallOK(k)
  BY <1>4, <1>5, CallTyped DEF CallOK, BeginListing
<1>7. QED
  BY <1>3, <1>4, <1>6, GoesInv

LEMMA BelowBelow ==
  ASSUME NEW d \in AnyPath, NEW e \in AnyPath, NEW p \in AnyPath, Below(d, e), Below(e, p)
  PROVE  Below(d, p)
<1>1. /\ Len(d) \in Nat /\ Len(e) \in Nat /\ Len(p) \in Nat /\ Len(d) < Len(e) /\ Len(e) < Len(p)
      /\ SubSeq(p, 1, Len(e)) = e /\ SubSeq(e, 1, Len(d)) = d
  BY PathTyped DEF Below
<1>2. Len(e) \in 0..Len(p) /\ Len(d) \in 0..Len(e)
  BY <1>1
<1>3. SubSeq(SubSeq(p, 1, Len(e)), 1, Len(d)) = SubSeq(p, 1, Len(d))
  BY <1>2, PathPrefixes
<1>4. QED
  BY <1>1, <1>3 DEF Below

\* A directory is there as long as a file is that is below it, so that reading it shows what leads to
\* the file.
LEMMA ReadFolderInv == ASSUME TreeInv, NEW c \in Callers, ReadFolder(c) PROVE TreeInv'
<1> DEFINE o == calls[c]
<1>1. o.step = "read" /\ o.todo = {} /\ o \in TreeCall /\ CallOK(o) /\ UpToDate(o)
  BY CallTyped DEF ReadFolder
<1>2. PICK d \in o.left \ names :
        Goes(c, [o EXCEPT !.left = @ \ {d}, !.todo = IF d \in folders THEN Inside(d) ELSE {}])
  BY DEF ReadFolder
<1> DEFINE T == IF d \in folders THEN Inside(d) ELSE {}
           k == [o EXCEPT !.left = o.left \ {d}, !.todo = T]
<1>3. Goes(c, k)
  BY <1>2
<1>4. T \subseteq TreePaths
  BY CallTyped
<1> HIDE DEF o, T
<1>5. /\ k \in TreeCall /\ k.op = o.op /\ k.path = o.path /\ k.step = "read" /\ k.left = o.left \ {d}
      /\ k.todo = T /\ k.got = o.got /\ k.stayed = o.stayed /\ k.seen = o.seen
  BY <1>1, <1>4 DEF TreeCall
<1> HIDE DEF k
<1>6. /\ o.path \in AnyPath /\ d \in AnyPath /\ o.left \subseteq AnyPath /\ kind = "home"
      /\ o.stayed \subseteq names /\ names \subseteq AnyPath
      /\ d = o.path \/ (o.op = "walk" /\ Below(o.path, d))
      /\ o.op \in {"list", "walk"}
  BY <1>1, CallTyped DEF CallOK, UpToDate, TreeCall
<1>7. \A p : IsOf(k, p) <=> IsOf(o, p)
  BY <1>5 DEF IsOf
<1>8. ASSUME NEW p \in T PROVE IsOf(k, p)
  <2>1. p \in AnyPath /\ Child(d, p)
    BY <1>4 DEF T, Inside, AnyPath
  <2>2. CASE o.op = "list"
    BY <1>6, <1>7, <2>1, <2>2 DEF IsOf
  <2>3. CASE o.op = "walk"
    BY <1>6, <1>7, <2>1, <2>3, BelowBelow DEF IsOf, Child
  <2>4. QED
    BY <1>6, <2>2, <2>3
<1>9. ASSUME NEW p \in k.stayed, p \notin k.got PROVE IsAhead(k, p)
  <2>1. p \in names /\ p \in AnyPath /\ IsAhead(o, p) /\ IsOf(o, p)
    BY <1>1, <1>5, <1>6, <1>9 DEF CallOK
  <2>2. PICK i \in Len(o.path)..(Len(p) - 1) : SubSeq(p, 1, i) \in o.left
    BY <1>1, <2>1 DEF IsAhead
  <2>3. CASE SubSeq(p, 1, i) # d
    BY <1>5, <2>2, <2>3 DEF IsAhead
  <2>4. CASE SubSeq(p, 1, i) = d
    <3>1. Len(o.path) \in Nat /\ Len(p) \in Nat
      BY <1>6, <2>1, PathTyped
    <3>2. i \in 0..Len(p) /\ i < Len(p)
      BY <2>2, <3>1
    <3>3. Len(d) = i
      BY <2>1, <2>4, <3>2, PathPrefixes
    <3>4. Below(d, p)
      BY <2>4, <3>2, <3>3 DEF Below
    <3> DEFINE q == SubSeq(p, 1, i + 1)
    <3>5. Child(d, q) /\ d \in Ancestors(p) /\ (q = p \/ q \in Ancestors(p))
      BY <1>6, <2>1, <3>3, <3>4, ChildOnTheWay
    <3>6. Ancestors(p) \subseteq folders
      BY <1>6, <2>1, CallTyped DEF ClosedTree
    <3>7. q \in T
      BY <2>1, <3>5, <3>6 DEF T, Inside
    <3>8. CASE q = p
      BY <1>5, <3>7, <3>8 DEF IsAhead
    <3>9. CASE q # p
      <4>1. i + 1 # Len(p)
        BY <2>1, <3>9, PathTyped, PathPrefixes
      <4>2. i + 1 \in Len(o.path)..(Len(p) - 1)
        BY <2>2, <3>1, <3>2, <4>1
      <4>3. o.op = "walk"
        <5>1. SUFFICES ASSUME o.op = "list" PROVE FALSE
          BY <1>6
        <5>2. Len(p) = Len(o.path) + 1
          BY <2>1, <5>1 DEF IsOf, Child
        <5>3. QED
          BY <3>1, <4>2, <5>2
      <4>4. QED
        BY <1>5, <3>7, <4>2, <4>3 DEF IsAhead
    <3>10. QED
      BY <3>8, <3>9
  <2>5. QED
    BY <2>3, <2>4
<1>10. CallOK(k)
  <2>1. \A p \in k.stayed : IsOf(k, p)
    BY <1>1, <1>5, <1>7 DEF CallOK
  <2>2. k.got \subseteq k.seen /\ \A e \in k.left : e = k.path \/ (k.op = "walk" /\ Below(k.path, e))
    BY <1>1, <1>5 DEF CallOK
  <2>3. QED
    BY <1>5, <1>6, <1>8, <1>9, <2>1, <2>2 DEF CallOK
<1>11. QED
  BY <1>3, <1>5, <1>10, GoesInv

\* An entry that is there still is a file the listing should have, or a directory it is to read.
LEMMA StatEntryInv == ASSUME TreeInv, NEW c \in Callers, StatEntry(c) PROVE TreeInv'
<1> DEFINE o == calls[c]
<1>1. o.step = "read" /\ o \in TreeCall /\ CallOK(o) /\ UpToDate(o)
  BY CallTyped DEF StatEntry
<1>2. PICK e \in o.todo \intersect (names \union folders) :
        Goes(c, [o EXCEPT !.todo = @ \ {e}, !.got = @ \union ({e} \intersect names),
                          !.left = @ \union (IF o.op = "walk" THEN {e} \intersect folders ELSE {})])
  BY DEF StatEntry
<1> DEFINE L == IF o.op = "walk" THEN {e} \intersect folders ELSE {}
           k == [o EXCEPT !.todo = o.todo \ {e}, !.got = o.got \union ({e} \intersect names),
                          !.left = o.left \union L]
<1>3. Goes(c, k)
  BY <1>2
<1>4. L \subseteq AnyPath /\ {e} \intersect names \subseteq TreePaths
  BY CallTyped
<1> HIDE DEF o, L
<1>5. /\ k \in TreeCall /\ k.op = o.op /\ k.path = o.path /\ k.step = "read" /\ k.left = o.left \union L
      /\ k.todo = o.todo \ {e} /\ k.got = o.got \union ({e} \intersect names)
      /\ k.stayed = o.stayed /\ k.seen = o.seen
  BY <1>1, <1>4 DEF TreeCall
<1> HIDE DEF k
<1>6. /\ o.path \in AnyPath /\ e \in AnyPath /\ kind = "home" /\ o.op \in {"list", "walk"}
      /\ o.stayed \subseteq names /\ Concern(o, names) \subseteq o.seen /\ names \subseteq AnyPath
      /\ IsOf(o, e) /\ e \in o.todo
  BY <1>1, <1>2, CallTyped DEF CallOK, UpToDate, TreeCall
<1>7. \A p : IsOf(k, p) <=> IsOf(o, p)
  BY <1>5 DEF IsOf
<1>8. k.got \subseteq k.seen
  <2>1. e \in names => e \in Concern(o, names)
    BY <1>6 DEF IsOf, Concern
  <2>2. QED
    BY <1>1, <1>5, <1>6, <2>1 DEF CallOK
<1>9. \A d \in k.left : d = k.path \/ (k.op = "walk" /\ Below(k.path, d))
  BY <1>1, <1>5, <1>6 DEF CallOK, L, IsOf
<1>10. ASSUME NEW p \in k.stayed, p \notin k.got PROVE IsAhead(k, p)
  <2>1. p \in names /\ p \in AnyPath /\ p \notin o.got /\ p # e /\ IsAhead(o, p)
    BY <1>1, <1>5, <1>6, <1>10 DEF CallOK
  <2>2. CASE p \in o.todo
    BY <1>5, <2>1, <2>2 DEF IsAhead
  <2>3. ASSUME NEW i \in Len(o.path)..(Len(p) - 1),
               SubSeq(p, 1, i) \in o.left \/ (o.op = "walk" /\ SubSeq(p, 1, i) \in o.todo)
        PROVE  IsAhead(k, p)
    <3>1. CASE SubSeq(p, 1, i) \in o.left
      BY <1>5, <3>1 DEF IsAhead
    <3>2. CASE o.op = "walk" /\ SubSeq(p, 1, i) \in o.todo /\ SubSeq(p, 1, i) # e
      BY <1>5, <3>2 DEF IsAhead
    <3>3. CASE o.op = "walk" /\ SubSeq(p, 1, i) = e
      <4>1. Len(o.path) \in Nat /\ Len(p) \in Nat
        BY <1>6, <2>1, PathTyped
      <4>2. i \in 0..(Len(p) - 1)
        BY <4>1
      <4>3. Ancestors(p) = {SubSeq(p, 1, j) : j \in 0..(Len(p) - 1)}
        BY <2>1, AncestorsArePrefixes
      <4>4. e \in folders
        BY <1>6, <2>1, <3>3, <4>2, <4>3, CallTyped DEF ClosedTree
      <4>5. SubSeq(p, 1, i) \in k.left
        BY <1>5, <3>3, <4>4 DEF L
      <4>6. QED
        BY <1>5, <4>5 DEF IsAhead
    <3>4. QED
      BY <2>3, <3>1, <3>2, <3>3
  <2>4. QED
    BY <2>1, <2>2, <2>3 DEF IsAhead
<1>11. CallOK(k)
  <2>1. /\ \A p \in k.todo : IsOf(k, p)
        /\ \A p \in k.stayed : IsOf(k, p)
    BY <1>1, <1>5, <1>7 DEF CallOK
  <2>2. QED
    BY <1>5, <1>6, <1>8, <1>9, <1>10, <2>1 DEF CallOK
<1>12. QED
  BY <1>3, <1>5, <1>11, GoesInv

LEMMA EndListingInv == ASSUME TreeInv, NEW c \in Callers, EndListing(c) PROVE TreeInv'
<1> DEFINE k == calls[c]
<1>1. /\ k.step = "read" /\ k.left = {} /\ k.todo = {} /\ k \in TreeCall /\ CallOK(k)
      /\ Access(c, names, folders, NoCall, k)
  BY CallTyped DEF EndListing
<1>2. AnswerOK(k)
  BY <1>1 DEF CallOK, AnswerOK, IsAhead
<1>3. QED
  BY <1>1, <1>2, CallTyped, AccessInv, NoCallOK

-----------------------------------------------------------------------------
LEMMA TreeInit_Inv == TreeInit => TreeInv
<1> SUFFICES ASSUME TreeInit PROVE TreeInv
  OBVIOUS
<1>1. \A c \in Callers : calls[c] = NoCall
  BY DEF TreeInit
<1>2. TreeTypeOK
  BY NoCallOK DEF TreeInit, TreeTypeOK, AnyPath
<1>3. ClosedTree(names, folders)
  <2>1. CASE kind = "home"
    <3>1. Root \in AnyPath /\ Len(Root) = 0
      BY PathTyped DEF AnyPath
    <3>2. Ancestors(Root) = {}
      BY <3>1, AncestorsArePrefixes
    <3>3. QED
      BY <2>1, <3>2 DEF TreeInit, ClosedTree
  <2>2. QED
    BY <2>1 DEF ClosedTree
<1>4. \A c \in Callers : CallOK(calls[c]) /\ UpToDate(calls[c])
  <2>1. UpToDate(NoCall)
    BY DEF UpToDate, NoCall
  <2>2. QED
    BY <1>1, <2>1, NoCallOK
<1>5. QED
  BY <1>2, <1>3, <1>4, NoCallOK DEF TreeInit, TreeInv

LEMMA TreeNext_Inv == TreeInv /\ [TreeNext]_treeVars => TreeInv'
<1> SUFFICES ASSUME TreeInv, [TreeNext]_treeVars PROVE TreeInv'
  OBVIOUS
<1>1. CASE UNCHANGED treeVars
  BY <1>1 DEF treeVars, TreeInv, TreeTypeOK, ClosedTree, CallOK, UpToDate, AnswerOK, IsOf, IsAhead, Concern
<1>2. ASSUME NEW c \in Callers, FailCall(c) PROVE TreeInv'
  BY <1>2, FailCallInv
<1>3. ASSUME NEW c \in Callers, PutObject(c) PROVE TreeInv'
  BY <1>3, PutObjectInv
<1>4. ASSUME NEW c \in Callers, MakeParents(c) PROVE TreeInv'
  BY <1>4, MakeParentsInv
<1>5. ASSUME NEW c \in Callers, CreateInFolder(c) PROVE TreeInv'
  BY <1>5, CreateInFolderInv
<1>6. ASSUME NEW c \in Callers, MakeDirectory(c) PROVE TreeInv'
  BY <1>6, MakeDirectoryInv
<1>7. ASSUME NEW c \in Callers, DeleteNamed(c) PROVE TreeInv'
  BY <1>7, DeleteNamedInv
<1>8. ASSUME NEW c \in Callers, RemoveUnlessFiles(c) PROVE TreeInv'
  BY <1>8, RemoveUnlessFilesInv
<1>9. ASSUME NEW c \in Callers, RemoveUnlessFolders(c) PROVE TreeInv'
  BY <1>9, RemoveUnlessFoldersInv
<1>10. ASSUME NEW c \in Callers, RemoveMarker(c) PROVE TreeInv'
  BY <1>10, RemoveMarkerInv
<1>11. ASSUME NEW c \in Callers, ReadBeforeRemove(c) PROVE TreeInv'
  BY <1>11, ReadBeforeRemoveInv
<1>12. ASSUME NEW c \in Callers, RemoveFolder(c) PROVE TreeInv'
  BY <1>12, RemoveFolderInv
<1>13. ASSUME NEW c \in Callers, ListAtOnce(c) PROVE TreeInv'
  BY <1>13, ListAtOnceInv
<1>14. ASSUME NEW c \in Callers, BeginListing(c) PROVE TreeInv'
  BY <1>14, BeginListingInv
<1>15. ASSUME NEW c \in Callers, ReadFolder(c) PROVE TreeInv'
  BY <1>15, ReadFolderInv
<1>16. ASSUME NEW c \in Callers, StatEntry(c) PROVE TreeInv'
  BY <1>16, StatEntryInv
<1>17. ASSUME NEW c \in Callers, EndListing(c) PROVE TreeInv'
  BY <1>17, EndListingInv
<1>18. QED
  BY <1>1, <1>2, <1>3, <1>4, <1>5, <1>6, <1>7, <1>8, <1>9, <1>10, <1>11, <1>12, <1>13, <1>14, <1>15,
     <1>16, <1>17 DEF TreeNext

\* In a closed tree, as in a volume, the directories above a file are shown.
LEMMA InvWalkFindsFiles == ASSUME TreeInv PROVE WalkFindsFiles
<1> SUFFICES ASSUME kind # "memory", NEW p \in names, NEW i \in 1..Len(p)
             PROVE  Entry(SubSeq(p, 1, i), i < Len(p)) \in Entries(SubSeq(p, 1, i - 1))
  BY DEF WalkFindsFiles
<1> DEFINE d == SubSeq(p, 1, i - 1)
           q == SubSeq(p, 1, i)
<1>1. p \in AnyPath /\ kind \in {"volume", "home"}
  BY DEF TreeInv, TreeTypeOK, AnyPath
<1>2. Len(p) \in Nat /\ i - 1 \in 0..Len(p) /\ i \in 0..Len(p) /\ i - 1 \in 0..i
  BY <1>1, PathTyped
<1>3. /\ Len(d) = i - 1 /\ Len(q) = i /\ SubSeq(q, 1, i - 1) = d
      /\ i = Len(p) => q = p
  BY <1>1, <1>2, PathPrefixes
<1>4. Child(d, q) /\ Below(d, p)
  BY <1>2, <1>3 DEF Child, Below
<1>5. CASE i = Len(p)
  <2>1. Entry(p, FALSE) \in FileEntries(d)
    BY <1>3, <1>4, <1>5 DEF FileEntries
  <2>2. (i < Len(p)) = FALSE
    BY <1>2, <1>5
  <2> HIDE DEF d
  <2>3. Entry(p, FALSE) \in Entries(d)
    BY <2>1 DEF Entries
  <2>4. QED
    BY <1>3, <1>5, <2>2, <2>3 DEF d
<1>6. CASE i < Len(p)
  <2>1. CASE kind = "home"
    <3>1. i \in 0..(Len(p) - 1) /\ Ancestors(p) = {SubSeq(p, 1, j) : j \in 0..(Len(p) - 1)}
      BY <1>1, <1>2, <1>6, AncestorsArePrefixes
    <3>2. q \in folders
      BY <2>1, <3>1 DEF TreeInv, ClosedTree
    <3> HIDE DEF d, q
    <3>3. Entry(q, TRUE) \in Entries(d)
      BY <1>4, <2>1, <3>2 DEF Entries
    <3>4. QED
      BY <1>6, <3>3 DEF d, q
  <2>2. CASE kind = "volume"
    <3>1. p \in FilesBelow(d, names) \ Inside(d)
      <4>1. p \in FilesBelow(d, names)
        BY <1>4 DEF FilesBelow
      <4>2. Len(d) = i - 1
        BY <1>3
      <4> HIDE DEF d
      <4>3. Len(p) # Len(d) + 1
        BY <1>2, <1>6, <4>2
      <4>4. QED
        BY <4>1, <4>3 DEF Inside, Child
    <3>2. q = SubSeq(p, 1, Len(d) + 1)
      BY <1>2, <1>3
    <3> HIDE DEF d, q
    <3>3. Entry(q, TRUE) \in Entries(d)
      BY <2>2, <3>1, <3>2 DEF Entries
    <3>4. QED
      BY <1>6, <3>3 DEF d, q
  <2>3. QED
    BY <1>1, <2>1, <2>2
<1>7. QED
  BY <1>2, <1>5, <1>6

\* A file goes by nothing but DeleteNamed.
LEMMA FilesGoByName ==
  ASSUME TreeInv, TreeNext
  PROVE  \A p \in names \ names' : answered'.op = "delete" /\ answered'.path = p
<1>1. ASSUME NEW c \in Callers, DeleteNamed(c)
      PROVE  \A p \in names \ names' : answered'.op = "delete" /\ answered'.path = p
  <2>1. PICK p \in names : Access(c, names \ {p}, folders, NoCall, Begun("delete", p, "idle"))
    BY <1>1 DEF DeleteNamed
  <2>2. p \in AnyPath
    BY CallTyped
  <2>3. Begun("delete", p, "idle").op = "delete" /\ Begun("delete", p, "idle").path = p
    BY <2>2, BegunOK
  <2>4. QED
    BY <2>1, <2>3 DEF Access
<1>2. ASSUME NEW c \in Callers, FailCall(c) \/ PutObject(c) \/ MakeParents(c) \/ CreateInFolder(c)
                                \/ MakeDirectory(c)
      PROVE  names \subseteq names'
  BY <1>2 DEF FailCall, PutObject, MakeParents, CreateInFolder, MakeDirectory, Access, Goes
<1>3. ASSUME NEW c \in Callers, RemoveUnlessFiles(c) \/ RemoveUnlessFolders(c) \/ RemoveMarker(c)
                                \/ ReadBeforeRemove(c) \/ RemoveFolder(c)
      PROVE  names \subseteq names'
  BY <1>3 DEF RemoveUnlessFiles, RemoveUnlessFolders, RemoveMarker, ReadBeforeRemove, RemoveFolder,
              Access, Goes
<1>4. ASSUME NEW c \in Callers, ListAtOnce(c) \/ BeginListing(c) \/ ReadFolder(c) \/ StatEntry(c)
                                \/ EndListing(c)
      PROVE  names \subseteq names'
  BY <1>4 DEF ListAtOnce, BeginListing, ReadFolder, StatEntry, EndListing, Access, Goes
<1>5. QED
  BY <1>1, <1>2, <1>3, <1>4 DEF TreeNext

LEMMA TreeInvHolds == TreeSpec => []TreeInv
BY TreeInit_Inv, TreeNext_Inv, PTL DEF TreeSpec

\* A listing that is answered has every file that was there while it was taken and none that never was
\* (list_directory and list_files_opts of the three stores), and the directories that are shown lead to
\* every file, for any number of calls and any set of paths.
THEOREM ListingsAreTrueHolds == TreeSpec => []ListingsAreTrue
<1>1. TreeInv => ListingsAreTrue
  BY InvWalkFindsFiles DEF ListingsAreTrue, AnsweredListing, TreeInv, AnswerOK
<1>2. QED
  BY <1>1, TreeInvHolds, PTL

\* A file goes only when delete_file names it, and delete_directory succeeds only on a directory that
\* had no file below it at some moment of the call.
THEOREM OnlyEmptyDirectoriesGoHolds == TreeSpec => OnlyEmptyDirectoriesGo
<1>1. TreeInv /\ TreeInv' /\ [TreeNext]_treeVars =>
        [/\ \A p \in names \ names' : answered'.op = "delete" /\ answered'.path = p
         /\ answered'.op = "rmdir" => answered'.bare]_treeVars
  BY FilesGoByName DEF TreeInv, AnswerOK
<1>2. QED
  BY <1>1, TreeInvHolds, PTL DEF TreeSpec, OnlyEmptyDirectoriesGo

-----------------------------------------------------------------------------
(* Walks in pages.                                                          *)

\* What a walk by token has passed over, and what it has been or will be given twice.
Behind == {e \in pages.stayed \ pages.got : Rank(entries, e) < pages.position}
GivenAgain == pages.twice \union {e \in pages.got \intersect entries : Rank(entries, e) >= pages.position}

\* A walk by token, under way.
TokenInv ==
  /\ pages.stayed \subseteq entries
  /\ Cardinality(Behind) <= pages.deleted
  /\ Cardinality(GivenAgain) <= pages.created

\* A walk by path, under way: it has been given nothing past its position, and over a store that
\* filters first all that is before it.
PathInv ==
  /\ pages.twice = {} /\ pages.stayed \subseteq entries
  /\ \A e \in pages.got : e <= pages.position
  /\ pages.mode = "resume" /\ pages.limit > 0 =>
       \A e \in pages.stayed : e <= pages.position => e \in pages.got

\* A walk by path of home, under way.
HomeInv ==
  /\ pages.stayed \subseteq entries
  /\ pages.position = 0 => pages.got = {}
  /\ \A e \in pages.twice : e > pages.border

ListingInv ==
  /\ ListingTypeOK
  /\ ~pages.done /\ pages.mode = "page" => TokenInv
  /\ ~pages.done /\ pages.mode \in {"resume", "volume"} => PathInv
  /\ ~pages.done /\ pages.mode = "home" => HomeInv
  /\ WalksAreWhole

-----------------------------------------------------------------------------
LEMMA SetOfPaths ==
  ASSUME NEW S \in SUBSET Paths
  PROVE  IsFiniteSet(S) /\ Cardinality(S) \in Nat /\ S \subseteq Nat
<1>1. 1 \in Int /\ MaxEntries \in Int /\ MaxEntries \in Nat
  BY ListingAssumption
<1>2. IsFiniteSet(1..MaxEntries)
  BY <1>1, FS_Interval
<1>3. IsFiniteSet(S)
  BY <1>2, FS_Subset DEF Paths
<1>4. QED
  BY <1>1, <1>3, FS_CardinalityType DEF Paths

LEMMA FewerPaths ==
  ASSUME NEW S \in SUBSET Paths, NEW T \in SUBSET S
  PROVE  Cardinality(T) <= Cardinality(S) /\ (Cardinality(S) = Cardinality(T) => S = T)
BY SetOfPaths, FS_Subset

LEMMA OneMorePath ==
  ASSUME NEW S \in SUBSET Paths, NEW T \in SUBSET Paths, \A a, b \in T \ S : a = b
  PROVE  Cardinality(T) <= Cardinality(S) + 1
<1>1. CASE T \subseteq S
  BY <1>1, SetOfPaths, FewerPaths
<1>2. CASE ~(T \subseteq S)
  <2>1. PICK a \in T \ S : TRUE
    BY <1>2
  <2>2. T \subseteq S \union {a} /\ S \union {a} \in SUBSET Paths
    BY <2>1
  <2>3. Cardinality(S \union {a}) = Cardinality(S) + 1
    BY <2>1, SetOfPaths, FS_AddElement
  <2>4. Cardinality(T) <= Cardinality(S \union {a})
    BY <2>2, FewerPaths
  <2>5. QED
    BY <2>3, <2>4
<1>3. QED
  BY <1>1, <1>2

\* Among the entries the rank grows with the path.
LEMMA RankGrows ==
  ASSUME NEW S \in SUBSET Paths, NEW a \in Paths, NEW b \in Paths
  PROVE  /\ Rank(S, a) \in Nat /\ Rank(S, b) \in Nat
         /\ a <= b => Rank(S, a) <= Rank(S, b)
         /\ a \in S /\ a < b => Rank(S, a) < Rank(S, b)
         /\ a \in S /\ b \in S /\ Rank(S, a) = Rank(S, b) => a = b
<1> DEFINE Before(e) == {x \in S : x < e}
<1>1. ASSUME NEW c \in Paths, NEW d \in Paths
      PROVE  /\ Cardinality(Before(c)) \in Nat
             /\ c <= d => Cardinality(Before(c)) <= Cardinality(Before(d))
             /\ c \in S /\ c < d => Cardinality(Before(c)) < Cardinality(Before(d))
  <2>0. c \in Int /\ d \in Int /\ S \subseteq Int
    BY ListingAssumption DEF Paths
  <2>1. Before(c) \in SUBSET Paths /\ Before(d) \in SUBSET Paths
    OBVIOUS
  <2>2. Cardinality(Before(c)) \in Nat /\ Cardinality(Before(d)) \in Nat
    BY <2>1, SetOfPaths
  <2>3. c <= d => Before(c) \in SUBSET Before(d)
    <3>1. SUFFICES ASSUME c <= d, NEW x \in S, x < c PROVE x < d
      OBVIOUS
    <3>2. QED
      BY <2>0, <3>1
  <2>4. c \in S /\ c < d => c \in Before(d) /\ c \notin Before(c)
    BY <2>0
  <2> HIDE DEF Before
  <2>5. c <= d => /\ Cardinality(Before(c)) <= Cardinality(Before(d))
                  /\ Cardinality(Before(d)) = Cardinality(Before(c)) => Before(d) = Before(c)
    BY <2>1, <2>3, FewerPaths
  <2>6. QED
    BY <2>0, <2>2, <2>4, <2>5
<1>2. a \in Int /\ b \in Int
  BY ListingAssumption DEF Paths
<1>3. Rank(S, a) = Cardinality(Before(a)) /\ Rank(S, b) = Cardinality(Before(b))
  BY DEF Rank
<1> HIDE DEF Before
<1>4. QED
  BY <1>1, <1>2, <1>3

\* One entry more moves those behind it by one.
LEMMA RankShifts ==
  ASSUME NEW S \in SUBSET Paths, NEW x \in Paths \ S, NEW e \in Paths
  PROVE  Rank(S \union {x}, e) = IF x < e THEN Rank(S, e) + 1 ELSE Rank(S, e)
<1> DEFINE B == {y \in S : y < e}
<1>1. B \in SUBSET Paths /\ x \notin B
  OBVIOUS
<1>2. {y \in S \union {x} : y < e} = IF x < e THEN B \union {x} ELSE B
  OBVIOUS
<1>3. Cardinality(B \union {x}) = Cardinality(B) + 1
  <2> HIDE DEF B
  <2>1. QED
    BY <1>1, SetOfPaths, FS_AddElement
<1>4. QED
  BY <1>2, <1>3 DEF Rank

LEMMA FirstOfFew ==
  ASSUME NEW S \in SUBSET Paths, NEW n \in Nat, ~(n < Cardinality(S))
  PROVE  First(S, n) = S
<1> SUFFICES ASSUME NEW e \in S PROVE Rank(S, e) < n
  BY DEF First
<1> DEFINE B == {x \in S : x < e}
<1>0. S \subseteq Int
  BY ListingAssumption DEF Paths
<1>1. e \notin B /\ B \in SUBSET S /\ B \in SUBSET Paths
  <2>1. ~(e < e)
    BY <1>0
  <2>2. QED
    BY <2>1
<1> HIDE DEF B
<1>2. /\ Cardinality(B) <= Cardinality(S) /\ Cardinality(B) # Cardinality(S)
      /\ Cardinality(B) \in Nat /\ Cardinality(S) \in Nat
  BY <1>1, FewerPaths, SetOfPaths
<1>3. QED
  BY <1>2 DEF Rank, B

LEMMA LeastPath ==
  ASSUME NEW S \in SUBSET Paths, S # {}
  PROVE  \E e \in S : Rank(S, e) = 0
<1>1. S \subseteq Nat
  BY SetOfPaths
<1>2. PICK n \in S : \A k \in S : ~(<<k, n>> \in OpToRel(<, Nat))
  BY <1>1, NatLessThanWellFounded, WFMin
<1>3. {x \in S : x < n} = {}
  BY <1>1, <1>2 DEF OpToRel
<1>4. QED
  BY <1>3, FS_EmptySet DEF Rank

LEMMA GreatestPath ==
  ASSUME NEW S \in SUBSET Paths, S # {}
  PROVE  Greatest(S) \in S /\ \A x \in S : x <= Greatest(S)
<1> DEFINE T == {n \in Nat : \A x \in S : x <= n}
<1>1. S \subseteq Nat /\ MaxEntries \in T
  BY SetOfPaths, ListingAssumption DEF Paths
<1>2. PICK n \in T : \A k \in T : ~(<<k, n>> \in OpToRel(<, Nat))
  BY <1>1, NatLessThanWellFounded, WFMin
<1>3. n \in S
  <2>1. SUFFICES ASSUME n \notin S PROVE FALSE
    OBVIOUS
  <2>2. PICK y \in S : TRUE
    OBVIOUS
  <2>3. n > 0 /\ \A x \in S : x <= n - 1
    BY <1>1, <2>1, <2>2
  <2>4. n - 1 \in T /\ n - 1 < n
    BY <2>3
  <2>5. QED
    BY <1>2, <2>4 DEF OpToRel
<1>4. QED
  BY <1>3 DEF Greatest

-----------------------------------------------------------------------------
LEMMA WalkTyped ==
  ASSUME ListingTypeOK
  PROVE  /\ entries \in SUBSET Paths /\ pages \in Walk
         /\ pages.got \in SUBSET Paths /\ pages.twice \in SUBSET Paths /\ pages.stayed \in SUBSET Paths
         /\ pages.created \in Nat /\ pages.deleted \in Nat /\ pages.position \in Nat /\ pages.limit \in Nat
         /\ pages.done \in BOOLEAN /\ pages.mode \in Modes /\ pages.border \in Nat
         /\ Behind \in SUBSET Paths /\ GivenAgain \in SUBSET Paths
BY ListingAssumption DEF ListingTypeOK, Walk, Behind, GivenAgain

LEMMA AsleepTyped == Asleep \in Walk /\ Asleep.done /\ Asleep.limit = 0 /\ Asleep.mode = "page"
BY ListingAssumption DEF Asleep, Walk, Modes

LEMMA CreateEntryInv == ASSUME ListingInv, CreateEntry PROVE ListingInv'
<1>1. PICK x \in Paths \ entries : entries' = entries \union {x}
  BY DEF CreateEntry
<1>2. entries \in SUBSET Paths /\ entries' \in SUBSET Paths
  BY <1>1, WalkTyped DEF ListingInv
<1>3. CASE pages.done
  <2>1. pages' = Asleep
    BY <1>3 DEF CreateEntry
  <2>2. WalksAreWhole'
    BY <2>1, AsleepTyped DEF WalksAreWhole, PagesShiftByChanges, ResumeIsExact, HomeStraysByName, Ended
  <2>3. QED
    BY <1>2, <2>1, <2>2, AsleepTyped DEF ListingInv, ListingTypeOK
<1>4. CASE ~pages.done
  <2>1. pages.created < MaxChanges /\ pages' = [pages EXCEPT !.created = @ + 1]
    BY <1>4 DEF CreateEntry
  <2>2. /\ pages'.got = pages.got /\ pages'.twice = pages.twice /\ pages'.stayed = pages.stayed
        /\ pages'.created = pages.created + 1 /\ pages'.deleted = pages.deleted
        /\ pages'.position = pages.position /\ pages'.limit = pages.limit
        /\ pages'.mode = pages.mode /\ pages'.done = pages.done /\ pages'.border = pages.border
    BY <2>1, WalkTyped DEF ListingInv, Walk
  <2>3. ListingTypeOK'
    BY <1>2, <2>1, ListingAssumption DEF ListingInv, ListingTypeOK, Walk
  <2>4. ASSUME pages.mode = "page" PROVE TokenInv'
    <3>1. TokenInv
      BY <1>4, <2>4 DEF ListingInv
    <3>2. \A e \in Paths : Rank(entries', e) = IF x < e THEN Rank(entries, e) + 1 ELSE Rank(entries, e)
      BY <1>1, <1>2, RankShifts
    <3>3. \A e \in Paths : Rank(entries, e) \in Nat /\ Rank(entries', e) >= Rank(entries, e)
      BY <1>2, <3>2, RankGrows
    <3>4. Behind' \subseteq Behind
      <4>1. ASSUME NEW e \in pages.stayed \ pages.got, Rank(entries', e) < pages.position
            PROVE  Rank(entries, e) < pages.position
        <5>1. e \in Paths /\ pages.position \in Nat
          BY WalkTyped DEF ListingInv
        <5>2. Rank(entries', e) \in Nat
          BY <1>2, <5>1, RankGrows
        <5>3. QED
          BY <3>3, <4>1, <5>1, <5>2
      <4>2. QED
        BY <2>2, <4>1 DEF Behind
    <3>5. ASSUME NEW a \in GivenAgain' \ GivenAgain, NEW b \in GivenAgain' \ GivenAgain, x < a PROVE a = b
      <4>0. pages.position \in Nat
        BY WalkTyped DEF ListingInv
      <4>1. ASSUME NEW e \in GivenAgain' \ GivenAgain
            PROVE  /\ e \in Paths /\ e \in entries'
                   /\ e \in entries => Rank(entries, e) + 1 = pages.position /\ x < e
                   /\ e \notin entries => e = x /\ Rank(entries, e) >= pages.position
        <5>1. e \in pages.got /\ e \in entries' /\ Rank(entries', e) >= pages.position
              /\ (e \in entries => ~(Rank(entries, e) >= pages.position))
          BY <2>2, <4>1 DEF GivenAgain
        <5>2. e \in Paths
          BY <1>2, <5>1
        <5>3. Rank(entries, e) \in Nat /\ (Rank(entries', e) = IF x < e THEN Rank(entries, e) + 1 ELSE Rank(entries, e))
          BY <3>2, <3>3, <5>2
        <5>4. e \in entries => Rank(entries, e) + 1 = pages.position /\ x < e
          BY <4>0, <5>1, <5>3
        <5>5. e \notin entries => e = x
          BY <1>1, <5>1
        <5>6. x \in Int
          BY ListingAssumption DEF Paths
        <5>7. e \notin entries => Rank(entries, e) >= pages.position
          BY <5>1, <5>3, <5>5, <5>6
        <5>8. QED
          BY <5>1, <5>2, <5>4, <5>5, <5>7
      <4>2. a # x
        BY <3>5, ListingAssumption DEF Paths
      <4>3. a \in Paths /\ a \in entries /\ Rank(entries, a) + 1 = pages.position
        BY <4>1, <4>2
      <4>4. CASE b \in entries
        <5>1. b \in Paths /\ Rank(entries, b) + 1 = pages.position
          BY <4>1, <4>4
        <5>2. Rank(entries, a) = Rank(entries, b)
          BY <3>3, <4>0, <4>3, <5>1
        <5>3. QED
          BY <1>2, <4>3, <4>4, <5>1, <5>2, RankGrows
      <4>5. CASE b \notin entries
        <5>1. b = x /\ b \in Paths /\ Rank(entries, b) >= pages.position
          BY <4>1, <4>5
        <5>2. b \in Int /\ a \in Int
          BY <4>3, <5>1, ListingAssumption DEF Paths
        <5>3. Rank(entries, b) <= Rank(entries, a)
          BY <1>2, <3>5, <4>3, <5>1, <5>2, RankGrows
        <5>4. QED
          BY <3>3, <4>0, <4>3, <5>1, <5>3
      <4>6. QED
        BY <4>4, <4>5
    <3>6. ASSUME NEW a \in GivenAgain' \ GivenAgain, NEW b \in GivenAgain' \ GivenAgain PROVE a = b
      <4>1. a \in entries' /\ b \in entries' /\ a \in Paths /\ b \in Paths
        BY <1>2, <2>2, <3>6 DEF GivenAgain
      <4>2. CASE x < a
        BY <3>5, <4>2
      <4>3. CASE x < b
        BY <3>5, <4>3
      <4>4. CASE ~(x < a) /\ ~(x < b)
        <5>1. ASSUME NEW e \in GivenAgain' \ GivenAgain, ~(x < e) PROVE e = x
          <6>1. e \in pages.got /\ e \in entries' /\ Rank(entries', e) >= pages.position
                /\ (e \in entries => ~(Rank(entries, e) >= pages.position))
            BY <2>2, <5>1 DEF GivenAgain
          <6>2. Rank(entries', e) = Rank(entries, e)
            BY <1>2, <3>2, <5>1, <6>1
          <6>3. QED
            BY <1>1, <6>1, <6>2
        <5>2. QED
          BY <4>4, <5>1
      <4>5. QED
        BY <4>2, <4>3, <4>4
    <3>7. /\ Cardinality(Behind') <= Cardinality(Behind)
          /\ Cardinality(GivenAgain') <= Cardinality(GivenAgain) + 1
          /\ Cardinality(Behind) \in Nat /\ Cardinality(GivenAgain) \in Nat
          /\ Cardinality(Behind') \in Nat /\ Cardinality(GivenAgain') \in Nat
      <4>1. Behind \in SUBSET Paths /\ GivenAgain \in SUBSET Paths
        BY WalkTyped DEF ListingInv
      <4>2. GivenAgain' \in SUBSET Paths /\ Behind' \in SUBSET Paths
        <5>1. GivenAgain' \subseteq pages.twice \union entries'
          BY <2>2 DEF GivenAgain
        <5>2. QED
          BY <1>2, <3>4, <4>1, <5>1, WalkTyped DEF ListingInv
      <4>3. QED
        BY <3>4, <3>6, <4>1, <4>2, FewerPaths, OneMorePath, SetOfPaths
    <3>8. pages'.stayed \subseteq entries'
      BY <1>1, <2>2, <3>1 DEF TokenInv
    <3>9. pages.created \in Nat /\ pages.deleted \in Nat
      BY WalkTyped DEF ListingInv
    <3>10. QED
      BY <2>2, <3>1, <3>7, <3>8, <3>9 DEF TokenInv
  <2>5. ASSUME pages.mode \in {"resume", "volume"} PROVE PathInv'
    BY <1>1, <1>4, <2>2, <2>5 DEF ListingInv, PathInv
  <2>6. ASSUME pages.mode = "home" PROVE HomeInv'
    BY <1>1, <1>4, <2>2, <2>6 DEF ListingInv, HomeInv
  <2>7. WalksAreWhole'
    BY <1>4, <2>2, <2>5, <2>6 DEF WalksAreWhole, PagesShiftByChanges, ResumeIsExact, HomeStraysByName,
                                  Ended, PathInv, HomeInv
  <2>8. QED
    BY <2>2, <2>3, <2>4, <2>5, <2>6, <2>7 DEF ListingInv
<1>5. QED
  BY <1>3, <1>4

LEMMA DeleteEntryInv == ASSUME ListingInv, DeleteEntry PROVE ListingInv'
<1>1. PICK x \in entries :
        /\ entries' = entries \ {x}
        /\ pages' = IF pages.done THEN Asleep
                    ELSE [pages EXCEPT !.deleted = @ + 1, !.stayed = @ \ {x}]
  BY DEF DeleteEntry
<1>2. entries \in SUBSET Paths /\ entries' \in SUBSET Paths /\ x \in Paths \ entries'
      /\ entries = entries' \union {x}
  BY <1>1, WalkTyped DEF ListingInv
<1>3. CASE pages.done
  <2>1. pages' = Asleep
    BY <1>1, <1>3
  <2>2. WalksAreWhole'
    BY <2>1, AsleepTyped DEF WalksAreWhole, PagesShiftByChanges, ResumeIsExact, HomeStraysByName, Ended
  <2>3. QED
    BY <1>2, <2>1, <2>2, AsleepTyped DEF ListingInv, ListingTypeOK
<1>4. CASE ~pages.done
  <2>1. pages.deleted < MaxChanges /\ pages' = [pages EXCEPT !.deleted = @ + 1, !.stayed = @ \ {x}]
    BY <1>1, <1>4 DEF DeleteEntry
  <2>2. /\ pages'.got = pages.got /\ pages'.twice = pages.twice /\ pages'.stayed = pages.stayed \ {x}
        /\ pages'.created = pages.created /\ pages'.deleted = pages.deleted + 1
        /\ pages'.position = pages.position /\ pages'.limit = pages.limit
        /\ pages'.mode = pages.mode /\ pages'.done = pages.done /\ pages'.border = pages.border
    BY <2>1, WalkTyped DEF ListingInv, Walk
  <2>3. ListingTypeOK'
    <3>1. pages.deleted + 1 \in 0..MaxChanges /\ pages.stayed \ {x} \in SUBSET Paths
      BY <2>1, WalkTyped, ListingAssumption DEF ListingInv
    <3>2. pages' \in Walk
      BY <2>1, <3>1, WalkTyped DEF ListingInv, Walk
    <3>3. QED
      BY <1>2, <3>2 DEF ListingTypeOK
  <2>4. ASSUME pages.mode = "page" PROVE TokenInv'
    <3>1. TokenInv
      BY <1>4, <2>4 DEF ListingInv
    <3>2. pages.position \in Nat /\ pages.created \in Nat /\ pages.deleted \in Nat
          /\ Behind \in SUBSET Paths /\ GivenAgain \in SUBSET Paths /\ pages.stayed \in SUBSET Paths
      BY WalkTyped DEF ListingInv
    <3>3. ASSUME NEW e \in Paths
          PROVE  /\ Rank(entries, e) \in Nat /\ Rank(entries', e) \in Nat
                 /\ Rank(entries, e) = IF x < e THEN Rank(entries', e) + 1 ELSE Rank(entries', e)
      <4>1. Rank(entries' \union {x}, e) = IF x < e THEN Rank(entries', e) + 1 ELSE Rank(entries', e)
        BY <1>2, RankShifts
      <4>2. Rank(entries, e) \in Nat /\ Rank(entries', e) \in Nat
        BY <1>2, RankGrows
      <4>3. QED
        BY <1>2, <4>1, <4>2
    <3>4. GivenAgain' \subseteq GivenAgain
      <4>1. ASSUME NEW e \in pages.got \intersect entries', Rank(entries', e) >= pages.position
            PROVE  e \in entries /\ Rank(entries, e) >= pages.position
        <5>1. e \in Paths /\ e \in entries
          BY <1>2, <4>1
        <5>2. Rank(entries, e) \in Nat /\ Rank(entries', e) \in Nat /\ Rank(entries, e) >= Rank(entries', e)
          BY <3>3, <5>1
        <5>3. QED
          BY <3>2, <4>1, <5>1, <5>2
      <4>2. QED
        BY <2>2, <4>1 DEF GivenAgain
    <3>5. ASSUME NEW e \in Behind' \ Behind PROVE e \in entries /\ Rank(entries, e) = pages.position
      <4>1. e \in pages.stayed \ pages.got /\ Rank(entries', e) < pages.position
            /\ ~(Rank(entries, e) < pages.position)
        BY <2>2, <3>5 DEF Behind
      <4>2. e \in entries /\ e \in Paths
        BY <3>1, <3>2, <4>1 DEF TokenInv
      <4>3. QED
        BY <3>2, <3>3, <4>1, <4>2
    <3>6. ASSUME NEW a \in Behind' \ Behind, NEW b \in Behind' \ Behind PROVE a = b
      <4>1. /\ a \in entries /\ b \in entries /\ a \in Paths /\ b \in Paths
            /\ Rank(entries, a) = Rank(entries, b)
        BY <1>2, <3>5
      <4>2. QED
        BY <1>2, <4>1, RankGrows
    <3>7. /\ Cardinality(Behind') <= Cardinality(Behind) + 1
          /\ Cardinality(GivenAgain') <= Cardinality(GivenAgain)
          /\ Cardinality(Behind) \in Nat /\ Cardinality(GivenAgain) \in Nat
          /\ Cardinality(Behind') \in Nat /\ Cardinality(GivenAgain') \in Nat
      <4>1. GivenAgain' \in SUBSET Paths /\ Behind' \in SUBSET Paths
        <5>1. Behind' \subseteq pages.stayed
          BY <2>2 DEF Behind
        <5>2. QED
          BY <3>2, <3>4, <5>1
      <4>2. QED
        BY <3>2, <3>4, <3>6, <4>1, FewerPaths, OneMorePath, SetOfPaths
    <3>8. pages'.stayed \subseteq entries'
      BY <1>1, <2>2, <3>1 DEF TokenInv
    <3>9. QED
      BY <2>2, <3>1, <3>2, <3>7, <3>8 DEF TokenInv
  <2>5. ASSUME pages.mode \in {"resume", "volume"} PROVE PathInv'
    BY <1>1, <1>4, <2>2, <2>5 DEF ListingInv, PathInv
  <2>6. ASSUME pages.mode = "home" PROVE HomeInv'
    BY <1>1, <1>4, <2>2, <2>6 DEF ListingInv, HomeInv
  <2>7. WalksAreWhole'
    BY <1>4, <2>2, <2>5, <2>6 DEF WalksAreWhole, PagesShiftByChanges, ResumeIsExact, HomeStraysByName,
                                  Ended, PathInv, HomeInv
  <2>8. QED
    BY <2>2, <2>3, <2>4, <2>5, <2>6, <2>7 DEF ListingInv
<1>5. QED
  BY <1>3, <1>4

LEMMA BeginWalkInv == ASSUME ListingInv, BeginWalk PROVE ListingInv'
<1>1. PICK mode \in Modes, limit \in 0..MaxEntries, border \in 0..MaxEntries :
        pages' = [Asleep EXCEPT !.mode = mode, !.limit = limit, !.border = border, !.done = FALSE,
                                !.stayed = entries]
  BY DEF BeginWalk
<1>2. entries' = entries /\ entries \in SUBSET Paths
  BY WalkTyped DEF ListingInv, BeginWalk
<1>3. /\ pages' \in Walk /\ pages'.mode = mode /\ pages'.limit = limit /\ pages'.done = FALSE
      /\ pages'.stayed = entries /\ pages'.got = {} /\ pages'.twice = {} /\ pages'.position = 0
      /\ pages'.created = 0 /\ pages'.deleted = 0
  BY <1>1, <1>2, AsleepTyped DEF Asleep, Walk
<1>4. ListingTypeOK'
  BY <1>2, <1>3 DEF ListingTypeOK
<1>5. \A e \in entries : Rank(entries, e) \in Nat /\ ~(e <= 0)
  BY <1>2, RankGrows, ListingAssumption DEF Paths
<1>6. Behind' = {} /\ GivenAgain' = {}
  BY <1>2, <1>3, <1>5 DEF Behind, GivenAgain
<1>7. TokenInv'
  BY <1>2, <1>3, <1>6, FS_EmptySet DEF TokenInv
<1>8. PathInv' /\ HomeInv'
  BY <1>2, <1>3, <1>5 DEF PathInv, HomeInv
<1>9. WalksAreWhole'
  BY <1>3 DEF WalksAreWhole, PagesShiftByChanges, ResumeIsExact, HomeStraysByName, Ended
<1>10. QED
  BY <1>4, <1>7, <1>8, <1>9 DEF ListingInv

LEMMA AbandonInv == ASSUME ListingInv, Abandon PROVE ListingInv'
<1>1. pages' = Asleep /\ entries' = entries
  BY DEF Abandon
<1>2. pages'.done /\ pages'.limit = 0 /\ pages'.mode = "page"
  BY <1>1 DEF Asleep
<1>3. WalksAreWhole'
  BY <1>2 DEF WalksAreWhole, PagesShiftByChanges, ResumeIsExact, HomeStraysByName, Ended
<1>4. QED
  BY <1>1, <1>2, <1>3, AsleepTyped DEF ListingInv, ListingTypeOK

\* There are no gaps in the ranks: what has a rank of n or more has n entries before the first such.
LEMMA RanksFollow ==
  ASSUME NEW S \in SUBSET Paths, NEW n \in Nat, NEW e \in S, Rank(S, e) >= n
  PROVE  Rank(S, e) = n + Rank({x \in S : Rank(S, x) >= n}, e)
<1> DEFINE R == {x \in S : Rank(S, x) >= n}
<1>1. R \in SUBSET Paths /\ R \subseteq S /\ e \in R /\ S \subseteq Nat
  BY SetOfPaths
<1>2. \A x \in S : x \in R <=> Rank(S, x) >= n
  OBVIOUS
<1>3. \A x, y \in S : /\ Rank(S, x) \in Nat
                      /\ x <= y => Rank(S, x) <= Rank(S, y)
                      /\ x < y => Rank(S, x) < Rank(S, y)
  BY RankGrows
<1> HIDE DEF R
<1>4. PICK m \in R : Rank(R, m) = 0
  BY <1>1, LeastPath
<1>5. \A x \in R : m <= x
  <2> DEFINE B == {x \in R : x < m}
  <2>1. B \in SUBSET Paths /\ Cardinality(B) = 0
    BY <1>1, <1>4 DEF Rank
  <2>2. B = {}
    <3> HIDE DEF B
    <3>1. QED
      BY <2>1, SetOfPaths, FS_EmptySet
  <2>3. QED
    BY <1>1, <2>2
<1>6. Rank(S, m) = n
  <2>1. Rank(S, m) >= n /\ Rank(S, m) \in Nat /\ m \in S /\ m \in Paths
    BY <1>1, <1>2, <1>3
  <2> DEFINE B == {x \in S : x < m}
  <2>2. B \in SUBSET Paths /\ Rank(S, m) = Cardinality(B) /\ \A x \in B : x \in S /\ x < m
    BY DEF Rank
  <2>3. \A x \in S : x < m => x \in B
    OBVIOUS
  <2> HIDE DEF B
  <2>4. CASE B = {}
    BY <2>1, <2>2, <2>4, FS_EmptySet
  <2>5. CASE B # {}
    <3>1. PICK g \in B : \A x \in B : x <= g
      BY <2>2, <2>5, GreatestPath
    <3> DEFINE C == {x \in S : x < g}
    <3>2. g \in S /\ g \in Nat /\ m \in Nat /\ g < m /\ C \in SUBSET Paths /\ g \notin C
      BY <1>1, <2>1, <2>2, <3>1
    <3>3. B \subseteq C \union {g} /\ C \union {g} \subseteq B
      <4>1. ASSUME NEW x \in B, x # g PROVE x \in C
        BY <1>1, <2>2, <3>1, <3>2, <4>1
      <4>2. ASSUME NEW x \in C PROVE x \in B
        BY <1>1, <2>3, <3>2
      <4>3. QED
        BY <4>1, <4>2
    <3>4. Rank(S, g) = Cardinality(C)
      BY DEF Rank
    <3> HIDE DEF C
    <3>5. B = C \union {g}
      BY <3>3
    <3>6. Cardinality(B) = Cardinality(C) + 1 /\ Cardinality(C) \in Nat
      BY <3>2, <3>5, SetOfPaths, FS_AddElement
    <3>7. g \notin R
      BY <1>1, <1>5, <2>1, <3>2
    <3>8. ~(Rank(S, g) >= n)
      BY <1>2, <3>2, <3>7
    <3>9. QED
      BY <2>1, <2>2, <3>4, <3>6, <3>8
  <2>6. QED
    BY <2>4, <2>5
<1>7. QED
  <2> DEFINE A == {x \in S : x < m}
             B == {x \in R : x < e}
             C == {x \in S : x < e}
  <2>1. Rank(S, m) = Cardinality(A) /\ Rank(R, e) = Cardinality(B) /\ Rank(S, e) = Cardinality(C)
    BY DEF Rank
  <2>2. A \in SUBSET Paths /\ B \in SUBSET Paths
    BY <1>1
  <2>3. m \in S /\ m \in Nat /\ e \in Nat /\ m <= e
    BY <1>1, <1>5
  <2>4. ASSUME NEW x \in C PROVE x \in A \union B
    <3>1. x \in S /\ x < e /\ x \in Nat
      BY <1>1
    <3>2. CASE x < m
      BY <3>1, <3>2
    <3>3. CASE m <= x
      <4>1. Rank(S, m) <= Rank(S, x)
        BY <1>3, <2>3, <3>1, <3>3
      <4>2. Rank(S, x) >= n
        BY <1>3, <1>6, <2>3, <3>1, <4>1
      <4>3. QED
        BY <1>2, <3>1, <4>2
    <3>4. QED
      BY <2>3, <3>1, <3>2, <3>3
  <2>5. ASSUME NEW x \in A \union B PROVE x \in C
    BY <1>1, <2>3
  <2>6. A \intersect B = {}
    <3>1. SUFFICES ASSUME NEW x \in A, x \in B PROVE FALSE
      OBVIOUS
    <3>2. x < m /\ m <= x /\ x \in Nat
      BY <1>1, <1>5, <3>1
    <3>3. QED
      BY <2>3, <3>2
  <2> HIDE DEF A, B, C
  <2>7. C = A \union B
    BY <2>4, <2>5
  <2>8. /\ IsFiniteSet(A) /\ IsFiniteSet(B) /\ Cardinality(A) \in Nat /\ Cardinality(B) \in Nat
    BY <2>2, SetOfPaths
  <2>9. Cardinality(A \union B) = Cardinality(A) + Cardinality(B) - Cardinality(A \intersect B)
    BY <2>8, FS_Union
  <2>10. Cardinality(C) = Cardinality(A) + Cardinality(B)
    BY <2>6, <2>7, <2>8, <2>9, FS_EmptySet
  <2>11. QED
    BY <1>6, <2>1, <2>10 DEF R

LEMMA TokenPageInv == ASSUME ListingInv, TokenPage PROVE ListingInv'
<1> DEFINE n == pages.position
           L == pages.limit
           R == {e \in entries : Rank(entries, e) >= n}
           page == First(R, L)
           next == IF L < Cardinality(R) THEN n + L ELSE 0
<1>1. /\ ~pages.done /\ pages.mode = "page" /\ L > 0 /\ entries' = entries
      /\ Receive(page, next, next = 0)
  BY DEF TokenPage, Paginate
<1>2. /\ TokenInv /\ n \in Nat /\ L \in Nat /\ entries \in SUBSET Paths /\ R \in SUBSET Paths
      /\ Cardinality(R) \in Nat /\ page \in SUBSET R
      /\ Behind \in SUBSET Paths /\ GivenAgain \in SUBSET Paths
  <2>1. R \in SUBSET Paths
    BY WalkTyped DEF ListingInv
  <2> HIDE DEF R
  <2>2. QED
    BY <1>1, <2>1, WalkTyped, SetOfPaths DEF ListingInv, First
<1>3. ASSUME NEW e \in R PROVE Rank(entries, e) = n + Rank(R, e) /\ Rank(R, e) \in Nat /\ (e \in page <=> Rank(R, e) < L)
  <2>1. e \in entries /\ Rank(entries, e) >= n
    OBVIOUS
  <2>2. Rank(entries, e) = n + Rank(R, e)
    BY <1>2, <2>1, RanksFollow
  <2>3. e \in Paths
    BY <1>2
  <2> HIDE DEF R
  <2>4. QED
    BY <1>2, <1>3, <2>2, <2>3, RankGrows DEF First
<1>4. \A e \in entries : e \in R <=> Rank(entries, e) >= n
  OBVIOUS
<1>n. next \in Nat /\ (next = 0 => ~(L < Cardinality(R))) /\ (next # 0 => next = n + L)
  BY <1>1, <1>2
<1> HIDE DEF R, page, next
<1>5. /\ pages'.got = pages.got \union page /\ pages'.twice = pages.twice \union (pages.got \intersect page)
      /\ pages'.stayed = pages.stayed /\ pages'.created = pages.created /\ pages'.deleted = pages.deleted
      /\ pages'.position = next /\ pages'.limit = pages.limit
      /\ pages'.mode = pages.mode /\ pages'.done = (next = 0)
      /\ pages' \in Walk
  <2>1. pages' = [pages EXCEPT !.got = @ \union page, !.twice = @ \union (pages.got \intersect page),
                               !.position = next, !.done = (next = 0)]
    BY <1>1 DEF Receive
  <2>2. page \in SUBSET Paths /\ (next = 0) \in BOOLEAN
    BY <1>2
  <2>3. QED
    BY <1>2, <1>n, <2>1, <2>2, WalkTyped DEF ListingInv, Walk
<1>6. ListingTypeOK'
  BY <1>1, <1>2, <1>5 DEF ListingTypeOK
<1>7. pages.stayed \subseteq entries
  BY <1>2 DEF TokenInv
<1>8. CASE next # 0
  <2>1. Behind' \subseteq Behind
    <3>1. ASSUME NEW e \in pages.stayed \ (pages.got \union page), Rank(entries, e) < n + L
          PROVE  Rank(entries, e) < n
      <4>1. e \in entries /\ e \in Paths /\ e \notin page /\ Rank(entries, e) \in Nat
        BY <1>2, <1>7, RankGrows
      <4>2. e \notin R
        BY <1>2, <1>3, <3>1, <4>1
      <4>3. QED
        BY <1>2, <1>4, <4>1, <4>2
    <3>2. QED
      BY <1>1, <1>5, <1>8, <1>n, <3>1 DEF Behind
  <2>2. GivenAgain' \subseteq GivenAgain
    <3>1. ASSUME NEW e \in (pages.got \union page) \intersect entries, Rank(entries, e) >= n + L
          PROVE  e \in pages.got /\ Rank(entries, e) >= n
      <4>1. e \in Paths /\ Rank(entries, e) \in Nat
        BY <1>2, RankGrows
      <4>2. Rank(entries, e) >= n
        BY <1>2, <3>1, <4>1
      <4>3. e \in R
        BY <1>4, <4>2
      <4>4. e \notin page
        BY <1>2, <1>3, <3>1, <4>3
      <4>5. QED
        BY <4>2, <4>4
    <3>2. pages.got \intersect page \subseteq GivenAgain
      BY <1>2, <1>4 DEF GivenAgain, R
    <3>3. QED
      BY <1>1, <1>5, <1>8, <1>n, <3>1, <3>2 DEF GivenAgain
  <2>3. /\ Cardinality(Behind') <= Cardinality(Behind) /\ Cardinality(GivenAgain') <= Cardinality(GivenAgain)
        /\ Cardinality(Behind') \in Nat /\ Cardinality(GivenAgain') \in Nat
        /\ Cardinality(Behind) \in Nat /\ Cardinality(GivenAgain) \in Nat
    <3>1. Behind' \in SUBSET Paths /\ GivenAgain' \in SUBSET Paths
      BY <1>2, <2>1, <2>2
    <3>2. QED
      BY <1>2, <2>1, <2>2, <3>1, FewerPaths, SetOfPaths
  <2>4. TokenInv'
    <3>1. pages.created \in Nat /\ pages.deleted \in Nat
      BY WalkTyped DEF ListingInv
    <3>2. QED
      BY <1>1, <1>2, <1>5, <2>3, <3>1 DEF TokenInv
  <2>5. WalksAreWhole'
    BY <1>1, <1>5, <1>8 DEF WalksAreWhole, PagesShiftByChanges, ResumeIsExact, HomeStraysByName, Ended
  <2>6. QED
    BY <1>1, <1>5, <1>6, <1>8, <2>4, <2>5 DEF ListingInv
<1>9. CASE next = 0
  <2>1. page = R
    BY <1>2, <1>9, <1>n, FirstOfFew DEF page
  <2>2. pages'.stayed \ pages'.got \subseteq Behind
    <3>1. ASSUME NEW e \in pages.stayed \ (pages.got \union R) PROVE Rank(entries, e) < n
      <4>1. e \in entries /\ e \in Paths /\ Rank(entries, e) \in Nat
        BY <1>2, <1>7, RankGrows
      <4>2. QED
        BY <1>2, <1>4, <4>1
    <3>2. QED
      BY <1>5, <2>1, <3>1 DEF Behind
  <2>3. pages'.twice \subseteq GivenAgain
    BY <1>4, <1>5, <2>1 DEF GivenAgain, R
  <2>4. /\ Cardinality(pages'.stayed \ pages'.got) <= Cardinality(Behind)
        /\ Cardinality(pages'.twice) <= Cardinality(GivenAgain)
    BY <1>2, <2>2, <2>3, FewerPaths
  <2>5. /\ Cardinality(pages'.stayed \ pages'.got) \in Nat /\ Cardinality(pages'.twice) \in Nat
        /\ Cardinality(Behind) \in Nat /\ Cardinality(GivenAgain) \in Nat
    <3>1. pages'.stayed \ pages'.got \in SUBSET Paths /\ pages'.twice \in SUBSET Paths
      BY <1>2, <2>2, <2>3
    <3>2. QED
      BY <1>2, <3>1, SetOfPaths
  <2>6. WalksAreWhole'
    <3>1. pages.created \in Nat /\ pages.deleted \in Nat
      BY WalkTyped DEF ListingInv
    <3>2. PagesShiftByChanges'
      BY <1>2, <1>5, <2>4, <2>5, <3>1 DEF PagesShiftByChanges, TokenInv
    <3>3. ResumeIsExact' /\ HomeStraysByName'
      BY <1>1, <1>5 DEF ResumeIsExact, HomeStraysByName
    <3>4. QED
      BY <3>2, <3>3 DEF WalksAreWhole
  <2>7. QED
    BY <1>5, <1>6, <1>9, <2>6 DEF ListingInv
<1>10. QED
  BY <1>8, <1>9

LEMMA ResumePathInv ==
  ASSUME ListingInv, ResumePage, pages.mode \in {"resume", "volume"}
  PROVE  ListingInv'
<1> DEFINE n == pages.position
           L == pages.limit
           page == ListFrom(entries, L, n)
<1>1. /\ ~pages.done /\ pages.mode \in {"resume", "volume"} /\ entries' = entries
      /\ IF page = {} THEN Receive({}, n, TRUE) ELSE Receive(page, Greatest(page), FALSE)
  BY DEF ResumePage
<1>2. /\ PathInv /\ n \in Nat /\ L \in Nat /\ entries \in SUBSET Paths
      /\ After(entries, n) \in SUBSET Paths
      /\ pages \in Walk /\ pages.stayed \in SUBSET Paths /\ pages.got \in SUBSET Paths
      /\ pages.mode \in Modes
  BY <1>1, WalkTyped DEF ListingInv, After
<1>3. page \in SUBSET entries /\ \A e \in page : e > n
  BY <1>1 DEF ListFrom, ListVolume, ListAfter, After, First, Paginate
<1>4. pages.mode = "resume" => page = First(After(entries, n), L)
  BY DEF ListFrom, ListAfter
<1> HIDE DEF page
<1>5. CASE page = {}
  <2>1. pages' = [pages EXCEPT !.got = @ \union {}, !.twice = @ \union (pages.got \intersect {}),
                               !.position = n, !.done = TRUE]
    BY <1>1, <1>5 DEF Receive
  <2>2. /\ pages' \in Walk /\ pages'.done /\ pages'.mode = pages.mode /\ pages'.limit = L
        /\ pages'.got = pages.got /\ pages'.twice = pages.twice /\ pages'.stayed = pages.stayed
    BY <1>2, <2>1 DEF Walk
  <2>3. ASSUME pages.mode = "resume", L > 0 PROVE pages.stayed \subseteq pages.got
    <3>1. After(entries, n) = {}
      <4>1. SUFFICES ASSUME After(entries, n) # {} PROVE FALSE
        OBVIOUS
      <4>2. PICK e \in After(entries, n) : Rank(After(entries, n), e) = 0
        BY <1>2, <4>1, LeastPath
      <4>3. QED
        BY <1>4, <1>5, <2>3, <4>2 DEF First
    <3>2. \A e \in pages.stayed : e <= n
      <4>1. SUFFICES ASSUME NEW e \in pages.stayed PROVE e <= n
        OBVIOUS
      <4>2. e \in Nat /\ e \in entries
        BY <1>2, SetOfPaths DEF PathInv
      <4>3. ~(e > n)
        BY <3>1, <4>2 DEF After
      <4>4. QED
        BY <1>2, <4>2, <4>3
    <3>3. QED
      BY <1>2, <2>3, <3>2 DEF PathInv
  <2>4. WalksAreWhole'
    BY <1>1, <1>2, <2>2, <2>3 DEF WalksAreWhole, PagesShiftByChanges, ResumeIsExact, HomeStraysByName,
                                       Ended, PathInv
  <2>5. QED
    BY <1>1, <1>2, <2>2, <2>4 DEF ListingInv, ListingTypeOK
<1>6. CASE page # {}
  <2> DEFINE g == Greatest(page)
  <2>1. page \in SUBSET Paths
    BY <1>2, <1>3
  <2>2. g \in page /\ \A x \in page : x <= g
    BY <1>6, <2>1, GreatestPath
  <2>3. g \in Nat /\ g > n /\ g \in Paths
    BY <1>3, <2>1, <2>2, SetOfPaths
  <2>4. Receive(page, g, FALSE)
    BY <1>1, <1>6
  <2> HIDE DEF g
  <2>5. pages' = [pages EXCEPT !.got = @ \union page, !.twice = @ \union (pages.got \intersect page),
                               !.position = g, !.done = FALSE]
    BY <2>4 DEF Receive
  <2>6. /\ pages' \in Walk /\ ~pages'.done /\ pages'.mode = pages.mode /\ pages'.limit = L
        /\ pages'.got = pages.got \union page /\ pages'.twice = pages.twice \union (pages.got \intersect page)
        /\ pages'.stayed = pages.stayed /\ pages'.position = g
    BY <1>2, <2>1, <2>3, <2>5 DEF Walk
  <2>7. pages.got \intersect page = {}
    <3>1. SUFFICES ASSUME NEW e \in page, e \in pages.got PROVE FALSE
      OBVIOUS
    <3>2. e \in Nat /\ e > n /\ e <= n
      BY <1>2, <1>3, <2>1, <3>1, SetOfPaths DEF PathInv
    <3>3. QED
      BY <1>2, <3>2
  <2>8. \A e \in pages'.got : e <= g
    <3>1. ASSUME NEW e \in pages.got PROVE e <= g
      <4>1. e \in Nat
        BY <1>2, SetOfPaths
      <4>2. e <= n
        BY <1>2 DEF PathInv
      <4>3. QED
        BY <1>2, <2>3, <4>1, <4>2
    <3>2. QED
      BY <2>2, <2>6, <3>1
  <2>9. ASSUME pages.mode = "resume", L > 0, NEW e \in pages.stayed, e <= g PROVE e \in pages.got \union page
    <3>1. e \in Nat /\ e \in entries /\ e \in Paths
      BY <1>2, SetOfPaths DEF PathInv
    <3>2. CASE e <= n
      BY <1>2, <2>9, <3>2 DEF PathInv
    <3>3. CASE ~(e <= n)
      <4> DEFINE S == After(entries, n)
      <4>1. e \in S
        BY <1>2, <3>1, <3>3 DEF After
      <4>2. S \in SUBSET Paths
        BY <1>2
      <4>3. g \in First(S, L)
        BY <1>4, <2>2, <2>9
      <4> HIDE DEF S
      <4>4. Rank(S, g) < L
        BY <4>3 DEF First
      <4>5. Rank(S, e) <= Rank(S, g) /\ Rank(S, e) \in Nat /\ Rank(S, g) \in Nat
        BY <2>3, <2>9, <3>1, <4>2, RankGrows
      <4>6. Rank(S, e) < L
        BY <1>2, <4>4, <4>5
      <4>7. e \in First(S, L)
        BY <4>1, <4>6 DEF First
      <4>8. QED
        BY <1>4, <2>9, <4>7 DEF S
    <3>4. QED
      BY <3>2, <3>3
  <2>10. PathInv'
    BY <1>1, <1>2, <2>6, <2>7, <2>8, <2>9 DEF PathInv
  <2>11. WalksAreWhole'
    BY <1>1, <1>2, <2>6, <2>7 DEF WalksAreWhole, PagesShiftByChanges, ResumeIsExact, HomeStraysByName,
                                       Ended, PathInv
  <2>12. QED
    BY <1>1, <1>2, <2>6, <2>10, <2>11 DEF ListingInv, ListingTypeOK
<1>7. QED
  BY <1>5, <1>6

\* Home: what comes after the first page sorts behind "/home/".
LEMMA ResumeHomeInv ==
  ASSUME ListingInv, ResumePage, pages.mode = "home"
  PROVE  ListingInv'
<1> DEFINE n == pages.position
           L == pages.limit
           page == ListHome(entries, L, n)
<1>1. /\ ~pages.done /\ pages.mode = "home" /\ entries' = entries
      /\ IF page = {} THEN Receive({}, n, TRUE) ELSE Receive(page, Greatest(page), FALSE)
  BY DEF ResumePage, ListFrom
<1>2. /\ HomeInv /\ n \in Nat /\ L \in Nat /\ entries \in SUBSET Paths
      /\ After(entries, pages.border) \in SUBSET Paths
      /\ pages \in Walk /\ pages.stayed \in SUBSET Paths /\ pages.got \in SUBSET Paths
  BY <1>1, WalkTyped DEF ListingInv, After
<1>3. page \in SUBSET Paths /\ (n # 0 => \A e \in page : e > pages.border)
  BY <1>2 DEF ListHome, After, First
<1>4. ASSUME page = {}, L > 0 PROVE \A e \in entries : n = 0 \/ ~(e > pages.border)
  <2> DEFINE S == IF n = 0 THEN entries ELSE After(entries, pages.border)
  <2>1. S \in SUBSET Paths /\ First(S, L) = {}
    BY <1>2, <1>4 DEF ListHome
  <2>2. S # {} => \E e \in S : Rank(S, e) = 0
    BY <2>1, LeastPath
  <2>3. S = {}
    BY <1>4, <2>1, <2>2 DEF First
  <2>4. QED
    BY <2>3 DEF After
<1>5. ASSUME page = {}, L > 0, n = 0 PROVE entries = {}
  <2>1. First(entries, L) = {}
    BY <1>5 DEF ListHome
  <2>2. entries # {} => \E e \in entries : Rank(entries, e) = 0
    BY <1>2, LeastPath
  <2>3. QED
    BY <1>5, <2>1, <2>2 DEF First
<1> HIDE DEF page
<1>6. CASE page = {}
  <2>1. pages' = [pages EXCEPT !.got = @ \union {}, !.twice = @ \union (pages.got \intersect {}),
                               !.position = n, !.done = TRUE]
    BY <1>1, <1>6 DEF Receive
  <2>2. /\ pages' \in Walk /\ pages'.done /\ pages'.mode = "home" /\ pages'.limit = L
        /\ pages'.got = pages.got /\ pages'.twice = pages.twice /\ pages'.stayed = pages.stayed
        /\ pages'.border = pages.border
    BY <1>1, <1>2, <2>1 DEF Walk
  <2>3. ASSUME L > 0, NEW e \in pages.stayed PROVE e <= pages.border
    <3>1. e \in entries /\ e \in Nat /\ pages.border \in Nat
      BY <1>2, SetOfPaths, WalkTyped DEF HomeInv, ListingInv
    <3>2. ~(e > pages.border)
      BY <1>4, <1>5, <1>6, <2>3, <3>1
    <3>3. QED
      BY <3>1, <3>2
  <2>4. WalksAreWhole'
    BY <1>2, <2>2, <2>3 DEF WalksAreWhole, PagesShiftByChanges, ResumeIsExact, HomeStraysByName, Ended,
                            HomeInv
  <2>5. QED
    BY <1>1, <1>2, <2>2, <2>4 DEF ListingInv, ListingTypeOK
<1>7. CASE page # {}
  <2> DEFINE g == Greatest(page)
  <2>1. g \in page
    BY <1>3, <1>7, GreatestPath
  <2>2. Receive(page, g, FALSE)
    BY <1>1, <1>7
  <2> HIDE DEF g
  <2>3. g \in Paths /\ g \in Nat /\ g # 0
    BY <1>3, <2>1, ListingAssumption DEF Paths
  <2>4. pages' = [pages EXCEPT !.got = @ \union page, !.twice = @ \union (pages.got \intersect page),
                               !.position = g, !.done = FALSE]
    BY <2>2 DEF Receive
  <2>5. /\ pages' \in Walk /\ ~pages'.done /\ pages'.mode = "home" /\ pages'.border = pages.border
        /\ pages'.twice = pages.twice \union (pages.got \intersect page)
        /\ pages'.stayed = pages.stayed /\ pages'.position = g
    BY <1>1, <1>2, <1>3, <2>3, <2>4 DEF Walk
  <2>6. HomeInv'
    BY <1>1, <1>2, <1>3, <2>3, <2>5 DEF HomeInv
  <2>7. WalksAreWhole'
    BY <2>5, <2>6 DEF WalksAreWhole, PagesShiftByChanges, ResumeIsExact, HomeStraysByName, Ended, HomeInv
  <2>8. QED
    BY <1>1, <1>2, <2>5, <2>6, <2>7 DEF ListingInv, ListingTypeOK
<1>8. QED
  BY <1>6, <1>7

LEMMA ResumePageInv == ASSUME ListingInv, ResumePage PROVE ListingInv'
BY ResumePathInv, ResumeHomeInv, WalkTyped DEF ResumePage, ListingInv, Modes

LEMMA ListingNext_Inv == ListingInv /\ [ListingNext]_listingVars => ListingInv'
<1> SUFFICES ASSUME ListingInv, [ListingNext]_listingVars PROVE ListingInv'
  OBVIOUS
<1>1. CASE UNCHANGED listingVars
  BY <1>1 DEF listingVars, ListingInv, ListingTypeOK, TokenInv, PathInv, HomeInv, Behind, GivenAgain,
              WalksAreWhole, PagesShiftByChanges, ResumeIsExact, HomeStraysByName, Ended
<1>2. QED
  BY <1>1, CreateEntryInv, DeleteEntryInv, BeginWalkInv, TokenPageInv, ResumePageInv, AbandonInv
     DEF ListingNext

LEMMA ListingInit_Inv == ListingInit => ListingInv
BY AsleepTyped DEF ListingInit, ListingInv, ListingTypeOK, Asleep, WalksAreWhole, PagesShiftByChanges,
                   ResumeIsExact, HomeStraysByName, Ended

\* Whatever is created and deleted between two pages, a walk by token (paginate) loses no more entries
\* that were there all along than were deleted, and is given no more twice than were created; a walk by
\* path of memory or of a volume (list_files_opts) is given none twice, and loses none unless the volume
\* truncated first; and one of home, whose position store/routing.rs does not translate, repeats nothing
\* that sorts before "/home/" and has lost nothing that sorts behind it.  For any number of paths, page
\* sizes and changes, and for any names of the paths.
THEOREM WalksAreWholeHolds == ListingSpec => []WalksAreWhole
<1>1. ListingInv => WalksAreWhole
  BY DEF ListingInv
<1>2. QED
  BY <1>1, ListingInit_Inv, ListingNext_Inv, PTL DEF ListingSpec

=============================================================================
