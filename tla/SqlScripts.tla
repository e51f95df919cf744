------------------------------ MODULE SqlScripts ------------------------------
(***************************************************************************)
(* HFParser reads a script token by token.  A token is its kind: a name by *)
(* its number of parts, the column definitions of a table and a statement  *)
(* of DataFusion's own parser ("SELECT") as one token each, IF NOT EXISTS  *)
(* and IF EXISTS as one.  The statement planner asks this parser first.    *)
(***************************************************************************)
EXTENDS Naturals, Sequences

CONSTANT MaxStatements \* statements begun in a script (bound)

ASSUME ScriptsAssumption == MaxStatements \in Nat \ {0}

VARIABLES parse,   \* the parser
          segments \* (history) the script as its delimiters divide it

scriptVars == <<parse, segments>>

ObjectNames == {"name1", "name2", "name3"}
Literals == {"url", "str", "num"}
Unwritten == {"CONNECTION", "FOREIGN CATALOG", "LOCATION", "SHARE"} \* todo!()
Words == ObjectNames \union Literals \union Unwritten \union
         {"CREATE", "DROP", "VACUUM", "SELECT", "CATALOG", "SCHEMA", "TABLE", "columns", "IF NOT EXISTS",
          "IF EXISTS", "CASCADE", "USING", "MANAGED", "DEFAULT", "COLLATION", "COMMENT", "OPTIONS", "WITH",
          "DBPROPERTIES", "DRY", "RUN", "FULL", "RETAIN", "HOURS", "(", ",", ")", ";", "EOF"}

StatementKinds == {"create catalog", "create schema", "create table", "vacuum", "drop catalog", "drop schema", "other"}
UnityKinds == StatementKinds \ {"vacuum", "other"}

\* What a head or a clause may ask for.
Asked == {"if not exists", "if exists", "name", "name12", "name1", "name2", "str", "options", "key", "value",
          "more", "key or end", "url", "num", "columns", "SHARE", "LOCATION", "COLLATION", "DBPROPERTIES",
          "RUN", "HOURS"}

\* want: what the clause or head under way still asks for; given: its clauses so far; delimiter:
\* expecting_statement_delimiter; cascade: CASCADE may follow.
Parser == [mode : {"start", "create", "drop", "clauses", "parsed", "rejected", "panicked"},
           kind : StatementKinds, want : Seq(Asked), given : SUBSET Words, statements : Seq(StatementKinds),
           delimiter : BOOLEAN, cascade : BOOLEAN]

ScriptsTypeOK ==
  /\ parse \in Parser
  /\ segments \in [read : Seq(StatementKinds), first : Seq(Words), given : SUBSET Words, doubled : BOOLEAN]

ScriptsInit ==
  /\ parse = [mode |-> "start", kind |-> "other", want |-> <<>>, given |-> {}, statements |-> <<>>,
              delimiter |-> FALSE, cascade |-> FALSE]
  /\ segments = [read |-> <<>>, first |-> <<>>, given |-> {}, doubled |-> FALSE]

-----------------------------------------------------------------------------
Once == {"USING", "MANAGED", "DEFAULT", "COMMENT", "OPTIONS", "WITH", "DRY"}

KindOf(first) ==
  CASE first = <<"CREATE", "CATALOG">> -> "create catalog"
    [] first = <<"CREATE", "SCHEMA">>  -> "create schema"
    [] first = <<"CREATE", "TABLE">>   -> "create table"
    [] first = <<"DROP", "CATALOG">>   -> "drop catalog"
    [] first = <<"DROP", "SCHEMA">>    -> "drop schema"
    [] first[1] = "VACUUM"             -> "vacuum"
    [] OTHER                           -> "other"

\* The script with the token t, read by its delimiters alone.
Divide(t) ==
  LET s == segments
      first == IF Len(s.first) < 2 THEN Append(s.first, t) ELSE s.first
      given == s.given \union ({t} \intersect Once) IN
  segments' =
    IF t \in {";", "EOF"}
    THEN [s EXCEPT !.read = IF s.first = <<>> THEN @ ELSE Append(@, KindOf(s.first)), !.first = <<>>, !.given = {}]
    ELSE [s EXCEPT !.first = first, !.given = given,
                   !.doubled = @ \/ (KindOf(first) # "create table" /\ (t \in s.given \/ {"USING", "MANAGED"} \subseteq given))]

Moves(t, p) == parse' = p /\ Divide(t)
\* A script that is rejected is forgotten.
Stops(m) ==
  /\ parse' = [parse EXCEPT !.mode = m, !.want = <<>>, !.given = {}, !.statements = <<>>]
  /\ segments' = [read |-> <<>>, first |-> <<>>, given |-> {}, doubled |-> FALSE]
Rejects == Stops("rejected")

\* A statement is pushed: parse_statements looks for the delimiter next.
Pushed(p, k) ==
  [p EXCEPT !.mode = "start", !.kind = "other", !.given = {}, !.want = <<>>,
            !.statements = Append(@, k), !.delimiter = TRUE, !.cascade = k \in {"drop catalog", "drop schema"}]

\* Mutant: another statement may follow without a delimiter.
BeginWithoutDelimiter(t) ==
  /\ parse.mode = "start" /\ t \notin {";", "EOF"} /\ ~(t = "CASCADE" /\ parse.cascade)
  /\ Len(parse.statements) < MaxStatements
  /\ LET p == [parse EXCEPT !.delimiter = FALSE, !.cascade = FALSE] IN
     IF t = "CREATE" THEN Moves(t, [p EXCEPT !.mode = "create"])
     ELSE IF t = "DROP" THEN Moves(t, [p EXCEPT !.mode = "drop"])
     ELSE IF t = "VACUUM" THEN Moves(t, [p EXCEPT !.mode = "clauses", !.kind = "vacuum", !.want = <<"name">>])
     ELSE IF t = "SELECT" THEN Moves(t, Pushed(p, "other"))
     ELSE Rejects

\* parse_statements and parse_statement on the first token of a statement.
BeginStatement(t) ==
  /\ parse.mode = "start" /\ t \notin {";", "EOF"} /\ ~(t = "CASCADE" /\ parse.cascade)
  /\ Len(parse.statements) < MaxStatements
  /\ LET p == [parse EXCEPT !.cascade = FALSE] IN
     IF parse.delimiter THEN Rejects
     ELSE IF t = "CREATE" THEN Moves(t, [p EXCEPT !.mode = "create"])
     ELSE IF t = "DROP" THEN Moves(t, [p EXCEPT !.mode = "drop"])
     ELSE IF t = "VACUUM" THEN Moves(t, [p EXCEPT !.mode = "clauses", !.kind = "vacuum", !.want = <<"name">>])
     ELSE IF t = "SELECT" THEN Moves(t, Pushed(p, "other"))
     ELSE Rejects

Delimit(t) ==
  /\ parse.mode = "start" /\ t = ";"
  /\ Moves(t, [parse EXCEPT !.delimiter = FALSE, !.cascade = FALSE])

EndScript(t) ==
  /\ parse.mode = "start" /\ t = "EOF"
  /\ Moves(t, [parse EXCEPT !.mode = "parsed", !.delimiter = FALSE, !.cascade = FALSE])

Cascade(t) ==
  /\ parse.mode = "start" /\ t = "CASCADE" /\ parse.cascade
  /\ Moves(t, [parse EXCEPT !.cascade = FALSE])

\* parse_create: what it does not know is DataFusion's to create; the names are no keywords (bound).
CreateHeads == [CATALOG |-> <<"if not exists", "name1">>, SCHEMA |-> <<"if not exists", "name12">>,
                TABLE |-> <<"if not exists", "name", "columns">>]

ReadCreate(t) ==
  /\ parse.mode = "create"
  /\ IF t \in DOMAIN CreateHeads
     THEN Moves(t, [parse EXCEPT !.mode = "clauses", !.kind = KindOf(<<"CREATE", t>>), !.want = CreateHeads[t]])
     ELSE IF t \in Unwritten THEN Stops("panicked")
     ELSE IF t \in {";", "EOF"} THEN Rejects
     ELSE Moves(t, Pushed(parse, "other")) \/ Rejects

\* parse_drop: all but catalogs and schemas is DataFusion's.
DropHeads == [CATALOG |-> <<"if exists", "name1">>, SCHEMA |-> <<"if exists", "name12">>]

ReadDrop(t) ==
  /\ parse.mode = "drop"
  /\ IF t \in DOMAIN DropHeads
     THEN Moves(t, [parse EXCEPT !.mode = "clauses", !.kind = KindOf(<<"DROP", t>>), !.want = DropHeads[t]])
     ELSE IF t \in {";", "EOF"} THEN Rejects
     ELSE Moves(t, Pushed(parse, "other")) \/ Rejects

-----------------------------------------------------------------------------
OptionKeys == ObjectNames \union {"str"}

\* The tokens that are what is wanted, and what is wanted after such a token.
Accepted(w) ==
  CASE w = "if not exists" -> {"IF NOT EXISTS"}
    [] w = "if exists" -> {"IF EXISTS"}
    [] w = "name" -> ObjectNames
    [] w = "name12" -> {"name1", "name2"}
    [] w = "str" -> {"str", "url"}
    [] w = "options" -> {"("}
    [] w = "key" -> OptionKeys
    [] w = "value" -> OptionKeys \union {"num"}
    [] w = "more" -> {",", ")"}
    [] w = "key or end" -> OptionKeys \union {")"}
    [] OTHER -> {w}

Followed(w, t) ==
  CASE w = "options" -> <<"key", "value", "more">>
    [] w = "more" /\ t = "," -> <<"key or end">>
    [] w = "key or end" /\ t # ")" -> <<"value", "more">>
    [] OTHER -> <<>>

CatalogClauses ==
  [t \in {"USING", "MANAGED", "DEFAULT", "COMMENT", "OPTIONS"} |->
    CASE t = "USING" -> <<"SHARE", "name2">> [] t = "MANAGED" -> <<"LOCATION", "url">>
      [] t = "DEFAULT" -> <<"COLLATION", "str">> [] t = "COMMENT" -> <<"str">> [] t = "OPTIONS" -> <<"options">>]

SchemaClauses ==
  [t \in {"MANAGED", "COMMENT", "WITH"} |->
    CASE t = "MANAGED" -> <<"LOCATION", "url">> [] t = "COMMENT" -> <<"str">> [] t = "WITH" -> <<"DBPROPERTIES", "options">>]

TableClauses == [t \in {"USING"} |-> <<"name">>]

VacuumClauses ==
  [t \in {"DRY", "FULL", "RETAIN"} |->
    CASE t = "DRY" -> <<"RUN">> [] t = "FULL" -> <<>> [] t = "RETAIN" -> <<"num", "HOURS">>]

Clause(k) ==
  CASE k = "create catalog" -> CatalogClauses
    [] k = "create schema"  -> SchemaClauses
    [] k = "create table"   -> TableClauses
    [] OTHER                -> VacuumClauses

\* Within a head or a clause: a token that is wanted, or that an absent IF leaves to be wanted next.
ReadWanted(t) ==
  LET absent == parse.want # <<>> /\ parse.want[1] \in {"if not exists", "if exists"} /\ t \notin Accepted(parse.want[1])
      want == IF absent THEN Tail(parse.want) ELSE parse.want IN
  /\ parse.mode = "clauses" /\ want # <<>>
  /\ IF t \notin Accepted(want[1]) THEN Rejects
     ELSE LET p == [parse EXCEPT !.want = Followed(want[1], t) \o Tail(want)] IN
          IF p.want = <<>> /\ p.kind \in {"drop catalog", "drop schema"}
          THEN Moves(t, Pushed(p, p.kind)) ELSE Moves(t, p)

\* Mutant: ensure_not_set is left out.
BeginAnyClause(t) ==
  /\ parse.mode = "clauses" /\ parse.want = <<>> /\ t \in DOMAIN Clause(parse.kind)
  /\ Moves(t, [parse EXCEPT !.given = @ \union {t}, !.want = Clause(parse.kind)[t]])

\* A clause in any order, most of them at most once.
BeginClause(t) ==
  /\ parse.mode = "clauses" /\ parse.want = <<>> /\ t \in DOMAIN Clause(parse.kind)
  /\ IF t \in parse.given /\ parse.kind # "create table" /\ t \in Once THEN Rejects
     ELSE Moves(t, [parse EXCEPT !.given = @ \union {t}, !.want = Clause(parse.kind)[t]])

\* The end of a statement: its delimiter is read with it.
EndClauses(t) ==
  /\ parse.mode = "clauses" /\ parse.want = <<>> /\ t \notin DOMAIN Clause(parse.kind)
  /\ IF t \notin {";", "EOF"} \/ (parse.kind = "create catalog" /\ {"USING", "MANAGED"} \subseteq parse.given)
     THEN Rejects
     ELSE Moves(t, [Pushed(parse, parse.kind) EXCEPT !.mode = IF t = "EOF" THEN "parsed" ELSE @])

ScriptsNext ==
  \E t \in Words :
    \/ BeginStatement(t) \/ Delimit(t) \/ EndScript(t) \/ Cascade(t) \/ ReadCreate(t) \/ ReadDrop(t)
    \/ ReadWanted(t) \/ BeginClause(t) \/ EndClauses(t)

ScriptsSpec == ScriptsInit /\ [][ScriptsNext]_scriptVars

\* try_plan_unity_ddl: a script of one statement for the catalog is planned as such, all else is
\* handed to DataFusion.
PlansUnity == parse.mode = "parsed" /\ Len(parse.statements) = 1 /\ parse.statements[1] \in UnityKinds

-----------------------------------------------------------------------------
\* A script that is accepted is what its delimiters divide it into: one statement of the right kind for
\* each part that is not empty, no clause in it twice, no location beside a share; and the catalog is
\* only changed by a script that is that one statement.
ScriptsAreWhole ==
  /\ parse.mode = "parsed" => parse.statements = segments.read /\ ~segments.doubled
  /\ PlansUnity => Len(segments.read) = 1 /\ segments.read[1] \in UnityKinds
=============================================================================
