----------------------------- MODULE GroupClosure -----------------------------
(***************************************************************************)
(* ConfigIdentityProvider::enrich (identity.rs): the walk up the group     *)
(* hierarchy from a principal's direct groups.  The directory is any       *)
(* graph: groups may share parents, miss from it (no parents) or form      *)
(* cycles.  The frontier is a Vec popped at its end; the configuration     *)
(* gives its order, so here any group of it may be next.                   *)
(***************************************************************************)
EXTENDS Naturals, Sequences

CONSTANT Groups

VARIABLES walk,      \* "idle", "walking" or "done"
          direct,    \* UserFacts.groups of the principal
          parents,   \* GroupFacts.parents of every group
          frontier,  \* groups still to visit
          seen,      \* groups visited
          hierarchy  \* PrincipalEnrichment.group_hierarchy, in order

closureVars == <<walk, direct, parents, frontier, seen, hierarchy>>

ClosureTypeOK ==
  /\ walk \in {"idle", "walking", "done"}
  /\ direct \in SUBSET Groups
  /\ parents \in [Groups -> SUBSET Groups]
  /\ frontier \in SUBSET Groups
  /\ seen \in SUBSET Groups
  /\ hierarchy \in Seq(Groups)

ClosureInit ==
  /\ walk = "idle"
  /\ direct = {} /\ frontier = {} /\ seen = {}
  /\ parents = [g \in Groups |-> {}]
  /\ hierarchy = <<>>

\* enrich is called with a uid the directory knows or, with no group, one it does not.
Enrich ==
  /\ walk = "idle"
  /\ walk' = "walking"
  /\ direct' \in SUBSET Groups
  /\ parents' \in [Groups -> SUBSET Groups]
  /\ frontier' = direct'
  /\ UNCHANGED <<seen, hierarchy>>

\* Mutant: the walk goes one level up.
VisitOneLevel(g) ==
  /\ frontier' = (frontier \ {g}) \union (IF g \in direct THEN parents[g] ELSE {})
  /\ seen' = seen \union {g}
  /\ hierarchy' = IF g \in seen THEN hierarchy ELSE Append(hierarchy, g)

Visit(g) ==
  IF g \in seen
  THEN /\ frontier' = frontier \ {g}
       /\ UNCHANGED <<seen, hierarchy>>
  ELSE /\ frontier' = (frontier \ {g}) \union parents[g]
       /\ seen' = seen \union {g}
       /\ hierarchy' = Append(hierarchy, g)

Pop ==
  /\ walk = "walking"
  /\ \E g \in frontier : Visit(g)
  /\ UNCHANGED <<walk, direct, parents>>

EndWalk ==
  /\ walk = "walking" /\ frontier = {}
  /\ walk' = "done"
  /\ UNCHANGED <<direct, parents, frontier, seen, hierarchy>>

ClosureNext == Enrich \/ Pop \/ EndWalk

ClosureSpec == ClosureInit /\ [][ClosureNext]_closureVars

-----------------------------------------------------------------------------
Closed(S) == \A g \in S : parents[g] \subseteq S

\* The groups above the principal: in every closed set that has its direct ones.
Ancestry == {g \in Groups : \A S \in SUBSET Groups : direct \subseteq S /\ Closed(S) => g \in S}

\* The answer holds every group above the principal, no other one, and each of them once, in a
\* directory of any shape ("collecting only that principal's closure", identity.rs).
AnswerIsAncestry ==
  walk = "done" =>
    /\ {hierarchy[i] : i \in DOMAIN hierarchy} = Ancestry
    /\ \A i, j \in DOMAIN hierarchy : hierarchy[i] = hierarchy[j] => i = j

\* The walk comes to an end, also in a directory whose groups are one another's parents: every group
\* popped is one more seen, or one less to visit.
WalkAdvances ==
  [][walk = "walking" =>
       \/ seen \subseteq seen' /\ seen' # seen
       \/ seen' = seen /\ frontier' \subseteq frontier /\ (frontier' # frontier \/ walk' = "done")
    ]_closureVars
=============================================================================
