---------------------------- MODULE IdentityProofs ----------------------------
(***************************************************************************)
(* Proofs about GroupClosure, Principals and SqlScripts, for any           *)
(* directory, any number of requests, principals and tokens, and scripts   *)
(* of any length.  Of the walk: what it has reached lies above the         *)
(* principal, and is closed but for the frontier.  Of the requests: every  *)
(* entry of the cache and every session kept is its own key's, and its     *)
(* facts were told.  Of the scripts: between two statements, and within    *)
(* one, what the parser knows is what the tokens read so far say.          *)
(***************************************************************************)
EXTENDS GroupClosure, Principals, SqlScripts, SequenceTheorems, TLAPS

Reached == seen \union frontier

ClosureInv ==
  /\ ClosureTypeOK
  /\ walk = "idle" => seen = {} /\ frontier = {} /\ hierarchy = <<>>
  /\ walk # "idle" => direct \subseteq Reached
  /\ walk = "done" => frontier = {}
  /\ \A g \in seen : parents[g] \subseteq Reached
  /\ Reached \subseteq Ancestry
  /\ {hierarchy[i] : i \in DOMAIN hierarchy} = seen
  /\ \A i, j \in DOMAIN hierarchy : hierarchy[i] = hierarchy[j] => i = j

-----------------------------------------------------------------------------
(* The walk up the groups.                                                  *)

\* Ancestry is the least closed set with the direct groups.
LEMMA AncestryIsClosed ==
  ASSUME ClosureTypeOK
  PROVE  direct \subseteq Ancestry /\ \A g \in Ancestry : parents[g] \subseteq Ancestry
<1>1. direct \subseteq Ancestry
  BY DEF ClosureTypeOK, Ancestry
<1>2. ASSUME NEW g \in Ancestry, NEW h \in parents[g] PROVE h \in Ancestry
  <2>1. g \in Groups /\ h \in Groups
    BY <1>2 DEF ClosureTypeOK, Ancestry
  <2>2. ASSUME NEW S \in SUBSET Groups, direct \subseteq S, Closed(S) PROVE h \in S
    BY <1>2, <2>2 DEF Ancestry, Closed
  <2>3. QED
    BY <2>1, <2>2 DEF Ancestry
<1>3. QED
  BY <1>1, <1>2

LEMMA AncestryIsLeast ==
  ASSUME NEW S \in SUBSET Groups, direct \subseteq S, Closed(S)
  PROVE  Ancestry \subseteq S
BY DEF Ancestry

LEMMA AncestryKept ==
  ASSUME UNCHANGED <<direct, parents>>
  PROVE  Ancestry' = Ancestry
BY DEF Ancestry, Closed

LEMMA ClosureInit_Inv == ClosureInit => ClosureInv
BY DEF ClosureInit, ClosureInv, ClosureTypeOK, Reached

LEMMA EnrichInv == ASSUME ClosureInv, Enrich PROVE ClosureInv'
<1>1. ClosureTypeOK'
  BY DEF ClosureInv, ClosureTypeOK, Enrich
<1>2. seen' = {} /\ hierarchy' = <<>> /\ walk' = "walking" /\ frontier' = direct'
  BY DEF ClosureInv, Enrich
<1>3. Reached' = direct'
  BY <1>2 DEF Reached
<1>4. (direct \subseteq Ancestry)'
  BY <1>1, AncestryIsClosed, PTL
<1>5. QED
  BY <1>1, <1>2, <1>3, <1>4 DEF ClosureInv

\* A group already seen leaves the frontier; a new one goes into the answer and its parents into the
\* frontier.
LEMMA PopInv == ASSUME ClosureInv, Pop PROVE ClosureInv'
<1>1. PICK g \in frontier : Visit(g)
  BY DEF Pop
<1>2. /\ walk = "walking" /\ UNCHANGED <<walk, direct, parents>>
      /\ g \in Groups
  BY <1>1 DEF Pop, ClosureInv, ClosureTypeOK
<1>3. Ancestry' = Ancestry
  BY <1>2, AncestryKept
<1>4. CASE g \in seen
  <2>1. frontier' = frontier \ {g} /\ seen' = seen /\ hierarchy' = hierarchy
    BY <1>1, <1>4 DEF Visit
  <2>2. Reached' = Reached
    BY <2>1, <1>4 DEF Reached
  <2>3. ClosureTypeOK'
    BY <2>1, <1>2 DEF ClosureInv, ClosureTypeOK
  <2>4. QED
    BY <1>2, <1>3, <2>1, <2>2, <2>3 DEF ClosureInv
<1>5. CASE g \notin seen
  <2>1. /\ frontier' = (frontier \ {g}) \union parents[g]
        /\ seen' = seen \union {g}
        /\ hierarchy' = Append(hierarchy, g)
    BY <1>1, <1>5 DEF Visit
  <2>2. parents[g] \subseteq Groups /\ parents[g] \subseteq Ancestry
    BY <1>2, AncestryIsClosed DEF ClosureInv, ClosureTypeOK, Reached
  <2>3. Reached' = Reached \union parents[g]
    BY <2>1, <1>5 DEF Reached
  <2>4. ClosureTypeOK'
    BY <2>1, <2>2, <1>2 DEF ClosureInv, ClosureTypeOK
  <2>5. (\A h \in seen : parents[h] \subseteq Reached)'
    BY <1>2, <2>1, <2>3 DEF ClosureInv
  <2>6. /\ Len(hierarchy') = Len(hierarchy) + 1 /\ DOMAIN hierarchy' = 1..(Len(hierarchy) + 1)
        /\ \A i \in 1..Len(hierarchy) : hierarchy'[i] = hierarchy[i]
        /\ hierarchy'[Len(hierarchy) + 1] = g
        /\ DOMAIN hierarchy = 1..Len(hierarchy) /\ Len(hierarchy) \in Nat
    BY <2>1, <1>2 DEF ClosureInv, ClosureTypeOK
  <2>7. \A i \in 1..Len(hierarchy) : hierarchy[i] \in seen
    BY <2>6 DEF ClosureInv
  <2>8. {hierarchy'[i] : i \in DOMAIN hierarchy'} = seen'
    <3>1. ASSUME NEW h \in seen' PROVE \E i \in DOMAIN hierarchy' : hierarchy'[i] = h
      <4>1. CASE h = g
        BY <4>1, <2>6
      <4>2. CASE h \in seen
        <5>1. PICK i \in DOMAIN hierarchy : hierarchy[i] = h
          BY <4>2 DEF ClosureInv
        <5>2. i \in DOMAIN hierarchy' /\ hierarchy'[i] = h
          BY <5>1, <2>6
        <5>3. QED
          BY <5>2
      <4>3. QED
        BY <3>1, <4>1, <4>2, <2>1
    <3>2. ASSUME NEW i \in DOMAIN hierarchy' PROVE hierarchy'[i] \in seen'
      <4>1. i \in 1..Len(hierarchy) \/ i = Len(hierarchy) + 1
        BY <2>6
      <4>2. QED
        BY <4>1, <2>1, <2>6, <2>7
    <3>3. QED
      BY <3>1, <3>2
  <2>9. \A i, j \in DOMAIN hierarchy' : hierarchy'[i] = hierarchy'[j] => i = j
    <3>1. SUFFICES ASSUME NEW i \in DOMAIN hierarchy', NEW j \in DOMAIN hierarchy',
                          hierarchy'[i] = hierarchy'[j]
                   PROVE  i = j
      OBVIOUS
    <3>2. /\ i \in 1..Len(hierarchy) \/ i = Len(hierarchy) + 1
          /\ j \in 1..Len(hierarchy) \/ j = Len(hierarchy) + 1
      BY <2>6
    <3>3. CASE i \in 1..Len(hierarchy) /\ j \in 1..Len(hierarchy)
      BY <3>1, <3>3, <2>6 DEF ClosureInv
    <3>4. CASE i = Len(hierarchy) + 1 /\ j = Len(hierarchy) + 1
      BY <3>4
    <3>5. QED
      BY <3>1, <3>2, <3>3, <3>4, <2>6, <2>7, <1>5
  <2>10. (direct \subseteq Reached)' /\ (Reached \subseteq Ancestry)'
    BY <1>2, <1>3, <2>2, <2>3 DEF ClosureInv
  <2>11. QED
    BY <1>2, <2>4, <2>5, <2>8, <2>9, <2>10 DEF ClosureInv
<1>6. QED
  BY <1>4, <1>5

LEMMA EndWalkInv == ASSUME ClosureInv, EndWalk PROVE ClosureInv'
<1>1. UNCHANGED <<direct, parents, frontier, seen, hierarchy>> /\ walk' = "done"
  BY DEF EndWalk
<1>2. Ancestry' = Ancestry /\ Reached' = Reached
  BY <1>1, AncestryKept DEF Reached
<1>3. ClosureTypeOK'
  BY <1>1 DEF ClosureInv, ClosureTypeOK
<1>4. QED
  BY <1>1, <1>2, <1>3 DEF ClosureInv, EndWalk

LEMMA ClosureStutter == ASSUME ClosureInv, UNCHANGED closureVars PROVE ClosureInv'
<1>1. UNCHANGED <<walk, direct, parents, frontier, seen, hierarchy>>
  BY DEF closureVars
<1>2. Ancestry' = Ancestry /\ Reached' = Reached
  BY <1>1, AncestryKept DEF Reached
<1>3. QED
  BY <1>1, <1>2 DEF ClosureInv, ClosureTypeOK

LEMMA ClosureInvariant == ClosureSpec => []ClosureInv
<1>1. ClosureInv /\ [ClosureNext]_closureVars => ClosureInv'
  BY EnrichInv, PopInv, EndWalkInv, ClosureStutter DEF ClosureNext
<1>2. QED
  BY <1>1, ClosureInit_Inv, PTL DEF ClosureSpec

\* Whatever the directory, the answer is every group above the principal, once each (identity.rs, enrich).
THEOREM AnswerIsAncestryHolds == ClosureSpec => []AnswerIsAncestry
<1>1. ASSUME ClosureInv, walk = "done" PROVE seen = Ancestry
  <2>1. seen \in SUBSET Groups /\ direct \subseteq seen /\ Closed(seen)
    BY <1>1 DEF ClosureInv, ClosureTypeOK, Reached, Closed
  <2>2. QED
    BY <1>1, <2>1, AncestryIsLeast DEF ClosureInv, Reached
<1>2. ClosureInv => AnswerIsAncestry
  BY <1>1 DEF ClosureInv, AnswerIsAncestry
<1>3. QED
  BY <1>2, ClosureInvariant, PTL

\* Every step of the walk sees a new group or leaves less to visit, so that it ends: `seen` grows at most
\* to the groups there are.
THEOREM WalkAdvancesHolds == ClosureSpec => WalkAdvances
<1>1. ASSUME ClosureInv, ClosureNext, walk = "walking"
      PROVE  \/ seen \subseteq seen' /\ seen' # seen
             \/ seen' = seen /\ frontier' \subseteq frontier /\ (frontier' # frontier \/ walk' = "done")
  <2>1. CASE Pop
    BY <2>1 DEF Pop, Visit
  <2>2. CASE EndWalk
    BY <2>2 DEF EndWalk
  <2>3. QED
    BY <1>1, <2>1, <2>2 DEF ClosureNext, Enrich
<1>2. QED
  BY <1>1, ClosureInvariant, PTL DEF ClosureSpec, WalkAdvances

-----------------------------------------------------------------------------
(* The requests.                                                            *)

\* Facts of a principal that the provider gave.
Told(uid, facts) == facts = uid /\ uid \in told

\* A session with the principal, the token and the facts of its key.
OwnSession(uid, token, s) ==
  s.uid = uid /\ s.token = token /\ Told(uid, s.facts)

RequestInv(r) ==
  LET q == req[r] IN
  /\ q.stage # "new" => q.uid \in Uids
  /\ q.stage \in {"answered", "enriched"} => Told(q.uid, q.facts)
  /\ q.stage \in {"built", "served"} => OwnSession(q.uid, q.token, q.session)

CacheInv == \A u \in Uids : enriched[u] # Nobody => Told(u, enriched[u])

KeptInv == \A k \in SessionKeys : kept[k] # Unbound => OwnSession(k.uid, k.token, kept[k])

PrincipalsInv ==
  /\ PrincipalsTypeOK
  /\ CacheInv
  /\ KeptInv
  /\ \A r \in Requests : RequestInv(r)

LEMMA PrincipalsInit_Inv == PrincipalsInit => PrincipalsInv
<1>1. PrincipalsInit => PrincipalsTypeOK
  BY DEF PrincipalsInit, PrincipalsTypeOK, NoPrincipal, PrincipalsRequest, Unbound, Bound, SessionKeys
<1>2. PrincipalsInit => CacheInv /\ KeptInv /\ \A r \in Requests : RequestInv(r)
  BY DEF PrincipalsInit, CacheInv, KeptInv, RequestInv, NoPrincipal
<1>3. QED
  BY <1>1, <1>2 DEF PrincipalsInv

\* A step of the request r that leaves the others alone and forgets nothing the provider told.
LEMMA OthersKept ==
  ASSUME PrincipalsInv, NEW r \in Requests, NEW q \in PrincipalsRequest,
         req' = [req EXCEPT ![r] = q], told \subseteq told',
         q.stage # "new" => q.uid \in Uids,
         q.stage \in {"answered", "enriched"} => q.facts = q.uid /\ q.uid \in told',
         q.stage \in {"built", "served"} =>
           /\ q.session.uid = q.uid /\ q.session.token = q.token
           /\ q.session.facts = q.uid /\ q.uid \in told'
  PROVE  (\A x \in Requests : RequestInv(x))' /\ req' \in [Requests -> PrincipalsRequest]
<1>1. req' \in [Requests -> PrincipalsRequest] /\ req'[r] = q
  BY DEF PrincipalsInv, PrincipalsTypeOK
<1>2. ASSUME NEW x \in Requests PROVE RequestInv(x)'
  <2>1. CASE x = r
    BY <1>1, <2>1 DEF RequestInv, OwnSession, Told
  <2>2. CASE x # r
    <3>1. req'[x] = req[x] /\ RequestInv(x)
      BY <2>2 DEF PrincipalsInv, PrincipalsTypeOK
    <3>2. QED
      BY <3>1 DEF RequestInv, OwnSession, Told
  <2>3. QED
    BY <2>1, <2>2
<1>3. QED
  BY <1>1, <1>2

\* The request is one of the type.
LEMMA RequestTyped ==
  ASSUME PrincipalsInv, NEW r \in Requests
  PROVE  /\ req[r] \in PrincipalsRequest /\ RequestInv(r)
         /\ req[r].stage # "new" => EphemeralKey(r) \in SessionKeys
BY DEF PrincipalsInv, PrincipalsTypeOK, PrincipalsRequest, RequestInv, EphemeralKey, SessionKeys

\* The stores keep what they hold.
LEMMA StoresKept ==
  ASSUME PrincipalsInv, UNCHANGED <<enriched, kept>>, told \subseteq told', told' \subseteq Uids
  PROVE  /\ CacheInv' /\ KeptInv'
         /\ req' \in [Requests -> PrincipalsRequest] => PrincipalsTypeOK'
BY DEF PrincipalsInv, PrincipalsTypeOK, CacheInv, KeptInv, OwnSession, Told

LEMMA EndInv ==
  ASSUME PrincipalsInv, NEW r \in Requests, End(r), UNCHANGED <<enriched, kept, told>>
  PROVE  PrincipalsInv'
<1>1. NoPrincipal \in PrincipalsRequest /\ NoPrincipal.stage = "new" /\ told' \subseteq Uids
  BY DEF NoPrincipal, PrincipalsRequest, Unbound, PrincipalsInv, PrincipalsTypeOK
<1>2. (\A x \in Requests : RequestInv(x))' /\ req' \in [Requests -> PrincipalsRequest]
  BY <1>1, OthersKept DEF End
<1>3. QED
  BY <1>1, <1>2, StoresKept DEF PrincipalsInv

LEMMA HeadersInv ==
  ASSUME PrincipalsInv, NEW r \in Requests, Headers(r)
  PROVE  PrincipalsInv'
<1>1. PICK u \in Uids, t \in Tokens \union {Shared} :
        req' = [req EXCEPT ![r].stage = "lookup", ![r].uid = u, ![r].token = t]
  BY DEF Headers
<1> DEFINE q == [req[r] EXCEPT !.stage = "lookup", !.uid = u, !.token = t]
<1>2. /\ req' = [req EXCEPT ![r] = q] /\ q \in PrincipalsRequest
      /\ q.stage = "lookup" /\ q.uid = u
  BY <1>1, RequestTyped DEF PrincipalsInv, PrincipalsTypeOK, PrincipalsRequest
<1>3. UNCHANGED <<enriched, kept, told>> /\ told' \subseteq Uids
  BY DEF Headers, PrincipalsInv, PrincipalsTypeOK
<1>4. (\A x \in Requests : RequestInv(x))' /\ req' \in [Requests -> PrincipalsRequest]
  <2> HIDE DEF q
  <2>1. QED
    BY <1>2, <1>3, OthersKept
<1>5. QED
  BY <1>3, <1>4, StoresKept DEF PrincipalsInv

LEMMA LookupInv ==
  ASSUME PrincipalsInv, NEW r \in Requests, Lookup(r)
  PROVE  PrincipalsInv'
<1> DEFINE u == req[r].uid
<1>1. /\ req[r] \in PrincipalsRequest /\ u \in Uids /\ UNCHANGED <<enriched, kept>>
      /\ CacheInv /\ told \subseteq Uids
  BY RequestTyped DEF Lookup, RequestInv, PrincipalsInv, PrincipalsTypeOK
<1>2. \E q \in PrincipalsRequest :
        /\ req' = [req EXCEPT ![r] = q] /\ q.stage \in {"answered", "enriched"}
        /\ q.uid = u /\ q.facts = u
        /\ u \in told' /\ told \subseteq told' /\ told' \subseteq Uids
  <2>1. CASE enriched[u] # Nobody
    <3> DEFINE q == [req[r] EXCEPT !.stage = "enriched", !.facts = enriched[u]]
    <3>1. enriched[u] = u /\ u \in told /\ told' = told
      BY <1>1, <2>1 DEF CacheInv, Told, Lookup
    <3>2. req' = [req EXCEPT ![r] = q]
      BY <1>1, <2>1 DEF Lookup, PrincipalsInv, PrincipalsTypeOK
    <3>3. q \in PrincipalsRequest /\ q.stage = "enriched" /\ q.uid = u /\ q.facts = u
      BY <1>1, <3>1 DEF PrincipalsRequest
    <3>4. QED
      BY <3>1, <3>2, <3>3, <1>1
  <2>2. CASE enriched[u] = Nobody
    <3> DEFINE q == [req[r] EXCEPT !.stage = "answered", !.facts = u]
    <3>1. told' = told \union {u}
      BY <1>1, <2>2 DEF Lookup
    <3>2. req' = [req EXCEPT ![r] = q]
      BY <1>1, <2>2 DEF Lookup, PrincipalsInv, PrincipalsTypeOK
    <3>3. q \in PrincipalsRequest /\ q.stage = "answered" /\ q.uid = u /\ q.facts = u
      BY <1>1 DEF PrincipalsRequest
    <3>4. QED
      BY <3>1, <3>2, <3>3, <1>1
  <2>3. QED
    BY <2>1, <2>2
<1>3. (\A x \in Requests : RequestInv(x))' /\ req' \in [Requests -> PrincipalsRequest]
  BY <1>1, <1>2, OthersKept
<1>4. QED
  BY <1>1, <1>2, <1>3, StoresKept DEF PrincipalsInv

LEMMA CacheFactsInv ==
  ASSUME PrincipalsInv, NEW r \in Requests, CacheFacts(r)
  PROVE  PrincipalsInv'
<1> DEFINE u == req[r].uid
           q == [req[r] EXCEPT !.stage = "enriched"]
<1>1. /\ req[r] \in PrincipalsRequest /\ u \in Uids /\ req[r].facts = u /\ u \in told
      /\ UNCHANGED <<kept, told>> /\ told \subseteq Uids
  BY RequestTyped DEF CacheFacts, RequestInv, Told, PrincipalsInv, PrincipalsTypeOK
<1>2. /\ req' = [req EXCEPT ![r] = q]
      /\ q \in PrincipalsRequest /\ q.stage = "enriched" /\ q.uid = u /\ q.facts = u
  BY <1>1 DEF CacheFacts, PrincipalsInv, PrincipalsTypeOK, PrincipalsRequest
<1>3. enriched' = [enriched EXCEPT ![u] = u]
  BY <1>1 DEF CacheFacts
<1>4. (\A x \in Requests : RequestInv(x))' /\ req' \in [Requests -> PrincipalsRequest]
  <2> HIDE DEF q
  <2>1. QED
    BY <1>1, <1>2, OthersKept
<1>5. enriched' \in [Uids -> Uids \union {Nobody}] /\ CacheInv'
  BY <1>1, <1>3 DEF PrincipalsInv, PrincipalsTypeOK, CacheInv, Told
<1>6. KeptInv'
  BY <1>1 DEF PrincipalsInv, KeptInv, OwnSession, Told
<1>7. QED
  BY <1>1, <1>4, <1>5, <1>6 DEF PrincipalsInv, PrincipalsTypeOK

\* A request is given the session kept under its key, which is its own.
LEMMA GivenInv ==
  ASSUME PrincipalsInv, NEW r \in Requests, req[r].stage \in {"enriched", "built"},
         kept[EphemeralKey(r)] # Unbound,
         req' = [req EXCEPT ![r].stage = "served", ![r].session = kept[EphemeralKey(r)]],
         UNCHANGED <<enriched, kept, told>>
  PROVE  PrincipalsInv'
<1> DEFINE k == EphemeralKey(r)
           q == [req[r] EXCEPT !.stage = "served", !.session = kept[k]]
<1>1. /\ req[r] \in PrincipalsRequest /\ req[r].uid \in Uids
      /\ k \in SessionKeys /\ k.uid = req[r].uid /\ k.token = req[r].token
      /\ told' \subseteq Uids
  BY RequestTyped DEF RequestInv, EphemeralKey, PrincipalsInv, PrincipalsTypeOK
<1>2. OwnSession(req[r].uid, req[r].token, kept[k]) /\ kept[k] \in Bound \union {Unbound}
  BY <1>1 DEF PrincipalsInv, KeptInv, PrincipalsTypeOK
<1>3. /\ req' = [req EXCEPT ![r] = q] /\ q \in PrincipalsRequest
      /\ q.stage = "served" /\ q.uid = req[r].uid /\ q.token = req[r].token /\ q.session = kept[k]
  <2> HIDE DEF k
  <2>1. req' = [req EXCEPT ![r] = q]
    BY DEF PrincipalsInv, PrincipalsTypeOK, k
  <2>2. q \in PrincipalsRequest
    BY <1>1, <1>2 DEF PrincipalsRequest
  <2>3. QED
    BY <2>1, <2>2, <1>1 DEF PrincipalsRequest
<1>4. (\A x \in Requests : RequestInv(x))' /\ req' \in [Requests -> PrincipalsRequest]
  <2> HIDE DEF q, k
  <2>1. /\ q.session.uid = q.uid /\ q.session.token = q.token
        /\ q.session.facts = q.uid /\ q.uid \in told'
    BY <1>2, <1>3 DEF OwnSession, Told
  <2>2. q.uid \in Uids /\ q.stage = "served" /\ told \subseteq told'
    BY <1>1, <1>3
  <2>3. QED
    BY <1>3, <2>1, <2>2, OthersKept
<1>5. QED
  BY <1>1, <1>4, StoresKept DEF PrincipalsInv

LEMMA EphemeralForInv ==
  ASSUME PrincipalsInv, NEW r \in Requests, EphemeralFor(r)
  PROVE  PrincipalsInv'
<1> DEFINE q == [req[r] EXCEPT !.stage = "built", !.session = NewBound(r)]
<1>1. /\ req[r] \in PrincipalsRequest /\ req[r].uid \in Uids /\ Told(req[r].uid, req[r].facts)
      /\ req[r].stage = "enriched" /\ UNCHANGED <<enriched, kept, told>> /\ told' \subseteq Uids
  BY RequestTyped DEF EphemeralFor, RequestInv, PrincipalsInv, PrincipalsTypeOK
<1>2. CASE req' = [req EXCEPT ![r].stage = "built", ![r].session = NewBound(r)]
  <2>1. NewBound(r) \in Bound /\ OwnSession(req[r].uid, req[r].token, NewBound(r))
    BY <1>1 DEF NewBound, Bound, OwnSession, Told, PrincipalsRequest
  <2>2. /\ req' = [req EXCEPT ![r] = q] /\ q \in PrincipalsRequest
        /\ q.stage = "built" /\ q.uid = req[r].uid /\ q.token = req[r].token
        /\ q.session = NewBound(r)
    BY <1>1, <1>2, <2>1 DEF PrincipalsInv, PrincipalsTypeOK, PrincipalsRequest
  <2>3. (\A x \in Requests : RequestInv(x))' /\ req' \in [Requests -> PrincipalsRequest]
    <3> HIDE DEF q
    <3>1. QED
      BY <1>1, <2>1, <2>2, OthersKept DEF OwnSession, Told
  <2>4. QED
    BY <1>1, <2>3, StoresKept DEF PrincipalsInv
<1>3. CASE End(r)
  BY <1>1, <1>3, EndInv
<1>4. QED
  BY <1>1, <1>2, <1>3, GivenInv DEF EphemeralFor

LEMMA OrInsertInv ==
  ASSUME PrincipalsInv, NEW r \in Requests, OrInsert(r)
  PROVE  PrincipalsInv'
<1> DEFINE k == EphemeralKey(r)
           q == [req[r] EXCEPT !.stage = "served"]
<1>1. /\ req[r] \in PrincipalsRequest /\ req[r].uid \in Uids /\ req[r].stage = "built"
      /\ OwnSession(req[r].uid, req[r].token, req[r].session)
      /\ k \in SessionKeys /\ k.uid = req[r].uid /\ k.token = req[r].token
      /\ UNCHANGED <<enriched, told>> /\ told' \subseteq Uids
  BY RequestTyped DEF OrInsert, RequestInv, EphemeralKey, PrincipalsInv, PrincipalsTypeOK
<1>2. CASE kept[k] # Unbound
  BY <1>1, <1>2, GivenInv DEF OrInsert
<1>3. CASE kept[k] = Unbound
  <2>1. /\ req' = [req EXCEPT ![r] = q] /\ q \in PrincipalsRequest
        /\ q.stage = "served" /\ q.uid = req[r].uid /\ q.token = req[r].token
        /\ q.session = req[r].session
    BY <1>1, <1>3 DEF OrInsert, PrincipalsInv, PrincipalsTypeOK, PrincipalsRequest
  <2>2. kept' = [kept EXCEPT ![k] = req[r].session]
    BY <1>3 DEF OrInsert
  <2>3. (\A x \in Requests : RequestInv(x))' /\ req' \in [Requests -> PrincipalsRequest]
    <3> HIDE DEF q, k
    <3>1. QED
      BY <1>1, <2>1, OthersKept DEF OwnSession, Told
  <2>4. kept' \in [SessionKeys -> Bound \union {Unbound}] /\ KeptInv'
    <3>1. req[r].session \in Bound \union {Unbound}
      BY <1>1 DEF PrincipalsRequest
    <3>2. ASSUME NEW x \in SessionKeys, kept'[x] # Unbound
          PROVE  OwnSession(x.uid, x.token, kept[x])'
      <4> HIDE DEF k
      <4>1. CASE x = k
        BY <1>1, <2>2, <4>1 DEF PrincipalsInv, PrincipalsTypeOK, OwnSession, Told
      <4>2. CASE x # k
        BY <1>1, <2>2, <3>2, <4>2 DEF PrincipalsInv, PrincipalsTypeOK, KeptInv, OwnSession, Told
      <4>3. QED
        BY <4>1, <4>2
    <3>3. QED
      BY <1>1, <2>2, <3>1, <3>2 DEF PrincipalsInv, PrincipalsTypeOK, KeptInv
  <2>5. CacheInv'
    BY <1>1 DEF PrincipalsInv, CacheInv, Told
  <2>6. QED
    BY <1>1, <2>3, <2>4, <2>5 DEF PrincipalsInv, PrincipalsTypeOK
<1>4. QED
  BY <1>2, <1>3

LEMMA EvictInv ==
  ASSUME PrincipalsInv, NEW k \in SessionKeys, Evict(k)
  PROVE  PrincipalsInv'
<1>1. UNCHANGED <<enriched, req, told>> /\ kept' = [kept EXCEPT ![k] = Unbound]
  BY DEF Evict
<1>2. PrincipalsTypeOK'
  BY <1>1 DEF PrincipalsInv, PrincipalsTypeOK
<1>3. CacheInv' /\ (\A r \in Requests : RequestInv(r))'
  BY <1>1 DEF PrincipalsInv, CacheInv, RequestInv, OwnSession, Told
<1>4. KeptInv'
  BY <1>1 DEF PrincipalsInv, PrincipalsTypeOK, KeptInv, OwnSession, Told
<1>5. QED
  BY <1>2, <1>3, <1>4 DEF PrincipalsInv

LEMMA PrincipalsStep == ASSUME PrincipalsInv, PrincipalsNext PROVE PrincipalsInv'
<1>1. ASSUME NEW r \in Requests, ProviderFails(r) \/ Respond(r) PROVE PrincipalsInv'
  BY <1>1, EndInv DEF ProviderFails, Respond
<1>2. QED
  BY <1>1, HeadersInv, LookupInv, CacheFactsInv, EphemeralForInv, OrInsertInv, EvictInv
     DEF PrincipalsNext

LEMMA PrincipalsInvariant == PrincipalsSpec => []PrincipalsInv
<1>1. ASSUME PrincipalsInv, UNCHANGED principalVars PROVE PrincipalsInv'
  <2>1. UNCHANGED <<enriched, kept, req, told>>
    BY <1>1 DEF principalVars
  <2>2. QED
    BY <1>1, <2>1 DEF PrincipalsInv, PrincipalsTypeOK, CacheInv, KeptInv, RequestInv, OwnSession, Told
<1>2. PrincipalsInv /\ [PrincipalsNext]_principalVars => PrincipalsInv'
  BY <1>1, PrincipalsStep
<1>3. QED
  BY <1>2, PrincipalsInit_Inv, PTL DEF PrincipalsSpec

\* Whatever the number of requests, principals and tokens, and whoever shares a session: a request runs
\* as its own principal, with its own token and with facts the provider gave for it (identity.rs,
\* Engine::enrich, SessionStore::ephemeral_for).
THEOREM RunsAsItselfHolds == PrincipalsSpec => []RunsAsItself
<1>1. PrincipalsInv => OwnCredentials
  BY DEF PrincipalsInv, RequestInv, OwnSession, OwnCredentials
<1>2. PrincipalsInv => FactsAreTold
  BY DEF PrincipalsInv, RequestInv, KeptInv, OwnSession, Told, FactsAreTold
<1>3. QED
  BY <1>1, <1>2, PrincipalsInvariant, PTL DEF RunsAsItself
-----------------------------------------------------------------------------
(* The scripts HFParser reads.                                              *)

Drops == {"drop catalog", "drop schema"}

Division == [read : Seq(StatementKinds), first : Seq(Words), given : SUBSET Words, doubled : BOOLEAN]

\* The parser's own state: what it asks for, and which clauses it has.
ReaderInv ==
  /\ parse \in Parser /\ segments \in Division
  /\ parse.mode \in {"start", "create", "drop"} => parse.given = {}
  /\ parse.mode = "clauses" =>
       /\ parse.kind # "other" /\ parse.given \subseteq DOMAIN Clause(parse.kind)
       /\ parse.kind \in Drops => parse.given = {} /\ parse.want # <<>>

\* Between two statements: the last one was pushed, its delimiter perhaps not read.
AtStart ==
  /\ ~segments.doubled
  /\ parse.cascade => Len(segments.first) = 2 /\ segments.given = {}
  /\ IF segments.first = <<>>
     THEN parse.statements = segments.read /\ segments.given = {}
     ELSE parse.delimiter /\ parse.statements = Append(segments.read, KindOf(segments.first))

\* Within a statement the clauses taken are those the script has, and what is
\* doubled is a location beside a share, which the end of the statement refuses.
Within ==
  /\ parse.statements = segments.read
  /\ segments.first = <<"VACUUM">> \/ Len(segments.first) = 2
  /\ parse.kind = KindOf(segments.first)
  /\ segments.given = parse.given \intersect Once
  /\ segments.doubled => parse.kind = "create catalog" /\ {"USING", "MANAGED"} \subseteq parse.given

DividedInv ==
  /\ parse.mode = "start" => AtStart
  /\ parse.mode \in {"create", "drop"} =>
       /\ parse.statements = segments.read /\ ~segments.doubled /\ segments.given = {}
       /\ segments.first = IF parse.mode = "create" THEN <<"CREATE">> ELSE <<"DROP">>
  /\ parse.mode = "clauses" => Within
  /\ parse.mode = "parsed" => parse.statements = segments.read /\ ~segments.doubled

ScriptInv == ReaderInv /\ DividedInv

\* The clauses of each kind of statement.
LEMMA ClauseNames ==
  /\ DOMAIN Clause("create catalog") = {"USING", "MANAGED", "DEFAULT", "COMMENT", "OPTIONS"}
  /\ DOMAIN Clause("create schema") = {"MANAGED", "COMMENT", "WITH"}
  /\ DOMAIN Clause("create table") = {"USING"}
  /\ \A k \in Drops \cup {"vacuum"} : DOMAIN Clause(k) = {"DRY", "FULL", "RETAIN"}
<1>1. /\ Clause("create catalog") = CatalogClauses /\ Clause("create schema") = SchemaClauses
      /\ Clause("create table") = TableClauses /\ \A k \in Drops \cup {"vacuum"} : Clause(k) = VacuumClauses
  BY DEF Clause, Drops
<1>2. QED
  BY <1>1 DEF CatalogClauses, SchemaClauses, TableClauses, VacuumClauses

\* Short sequences of what may be asked for.
LEMMA AskedSeqs ==
  /\ <<>> \in Seq(Asked)
  /\ \A a \in Asked : <<a>> \in Seq(Asked)
  /\ \A a, b \in Asked : <<a, b>> \in Seq(Asked)
  /\ \A a, b, c \in Asked : <<a, b, c>> \in Seq(Asked)
  OBVIOUS

\* A clause asks for what may be asked for.
LEMMA ClauseAsks ==
  ASSUME NEW k, NEW t \in DOMAIN Clause(k) PROVE Clause(k)[t] \in Seq(Asked)
<1>0. {"str", "options", "url", "num", "name", "name2", "SHARE", "LOCATION", "COLLATION", "DBPROPERTIES", "RUN", "HOURS"} \subseteq Asked
  BY DEF Asked
<1>1. \A u \in DOMAIN CatalogClauses : CatalogClauses[u] \in Seq(Asked)
  BY <1>0, AskedSeqs DEF CatalogClauses
<1>2. \A u \in DOMAIN SchemaClauses : SchemaClauses[u] \in Seq(Asked)
  BY <1>0, AskedSeqs DEF SchemaClauses
<1>3. \A u \in DOMAIN TableClauses : TableClauses[u] \in Seq(Asked)
  BY <1>0, AskedSeqs DEF TableClauses
<1>4. \A u \in DOMAIN VacuumClauses : VacuumClauses[u] \in Seq(Asked)
  BY <1>0, AskedSeqs DEF VacuumClauses
<1>5. QED
  BY <1>1, <1>2, <1>3, <1>4 DEF Clause

\* What follows a token is again what may be asked for.
LEMMA FollowedAsks ==
  ASSUME NEW w, NEW t PROVE Followed(w, t) \in Seq(Asked)
<1>0. {"key", "value", "more", "key or end"} \subseteq Asked
  BY DEF Asked
<1>1. QED
  BY <1>0, AskedSeqs DEF Followed

\* No clause begins with a word a head or a clause asks for.
LEMMA AskedIsNoClause ==
  ASSUME NEW w \in Asked PROVE Accepted(w) \cap Once = {}
  BY DEF Asked, Accepted, Once, OptionKeys, ObjectNames

\* The token after the first one.
LEMMA TwoTokens == \A a, b \in Words : Append(<<a>>, b) = <<a, b>> /\ Len(<<a>>) < 2
<1> SUFFICES ASSUME NEW a \in Words, NEW b \in Words PROVE Append(<<a>>, b) = <<a, b>> /\ Len(<<a>>) < 2
  OBVIOUS
<1>1. <<a>> \in Seq(Words) /\ <<a, b>> \in Seq(Words)
  OBVIOUS
<1>2. /\ Append(<<a>>, b) \in Seq(Words) /\ Len(Append(<<a>>, b)) = 2
      /\ Append(<<a>>, b)[1] = a /\ Append(<<a>>, b)[2] = b
  BY <1>1, AppendProperties
<1>3. Len(<<a, b>>) = 2 /\ <<a, b>>[1] = a /\ <<a, b>>[2] = b
  OBVIOUS
<1>4. \A i \in 1..2 : Append(<<a>>, b)[i] = <<a, b>>[i]
  BY <1>2, <1>3
<1>5. Append(<<a>>, b) = <<a, b>>
  BY <1>1, <1>2, <1>3, <1>4, SeqEqual
<1>6. QED
  BY <1>5

\* What the first tokens say of a statement.
LEMMA FirstTokens ==
  /\ \A s : KindOf(s) \in StatementKinds
  /\ KindOf(<<"SELECT">>) = "other" /\ KindOf(<<"VACUUM">>) = "vacuum"
  /\ \A t : KindOf(<<"VACUUM", t>>) = "vacuum"
  /\ KindOf(<<"CREATE", "CATALOG">>) = "create catalog" /\ KindOf(<<"CREATE", "SCHEMA">>) = "create schema"
  /\ KindOf(<<"CREATE", "TABLE">>) = "create table"
  /\ KindOf(<<"DROP", "CATALOG">>) = "drop catalog" /\ KindOf(<<"DROP", "SCHEMA">>) = "drop schema"
  /\ \A t : t \notin {"CATALOG", "SCHEMA", "TABLE"} => KindOf(<<"CREATE", t>>) = "other"
  /\ \A t : t \notin {"CATALOG", "SCHEMA"} => KindOf(<<"DROP", t>>) = "other"
<1>1. \A s : KindOf(s) \in StatementKinds
  BY DEF KindOf, StatementKinds
<1>2. KindOf(<<"SELECT">>) = "other" /\ KindOf(<<"VACUUM">>) = "vacuum"
  BY DEF KindOf
<1>3. \A t : KindOf(<<"VACUUM", t>>) = "vacuum"
  BY DEF KindOf
<1>4. /\ KindOf(<<"CREATE", "CATALOG">>) = "create catalog" /\ KindOf(<<"CREATE", "SCHEMA">>) = "create schema"
      /\ KindOf(<<"CREATE", "TABLE">>) = "create table"
  BY DEF KindOf
<1>5. KindOf(<<"DROP", "CATALOG">>) = "drop catalog" /\ KindOf(<<"DROP", "SCHEMA">>) = "drop schema"
  BY DEF KindOf
<1>6. \A t : t \notin {"CATALOG", "SCHEMA", "TABLE"} => KindOf(<<"CREATE", t>>) = "other"
  BY DEF KindOf
<1>7. \A t : t \notin {"CATALOG", "SCHEMA"} => KindOf(<<"DROP", t>>) = "other"
  BY DEF KindOf
<1>8. QED
  BY <1>1, <1>2, <1>3, <1>4, <1>5, <1>6, <1>7

\* The division of a script by one more token.
LEMMA Divided ==
  ASSUME segments \in Division, NEW t \in Words, Divide(t)
  PROVE  /\ segments' \in Division
         /\ t \in {";", "EOF"} =>
              /\ segments'.first = <<>> /\ segments'.given = {} /\ segments'.doubled = segments.doubled
              /\ segments'.read = IF segments.first = <<>> THEN segments.read
                                  ELSE Append(segments.read, KindOf(segments.first))
         /\ t \notin {";", "EOF"} =>
              /\ segments'.read = segments.read
              /\ segments'.first = IF Len(segments.first) < 2 THEN Append(segments.first, t) ELSE segments.first
              /\ segments'.given = segments.given \cup ({t} \cap Once)
              /\ segments'.doubled <=>
                   \/ segments.doubled
                   \/ /\ KindOf(segments'.first) # "create table"
                      /\ t \in segments.given \/ {"USING", "MANAGED"} \subseteq segments'.given
<1> DEFINE first == IF Len(segments.first) < 2 THEN Append(segments.first, t) ELSE segments.first
           given == segments.given \cup ({t} \cap Once)
           doubled == segments.doubled \/ (KindOf(first) # "create table" /\ (t \in segments.given \/ {"USING", "MANAGED"} \subseteq given))
           read == IF segments.first = <<>> THEN segments.read ELSE Append(segments.read, KindOf(segments.first))
<1>1. /\ segments.first \in Seq(Words) /\ segments.read \in Seq(StatementKinds)
      /\ segments.given \in SUBSET Words /\ segments.doubled \in BOOLEAN
  BY DEF Division
<1>2. first \in Seq(Words) /\ given \in SUBSET Words /\ doubled \in BOOLEAN
  BY <1>1
<1>3. read \in Seq(StatementKinds)
  <2>1. KindOf(segments.first) \in StatementKinds
    BY FirstTokens
  <2>2. QED
    BY <1>1, <2>1
<1>4. CASE t \in {";", "EOF"}
  <2>1. segments' = [segments EXCEPT !.read = read, !.first = <<>>, !.given = {}]
    BY <1>4 DEF Divide
  <2>2. /\ segments'.read = read /\ segments'.first = <<>> /\ segments'.given = {}
        /\ segments'.doubled = segments.doubled /\ segments' \in Division
    <3> HIDE DEF read
    <3>1. <<>> \in Seq(Words) /\ {} \in SUBSET Words
      OBVIOUS
    <3>2. QED
      BY <1>3, <2>1, <3>1 DEF Division
  <2>3. QED
    BY <1>4, <2>2
<1>5. CASE t \notin {";", "EOF"}
  <2>1. segments' = [segments EXCEPT !.first = first, !.given = given, !.doubled = doubled]
    BY <1>5 DEF Divide
  <2>2. /\ segments'.read = segments.read /\ segments'.first = first /\ segments'.given = given
        /\ segments'.doubled = doubled /\ segments' \in Division
    <3> HIDE DEF first, given, doubled
    <3>1. QED
      BY <1>2, <2>1 DEF Division
  <2>3. QED
    BY <1>5, <2>2
<1>6. QED
  BY <1>4, <1>5

\* A statement that was pushed: only its delimiter may follow, or CASCADE.
LEMMA PushedReader ==
  ASSUME NEW p \in Parser, NEW k \in StatementKinds
  PROVE  /\ Pushed(p, k) \in Parser
         /\ Pushed(p, k).mode = "start" /\ Pushed(p, k).given = {} /\ Pushed(p, k).delimiter
         /\ Pushed(p, k).statements = Append(p.statements, k)
         /\ Pushed(p, k).cascade <=> k \in Drops
<1>0. "other" \in StatementKinds
  BY DEF StatementKinds
<1>1. <<>> \in Seq(Asked) /\ {} \in SUBSET Words
  OBVIOUS
<1>2. Append(p.statements, k) \in Seq(StatementKinds) /\ (k \in Drops) \in BOOLEAN
  BY DEF Parser
<1>3. QED
  BY <1>0, <1>1, <1>2 DEF Pushed, Parser, Drops

\* A script that is rejected, or that nobody wrote the parser for, is forgotten.
LEMMA StopsInv ==
  ASSUME ScriptInv, NEW m \in {"rejected", "panicked"}, Stops(m) PROVE ScriptInv'
<1>1. parse \in Parser
  BY DEF ScriptInv, ReaderInv
<1>2. parse' \in Parser /\ parse'.mode = m
  <2>1. <<>> \in Seq(Asked) /\ <<>> \in Seq(StatementKinds) /\ {} \in SUBSET Words
    OBVIOUS
  <2>2. QED
    BY <1>1, <2>1 DEF Stops, Parser
<1>3. segments' \in Division
  BY DEF Stops, Division
<1>4. QED
  BY <1>2, <1>3 DEF ScriptInv, ReaderInv, DividedInv

\* A statement is pushed of the kind its first tokens say.
LEMMA PushInv ==
  ASSUME ScriptInv, NEW t \in Words, NEW p \in Parser, NEW k \in StatementKinds,
         Moves(t, Pushed(p, k)), t \notin {";", "EOF"},
         p.statements = segments.read, ~segments'.doubled, segments'.first # <<>>,
         k = KindOf(segments'.first), k \in Drops => Len(segments'.first) = 2 /\ segments'.given = {}
  PROVE  ScriptInv'
<1>1. /\ parse' \in Parser /\ parse'.mode = "start" /\ parse'.given = {} /\ parse'.delimiter
      /\ parse'.statements = Append(p.statements, k)
      /\ parse'.cascade <=> k \in Drops
  BY PushedReader DEF Moves
<1>2. segments' \in Division /\ segments'.read = segments.read
  BY Divided DEF Moves, ScriptInv, ReaderInv
<1>3. parse'.statements = Append(segments'.read, KindOf(segments'.first))
  BY <1>1, <1>2
<1>4. parse'.cascade => Len(segments'.first) = 2 /\ segments'.given = {}
  BY <1>1
<1>5. AtStart'
  BY <1>1, <1>3, <1>4 DEF AtStart
<1>6. QED
  BY <1>1, <1>2, <1>5 DEF ScriptInv, ReaderInv, DividedInv

\* A statement begins where the last one was delimited.
LEMMA BeginStatementInv ==
  ASSUME ScriptInv, NEW t \in Words, BeginStatement(t) PROVE ScriptInv'
<1>1. CASE Rejects
  BY <1>1, StopsInv DEF Rejects
<1>2. CASE ~Rejects
  <2> DEFINE p == [parse EXCEPT !.cascade = FALSE]
  <2>1. parse \in Parser /\ segments \in Division /\ parse.mode = "start" /\ ~parse.delimiter /\ parse.given = {}
    BY <1>2 DEF BeginStatement, ScriptInv, ReaderInv
  <2>2. AtStart
    BY <2>1 DEF ScriptInv, DividedInv
  <2>3. /\ segments.first = <<>> /\ segments.given = {} /\ ~segments.doubled
        /\ parse.statements = segments.read
    BY <2>1, <2>2 DEF AtStart
  <2>4. /\ p \in Parser /\ p.given = {} /\ p.statements = segments.read
    BY <2>1, <2>3 DEF Parser
  <2>5. t \in {"CREATE", "DROP", "VACUUM", "SELECT"} /\ t \notin Once
    BY <1>2 DEF BeginStatement, Once
  <2>6. Divide(t)
    BY <1>2 DEF BeginStatement, Moves
  <2>7. /\ segments' \in Division /\ segments'.read = segments.read
        /\ segments'.first = <<t>> /\ segments'.given = {} /\ ~segments'.doubled
    <3>1. Append(<<>>, t) = <<t>> /\ Len(<<>>) < 2
      OBVIOUS
    <3>2. QED
      BY <2>1, <2>3, <2>5, <2>6, <3>1, Divided
  <2> HIDE DEF p
  <2>8. ASSUME NEW m \in {"create", "drop"}, parse' = [p EXCEPT !.mode = m],
               t = IF m = "create" THEN "CREATE" ELSE "DROP"
        PROVE  ScriptInv'
    <3>1. parse' \in Parser /\ parse'.mode = m /\ parse'.given = {} /\ parse'.statements = segments.read
      BY <2>4, <2>8 DEF Parser
    <3>2. QED
      BY <2>7, <2>8, <3>1 DEF ScriptInv, ReaderInv, DividedInv
  <2>9. CASE t = "VACUUM"
    <3>1. parse' = [p EXCEPT !.mode = "clauses", !.kind = "vacuum", !.want = <<"name">>]
      BY <1>2, <2>9 DEF BeginStatement, Moves, p
    <3>2. "vacuum" \in StatementKinds /\ <<"name">> \in Seq(Asked)
      BY DEF StatementKinds, Asked
    <3>3. /\ parse' \in Parser /\ parse'.mode = "clauses" /\ parse'.given = {} /\ parse'.kind = "vacuum"
          /\ parse'.statements = segments.read
      BY <2>4, <3>1, <3>2 DEF Parser
    <3>4. Within'
      BY <2>7, <2>9, <3>3, FirstTokens DEF Within
    <3>5. QED
      BY <2>7, <3>3, <3>4 DEF ScriptInv, ReaderInv, DividedInv, Drops
  <2>10. CASE t = "SELECT"
    <3>1. Moves(t, Pushed(p, "other"))
      BY <1>2, <2>10 DEF BeginStatement, p
    <3>2. "other" \in StatementKinds /\ "other" \notin Drops /\ KindOf(segments'.first) = "other"
      BY <2>7, <2>10, FirstTokens DEF StatementKinds, Drops
    <3>3. segments'.first # <<>>
      BY <2>7
    <3>4. QED
      BY <2>4, <2>7, <2>10, <3>1, <3>2, <3>3, PushInv
  <2>11. QED
    BY <1>2, <2>5, <2>8, <2>9, <2>10 DEF BeginStatement, Moves, p
<1>3. QED
  BY <1>1, <1>2

\* The delimiter closes the statement that was pushed, and only one.
LEMMA DelimitInv ==
  ASSUME ScriptInv, NEW t \in Words, Delimit(t) \/ EndScript(t) PROVE ScriptInv'
<1>1. parse \in Parser /\ segments \in Division /\ parse.mode = "start" /\ parse.given = {} /\ AtStart
  BY DEF Delimit, EndScript, ScriptInv, ReaderInv, DividedInv
<1>2. t \in {";", "EOF"} /\ Divide(t)
  BY DEF Delimit, EndScript, Moves
<1>3. /\ segments' \in Division /\ segments'.first = <<>> /\ segments'.given = {} /\ ~segments'.doubled
      /\ segments'.read = parse.statements
  BY <1>1, <1>2, Divided DEF AtStart
<1>4. /\ parse' \in Parser /\ parse'.mode \in {"start", "parsed"} /\ parse'.given = {} /\ ~parse'.cascade
      /\ parse'.statements = parse.statements
  BY <1>1 DEF Delimit, EndScript, Moves, Parser
<1>5. QED
  BY <1>3, <1>4 DEF ScriptInv, ReaderInv, DividedInv, AtStart

\* CASCADE belongs to the statement that was pushed.
LEMMA CascadeInv ==
  ASSUME ScriptInv, NEW t \in Words, Cascade(t) PROVE ScriptInv'
<1>1. /\ parse \in Parser /\ segments \in Division /\ parse.mode = "start" /\ parse.given = {} /\ AtStart
      /\ parse.cascade /\ t = "CASCADE" /\ Divide(t)
  BY DEF Cascade, Moves, ScriptInv, ReaderInv, DividedInv
<1>2. Len(segments.first) = 2 /\ segments.given = {} /\ ~segments.doubled /\ segments.first # <<>>
  BY <1>1 DEF AtStart
<1>3. t \notin Once /\ t \notin {";", "EOF"}
  BY <1>1 DEF Once
<1>4. /\ segments' \in Division /\ segments'.first = segments.first /\ segments'.given = {} /\ ~segments'.doubled
      /\ segments'.read = segments.read
  <2>1. {t} \cap Once = {} /\ ~(Len(segments.first) < 2) /\ ~({"USING", "MANAGED"} \subseteq {})
    <3>1. {t} \cap Once = {} /\ ~({"USING", "MANAGED"} \subseteq {})
      BY <1>3
    <3>2. ~(Len(segments.first) < 2)
      BY <1>2
    <3>3. QED
      BY <3>1, <3>2
  <2>2. segments' \in Division /\ segments'.first = segments.first /\ segments'.read = segments.read
    BY <1>1, <1>3, <2>1, Divided
  <2>3. segments'.given = segments.given \cup ({t} \cap Once)
    BY <1>1, <1>3, Divided
  <2>4. segments'.given = {}
    BY <1>2, <2>1, <2>3
  <2>5. ~segments'.doubled
    BY <1>1, <1>2, <1>3, <2>1, <2>4, Divided
  <2>6. QED
    BY <2>2, <2>4, <2>5
<1>5. /\ parse' \in Parser /\ parse'.mode = "start" /\ parse'.given = {} /\ ~parse'.cascade
      /\ parse'.statements = parse.statements /\ parse'.delimiter = parse.delimiter
  BY <1>1 DEF Cascade, Moves, Parser
<1>6. AtStart'
  BY <1>1, <1>2, <1>4, <1>5 DEF AtStart
<1>7. QED
  BY <1>4, <1>5, <1>6 DEF ScriptInv, ReaderInv, DividedInv

\* The heads of the statements on the catalog.
LEMMA Heads ==
  /\ DOMAIN CreateHeads = {"CATALOG", "SCHEMA", "TABLE"} /\ DOMAIN DropHeads = {"CATALOG", "SCHEMA"}
  /\ \A t \in DOMAIN CreateHeads : CreateHeads[t] \in Seq(Asked)
  /\ \A t \in DOMAIN DropHeads : DropHeads[t] \in Seq(Asked) /\ DropHeads[t] # <<>>
<1>1. {"if not exists", "if exists", "name1", "name12", "name", "columns"} \subseteq Asked
  BY DEF Asked
<1>2. DOMAIN CreateHeads = {"CATALOG", "SCHEMA", "TABLE"} /\ DOMAIN DropHeads = {"CATALOG", "SCHEMA"}
  BY DEF CreateHeads, DropHeads
<1>3. ASSUME NEW t \in DOMAIN CreateHeads PROVE CreateHeads[t] \in Seq(Asked)
  <2>1. /\ CreateHeads["CATALOG"] = <<"if not exists", "name1">>
        /\ CreateHeads["SCHEMA"] = <<"if not exists", "name12">>
        /\ CreateHeads["TABLE"] = <<"if not exists", "name", "columns">>
    BY DEF CreateHeads
  <2>2. /\ <<"if not exists", "name1">> \in Seq(Asked) /\ <<"if not exists", "name12">> \in Seq(Asked)
        /\ <<"if not exists", "name", "columns">> \in Seq(Asked)
    BY <1>1, AskedSeqs
  <2>3. QED
    BY <1>2, <1>3, <2>1, <2>2
<1>4. ASSUME NEW t \in DOMAIN DropHeads PROVE DropHeads[t] \in Seq(Asked) /\ DropHeads[t] # <<>>
  <2>1. DropHeads["CATALOG"] = <<"if exists", "name1">> /\ DropHeads["SCHEMA"] = <<"if exists", "name12">>
    BY DEF DropHeads
  <2>2. \A a, b : <<a, b>> # <<>>
    OBVIOUS
  <2>3. QED
    BY <1>1, <1>2, <1>4, <2>1, <2>2, AskedSeqs
<1>5. QED
  BY <1>2, <1>3, <1>4

\* The second token says whose statement it is.
LEMMA ReadHeadInv ==
  ASSUME ScriptInv, NEW t \in Words, ReadCreate(t) \/ ReadDrop(t) PROVE ScriptInv'
<1>1. CASE Rejects \/ Stops("panicked")
  BY <1>1, StopsInv DEF Rejects
<1>2. CASE ~(Rejects \/ Stops("panicked"))
  <2> DEFINE verb == IF parse.mode = "create" THEN "CREATE" ELSE "DROP"
  <2>1. /\ parse \in Parser /\ segments \in Division /\ parse.mode \in {"create", "drop"} /\ parse.given = {}
        /\ parse.statements = segments.read /\ ~segments.doubled /\ segments.given = {}
        /\ segments.first = <<verb>>
    BY DEF ReadCreate, ReadDrop, ScriptInv, ReaderInv, DividedInv
  <2>2. t \notin {";", "EOF"} /\ Divide(t)
    BY <1>2, Heads DEF ReadCreate, ReadDrop, Moves
  <2>3. /\ segments' \in Division /\ segments'.read = segments.read
        /\ segments'.first = <<verb, t>> /\ segments'.given = {t} \cap Once /\ ~segments'.doubled
    <3>1. Append(<<verb>>, t) = <<verb, t>> /\ Len(<<verb>>) < 2
      <4>1. verb \in Words
        BY DEF Words
      <4> HIDE DEF verb
      <4>2. QED
        BY <4>1, TwoTokens
    <3>2. ~({"USING", "MANAGED"} \subseteq {t} \cap Once)
      OBVIOUS
    <3>3. QED
      BY <2>1, <2>2, <3>1, <3>2, Divided
  <2>4. Len(segments'.first) = 2 /\ segments'.first # <<>>
    BY <2>3
  <2>5. CASE Moves(t, Pushed(parse, "other")) /\ KindOf(<<verb, t>>) = "other"
    <3>1. "other" \in StatementKinds /\ "other" \notin Drops
      BY DEF StatementKinds, Drops
    <3>2. KindOf(segments'.first) = "other"
      BY <2>3, <2>5
    <3>3. QED
      BY <2>1, <2>2, <2>3, <2>4, <2>5, <3>1, <3>2, PushInv
  <2>6. ASSUME NEW w \in Seq(Asked),
               parse' = [parse EXCEPT !.mode = "clauses", !.kind = KindOf(<<verb, t>>), !.want = w],
               t \in {"CATALOG", "SCHEMA", "TABLE"}, KindOf(<<verb, t>>) # "other",
               KindOf(<<verb, t>>) \in Drops => w # <<>>
        PROVE  ScriptInv'
    <3>1. KindOf(<<verb, t>>) \in StatementKinds
      BY FirstTokens
    <3>2. /\ parse' \in Parser /\ parse'.mode = "clauses" /\ parse'.given = {} /\ parse'.want = w
          /\ parse'.kind = KindOf(<<verb, t>>) /\ parse'.statements = segments.read
      BY <2>1, <2>6, <3>1 DEF Parser
    <3>3. {t} \cap Once = {}
      BY <2>6 DEF Once
    <3>4. Within'
      BY <2>3, <2>4, <3>2, <3>3 DEF Within
    <3>5. QED
      BY <2>3, <2>6, <3>2, <3>4 DEF ScriptInv, ReaderInv, DividedInv
  <2>7. CASE ReadCreate(t)
    <3>1. verb = "CREATE"
      BY <2>7 DEF ReadCreate
    <3>2. CASE t \in DOMAIN CreateHeads
      <4>1. t \in {"CATALOG", "SCHEMA", "TABLE"} /\ CreateHeads[t] \in Seq(Asked)
        BY <3>2, Heads
      <4>2. KindOf(<<verb, t>>) \notin Drops \cup {"other"}
        BY <3>1, <4>1, FirstTokens DEF Drops
      <4>3. parse' = [parse EXCEPT !.mode = "clauses", !.kind = KindOf(<<verb, t>>), !.want = CreateHeads[t]]
        BY <2>7, <3>1, <3>2 DEF ReadCreate, Moves
      <4>4. QED
        BY <2>6, <4>1, <4>2, <4>3
    <3>3. CASE t \notin DOMAIN CreateHeads
      BY <1>2, <2>2, <2>5, <2>7, <3>1, <3>3, Heads, FirstTokens DEF ReadCreate
    <3>4. QED
      BY <3>2, <3>3
  <2>8. CASE ReadDrop(t)
    <3>1. verb = "DROP"
      BY <2>8 DEF ReadDrop
    <3>2. CASE t \in DOMAIN DropHeads
      <4>1. t \in {"CATALOG", "SCHEMA"} /\ DropHeads[t] \in Seq(Asked) /\ DropHeads[t] # <<>>
        BY <3>2, Heads
      <4>2. KindOf(<<verb, t>>) # "other"
        BY <3>1, <4>1, FirstTokens
      <4>3. parse' = [parse EXCEPT !.mode = "clauses", !.kind = KindOf(<<verb, t>>), !.want = DropHeads[t]]
        BY <2>8, <3>1, <3>2 DEF ReadDrop, Moves
      <4>4. QED
        BY <2>6, <4>1, <4>2, <4>3
    <3>3. CASE t \notin DOMAIN DropHeads
      BY <1>2, <2>2, <2>5, <2>8, <3>1, <3>3, Heads, FirstTokens DEF ReadDrop
    <3>4. QED
      BY <3>2, <3>3
  <2>9. QED
    BY <2>7, <2>8
<1>3. QED
  BY <1>1, <1>2

\* A sequence of two has no room for another.
LEMMA TwoLong ==
  ASSUME NEW s, Len(s) = 2 PROVE ~(Len(s) < 2) /\ s # <<>>
<1>1. Len(<<>>) = 0 /\ 0 # 2
  BY EmptySeq
<1>2. ~(2 < 2)
  OBVIOUS
<1>3. QED
  BY <1>1, <1>2

\* One more token of a statement leaves its kind what it was.
LEMMA FirstGrows ==
  ASSUME segments \in Division, Within, NEW t \in Words, t \notin {";", "EOF"}, Divide(t)
  PROVE  Len(segments'.first) = 2 /\ segments'.first # <<>> /\ KindOf(segments'.first) = KindOf(segments.first)
<1>1. segments'.first = IF Len(segments.first) < 2 THEN Append(segments.first, t) ELSE segments.first
  BY Divided
<1>2. CASE segments.first = <<"VACUUM">>
  <2>1. "VACUUM" \in Words
    BY DEF Words
  <2>2. segments'.first = <<"VACUUM", t>>
    BY <1>1, <1>2, <2>1, TwoTokens
  <2>3. Len(segments'.first) = 2 /\ segments'.first # <<>>
    <3>1. \A a, b : Len(<<a, b>>) = 2 /\ <<a, b>> # <<>>
      OBVIOUS
    <3>2. QED
      BY <2>2, <3>1
  <2>4. KindOf(segments'.first) = "vacuum" /\ KindOf(segments.first) = "vacuum"
    BY <1>2, <2>2, FirstTokens
  <2>5. QED
    BY <2>3, <2>4
<1>3. CASE Len(segments.first) = 2
  <2>1. segments'.first = segments.first
    <3>1. ~(Len(segments.first) < 2)
      BY <1>3, TwoLong
    <3>2. QED
      BY <1>1, <3>1
  <2>2. segments.first # <<>>
    BY <1>3, TwoLong
  <2>3. QED
    BY <1>3, <2>1, <2>2
<1>4. QED
  BY <1>2, <1>3 DEF Within

\* Within a statement a token is a clause that is new, or none; only a catalog can
\* have a location beside a share.
LEMMA WithinInv ==
  ASSUME parse \in Parser, segments \in Division, Within, NEW t \in Words, t \notin {";", "EOF"}, Divide(t),
         parse' \in Parser, parse'.kind = parse.kind, parse'.statements = parse.statements,
         parse.kind # "other", parse'.given \subseteq DOMAIN Clause(parse.kind),
         parse.given \subseteq parse'.given,
         parse'.given \cap Once = (parse.given \cap Once) \cup ({t} \cap Once),
         t \in parse.given /\ t \in Once => parse.kind = "create table"
  PROVE  Within'
<1>1. /\ segments'.read = segments.read /\ segments'.given = segments.given \cup ({t} \cap Once)
      /\ segments'.doubled <=>
           \/ segments.doubled
           \/ /\ KindOf(segments'.first) # "create table"
              /\ t \in segments.given \/ {"USING", "MANAGED"} \subseteq segments'.given
  BY Divided
<1>2. Len(segments'.first) = 2 /\ parse'.kind = KindOf(segments'.first)
  BY FirstGrows DEF Within
<1>3. segments'.given = parse'.given \cap Once
  BY <1>1 DEF Within
<1>4. parse'.statements = segments'.read
  BY <1>1 DEF Within
<1>5. ASSUME segments'.doubled PROVE parse'.kind = "create catalog" /\ {"USING", "MANAGED"} \subseteq parse'.given
  <2>1. CASE segments.doubled
    BY <2>1 DEF Within
  <2>2. CASE KindOf(segments'.first) # "create table" /\ t \in segments.given
    BY <1>2, <2>2 DEF Within
  <2>3. CASE {"USING", "MANAGED"} \subseteq segments'.given
    <3>1. {"USING", "MANAGED"} \subseteq parse'.given
      BY <1>3, <2>3
    <3>2. {"USING", "MANAGED"} \subseteq DOMAIN Clause(parse.kind)
      BY <3>1
    <3>3. parse.kind \in StatementKinds
      BY DEF Parser
    <3>4. parse.kind = "create catalog"
      BY <3>2, <3>3, ClauseNames DEF StatementKinds, Drops
    <3>5. QED
      BY <3>1, <3>4
  <2>4. QED
    BY <1>1, <1>5, <2>1, <2>2, <2>3
<1>6. QED
  BY <1>2, <1>3, <1>4, <1>5 DEF Within

\* A token that is wanted is no delimiter.
LEMMA AcceptedIsNoEnd ==
  ASSUME NEW w \in Asked PROVE Accepted(w) \cap {";", "EOF"} = {}
  BY DEF Asked, Accepted, OptionKeys, ObjectNames

\* A head or a clause is read further, and a DROP is pushed at the end of its head.
LEMMA ReadWantedInv ==
  ASSUME ScriptInv, NEW t \in Words, ReadWanted(t) PROVE ScriptInv'
<1>1. CASE Rejects
  BY <1>1, StopsInv DEF Rejects
<1>2. CASE ~Rejects
  <2> DEFINE absent == parse.want # <<>> /\ parse.want[1] \in {"if not exists", "if exists"} /\ t \notin Accepted(parse.want[1])
             want == IF absent THEN Tail(parse.want) ELSE parse.want
             p == [parse EXCEPT !.want = Followed(want[1], t) \o Tail(want)]
  <2>1. /\ parse \in Parser /\ segments \in Division /\ parse.mode = "clauses" /\ Within
        /\ parse.kind # "other" /\ parse.given \subseteq DOMAIN Clause(parse.kind)
        /\ parse.kind \in Drops => parse.given = {} /\ parse.want # <<>>
    BY DEF ReadWanted, ScriptInv, ReaderInv, DividedInv
  <2>2. want \in Seq(Asked) /\ want # <<>>
    <3>1. parse.want \in Seq(Asked)
      BY <2>1 DEF Parser
    <3>2. want # <<>>
      BY DEF ReadWanted
    <3>3. absent => Tail(parse.want) \in Seq(Asked)
      BY <3>1, HeadTailProperties
    <3>4. QED
      BY <3>1, <3>2, <3>3
  <2>3. t \in Accepted(want[1])
    BY <1>2 DEF ReadWanted
  <2>4. IF p.want = <<>> /\ p.kind \in Drops THEN Moves(t, Pushed(p, p.kind)) ELSE Moves(t, p)
    BY <1>2, <2>3 DEF ReadWanted, Drops
  <2> HIDE DEF absent, want
  <2>5. want[1] \in Asked /\ Tail(want) \in Seq(Asked)
    BY <2>2, HeadTailProperties
  <2>6. Followed(want[1], t) \o Tail(want) \in Seq(Asked)
    BY <2>5, FollowedAsks, ConcatProperties
  <2>7. t \notin Once /\ t \notin {";", "EOF"}
    BY <2>3, <2>5, AskedIsNoClause, AcceptedIsNoEnd
  <2>8. /\ p \in Parser /\ p.mode = "clauses" /\ p.kind = parse.kind /\ p.given = parse.given
        /\ p.statements = parse.statements
    BY <2>1, <2>6 DEF Parser
  <2> HIDE DEF p
  <2>9. Divide(t)
    BY <2>4 DEF Moves
  <2>10. CASE parse' = p
    <3>1. parse'.given \cap Once = (parse.given \cap Once) \cup ({t} \cap Once)
      BY <2>7, <2>8, <2>10
    <3>2. parse'.given \subseteq DOMAIN Clause(parse.kind) /\ parse.given \subseteq parse'.given
      BY <2>1, <2>8, <2>10
    <3>3. /\ parse' \in Parser /\ parse'.kind = parse.kind /\ parse'.statements = parse.statements
          /\ parse'.mode = "clauses"
      BY <2>8, <2>10
    <3>4. Within'
      BY <2>1, <2>7, <2>9, <3>1, <3>2, <3>3, WithinInv
    <3>5. segments' \in Division
      BY <2>1, <2>9, Divided
    <3>6. parse.kind \in Drops => parse'.given = {} /\ parse'.want # <<>>
      <4>1. parse.kind \in Drops => p.want # <<>>
        <5>1. SUFFICES ASSUME parse.kind \in Drops, p.want = <<>> PROVE FALSE
          OBVIOUS
        <5>2. parse' = Pushed(p, p.kind)
          BY <2>4, <2>8, <5>1 DEF Moves
        <5>3. p.kind \in StatementKinds
          BY <2>8 DEF Parser
        <5>4. parse'.mode = "start"
          BY <2>8, <5>2, <5>3, PushedReader
        <5>5. QED
          BY <3>3, <5>4
      <4>2. QED
        BY <2>1, <2>8, <2>10, <4>1
    <3>7. QED
      BY <2>1, <3>2, <3>3, <3>4, <3>5, <3>6 DEF ScriptInv, ReaderInv, DividedInv
  <2>11. CASE Moves(t, Pushed(p, p.kind)) /\ p.kind \in Drops
    <3>1. Len(segments'.first) = 2 /\ segments'.first # <<>> /\ KindOf(segments'.first) = parse.kind
      BY <2>1, <2>7, <2>9, FirstGrows DEF Within
    <3>2. segments.given = {} /\ ~segments.doubled
      BY <2>1, <2>8, <2>11 DEF Within, Drops
    <3>3. segments'.given = {}
      BY <2>1, <2>7, <2>9, <3>2, Divided
    <3>4. ~segments'.doubled
      <4>1. ~({"USING", "MANAGED"} \subseteq {}) /\ t \notin {}
        OBVIOUS
      <4>2. QED
        BY <2>1, <2>7, <2>9, <3>2, <3>3, <4>1, Divided
    <3>5. p.kind \in StatementKinds
      BY <2>8 DEF Parser
    <3>6. p.statements = segments.read
      BY <2>1, <2>8 DEF Within
    <3>7. p.kind = KindOf(segments'.first)
      BY <2>8, <3>1
    <3>8. QED
      BY <2>7, <2>8, <2>11, <3>1, <3>3, <3>4, <3>5, <3>6, <3>7, PushInv
  <2>12. QED
    BY <2>4, <2>10, <2>11 DEF Moves
<1>3. QED
  BY <1>1, <1>2

\* A clause is new, or the statement creates a table.
LEMMA BeginClauseInv ==
  ASSUME ScriptInv, NEW t \in Words, BeginClause(t) PROVE ScriptInv'
<1>1. CASE Rejects
  BY <1>1, StopsInv DEF Rejects
<1>2. CASE ~Rejects
  <2>1. /\ parse \in Parser /\ segments \in Division /\ parse.mode = "clauses" /\ Within
        /\ parse.kind \in StatementKinds \ (Drops \cup {"other"})
        /\ parse.given \subseteq DOMAIN Clause(parse.kind)
        /\ t \in DOMAIN Clause(parse.kind)
    BY DEF BeginClause, ScriptInv, ReaderInv, DividedInv, Parser
  <2>2. /\ parse' = [parse EXCEPT !.given = @ \union {t}, !.want = Clause(parse.kind)[t]] /\ Divide(t)
        /\ t \in parse.given /\ t \in Once => parse.kind = "create table"
    BY <1>2 DEF BeginClause, Moves
  <2>3. t \notin {";", "EOF"}
    BY <2>1, ClauseNames DEF StatementKinds, Drops
  <2>4. /\ parse' \in Parser /\ parse'.mode = "clauses" /\ parse'.kind = parse.kind
        /\ parse'.given = parse.given \cup {t} /\ parse'.statements = parse.statements
    <3>1. Clause(parse.kind)[t] \in Seq(Asked)
      BY <2>1, ClauseAsks
    <3>2. parse.given \cup {t} \in SUBSET Words
      BY <2>1 DEF Parser
    <3>3. QED
      BY <2>1, <2>2, <3>1, <3>2 DEF Parser
  <2>5. parse'.given \subseteq DOMAIN Clause(parse.kind) /\ parse.given \subseteq parse'.given
    BY <2>1, <2>4
  <2>6. parse'.given \cap Once = (parse.given \cap Once) \cup ({t} \cap Once)
    BY <2>4
  <2>7. Within'
    BY <2>1, <2>2, <2>3, <2>4, <2>5, <2>6, WithinInv
  <2>8. segments' \in Division
    BY <2>1, <2>2, Divided
  <2>9. QED
    BY <2>1, <2>4, <2>5, <2>7, <2>8 DEF ScriptInv, ReaderInv, DividedInv
<1>3. QED
  BY <1>1, <1>2

\* The end of the statement refuses the catalog that has a location beside a share.
LEMMA EndClausesInv ==
  ASSUME ScriptInv, NEW t \in Words, EndClauses(t) PROVE ScriptInv'
<1>1. CASE Rejects
  BY <1>1, StopsInv DEF Rejects
<1>2. CASE ~Rejects
  <2>1. /\ parse \in Parser /\ segments \in Division /\ parse.mode = "clauses" /\ Within
        /\ parse.kind \in StatementKinds \ Drops
    BY DEF EndClauses, ScriptInv, ReaderInv, DividedInv, Parser
  <2>2. /\ t \in {";", "EOF"} /\ Divide(t)
        /\ parse' = [Pushed(parse, parse.kind) EXCEPT !.mode = IF t = "EOF" THEN "parsed" ELSE @]
        /\ ~(parse.kind = "create catalog" /\ {"USING", "MANAGED"} \subseteq parse.given)
    BY <1>2 DEF EndClauses, Moves
  <2>3. ~segments.doubled
    BY <2>1, <2>2 DEF Within
  <2>4. segments.first # <<>>
    <3>1. <<"VACUUM">> # <<>>
      OBVIOUS
    <3>2. Len(segments.first) = 2 => segments.first # <<>>
      BY TwoLong
    <3>3. QED
      BY <2>1, <3>1, <3>2 DEF Within
  <2>5. /\ segments' \in Division /\ segments'.first = <<>> /\ segments'.given = {} /\ ~segments'.doubled
        /\ segments'.read = Append(segments.read, KindOf(segments.first))
    BY <2>1, <2>2, <2>3, <2>4, Divided
  <2>6. /\ parse' \in Parser /\ parse'.mode \in {"start", "parsed"} /\ parse'.given = {} /\ ~parse'.cascade
        /\ parse'.statements = Append(parse.statements, parse.kind)
    <3> DEFINE q == Pushed(parse, parse.kind)
    <3>1. /\ q \in Parser /\ q.mode = "start" /\ q.given = {} /\ ~q.cascade
          /\ q.statements = Append(parse.statements, parse.kind)
      BY <2>1, PushedReader
    <3> HIDE DEF q
    <3>2. parse' = [q EXCEPT !.mode = IF t = "EOF" THEN "parsed" ELSE @]
      BY <2>2 DEF q
    <3>3. QED
      BY <3>1, <3>2 DEF Parser
  <2>7. parse'.statements = segments'.read
    BY <2>1, <2>5, <2>6 DEF Within
  <2>8. AtStart'
    BY <2>5, <2>6, <2>7 DEF AtStart
  <2>9. QED
    BY <2>5, <2>6, <2>7, <2>8 DEF ScriptInv, ReaderInv, DividedInv
<1>3. QED
  BY <1>1, <1>2

\* Every script, however it goes on, is read as its delimiters divide it.
THEOREM ScriptInvariant == ScriptsSpec => []ScriptInv
<1>1. ScriptsInit => ScriptInv
  <2> SUFFICES ASSUME ScriptsInit PROVE ScriptInv
    OBVIOUS
  <2>1. /\ <<>> \in Seq(Asked) /\ <<>> \in Seq(StatementKinds) /\ <<>> \in Seq(Words) /\ {} \in SUBSET Words
        /\ "other" \in StatementKinds
    BY DEF StatementKinds
  <2>2. parse \in Parser /\ parse.mode = "start" /\ parse.given = {} /\ ~parse.cascade /\ parse.statements = <<>>
    BY <2>1 DEF ScriptsInit, Parser
  <2>3. /\ segments \in Division /\ segments.first = <<>> /\ segments.given = {} /\ segments.read = <<>>
        /\ ~segments.doubled
    BY <2>1 DEF ScriptsInit, Division
  <2>4. QED
    BY <2>2, <2>3 DEF ScriptInv, ReaderInv, DividedInv, AtStart
<1>2. ScriptInv /\ [ScriptsNext]_scriptVars => ScriptInv'
  <2> SUFFICES ASSUME ScriptInv, [ScriptsNext]_scriptVars PROVE ScriptInv'
    OBVIOUS
  <2>1. CASE UNCHANGED scriptVars
    BY <2>1 DEF ScriptInv, ReaderInv, DividedInv, AtStart, Within, scriptVars
  <2>2. CASE ScriptsNext
    BY <2>2, BeginStatementInv, DelimitInv, CascadeInv, ReadHeadInv, ReadWantedInv, BeginClauseInv, EndClausesInv
       DEF ScriptsNext
  <2>3. QED
    BY <2>1, <2>2
<1>3. QED
  BY <1>1, <1>2, PTL DEF ScriptsSpec

\* An accepted script is the statements its delimiters divide it into, whatever their number, and none
\* of them was given a clause twice or a location beside a share; so a script planned for the catalog
\* is that one statement.
THEOREM ScriptsAreWholeHolds == ScriptsSpec => []ScriptsAreWhole
<1>1. ScriptInv => ScriptsAreWhole
  BY DEF ScriptInv, DividedInv, ScriptsAreWhole, PlansUnity
<1>2. QED
  BY <1>1, ScriptInvariant, PTL

\* The parser's state is well typed, and so is the division of the script.
THEOREM ScriptsTypesHold == ScriptsSpec => []ScriptsTypeOK
<1>1. ScriptInv => ScriptsTypeOK
  BY DEF ScriptInv, ReaderInv, Division, ScriptsTypeOK
<1>2. QED
  BY <1>1, ScriptInvariant, PTL
=============================================================================
