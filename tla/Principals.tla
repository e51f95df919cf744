------------------------------ MODULE Principals ------------------------------
(***************************************************************************)
(* Whom a request of the query server runs as: the principal and the Unity *)
(* Catalog token of its headers (identity.rs), the enrichment of the       *)
(* principal behind a process-wide cache, and the session it is given      *)
(* (engine.rs, server.rs).  The identity provider is external: it answers  *)
(* with facts of the principal, or fails.  An enrichment is modelled by    *)
(* the principal whose facts it holds.  Requests run concurrently; the     *)
(* sweeper evicts sessions.                                                *)
(***************************************************************************)
EXTENDS Naturals

CONSTANTS Requests, \* request tasks of clients that present no session id
          Uids,     \* principals
          Tokens,   \* Unity Catalog tokens of users
          Shared,   \* the token of the server itself
          Nobody    \* no principal: the enrichment without any fact

ASSUME PrincipalsAssumption == Shared \notin Tokens /\ Nobody \notin Uids

VARIABLES enriched, \* Engine.enrichment_cache: whose facts a principal's entry holds
          kept,     \* SessionStore.sessions under an ephemeral key
          req,      \* the requests
          told      \* principals the provider answered for (history)

principalVars == <<enriched, kept, req, told>>

\* What a session binds: a principal, the token of its factory, an enrichment.
Bound == [uid : Uids, token : Tokens \union {Shared}, facts : Uids \union {Nobody}]
Unbound == [uid |-> Nobody, token |-> Shared, facts |-> Nobody]
SessionKeys == [uid : Uids, token : Tokens \union {Shared}]

PrincipalsRequest ==
  [stage : {"new", "lookup", "answered", "enriched", "built", "served"},
   uid : Uids \union {Nobody}, token : Tokens \union {Shared},
   facts : Uids \union {Nobody}, session : Bound \union {Unbound}]

NoPrincipal == [stage |-> "new", uid |-> Nobody, token |-> Shared, facts |-> Nobody,
                session |-> Unbound]

PrincipalsTypeOK ==
  /\ enriched \in [Uids -> Uids \union {Nobody}]
  /\ kept \in [SessionKeys -> Bound \union {Unbound}]
  /\ req \in [Requests -> PrincipalsRequest]
  /\ told \in SUBSET Uids

PrincipalsInit ==
  /\ enriched = [u \in Uids |-> Nobody]
  /\ kept = [k \in SessionKeys |-> Unbound]
  /\ req = [r \in Requests |-> NoPrincipal]
  /\ told = {}

-----------------------------------------------------------------------------
\* principal_from_headers and uc_token_from_*: an absent uid is the anonymous one, an empty token
\* none.  A request whose uid does not parse ends here.
Headers(r) ==
  /\ req[r].stage = "new"
  /\ \E u \in Uids, t \in Tokens \union {Shared} :
       req' = [req EXCEPT ![r].stage = "lookup", ![r].uid = u, ![r].token = t]
  /\ UNCHANGED <<enriched, kept, told>>

\* Engine::enrich: the cache, or the provider, whose answer is on its way.
Lookup(r) ==
  LET u == req[r].uid IN
  /\ req[r].stage = "lookup"
  /\ IF enriched[u] # Nobody
     THEN /\ req' = [req EXCEPT ![r].stage = "enriched", ![r].facts = enriched[u]]
          /\ UNCHANGED told
     ELSE /\ req' = [req EXCEPT ![r].stage = "answered", ![r].facts = u]
          /\ told' = told \union {u}
  /\ UNCHANGED <<enriched, kept>>

\* The request ends, in an error or with its response.
End(r) == req' = [req EXCEPT ![r] = NoPrincipal]

\* Mutant: a principal the provider fails for goes on without facts.
ProviderFailsOpen(r) ==
  /\ req[r].stage = "lookup"
  /\ enriched[req[r].uid] = Nobody
  /\ req' = [req EXCEPT ![r].stage = "enriched"]
  /\ UNCHANGED <<enriched, kept, told>>

ProviderFails(r) ==
  /\ req[r].stage = "lookup"
  /\ enriched[req[r].uid] = Nobody
  /\ End(r)
  /\ UNCHANGED <<enriched, kept, told>>

CacheFacts(r) ==
  /\ req[r].stage = "answered"
  /\ enriched' = [enriched EXCEPT ![req[r].uid] = req[r].facts]
  /\ req' = [req EXCEPT ![r].stage = "enriched"]
  /\ UNCHANGED <<kept, told>>

\* Mutant: the key leaves the token out.
KeyOfUid(r) == [uid |-> req[r].uid, token |-> Shared]

\* "ephemeral:{uid}:{fingerprint of the token, or shared}"
EphemeralKey(r) == [uid |-> req[r].uid, token |-> req[r].token]

\* new_session: a factory for the token, a context for the principal.
NewBound(r) == [uid |-> req[r].uid, token |-> req[r].token, facts |-> req[r].facts]

\* ephemeral_for: the session stored under the key; or one is built, which may fail.
EphemeralFor(r) ==
  LET stored == kept[EphemeralKey(r)] IN
  /\ req[r].stage = "enriched"
  /\ \/ /\ stored # Unbound
        /\ req' = [req EXCEPT ![r].stage = "served", ![r].session = stored]
     \/ /\ stored = Unbound
        /\ \/ End(r)
           \/ req' = [req EXCEPT ![r].stage = "built", ![r].session = NewBound(r)]
  /\ UNCHANGED <<enriched, kept, told>>

\* entry(key).or_insert(session)
OrInsert(r) ==
  LET stored == kept[EphemeralKey(r)] IN
  /\ req[r].stage = "built"
  /\ IF stored # Unbound
     THEN /\ req' = [req EXCEPT ![r].stage = "served", ![r].session = stored]
          /\ UNCHANGED kept
     ELSE /\ req' = [req EXCEPT ![r].stage = "served"]
          /\ kept' = [kept EXCEPT ![EphemeralKey(r)] = req[r].session]
  /\ UNCHANGED <<enriched, told>>

Respond(r) ==
  /\ req[r].stage = "served"
  /\ End(r)
  /\ UNCHANGED <<enriched, kept, told>>

Evict(k) ==
  /\ kept[k] # Unbound
  /\ kept' = [kept EXCEPT ![k] = Unbound]
  /\ UNCHANGED <<enriched, req, told>>

PrincipalsNext ==
  \/ \E k \in SessionKeys : Evict(k)
  \/ \E r \in Requests :
       \/ Headers(r) \/ Lookup(r) \/ ProviderFails(r) \/ CacheFacts(r)
       \/ EphemeralFor(r) \/ OrInsert(r) \/ Respond(r)

PrincipalsSpec == PrincipalsInit /\ [][PrincipalsNext]_principalVars

-----------------------------------------------------------------------------
OwnCredentials ==
  \A r \in Requests : req[r].stage = "served" =>
    req[r].session.uid = req[r].uid /\ req[r].session.token = req[r].token

FactsAreTold ==
  /\ \A k \in SessionKeys : kept[k] # Unbound => kept[k].facts = k.uid /\ k.uid \in told
  /\ \A r \in Requests : req[r].stage = "served" =>
       req[r].session.facts = req[r].uid /\ req[r].uid \in told

\* A request runs as the principal and with the catalog token of its own headers, whichever session
\* it is given and whoever built it (docs/adr/0004: no credentials of another principal); and with
\* facts the provider gave for that very principal ("Fail-closed: a provider error propagates",
\* engine.rs), in its own session and in one kept for later requests.
RunsAsItself == OwnCredentials /\ FactsAreTold
=============================================================================
