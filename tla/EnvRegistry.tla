------------------------------ MODULE EnvRegistry ------------------------------
(***************************************************************************)
(* environments.json: the commands that change it run one after another on *)
(* the main thread, read the whole of it and write the whole of it in      *)
(* place, and the application may end at any moment.  An id is the slug of *)
(* a name, a sequence of words, with a number behind it when it is taken.  *)
(***************************************************************************)
EXTENDS Naturals, Sequences

CONSTANTS Slugs,     \* slugs of the names a user may give
          ModuleSets, \* sets of modules a user may select
          MaxEnvs    \* environments there may be (bound)

ASSUME RegistryAssumption ==
  /\ \A s \in Slugs : Len(s) \in Nat /\ s = [i \in 1..Len(s) |-> s[i]]
  /\ {} \in ModuleSets /\ MaxEnvs \in Nat

VARIABLES registry, \* the file, which does not parse while it is written and when that was broken off
          homes,    \* the ids with directories on the disk
          writer,   \* the command on the main thread
          promised, \* (history) the environments commands have answered with, as they answered
          broken    \* (history) a write was broken off

registryVars == <<registry, homes, writer, promised, broken>>

Suffixed(s, n) == IF n = 1 THEN s ELSE Append(s, n)
Ids == {Suffixed(s, n) : s \in Slugs, n \in 1..(MaxEnvs + 1)}
EnvRecord == [id : Ids, modules : ModuleSets]
Listed(l) == {l[i] : i \in 1..Len(l)}

RegistryTypeOK ==
  /\ registry \in [torn : BOOLEAN, envs : Seq(EnvRecord)]
  /\ homes \in SUBSET Ids
  /\ writer \in [step : {"idle", "dirs", "write", "writing"}, envs : Seq(EnvRecord), at : 0..MaxEnvs]
  /\ promised \in SUBSET EnvRecord
  /\ broken \in BOOLEAN

NoCommand == [step |-> "idle", envs |-> <<>>, at |-> 0]

\* A fresh installation has no file, which reads as an empty registry.
RegistryInit ==
  /\ registry = [torn |-> FALSE, envs |-> <<>>]
  /\ homes = {} /\ writer = NoCommand
  /\ promised = {} /\ broken = FALSE

-----------------------------------------------------------------------------
\* Mutant: the number behind the slug counts the environments of that slug.
CountedId(s, envs) ==
  Suffixed(s, 1 + Len(SelectSeq(envs, LAMBDA e : e.id[1] = s[1])))

\* allocate_env_id: the first of slug, slug-2, slug-3 ... that is not taken.
AllocateId(s, envs) ==
  LET taken == {e.id : e \in Listed(envs)}
      free == {n \in 1..(Len(envs) + 1) : Suffixed(s, n) \notin taken} IN
  Suffixed(s, CHOOSE n \in free : \A k \in free : n <= k)

\* at: the environment the command is about.
Proceeds(step, envs, at) == writer' = [step |-> step, envs |-> envs, at |-> at]
Changes == writer.step = "idle"

\* Mutant: a registry that does not parse is read as a fresh one.
CreateOrStartOver(s) ==
  LET envs == IF registry.torn THEN <<>> ELSE registry.envs IN
  /\ Changes /\ Len(envs) < MaxEnvs
  /\ Proceeds("dirs", Append(envs, [id |-> AllocateId(s, envs), modules |-> {}]), Len(envs) + 1)
  /\ UNCHANGED <<registry, homes, promised, broken>>

\* create_environment; a registry that does not parse fails every command.
CreateEnv(s) ==
  /\ Changes /\ ~registry.torn /\ Len(registry.envs) < MaxEnvs
  /\ Proceeds("dirs", Append(registry.envs, [id |-> AllocateId(s, registry.envs), modules |-> {}]), Len(registry.envs) + 1)
  /\ UNCHANGED <<registry, homes, promised, broken>>

\* The directories are there already when an earlier creation was broken off; so is the key.
MakeHome ==
  /\ writer.step = "dirs"
  /\ homes' = homes \union {writer.envs[writer.at].id}
  /\ writer' = [writer EXCEPT !.step = "write"]
  /\ UNCHANGED <<registry, promised, broken>>

\* set_environment_modules (and set_environment_observability) of a known environment.
SetModules(i, m) ==
  /\ Changes /\ ~registry.torn
  /\ Proceeds("write", [registry.envs EXCEPT ![i].modules = m], i)
  /\ UNCHANGED <<registry, homes, promised, broken>>

\* write_environments: std::fs::write truncates the file,
TruncateFile ==
  /\ writer.step = "write"
  /\ registry' = [registry EXCEPT !.torn = TRUE]
  /\ writer' = [writer EXCEPT !.step = "writing"]
  /\ UNCHANGED <<homes, promised, broken>>

\* and has written it when the command answers.
WriteFile ==
  /\ writer.step = "writing"
  /\ registry' = [torn |-> FALSE, envs |-> writer.envs]
  /\ LET env == writer.envs[writer.at] IN promised' = {e \in promised : e.id # env.id} \union {env}
  /\ writer' = NoCommand
  /\ UNCHANGED <<homes, broken>>

\* A directory cannot be made, a write fails, or the application ends.
BreakOff ==
  /\ writer.step # "idle"
  /\ broken' = (broken \/ writer.step = "writing")
  /\ writer' = NoCommand
  /\ UNCHANGED <<registry, homes, promised>>

RegistryNext ==
  \/ \E s \in Slugs : CreateEnv(s)
  \/ \E i \in 1..Len(registry.envs), m \in ModuleSets : SetModules(i, m)
  \/ MakeHome \/ TruncateFile \/ WriteFile \/ BreakOff

RegistrySpec == RegistryInit /\ [][RegistryNext]_registryVars

-----------------------------------------------------------------------------
\* No two environments share an id, and with it their directories and their key, and each has its own.
IdsAreUnique ==
  /\ \A i, j \in 1..Len(registry.envs) : registry.envs[i].id = registry.envs[j].id => i = j
  /\ \A e \in Listed(registry.envs) : e.id \in homes

\* What a command has answered stays in the registry as it was answered, whichever creations and writes
\* are broken off; the one thing that may be lost is the whole file, by a write that was broken off, and
\* no command puts a new registry in its place ("an empty list when the file is absent").
RegistryIsKept ==
  /\ IdsAreUnique
  /\ registry.torn => broken \/ writer.step = "writing"
  /\ broken => registry.torn
  /\ ~registry.torn => Listed(registry.envs) = promised
=============================================================================
