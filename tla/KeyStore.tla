-------------------------------- MODULE KeyStore --------------------------------
(***************************************************************************)
(* The key encryption key of one environment (kek.rs): the plain and the   *)
(* biometric item of the OS keychain, and the record key.json.  The        *)
(* synchronous commands run one at a time on the main thread; a start is   *)
(* asynchronous and gets or creates the key for the catalog server, which  *)
(* seals credentials with it.  Any access of the keychain or of the record *)
(* may fail, and the application may end between two of them.  The         *)
(* keychain is external; keys are numbered in the order of minting, and 0  *)
(* is no key.                                                              *)
(***************************************************************************)
EXTENDS Naturals

CONSTANT MaxKeys \* bound on the keys minted

ASSUME KeysAssumption == MaxKeys \in Nat

VARIABLES plain,     \* the key in the plain store
          protected, \* the key in the biometric store
          record,    \* key.json: "none" also when it does not parse
          listed,    \* the environment is in the registry
          task,      \* the main thread's command and the start
          minted,    \* keys minted
          sealed,    \* keys a catalog server was given (history)
          overlapped, \* a start ran while a command changed the key (history)
          enrolled   \* FALSE after the OS dropped the biometric item (history)

keyVars == <<plain, protected, record, listed, task, minted, sealed, overlapped, enrolled>>

Keys == 0..MaxKeys
Threads == {"main", "start"}
Works == {"create", "keychain", "keep", "remote", "protect", "unprotect", "start"}
Records == {"none", "keychain", "biometric", "remote"}

KeyTask == [pc : {"idle", "protected", "plain", "mint", "write", "delete", "truncate", "record",
                  "list", "seal"},
            work : Works, key : Keys]
NoTask == [pc |-> "idle", work |-> "start", key |-> 0]

KeysTypeOK ==
  /\ plain \in Keys /\ protected \in Keys /\ minted \in Keys
  /\ record \in Records
  /\ task \in [Threads -> KeyTask]
  /\ sealed \in SUBSET Keys
  /\ {listed, overlapped, enrolled} \subseteq BOOLEAN

KeysInit ==
  /\ plain = 0 /\ protected = 0 /\ minted = 0
  /\ record = "none"
  /\ task = [t \in Threads |-> NoTask]
  /\ sealed = {}
  /\ listed = FALSE /\ overlapped = FALSE /\ enrolled = TRUE

keychain == <<plain, protected, minted>>
past == <<sealed, overlapped, enrolled>>

Resting(t) == task[t].pc = "idle"
Goto(t, pc) == task' = [task EXCEPT ![t].pc = pc]
TaskEnds(t) == task' = [task EXCEPT ![t] = NoTask]

\* A command that fails is over, but the creation of an environment goes on without a key.
Fails(t) == IF task[t].work = "create" THEN Goto(t, "list") ELSE TaskEnds(t)

-----------------------------------------------------------------------------
(* The commands begin.                                                      *)
BeginTask(t, work, pc) ==
  /\ Resting(t)
  /\ task' = [task EXCEPT ![t] = [pc |-> pc, work |-> work, key |-> 0]]
  /\ overlapped' = (overlapped \/ \E o \in Threads : ~Resting(o))
  /\ UNCHANGED <<keychain, record, listed, sealed, enrolled>>

CreateEnvironment == ~listed /\ BeginTask("main", "create", "protected")

\* The provider is locked by a record of another one; the flag of an earlier record is kept.
ConfigureKeychain ==
  /\ listed /\ record # "remote"
  /\ BeginTask("main", IF record = "biometric" THEN "keep" ELSE "keychain", "protected")

ConfigureRemote ==
  listed /\ record \in {"none", "remote"} /\ BeginTask("main", "remote", "truncate")

SetBiometric ==
  /\ listed /\ record # "remote"
  /\ \E work \in {"protect", "unprotect"} : BeginTask("main", work, "protected")

\* After the status check, which refuses a start only when the keychain does not answer.
StartKey == listed /\ BeginTask("start", "start", "protected")

-----------------------------------------------------------------------------
(* ensure_kek: the protected store, then the plain one, then a new key.     *)
AfterKey(work) ==
  CASE work \in {"create", "keychain", "keep"} -> "truncate"
    [] work \in {"protect", "unprotect"} -> "write"
    [] OTHER -> "seal"

Has(t, key) == task' = [task EXCEPT ![t].pc = AfterKey(task[t].work), ![t].key = key]

\* Mutant: a biometric item that cannot be read counts as missing.
ReadProtectedOrMissing(t) ==
  /\ task[t].pc = "protected"
  /\ \/ protected # 0 /\ Has(t, protected)
     \/ Goto(t, "plain")
  /\ UNCHANGED <<keychain, record, listed, past>>

ReadProtected(t) ==
  /\ task[t].pc = "protected"
  /\ \/ protected # 0 /\ Has(t, protected)
     \/ protected = 0 /\ Goto(t, "plain")
     \/ Fails(t)
  /\ UNCHANGED <<keychain, record, listed, past>>

ReadPlain(t) ==
  /\ task[t].pc = "plain"
  /\ \/ plain # 0 /\ Has(t, plain)
     \/ plain = 0 /\ Goto(t, "mint")
     \/ Fails(t)
  /\ UNCHANGED <<keychain, record, listed, past>>

\* set_password replaces what is there.
Mint(t) ==
  /\ task[t].pc = "mint"
  /\ \/ Fails(t) /\ UNCHANGED keychain
     \/ /\ minted < MaxKeys
        /\ minted' = minted + 1 /\ plain' = minted'
        /\ Has(t, minted')
        /\ UNCHANGED protected
  /\ UNCHANGED <<record, listed, past>>

-----------------------------------------------------------------------------
(* set_biometric_protection: the other store is written, then this one      *)
(* emptied.                                                                 *)
\* Mutant: the copy is removed before the other one is written.
DeleteFirst(t) ==
  /\ task[t].pc = "write"
  /\ IF task[t].work = "protect" THEN plain' = 0 /\ UNCHANGED protected
     ELSE protected' = 0 /\ UNCHANGED plain
  /\ Goto(t, "delete")
  /\ UNCHANGED <<minted, record, listed, past>>

WriteCopy(t) ==
  /\ task[t].pc = "write"
  /\ \/ Fails(t) /\ UNCHANGED <<plain, protected>>
     \/ /\ IF task[t].work = "protect" THEN protected' = task[t].key /\ UNCHANGED plain
           ELSE plain' = task[t].key /\ UNCHANGED protected
        /\ Goto(t, "delete")
  /\ UNCHANGED <<minted, record, listed, past>>

DeleteCopy(t) ==
  /\ task[t].pc = "delete"
  /\ \/ Fails(t) /\ UNCHANGED <<plain, protected>>
     \/ /\ IF task[t].work = "protect" THEN plain' = 0 /\ UNCHANGED protected
           ELSE protected' = 0 /\ UNCHANGED plain
        /\ Goto(t, "truncate")
  /\ UNCHANGED <<minted, record, listed, past>>

-----------------------------------------------------------------------------
(* write_key_config, which truncates the file and writes it.                *)
Recorded(work) ==
  CASE work = "remote" -> "remote"
    [] work \in {"protect", "keep"} -> "biometric"
    [] OTHER -> "keychain"

Truncate(t) ==
  /\ task[t].pc = "truncate"
  /\ \/ Fails(t) /\ UNCHANGED record
     \/ record' = "none" /\ Goto(t, "record")
  /\ UNCHANGED <<keychain, listed, past>>

WriteRecord(t) ==
  /\ task[t].pc = "record"
  /\ \/ Fails(t) /\ UNCHANGED record
     \/ /\ record' = Recorded(task[t].work)
        /\ IF task[t].work = "create" THEN Goto(t, "list") ELSE TaskEnds(t)
  /\ UNCHANGED <<keychain, listed, past>>

\* create_environment writes the registry last.
List(t) ==
  /\ task[t].pc = "list"
  /\ listed' \in {listed, TRUE}
  /\ TaskEnds(t)
  /\ UNCHANGED <<keychain, record, past>>

\* spawn_uc_sidecar gives the key to the server, or fails to start it.
Seal(t) ==
  /\ task[t].pc = "seal"
  /\ sealed' \in {sealed, sealed \union {task[t].key}}
  /\ TaskEnds(t)
  /\ UNCHANGED <<keychain, record, listed, overlapped, enrolled>>

\* The application ends, with whatever it was doing.
EndApplication ==
  /\ \E t \in Threads : ~Resting(t)
  /\ task' = [t \in Threads |-> NoTask]
  /\ UNCHANGED <<keychain, record, listed, past>>

\* BIOMETRY_CURRENT_SET: the OS drops the item when the enrolled fingerprints change.
Reenrol ==
  /\ protected # 0
  /\ protected' = 0 /\ enrolled' = FALSE
  /\ UNCHANGED <<plain, minted, record, listed, task, sealed, overlapped>>

KeysNext ==
  \/ CreateEnvironment \/ ConfigureKeychain \/ ConfigureRemote \/ SetBiometric \/ StartKey
  \/ \E t \in Threads :
       \/ ReadProtected(t) \/ ReadPlain(t) \/ Mint(t) \/ WriteCopy(t) \/ DeleteCopy(t)
       \/ Truncate(t) \/ WriteRecord(t) \/ List(t) \/ Seal(t)
  \/ EndApplication \/ Reenrol

KeysSpec == KeysInit /\ [][KeysNext]_keyVars

-----------------------------------------------------------------------------
\* What ensure_kek finds.
Current == IF protected # 0 THEN protected ELSE plain
Undisturbed == ~overlapped /\ enrolled

SealedKeyIsKept == Undisturbed => sealed \subseteq {Current}
ChoiceIsHonoured == enrolled /\ record \in {"keychain", "biometric"} => Current # 0

\* "minted once and never regenerated" (ensure_kek), for a start that met no other command: the key a
\* server has sealed with is the one every later start finds, wherever it was moved to, whichever
\* accesses failed and wherever the application ended.  And a keychain choice is recorded only when it
\* can be honoured (configure), also while the key is moved and a start goes on meanwhile.
KeyIsKept == SealedKeyIsKept /\ ChoiceIsHonoured
=============================================================================
