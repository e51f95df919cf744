----------------------------- MODULE DesktopProofs -----------------------------
(***************************************************************************)
(* Proofs about KeyStore, NotebookSessions, StreamBridge and EnvRegistry,  *)
(* for any number of keys, environments, tabs, edits, frames and names.    *)
(* Of the keys: a command alone with the keychain holds the key that       *)
(* ensure_kek would find, and no command, alone or not, takes the last     *)
(* copy away.  Of the notebooks: while none was opened during a change of  *)
(* the environment, the session, the copies and the texts on their way     *)
(* are of one environment each; and what a tab that had the notebook to    *)
(* itself would discard is the file's.  Of the bridge: what is read,       *)
(* queued and on its way is what the command sent, in order.  Of the       *)
(* registry: it lists what was promised, also while it does not parse.     *)
(***************************************************************************)
EXTENDS KeyStore, NotebookSessions, StreamBridge, EnvRegistry, SequenceTheorems, FiniteSetTheorems,
        WellFoundedInduction, TLAPS

\* What holds of a task's key, whatever else goes on; while the enrolled fingers stay the same; and for
\* a task alone with the keychain.
TaskInv(t) ==
  LET k == task[t] IN
  /\ t = "start" => k.work = "start" /\ k.pc \in {"idle", "protected", "plain", "mint", "seal"}
  /\ k.pc \in {"write", "delete"} => k.work \in {"protect", "unprotect"}
  /\ k.pc \in {"write", "delete", "seal"} => k.key # 0
  /\ enrolled =>
       /\ k.pc \in {"write", "delete"} => Current # 0
       /\ k.pc \in {"truncate", "record"} /\ k.work # "remote" => Current # 0
       /\ k.pc = "delete" => IF k.work = "protect" THEN protected # 0 ELSE plain # 0
  /\ Undisturbed =>
       /\ k.pc = "plain" => protected = 0
       /\ k.pc = "mint" => Current = 0
       /\ k.pc \in {"write", "delete", "seal"} => k.key = Current
       /\ k.pc = "delete" => IF k.work = "protect" THEN protected = k.key ELSE plain = k.key

TaskAlone == ~overlapped => Resting("main") \/ Resting("start")

SealedInv == Undisturbed => sealed \subseteq {Current} /\ 0 \notin sealed

KeysInv ==
  /\ KeysTypeOK
  /\ TaskAlone
  /\ \A t \in Threads : TaskInv(t)
  /\ SealedInv
  /\ ChoiceIsHonoured

-----------------------------------------------------------------------------
(* The key.                                                                 *)

LEMMA KeyTyped ==
  ASSUME KeysInv, NEW t \in Threads
  PROVE  /\ task \in [Threads -> KeyTask] /\ task[t] \in KeyTask /\ TaskInv(t)
         /\ plain \in Keys /\ protected \in Keys /\ minted \in Keys /\ record \in Records
         /\ sealed \in SUBSET Keys /\ listed \in BOOLEAN /\ overlapped \in BOOLEAN
         /\ enrolled \in BOOLEAN /\ Current \in Keys
BY DEF KeysInv, KeysTypeOK, Current

LEMMA NoTaskTyped == NoTask \in KeyTask /\ NoTask.pc = "idle" /\ NoTask.work = "start"
BY KeysAssumption DEF NoTask, KeyTask, Keys, Works

LEMMA KeysInit_Inv == KeysInit => KeysInv
<1>1. ASSUME KeysInit PROVE KeysTypeOK
  <2>1. {listed, overlapped, enrolled} \subseteq BOOLEAN
    BY <1>1 DEF KeysInit
  <2>2. 0 \in Keys /\ "none" \in Records
    BY KeysAssumption DEF Keys, Records
  <2>3. QED
    BY <1>1, <2>1, <2>2, NoTaskTyped DEF KeysInit, KeysTypeOK
<1>2. ASSUME KeysInit, NEW t \in Threads PROVE TaskInv(t) /\ Resting(t)
  BY <1>2, NoTaskTyped DEF KeysInit, TaskInv, Resting
<1>3. ASSUME KeysInit PROVE SealedInv /\ ChoiceIsHonoured
  BY <1>3 DEF KeysInit, SealedInv, ChoiceIsHonoured
<1>4. QED
  BY <1>1, <1>2, <1>3 DEF KeysInv, TaskAlone, Threads

\* A step of the task of t.  Only the main thread takes a key away.
LEMMA TaskStep ==
  ASSUME KeysInv, NEW t \in Threads, ~Resting(t), NEW k \in KeyTask,
         task' = [task EXCEPT ![t] = k], TaskInv(t)',
         plain' \in Keys, protected' \in Keys, minted' \in Keys, record' \in Records,
         listed' \in BOOLEAN, sealed' \in SUBSET Keys, UNCHANGED <<overlapped, enrolled>>,
         t = "start" => /\ plain # 0 => plain' # 0
                        /\ protected' = protected,
         SealedInv', ChoiceIsHonoured'
  PROVE  KeysInv'
<1>1. KeysTypeOK'
  BY DEF KeysInv, KeysTypeOK
<1>2. ASSUME NEW o \in Threads, o # t
      PROVE  /\ task'[o] = task[o] /\ TaskInv(o)
             /\ ~overlapped => Resting(o)
  BY <1>2 DEF KeysInv, KeysTypeOK, TaskAlone, Threads
<1>3. TaskAlone'
  BY <1>2 DEF TaskAlone, Resting, Threads
<1>4. ASSUME NEW o \in Threads, o # t PROVE TaskInv(o)'
  <2>1. o = "start" \/ t = "start"
    BY <1>4 DEF Threads
  <2>2. CASE o = "start"
    BY <1>2, <1>4, <2>2 DEF TaskInv, Resting, Undisturbed
  <2>3. CASE t = "start"
    <3>1. (Current # 0 => Current' # 0) /\ (plain # 0 => plain' # 0) /\ protected' = protected
      BY <2>3 DEF Current
    <3>2. QED
      BY <1>2, <1>4, <3>1 DEF TaskInv, Resting, Undisturbed
  <2>4. QED
    BY <2>1, <2>2, <2>3
<1>5. QED
  BY <1>1, <1>3, <1>4 DEF KeysInv

\* A step that leaves the stores and the record as they are.
LEMMA QuietStep ==
  ASSUME KeysInv, NEW t \in Threads, ~Resting(t), NEW k \in KeyTask,
         task' = [task EXCEPT ![t] = k], UNCHANGED <<keychain, record, sealed, overlapped, enrolled>>,
         listed' \in BOOLEAN, TaskInv(t)'
  PROVE  KeysInv'
<1>1. UNCHANGED <<plain, protected, minted, record, sealed, overlapped, enrolled>>
  BY DEF keychain
<1>2. Current' = Current /\ SealedInv' /\ ChoiceIsHonoured'
  BY <1>1 DEF KeysInv, SealedInv, ChoiceIsHonoured, Undisturbed, Current
<1>3. QED
  BY <1>1, <1>2, TaskStep, KeyTyped

\* A task that has failed, or has ended, knows nothing.
LEMMA FailedInv ==
  ASSUME KeysInv, NEW t \in Threads, ~Resting(t), Fails(t) \/ TaskEnds(t),
         UNCHANGED <<keychain, record, sealed, overlapped, enrolled>>, listed' \in BOOLEAN
  PROVE  KeysInv'
<1>1. CASE TaskEnds(t)
  <2>1. task'[t] = NoTask
    BY <1>1, KeyTyped DEF TaskEnds
  <2>2. TaskInv(t)'
    BY <2>1, NoTaskTyped DEF TaskInv
  <2>3. QED
    BY <1>1, <2>2, NoTaskTyped, QuietStep DEF TaskEnds
<1>2. CASE task[t].work = "create" /\ Goto(t, "list")
  <2> DEFINE k == [task[t] EXCEPT !.pc = "list"]
  <2>1. task' = [task EXCEPT ![t] = k] /\ k \in KeyTask /\ k.pc = "list" /\ k.work = "create"
    BY <1>2, KeyTyped DEF Goto, KeyTask
  <2> HIDE DEF k
  <2>2. task'[t] = k
    BY <2>1, KeyTyped
  <2>3. t # "start"
    BY <1>2, KeyTyped DEF TaskInv
  <2>4. TaskInv(t)'
    BY <2>1, <2>2, <2>3 DEF TaskInv
  <2>5. QED
    BY <2>1, <2>4, QuietStep
<1>3. QED
  BY <1>1, <1>2 DEF Fails


\* The task goes on to pc with the same work and key.
LEMMA GotoTyped ==
  ASSUME KeysInv, NEW t \in Threads, NEW pc, Goto(t, pc),
         pc \in {"plain", "mint", "delete", "truncate", "record", "list"}
  PROVE  \E k \in KeyTask : /\ task' = [task EXCEPT ![t] = k] /\ task'[t] = k
                            /\ k.pc = pc /\ k.work = task[t].work /\ k.key = task[t].key
<1> DEFINE k == [task[t] EXCEPT !.pc = pc]
<1>1. /\ task' = [task EXCEPT ![t] = k] /\ k \in KeyTask
      /\ k.pc = pc /\ k.work = task[t].work /\ k.key = task[t].key
  BY KeyTyped DEF Goto, KeyTask
<1> HIDE DEF k
<1>2. task'[t] = k
  BY <1>1, KeyTyped
<1>3. QED
  BY <1>1, <1>2

\* The task has the key that is there.
LEMMA HasTyped ==
  ASSUME KeysInv, NEW t \in Threads, NEW key \in Keys, Has(t, key)
  PROVE  \E k \in KeyTask : /\ task' = [task EXCEPT ![t] = k] /\ task'[t] = k
                            /\ k.pc \in {"truncate", "write", "seal"} /\ k.work = task[t].work
                            /\ k.key = key /\ k.pc = AfterKey(k.work)
<1>1. AfterKey(task[t].work) \in {"truncate", "write", "seal"}
  BY DEF AfterKey
<1> DEFINE pc == AfterKey(task[t].work)
           k == [task[t] EXCEPT !.pc = pc, !.key = key]
<1>2. task' = [task EXCEPT ![t] = k]
  BY KeyTyped DEF Has
<1> HIDE DEF pc
<1>3. k \in KeyTask /\ k.pc = pc /\ k.work = task[t].work /\ k.key = key
  BY <1>1, KeyTyped DEF KeyTask, pc
<1> HIDE DEF k
<1>4. task'[t] = k
  BY <1>2, <1>3, KeyTyped
<1>5. QED
  BY <1>1, <1>2, <1>3, <1>4 DEF pc

\* What a task knows that has the key.
LEMMA KnowsKey ==
  ASSUME KeysInv, NEW t \in Threads, NEW k \in KeyTask, task'[t] = k,
         k.pc \in {"truncate", "write", "seal"}, k.pc = AfterKey(k.work), k.work = task[t].work,
         UNCHANGED <<overlapped, enrolled>>,
         k.key # 0, Current' # 0, Undisturbed => k.key = Current'
  PROVE  TaskInv(t)'
<1>1. t = "start" => k.pc = "seal" /\ k.work = "start"
  BY KeyTyped DEF TaskInv, AfterKey
<1>2. k.pc = "write" => k.work \in {"protect", "unprotect"}
  BY DEF AfterKey
<1>3. QED
  BY <1>1, <1>2 DEF TaskInv, Undisturbed

LEMMA ReadProtectedInv ==
  ASSUME KeysInv, NEW t \in Threads, ReadProtected(t) PROVE KeysInv'
<1>1. /\ task[t].pc = "protected" /\ ~Resting(t) /\ listed' \in BOOLEAN
      /\ UNCHANGED <<keychain, record, sealed, overlapped, enrolled, plain, protected>>
  BY KeyTyped DEF ReadProtected, Resting, past, keychain
<1>2. Current' = Current
  BY <1>1 DEF Current
<1>3. CASE protected # 0 /\ Has(t, protected)
  <2>1. PICK k \in KeyTask :
          /\ task' = [task EXCEPT ![t] = k] /\ task'[t] = k
          /\ k.pc \in {"truncate", "write", "seal"} /\ k.work = task[t].work
          /\ k.key = protected /\ k.pc = AfterKey(k.work)
    BY <1>3, HasTyped, KeyTyped
  <2>2. Current = protected
    BY <1>3 DEF Current
  <2>3. TaskInv(t)'
    BY <1>1, <1>2, <1>3, <2>1, <2>2, KnowsKey
  <2>4. QED
    BY <1>1, <2>1, <2>3, QuietStep
<1>4. CASE protected = 0 /\ Goto(t, "plain")
  <2>1. PICK k \in KeyTask :
          task' = [task EXCEPT ![t] = k] /\ task'[t] = k /\ k.pc = "plain" /\ k.work = task[t].work
    BY <1>4, GotoTyped
  <2>2. TaskInv(t)'
    BY <1>1, <1>4, <2>1, KeyTyped DEF TaskInv
  <2>3. QED
    BY <1>1, <2>1, <2>2, QuietStep
<1>5. QED
  BY <1>1, <1>3, <1>4, FailedInv DEF ReadProtected

LEMMA ReadPlainInv ==
  ASSUME KeysInv, NEW t \in Threads, ReadPlain(t) PROVE KeysInv'
<1>1. /\ task[t].pc = "plain" /\ ~Resting(t) /\ listed' \in BOOLEAN
      /\ UNCHANGED <<keychain, record, sealed, overlapped, enrolled, plain, protected>>
  BY KeyTyped DEF ReadPlain, Resting, past, keychain
<1>2. Current' = Current /\ (Undisturbed => protected = 0)
  BY <1>1, KeyTyped DEF Current, TaskInv
<1>3. CASE plain # 0 /\ Has(t, plain)
  <2>1. PICK k \in KeyTask :
          /\ task' = [task EXCEPT ![t] = k] /\ task'[t] = k
          /\ k.pc \in {"truncate", "write", "seal"} /\ k.work = task[t].work
          /\ k.key = plain /\ k.pc = AfterKey(k.work)
    BY <1>3, HasTyped, KeyTyped
  <2>2. Current # 0 /\ (Undisturbed => Current = plain)
    BY <1>2, <1>3 DEF Current
  <2>3. TaskInv(t)'
    BY <1>1, <1>2, <1>3, <2>1, <2>2, KnowsKey
  <2>4. QED
    BY <1>1, <2>1, <2>3, QuietStep
<1>4. CASE plain = 0 /\ Goto(t, "mint")
  <2>1. PICK k \in KeyTask :
          task' = [task EXCEPT ![t] = k] /\ task'[t] = k /\ k.pc = "mint" /\ k.work = task[t].work
    BY <1>4, GotoTyped
  <2>2. Undisturbed => Current' = 0
    BY <1>2, <1>4 DEF Current
  <2>3. TaskInv(t)'
    BY <1>1, <2>1, <2>2, KeyTyped DEF TaskInv, Undisturbed
  <2>4. QED
    BY <1>1, <2>1, <2>3, QuietStep
<1>5. QED
  BY <1>1, <1>3, <1>4, FailedInv DEF ReadPlain

LEMMA MintInv ==
  ASSUME KeysInv, NEW t \in Threads, Mint(t) PROVE KeysInv'
<1>1. /\ task[t].pc = "mint" /\ ~Resting(t) /\ listed' \in BOOLEAN
      /\ UNCHANGED <<record, listed, sealed, overlapped, enrolled>>
  BY KeyTyped DEF Mint, Resting, past
<1>2. CASE Fails(t) /\ UNCHANGED keychain
  BY <1>1, <1>2, FailedInv
<1>3. CASE /\ minted < MaxKeys /\ minted' = minted + 1 /\ plain' = minted'
           /\ Has(t, minted') /\ UNCHANGED protected
  <2>1. minted' \in Keys /\ minted' # 0
    BY <1>3, KeyTyped, KeysAssumption DEF Keys
  <2>2. Current' # 0 /\ (Undisturbed => Current = 0 /\ Current' = minted')
    BY <1>1, <1>3, <2>1, KeyTyped DEF Current, TaskInv
  <2>3. PICK k \in KeyTask :
          /\ task' = [task EXCEPT ![t] = k] /\ task'[t] = k
          /\ k.pc \in {"truncate", "write", "seal"} /\ k.work = task[t].work
          /\ k.key = minted' /\ k.pc = AfterKey(k.work)
    BY <1>3, <2>1, HasTyped
  <2>4. TaskInv(t)'
    BY <1>1, <2>1, <2>2, <2>3, KnowsKey
  <2>5. SealedInv'
    BY <1>1, <2>2 DEF KeysInv, SealedInv, Undisturbed
  <2>6. ChoiceIsHonoured'
    BY <2>2 DEF ChoiceIsHonoured
  <2>7. QED
    BY <1>1, <1>3, <2>1, <2>3, <2>4, <2>5, <2>6, TaskStep, KeyTyped
<1>4. QED
  BY <1>2, <1>3 DEF Mint

\* Moving the key: while it is copied there is one of the two, or both.
LEMMA WriteCopyInv ==
  ASSUME KeysInv, NEW t \in Threads, WriteCopy(t) PROVE KeysInv'
<1>1. /\ task[t].pc = "write" /\ ~Resting(t) /\ listed' \in BOOLEAN /\ t # "start"
      /\ UNCHANGED <<minted, record, listed, sealed, overlapped, enrolled>>
      /\ task[t].key \in Keys /\ task[t].key # 0 /\ task[t].work \in {"protect", "unprotect"}
      /\ Undisturbed => task[t].key = Current
  BY KeyTyped DEF WriteCopy, Resting, past, TaskInv, KeyTask
<1>2. CASE Fails(t) /\ UNCHANGED <<plain, protected>>
  BY <1>1, <1>2, FailedInv DEF keychain
<1>3. CASE /\ IF task[t].work = "protect" THEN protected' = task[t].key /\ UNCHANGED plain
              ELSE plain' = task[t].key /\ UNCHANGED protected
           /\ Goto(t, "delete")
  <2>1. PICK k \in KeyTask :
          /\ task' = [task EXCEPT ![t] = k] /\ task'[t] = k /\ k.pc = "delete"
          /\ k.work = task[t].work /\ k.key = task[t].key
    BY <1>3, GotoTyped
  <2>2. /\ plain' \in Keys /\ protected' \in Keys /\ Current' # 0
        /\ Undisturbed => Current' = Current
        /\ IF task[t].work = "protect" THEN protected' = task[t].key ELSE plain' = task[t].key
    BY <1>1, <1>3, KeyTyped DEF Current
  <2>3. TaskInv(t)'
    BY <1>1, <2>1, <2>2 DEF TaskInv, Undisturbed
  <2>4. SealedInv' /\ ChoiceIsHonoured'
    BY <1>1, <2>2 DEF KeysInv, SealedInv, ChoiceIsHonoured, Undisturbed
  <2>5. QED
    BY <1>1, <2>1, <2>2, <2>3, <2>4, TaskStep, KeyTyped
<1>4. QED
  BY <1>2, <1>3 DEF WriteCopy

LEMMA DeleteCopyInv ==
  ASSUME KeysInv, NEW t \in Threads, DeleteCopy(t) PROVE KeysInv'
<1>1. /\ task[t].pc = "delete" /\ ~Resting(t) /\ listed' \in BOOLEAN /\ t # "start"
      /\ UNCHANGED <<minted, record, listed, sealed, overlapped, enrolled>>
      /\ task[t].work \in {"protect", "unprotect"} /\ task[t].key # 0
      /\ enrolled => IF task[t].work = "protect" THEN protected # 0 ELSE plain # 0
      /\ Undisturbed => /\ task[t].key = Current
                        /\ IF task[t].work = "protect" THEN protected = task[t].key
                           ELSE plain = task[t].key
  BY KeyTyped DEF DeleteCopy, Resting, past, TaskInv
<1>2. CASE Fails(t) /\ UNCHANGED <<plain, protected>>
  BY <1>1, <1>2, FailedInv DEF keychain
<1>3. CASE /\ IF task[t].work = "protect" THEN plain' = 0 /\ UNCHANGED protected
              ELSE protected' = 0 /\ UNCHANGED plain
           /\ Goto(t, "truncate")
  <2>1. PICK k \in KeyTask :
          /\ task' = [task EXCEPT ![t] = k] /\ task'[t] = k /\ k.pc = "truncate"
          /\ k.work = task[t].work
    BY <1>3, GotoTyped
  <2>2. plain' \in Keys /\ protected' \in Keys
    BY <1>3, KeyTyped, KeysAssumption DEF Keys
  <2>3. (enrolled => Current' # 0) /\ (Undisturbed => Current' = Current)
    BY <1>1, <1>3 DEF Current, Undisturbed
  <2>4. TaskInv(t)'
    BY <1>1, <2>1, <2>3 DEF TaskInv, Undisturbed
  <2>5. SealedInv' /\ ChoiceIsHonoured'
    BY <1>1, <2>3 DEF KeysInv, SealedInv, ChoiceIsHonoured, Undisturbed
  <2>6. QED
    BY <1>1, <2>1, <2>2, <2>4, <2>5, TaskStep, KeyTyped
<1>4. QED
  BY <1>2, <1>3 DEF DeleteCopy

LEMMA TruncateInv ==
  ASSUME KeysInv, NEW t \in Threads, Truncate(t) PROVE KeysInv'
<1>1. /\ task[t].pc = "truncate" /\ ~Resting(t) /\ listed' \in BOOLEAN /\ t # "start"
      /\ UNCHANGED <<plain, protected, minted, listed, sealed, overlapped, enrolled>>
      /\ enrolled /\ task[t].work # "remote" => Current # 0
  BY KeyTyped DEF Truncate, Resting, past, keychain, TaskInv
<1>2. CASE Fails(t) /\ UNCHANGED record
  BY <1>1, <1>2, FailedInv DEF keychain
<1>3. CASE record' = "none" /\ Goto(t, "record")
  <2>1. PICK k \in KeyTask :
          /\ task' = [task EXCEPT ![t] = k] /\ task'[t] = k /\ k.pc = "record"
          /\ k.work = task[t].work
    BY <1>3, GotoTyped
  <2>2. Current' = Current
    BY <1>1 DEF Current
  <2>3. TaskInv(t)' /\ SealedInv' /\ ChoiceIsHonoured'
    BY <1>1, <1>3, <2>1, <2>2 DEF TaskInv, KeysInv, SealedInv, ChoiceIsHonoured, Undisturbed
  <2>4. QED
    BY <1>1, <1>3, <2>1, <2>3, TaskStep, KeyTyped DEF Records
<1>4. QED
  BY <1>2, <1>3 DEF Truncate

LEMMA WriteRecordInv ==
  ASSUME KeysInv, NEW t \in Threads, WriteRecord(t) PROVE KeysInv'
<1>1. /\ task[t].pc = "record" /\ ~Resting(t) /\ listed' \in BOOLEAN /\ t # "start"
      /\ UNCHANGED <<plain, protected, minted, listed, sealed, overlapped, enrolled>>
      /\ enrolled /\ task[t].work # "remote" => Current # 0
  BY KeyTyped DEF WriteRecord, Resting, past, keychain, TaskInv
<1>2. CASE Fails(t) /\ UNCHANGED record
  BY <1>1, <1>2, FailedInv DEF keychain
<1>3. CASE /\ record' = Recorded(task[t].work)
           /\ IF task[t].work = "create" THEN Goto(t, "list") ELSE TaskEnds(t)
  <2>1. PICK k \in KeyTask :
          /\ task' = [task EXCEPT ![t] = k] /\ task'[t] = k /\ k.pc \in {"list", "idle"}
    <3>1. CASE task[t].work = "create"
      BY <1>3, <3>1, GotoTyped
    <3>2. CASE task[t].work # "create"
      BY <1>3, <3>2, NoTaskTyped, KeyTyped DEF TaskEnds
    <3>3. QED
      BY <3>1, <3>2
  <2>2. Current' = Current
    BY <1>1 DEF Current
  <2>3. record' \in Records /\ (record' \in {"keychain", "biometric"} => task[t].work # "remote")
    BY <1>3 DEF Recorded, Records
  <2>4. TaskInv(t)'
    BY <1>1, <2>1 DEF TaskInv
  <2>5. SealedInv' /\ ChoiceIsHonoured'
    BY <1>1, <2>2, <2>3 DEF KeysInv, SealedInv, ChoiceIsHonoured, Undisturbed
  <2>6. QED
    BY <1>1, <2>1, <2>3, <2>4, <2>5, TaskStep, KeyTyped
<1>4. QED
  BY <1>2, <1>3 DEF WriteRecord

LEMMA SealInv ==
  ASSUME KeysInv, NEW t \in Threads, Seal(t) PROVE KeysInv'
<1>1. /\ task[t].pc = "seal" /\ ~Resting(t) /\ TaskEnds(t)
      /\ UNCHANGED <<plain, protected, minted, record, listed, overlapped, enrolled>>
      /\ sealed' \in {sealed, sealed \union {task[t].key}}
      /\ task[t].key \in Keys /\ task[t].key # 0 /\ (Undisturbed => task[t].key = Current)
  BY KeyTyped DEF Seal, Resting, keychain, TaskInv, KeyTask
<1>2. task' = [task EXCEPT ![t] = NoTask] /\ task'[t] = NoTask
  BY <1>1, KeyTyped DEF TaskEnds
<1>3. TaskInv(t)'
  BY <1>2, NoTaskTyped DEF TaskInv
<1>4. Current' = Current
  BY <1>1 DEF Current
<1>5. SealedInv' /\ ChoiceIsHonoured'
  BY <1>1, <1>4 DEF KeysInv, SealedInv, ChoiceIsHonoured, Undisturbed
<1>6. QED
  BY <1>1, <1>2, <1>3, <1>5, TaskStep, KeyTyped, NoTaskTyped

\* A command begins: with another one under way it overlaps.
LEMMA BeginTaskInv ==
  ASSUME KeysInv, NEW t \in Threads, NEW work \in Works, NEW pc \in {"protected", "truncate"},
         BeginTask(t, work, pc),
         t = "start" => work = "start" /\ pc = "protected", pc = "truncate" => work = "remote"
  PROVE  KeysInv'
<1> DEFINE k == [pc |-> pc, work |-> work, key |-> 0]
<1>1. /\ Resting(t) /\ task' = [task EXCEPT ![t] = k] /\ k \in KeyTask
      /\ overlapped' = (overlapped \/ \E o \in Threads : ~Resting(o))
      /\ UNCHANGED <<plain, protected, minted, record, listed, sealed, enrolled>>
  BY KeysAssumption DEF BeginTask, KeyTask, keychain, Keys
<1>2. k.pc = pc /\ k.work = work
  OBVIOUS
<1> HIDE DEF k
<1>3. task'[t] = k /\ (\A o \in Threads : o # t => task'[o] = task[o])
  BY <1>1, KeyTyped
<1>4. Current' = Current /\ (Undisturbed' => Undisturbed)
  BY <1>1 DEF Current, Undisturbed
<1>5. overlapped' \in BOOLEAN
  BY <1>1, KeyTyped
<1>6. KeysTypeOK'
  <2>1. {listed', overlapped', enrolled'} \subseteq BOOLEAN
    BY <1>1, <1>5, KeyTyped
  <2>2. QED
    BY <1>1, <2>1, KeyTyped DEF KeysTypeOK
<1>7. ~overlapped' => \A o \in Threads : Resting(o)
  BY <1>1
<1>8. TaskAlone'
  BY <1>3, <1>7 DEF TaskAlone, Resting, Threads
<1>9. TaskInv(t)'
  BY <1>2, <1>3 DEF TaskInv
<1>10. ASSUME NEW o \in Threads, o # t PROVE TaskInv(o)'
  BY <1>1, <1>3, <1>4, <1>10, KeyTyped DEF TaskInv
<1>11. SealedInv' /\ ChoiceIsHonoured'
  BY <1>1, <1>4 DEF KeysInv, SealedInv, ChoiceIsHonoured
<1>12. QED
  BY <1>6, <1>8, <1>9, <1>10, <1>11 DEF KeysInv

LEMMA BeginInvs ==
  ASSUME KeysInv, CreateEnvironment \/ ConfigureKeychain \/ ConfigureRemote \/ SetBiometric \/ StartKey
  PROVE  KeysInv'
<1>1. "main" \in Threads /\ "start" \in Threads
  BY DEF Threads
<1>2. {"create", "keychain", "keep", "remote", "protect", "unprotect", "start"} \subseteq Works
  BY DEF Works
<1>3. ASSUME NEW work \in {"create", "keychain", "keep", "protect", "unprotect"},
             BeginTask("main", work, "protected")
      PROVE  KeysInv'
  BY <1>1, <1>2, <1>3, BeginTaskInv
<1>4. CASE BeginTask("main", "remote", "truncate")
  BY <1>1, <1>2, <1>4, BeginTaskInv
<1>5. CASE BeginTask("start", "start", "protected")
  BY <1>1, <1>2, <1>5, BeginTaskInv
<1>6. QED
  BY <1>3, <1>4, <1>5
     DEF CreateEnvironment, ConfigureKeychain, ConfigureRemote, SetBiometric, StartKey

LEMMA EndApplicationInv == ASSUME KeysInv, EndApplication PROVE KeysInv'
<1>1. /\ task' = [t \in Threads |-> NoTask]
      /\ UNCHANGED <<plain, protected, minted, record, listed, sealed, overlapped, enrolled>>
  BY DEF EndApplication, keychain, past
<1>2. KeysTypeOK'
  BY <1>1, NoTaskTyped DEF KeysInv, KeysTypeOK
<1>3. ASSUME NEW t \in Threads PROVE TaskInv(t)' /\ Resting(t)'
  BY <1>1, NoTaskTyped DEF TaskInv, Resting
<1>4. SealedInv' /\ ChoiceIsHonoured'
  BY <1>1 DEF KeysInv, SealedInv, ChoiceIsHonoured, Undisturbed, Current
<1>5. QED
  BY <1>2, <1>3, <1>4 DEF KeysInv, TaskAlone, Threads

LEMMA ReenrolInv == ASSUME KeysInv, Reenrol PROVE KeysInv'
<1>1. /\ protected' = 0 /\ enrolled' = FALSE
      /\ UNCHANGED <<plain, minted, record, listed, task, sealed, overlapped>>
  BY DEF Reenrol
<1>2. KeysTypeOK'
  <2>1. {listed', overlapped', enrolled'} \subseteq BOOLEAN
    BY <1>1 DEF KeysInv, KeysTypeOK
  <2>2. 0 \in Keys
    BY KeysAssumption DEF Keys
  <2>3. QED
    BY <1>1, <2>1, <2>2 DEF KeysInv, KeysTypeOK
<1>3. ~Undisturbed' /\ TaskAlone' /\ SealedInv' /\ ChoiceIsHonoured'
  BY <1>1 DEF KeysInv, TaskAlone, Resting, SealedInv, ChoiceIsHonoured, Undisturbed
<1>4. ASSUME NEW t \in Threads PROVE TaskInv(t)'
  BY <1>1, <1>3, KeyTyped DEF TaskInv
<1>5. QED
  BY <1>2, <1>3, <1>4 DEF KeysInv

LEMMA KeysStep == ASSUME KeysInv, KeysNext PROVE KeysInv'
<1>1. ASSUME NEW t \in Threads, List(t) PROVE KeysInv'
  <2>1. /\ ~Resting(t) /\ TaskEnds(t) /\ listed' \in BOOLEAN
        /\ UNCHANGED <<keychain, record, sealed, overlapped, enrolled>>
    BY <1>1, KeyTyped DEF List, Resting, past
  <2>2. QED
    BY <2>1, FailedInv
<1>2. QED
  BY <1>1, BeginInvs, ReadProtectedInv, ReadPlainInv, MintInv, WriteCopyInv, DeleteCopyInv, TruncateInv,
     WriteRecordInv, SealInv, EndApplicationInv, ReenrolInv DEF KeysNext

LEMMA KeysInvariant == KeysSpec => []KeysInv
<1>1. ASSUME KeysInv, UNCHANGED keyVars PROVE KeysInv'
  <2>1. UNCHANGED <<plain, protected, record, listed, task, minted, sealed, overlapped, enrolled>>
    BY <1>1 DEF keyVars
  <2>2. Current' = Current /\ KeysTypeOK' /\ TaskAlone'
    BY <1>1, <2>1 DEF KeysInv, KeysTypeOK, TaskAlone, Resting, Current
  <2>3. SealedInv' /\ ChoiceIsHonoured'
    BY <1>1, <2>1, <2>2 DEF KeysInv, SealedInv, ChoiceIsHonoured, Undisturbed
  <2>4. (\A t \in Threads : TaskInv(t))'
    BY <1>1, <2>1, <2>2 DEF KeysInv, TaskInv, Undisturbed
  <2>5. QED
    BY <2>2, <2>3, <2>4 DEF KeysInv
<1>2. KeysInv /\ [KeysNext]_keyVars => KeysInv'
  BY <1>1, KeysStep
<1>3. QED
  BY <1>2, KeysInit_Inv, PTL DEF KeysSpec

\* However often the key is minted and moved, accesses fail and the application ends: what a server
\* sealed with, none of whose starts met another command, is the key later starts find (kek.rs,
\* ensure_kek); and no start or move leaves the record of a keychain choice without a key (configure,
\* set_biometric_protection).
THEOREM KeyIsKeptHolds == KeysSpec => []KeyIsKept
<1>1. KeysInv => KeyIsKept
  BY DEF KeysInv, SealedInv, SealedKeyIsKept, KeyIsKept
<1>2. QED
  BY <1>1, KeysInvariant, PTL

-----------------------------------------------------------------------------
(* The notebook.                                                            *)

\* A text on its way is of the environment whose files were taken for it.
TextInv(t) == tab[t].closing = "write" => tab[t].text \in Texts /\ tab[t].to \in Homes

\* While no notebook was opened during a change of the environment.
SteadyInv ==
  /\ session \in {NoEnv, activeEnv}
  /\ \A e \in Homes : copy[e] # NoCopy => copy[e].home = e
  /\ \A e \in Homes : volume[e].home = e
  /\ \A t \in Tabs : Pending(t) => tab[t].env = activeEnv
  /\ \A t \in Tabs : tab[t].closing = "write" => tab[t].text.home = tab[t].to

NotebookInv ==
  /\ NotebookTypeOK
  /\ \A t \in Tabs : TextInv(t)
  /\ ~straddled => SteadyInv

LEMMA NoCopyIsNoText == NoCopy \notin Texts
BY NotebookAssumption DEF NoCopy, Texts

LEMMA NewControllerTyped ==
  NewController \in Controller /\ NewController.opening = "no" /\ NewController.closing = "no"
BY DEF NewController, Controller

LEMMA NotebookTyped ==
  ASSUME NotebookInv, NEW t \in Tabs
  PROVE  /\ activeEnv \in Homes /\ session \in Homes \union {NoEnv}
         /\ copy \in [Homes -> Texts \union {NoCopy}] /\ volume \in [Homes -> Texts]
         /\ tab \in [Tabs -> Controller] /\ tab[t] \in Controller /\ shown \in Tabs \union {NoTab}
         /\ edits \in 0..MaxEdits /\ switching \in BOOLEAN /\ straddled \in BOOLEAN
         /\ lost \in SUBSET Losses /\ TextInv(t)
BY DEF NotebookInv, NotebookTypeOK

LEMMA NotebookInit_Inv == NotebookInit => NotebookInv
<1>1. ASSUME NotebookInit PROVE NotebookTypeOK
  <2>1. 0 \in 0..MaxEdits
    BY NotebookAssumption
  <2>2. \A e \in Homes : [home |-> e, n |-> 0] \in Texts
    BY <2>1 DEF Texts
  <2>3. volume \in [Homes -> Texts] /\ copy \in [Homes -> Texts \union {NoCopy}]
    BY <1>1, <2>2 DEF NotebookInit
  <2>4. tab \in [Tabs -> Controller]
    BY <1>1, NewControllerTyped DEF NotebookInit
  <2>5. {switching, straddled} \subseteq BOOLEAN
    BY <1>1 DEF NotebookInit
  <2>6. QED
    BY <1>1, <2>1, <2>3, <2>4, <2>5 DEF NotebookInit, NotebookTypeOK
<1>2. ASSUME NotebookInit, NEW t \in Tabs
      PROVE  tab[t].closing = "no" /\ tab[t].opening = "no"
  BY <1>2, NewControllerTyped DEF NotebookInit
<1>3. ASSUME NotebookInit, NEW e \in Homes PROVE copy[e] = NoCopy /\ volume[e].home = e
  BY <1>3 DEF NotebookInit
<1>4. ASSUME NotebookInit PROVE SteadyInv
  BY <1>2, <1>3, <1>4 DEF NotebookInit, SteadyInv, Pending
<1>5. ASSUME NotebookInit, NEW t \in Tabs PROVE TextInv(t)
  BY <1>2, <1>5 DEF TextInv
<1>6. QED
  BY <1>1, <1>4, <1>5 DEF NotebookInv

\* A step of the controller t, which becomes r and has the parts of the invariant that are its own.
LEMMA ControllerStep ==
  ASSUME NotebookInv, NEW t \in Tabs, NEW r \in Controller, tab' = [tab EXCEPT ![t] = r],
         UNCHANGED <<activeEnv, switching, straddled>>,
         session' \in Homes \union {NoEnv}, copy' \in [Homes -> Texts \union {NoCopy}],
         volume' \in [Homes -> Texts], shown' \in Tabs \union {NoTab}, edits' \in 0..MaxEdits,
         lost' \in SUBSET Losses,
         r.closing = "write" => r.text \in Texts /\ r.to \in Homes,
         ~straddled =>
           /\ session' \in {NoEnv, activeEnv}
           /\ \A e \in Homes : copy'[e] # NoCopy => copy'[e].home = e
           /\ \A e \in Homes : volume'[e].home = e
           /\ r.opening \in {"copy", "serve"} => r.env = activeEnv
           /\ r.closing = "write" => r.text.home = r.to
  PROVE  NotebookInv'
<1>1. NotebookTypeOK'
  BY DEF NotebookInv, NotebookTypeOK
<1>2. tab'[t] = r /\ \A u \in Tabs : u # t => tab'[u] = tab[u]
  BY NotebookTyped
<1>3. (\A u \in Tabs : TextInv(u))'
  BY <1>2 DEF NotebookInv, TextInv
<1>4. ~straddled => SteadyInv'
  BY <1>2 DEF NotebookInv, SteadyInv, Pending
<1>5. QED
  BY <1>1, <1>3, <1>4 DEF NotebookInv

\* The same, for a step that changes no file and no session, and leaves what the controller has open
\* and what it is to write as they were, or is done with it.
LEMMA HeldStep ==
  ASSUME NotebookInv, NEW t \in Tabs, NEW r \in Controller, tab' = [tab EXCEPT ![t] = r],
         UNCHANGED <<host, session, files>>, shown' \in Tabs \union {NoTab}, edits' \in 0..MaxEdits,
         lost' \in SUBSET Losses,
         r.opening \in {"copy", "serve"} => r.opening = tab[t].opening /\ r.env = tab[t].env,
         r.closing = "write" =>
           tab[t].closing = "write" /\ r.text = tab[t].text /\ r.to = tab[t].to
  PROVE  NotebookInv'
<1>1. UNCHANGED <<activeEnv, switching, straddled, session, copy, volume>>
  BY DEF host, files
<1>2. r.closing = "write" => r.text \in Texts /\ r.to \in Homes
  BY NotebookTyped DEF TextInv
<1>3. ~straddled =>
        /\ session \in {NoEnv, activeEnv}
        /\ \A e \in Homes : copy[e] # NoCopy => copy[e].home = e
        /\ \A e \in Homes : volume[e].home = e
        /\ r.opening \in {"copy", "serve"} => r.env = activeEnv
        /\ r.closing = "write" => r.text.home = r.to
  BY DEF NotebookInv, SteadyInv, Pending
<1>4. QED
  BY <1>1, <1>2, <1>3, ControllerStep, NotebookTyped

\* What is remembered of a controller.
LEMMA NowTyped ==
  ASSUME NotebookInv, NEW t \in Tabs, NEW r \in Controller, Now(t, r)
  PROVE  \E n \in Controller :
           /\ tab' = [tab EXCEPT ![t] = n]
           /\ n.opening \in {r.opening, "ended"} /\ n.closing \in {r.closing, "ended"}
           /\ n.opening # "ended" => n = r
           /\ n.closing # "ended" => n = r
<1> DEFINE done == [NewController EXCEPT !.opening = "ended", !.closing = "ended"]
<1>1. done \in Controller /\ done.opening = "ended" /\ done.closing = "ended"
  BY DEF NewController, Controller
<1>2. CASE Finished(r)
  BY <1>1, <1>2 DEF Now
<1>3. CASE ~Finished(r)
  BY <1>3 DEF Now
<1>4. QED
  BY <1>2, <1>3

LEMMA TakeDownInv == ASSUME NotebookInv, TakeDown PROVE NotebookInv'
<1>1. /\ session' = NoEnv /\ switching' = TRUE
      /\ UNCHANGED <<activeEnv, copy, volume, tab, shown, edits, lost>>
      /\ straddled' = (straddled \/ \E t \in Tabs : Pending(t))
  BY DEF TakeDown, files
<1>2. NotebookTypeOK'
  <2>1. {switching', straddled'} \subseteq BOOLEAN
    BY <1>1 DEF NotebookInv, NotebookTypeOK
  <2>2. QED
    BY <1>1, <2>1 DEF NotebookInv, NotebookTypeOK
<1>3. (\A t \in Tabs : TextInv(t))' /\ (~straddled' => ~straddled)
  BY <1>1 DEF NotebookInv, TextInv
<1>4. ~straddled => SteadyInv'
  BY <1>1 DEF NotebookInv, SteadyInv, Pending
<1>5. QED
  BY <1>2, <1>3, <1>4 DEF NotebookInv

LEMMA BringUpInv == ASSUME NotebookInv, BringUp PROVE NotebookInv'
<1>1. /\ activeEnv' \in Homes /\ switching' = FALSE
      /\ UNCHANGED <<session, copy, volume, tab, shown, edits, lost>>
      /\ straddled' = (straddled \/ session # NoEnv \/ \E t \in Tabs : Pending(t))
  BY DEF BringUp, files
<1>2. NotebookTypeOK'
  <2>1. {switching', straddled'} \subseteq BOOLEAN
    BY <1>1 DEF NotebookInv, NotebookTypeOK
  <2>2. QED
    BY <1>1, <2>1 DEF NotebookInv, NotebookTypeOK
<1>3. (\A t \in Tabs : TextInv(t))'
  BY <1>1 DEF NotebookInv, TextInv
<1>4. ~straddled' => ~straddled /\ session' = NoEnv /\ \A t \in Tabs : ~Pending(t)
  BY <1>1
<1>5. ~straddled' => SteadyInv'
  BY <1>1, <1>4 DEF NotebookInv, SteadyInv, Pending
<1>6. QED
  BY <1>2, <1>3, <1>5 DEF NotebookInv

LEMMA EditInv == ASSUME NotebookInv, NEW t \in Tabs, Edit(t) PROVE NotebookInv'
<1> DEFINE r == [tab[t] EXCEPT !.excused = tab[t].excused \/ tab[t].closing # "no"]
           new == [home |-> activeEnv, n |-> edits']
<1>1. /\ UNCHANGED <<activeEnv, switching, straddled, session, volume, shown, lost>>
      /\ edits' = edits + 1 /\ edits < MaxEdits /\ copy' = [copy EXCEPT ![activeEnv] = new]
      /\ tab' = [tab EXCEPT ![t] = r]
  BY NotebookTyped DEF Edit, host
<1>2. /\ r \in Controller /\ r.opening = tab[t].opening /\ r.env = tab[t].env
      /\ r.closing = tab[t].closing /\ r.text = tab[t].text /\ r.to = tab[t].to
  BY NotebookTyped DEF Controller
<1>3. edits' \in 0..MaxEdits /\ new \in Texts /\ new.home = activeEnv
  BY <1>1, NotebookTyped, NotebookAssumption DEF Texts
<1> HIDE DEF r, new
<1>4. /\ copy' \in [Homes -> Texts \union {NoCopy}]
      /\ ~straddled => \A e \in Homes : copy'[e] # NoCopy => copy'[e].home = e
  BY <1>1, <1>3, NotebookTyped DEF NotebookInv, SteadyInv
<1>5. ~straddled =>
        /\ session' \in {NoEnv, activeEnv} /\ \A e \in Homes : volume'[e].home = e
        /\ r.opening \in {"copy", "serve"} => r.env = activeEnv
        /\ r.closing = "write" => r.text.home = r.to
  BY <1>1, <1>2 DEF NotebookInv, SteadyInv, Pending
<1>6. QED
  BY <1>1, <1>2, <1>3, <1>4, <1>5, ControllerStep, NotebookTyped DEF TextInv

LEMMA OpenTabInv == ASSUME NotebookInv, NEW t \in Tabs, OpenTab(t) PROVE NotebookInv'
<1> DEFINE others == {u \in Tabs \ {t} : Opened(u) /\ ~Finished(tab[u])}
           busy == others # {}
           r == [NewController EXCEPT !.opening = "capture", !.excused = busy]
<1>1. /\ UNCHANGED <<activeEnv, switching, straddled, session, copy, volume, edits, lost>>
      /\ shown' = t
      /\ tab' = [u \in Tabs |-> IF u = t THEN r
                               ELSE IF u \in others THEN [tab[u] EXCEPT !.excused = TRUE] ELSE tab[u]]
  BY DEF OpenTab, host, files
<1>2. r \in Controller /\ r.opening = "capture" /\ r.closing = "no"
  <2>1. busy \in BOOLEAN
    OBVIOUS
  <2> HIDE DEF busy
  <2>2. r \in Controller
    BY <2>1, NewControllerTyped DEF Controller
  <2>3. r.opening = "capture" /\ r.closing = NewController.closing
    BY NewControllerTyped DEF Controller
  <2>4. QED
    BY <2>2, <2>3, NewControllerTyped
<1>3. ASSUME NEW u \in Tabs, u # t
      PROVE  /\ tab'[u] \in Controller
             /\ tab'[u].opening = tab[u].opening /\ tab'[u].env = tab[u].env
             /\ tab'[u].closing = tab[u].closing /\ tab'[u].text = tab[u].text
             /\ tab'[u].to = tab[u].to
  <2>1. tab[u] \in Controller
    BY NotebookTyped
  <2>2. CASE tab'[u] = tab[u]
    BY <2>1, <2>2
  <2>3. CASE tab'[u] = [tab[u] EXCEPT !.excused = TRUE]
    BY <2>1, <2>3 DEF Controller
  <2>4. QED
    BY <1>1, <1>3, <2>2, <2>3
<1> HIDE DEF r, others
<1>4. tab'[t] = r /\ tab' \in [Tabs -> Controller]
  BY <1>1, <1>2, <1>3
<1>5. NotebookTypeOK'
  BY <1>1, <1>4 DEF NotebookInv, NotebookTypeOK
<1>6. (\A u \in Tabs : TextInv(u))'
  BY <1>2, <1>3, <1>4 DEF NotebookInv, TextInv
<1>7. ~straddled => SteadyInv'
  BY <1>1, <1>2, <1>3, <1>4 DEF NotebookInv, SteadyInv, Pending
<1>8. QED
  BY <1>1, <1>5, <1>6, <1>7 DEF NotebookInv

LEMMA OpeningInvs ==
  ASSUME NotebookInv, NEW t \in Tabs, OpenFails(t) \/ OpenAnswered(t) PROVE NotebookInv'
<1>1. UNCHANGED <<host, session, files, shown, edits, lost>>
  BY DEF OpenFails, OpenAnswered
<1>2. \E r \in Controller :
        /\ Now(t, r) /\ r.opening = "ended" /\ r.closing = tab[t].closing
        /\ r.text = tab[t].text /\ r.to = tab[t].to
  <2>1. CASE OpenFails(t)
    <3> DEFINE r == [tab[t] EXCEPT !.opening = "ended", !.env = NoEnv]
    <3>1. /\ r \in Controller /\ r.opening = "ended" /\ r.closing = tab[t].closing
          /\ r.text = tab[t].text /\ r.to = tab[t].to
      BY NotebookTyped DEF Controller
    <3>2. Now(t, r)
      BY <2>1 DEF OpenFails
    <3>3. QED
      BY <3>1, <3>2
  <2>2. CASE OpenAnswered(t)
    <3> DEFINE r == [tab[t] EXCEPT !.opening = "ended", !.has = TRUE]
    <3>1. /\ r \in Controller /\ r.opening = "ended" /\ r.closing = tab[t].closing
          /\ r.text = tab[t].text /\ r.to = tab[t].to
      BY NotebookTyped DEF Controller
    <3>2. Now(t, r)
      BY <2>2 DEF OpenAnswered
    <3>3. QED
      BY <3>1, <3>2
  <2>3. QED
    BY <2>1, <2>2
<1>3. PICK r \in Controller :
        /\ Now(t, r) /\ r.opening = "ended" /\ r.closing = tab[t].closing
        /\ r.text = tab[t].text /\ r.to = tab[t].to
  BY <1>2
<1>4. PICK n \in Controller :
        /\ tab' = [tab EXCEPT ![t] = n]
        /\ n.opening \in {r.opening, "ended"} /\ n.closing \in {r.closing, "ended"}
        /\ n.closing # "ended" => n = r
  BY <1>3, NowTyped
<1>5. QED
  BY <1>1, <1>3, <1>4, HeldStep, NotebookTyped

LEMMA CaptureInv == ASSUME NotebookInv, NEW t \in Tabs, Capture(t) PROVE NotebookInv'
<1> DEFINE r == [tab[t] EXCEPT !.opening = "copy", !.env = activeEnv]
<1>1. tab' = [tab EXCEPT ![t] = r]
  BY NotebookTyped DEF Capture
<1>2. /\ r \in Controller /\ r.env = activeEnv /\ r.closing = tab[t].closing
      /\ r.text = tab[t].text /\ r.to = tab[t].to
  BY NotebookTyped DEF Controller
<1> HIDE DEF r
<1>3. UNCHANGED <<activeEnv, switching, straddled, session, copy, volume, shown, edits, lost>>
  BY DEF Capture, host, files
<1>4. ~straddled =>
        /\ session \in {NoEnv, activeEnv}
        /\ \A e \in Homes : copy[e] # NoCopy => copy[e].home = e
        /\ \A e \in Homes : volume[e].home = e
        /\ r.closing = "write" => r.text.home = r.to
  BY <1>2 DEF NotebookInv, SteadyInv
<1>5. QED
  BY <1>1, <1>2, <1>3, <1>4, ControllerStep, NotebookTyped DEF TextInv

LEMMA CopyFileInv == ASSUME NotebookInv, NEW t \in Tabs, CopyFile(t) PROVE NotebookInv'
<1> DEFINE r == [tab[t] EXCEPT !.opening = "serve"]
<1>1. tab' = [tab EXCEPT ![t] = r]
  BY NotebookTyped DEF CopyFile
<1>2. /\ r \in Controller /\ r.env = tab[t].env /\ r.closing = tab[t].closing
      /\ r.text = tab[t].text /\ r.to = tab[t].to
  BY NotebookTyped DEF Controller
<1> HIDE DEF r
<1>3. /\ UNCHANGED <<activeEnv, switching, straddled, session, volume, shown, edits, lost>>
      /\ copy' = [copy EXCEPT ![tab[t].env] = volume[tab[t].env]] /\ Pending(t)
  BY DEF CopyFile, host, Pending
<1>4. \A e \in Homes : copy'[e] = (IF e = tab[t].env THEN volume[e] ELSE copy[e])
  BY <1>3, NotebookTyped
<1>5. copy' \in [Homes -> Texts \union {NoCopy}]
  BY <1>3, <1>4, NotebookTyped
<1>6. ~straddled =>
        /\ session \in {NoEnv, activeEnv}
        /\ \A e \in Homes : copy'[e] # NoCopy => copy'[e].home = e
        /\ \A e \in Homes : volume[e].home = e
        /\ r.env = activeEnv
        /\ r.closing = "write" => r.text.home = r.to
  BY <1>2, <1>3, <1>4 DEF NotebookInv, SteadyInv
<1>7. QED
  BY <1>1, <1>2, <1>3, <1>5, <1>6, ControllerStep, NotebookTyped DEF TextInv

LEMMA ServeInv == ASSUME NotebookInv, NEW t \in Tabs, Serve(t) PROVE NotebookInv'
<1> DEFINE r == [tab[t] EXCEPT !.opening = "answer"]
<1>1. tab' = [tab EXCEPT ![t] = r]
  BY NotebookTyped DEF Serve
<1>2. /\ r \in Controller /\ r.opening = "answer" /\ r.closing = tab[t].closing
      /\ r.text = tab[t].text /\ r.to = tab[t].to
  BY NotebookTyped DEF Controller
<1> HIDE DEF r
<1>3. /\ UNCHANGED <<activeEnv, switching, straddled, copy, volume, shown, edits, lost>>
      /\ session' = tab[t].env /\ Pending(t) /\ tab[t].env \in Homes \union {NoEnv}
  BY NotebookTyped DEF Serve, host, files, Pending, Controller
<1>4. ~straddled =>
        /\ session' \in {NoEnv, activeEnv}
        /\ \A e \in Homes : copy[e] # NoCopy => copy[e].home = e
        /\ \A e \in Homes : volume[e].home = e
        /\ r.closing = "write" => r.text.home = r.to
  BY <1>2, <1>3 DEF NotebookInv, SteadyInv
<1>5. QED
  BY <1>1, <1>2, <1>3, <1>4, ControllerStep, NotebookTyped DEF TextInv

\* The close handler is at another step, with nothing to write.
LEMMA CloseTabInv == ASSUME NotebookInv, NEW t \in Tabs, CloseTab(t) PROVE NotebookInv'
<1>1. PICK step \in {"sync", "release"} : tab' = [tab EXCEPT ![t].closing = step]
  BY DEF CloseTab
<1> DEFINE r == [tab[t] EXCEPT !.closing = step]
<1>2. /\ tab' = [tab EXCEPT ![t] = r] /\ r \in Controller /\ r.opening = tab[t].opening
      /\ r.env = tab[t].env /\ r.closing = step
  BY <1>1, NotebookTyped DEF Controller
<1> HIDE DEF r
<1>3. UNCHANGED <<host, session, files, shown, edits, lost>>
  BY DEF CloseTab
<1>4. QED
  BY <1>2, <1>3, HeldStep, NotebookTyped

LEMMA SyncedTyped ==
  ASSUME NotebookInv, NEW t \in Tabs, NEW failed \in BOOLEAN, Synced(t, failed)
  PROVE  \E r \in Controller :
           /\ tab' = [tab EXCEPT ![t] = r] /\ r.opening = tab[t].opening /\ r.env = tab[t].env
           /\ r.closing = "release"
<1> DEFINE r == [tab[t] EXCEPT !.closing = "release", !.text = NoCopy, !.to = NoEnv,
                               !.excused = tab[t].excused \/ failed]
<1>1. tab' = [tab EXCEPT ![t] = r]
  BY NotebookTyped DEF Synced
<1>2. r \in Controller /\ r.opening = tab[t].opening /\ r.env = tab[t].env /\ r.closing = "release"
  <2>1. PICK w \in BOOLEAN : w = (tab[t].excused \/ failed)
    OBVIOUS
  <2>2. r = [tab[t] EXCEPT !.closing = "release", !.text = NoCopy, !.to = NoEnv, !.excused = w]
    BY <2>1
  <2>3. tab[t] \in Controller
    BY NotebookTyped
  <2> HIDE DEF r
  <2>4. QED
    BY <2>2, <2>3 DEF Controller
<1>3. QED
  BY <1>1, <1>2

LEMMA SyncReadInv == ASSUME NotebookInv, NEW t \in Tabs, SyncRead(t) PROVE NotebookInv'
<1>1. UNCHANGED <<host, session, files, shown, edits, lost>>
  BY DEF SyncRead
<1>2. CASE /\ session # NoEnv /\ copy[session] # NoCopy
           /\ tab' = [tab EXCEPT ![t].closing = "write", ![t].text = copy[session], ![t].to = activeEnv]
  <2> DEFINE r == [tab[t] EXCEPT !.closing = "write", !.text = copy[session], !.to = activeEnv]
  <2>1. copy[session] \in Texts /\ session \in Homes
    BY <1>2, NotebookTyped
  <2>2. tab' = [tab EXCEPT ![t] = r]
    BY <1>2, NotebookTyped
  <2>3. /\ r \in Controller /\ r.opening = tab[t].opening /\ r.env = tab[t].env
        /\ r.text = copy[session] /\ r.to = activeEnv
    BY <2>1, NotebookTyped DEF Controller
  <2> HIDE DEF r
  <2>4. UNCHANGED <<activeEnv, switching, straddled, session, copy, volume, shown, edits, lost>>
    BY <1>1 DEF host, files
  <2>5. ~straddled =>
          /\ session \in {NoEnv, activeEnv}
          /\ \A e \in Homes : copy[e] # NoCopy => copy[e].home = e
          /\ \A e \in Homes : volume[e].home = e
          /\ r.opening \in {"copy", "serve"} => r.env = activeEnv
          /\ r.text.home = r.to
    BY <1>2, <2>1, <2>3 DEF NotebookInv, SteadyInv, Pending
  <2>6. QED
    BY <2>1, <2>2, <2>3, <2>4, <2>5, ControllerStep, NotebookTyped
<1>3. CASE Synced(t, TRUE)
  BY <1>1, <1>3, SyncedTyped, HeldStep, NotebookTyped
<1>4. QED
  BY <1>2, <1>3 DEF SyncRead

LEMMA SyncWriteInv == ASSUME NotebookInv, NEW t \in Tabs, SyncWrite(t) PROVE NotebookInv'
<1>1. /\ UNCHANGED <<activeEnv, switching, straddled, session, copy, shown, edits, lost>>
      /\ tab[t].closing = "write" /\ tab[t].text \in Texts /\ tab[t].to \in Homes
  BY NotebookTyped DEF SyncWrite, host, TextInv
<1>2. CASE volume' = [volume EXCEPT ![tab[t].to] = tab[t].text] /\ Synced(t, FALSE)
  <2>1. PICK r \in Controller :
          /\ tab' = [tab EXCEPT ![t] = r] /\ r.opening = tab[t].opening /\ r.env = tab[t].env
          /\ r.closing = "release"
    BY <1>2, SyncedTyped
  <2>2. volume' \in [Homes -> Texts]
    BY <1>1, <1>2, NotebookTyped
  <2>3. ~straddled =>
          /\ session \in {NoEnv, activeEnv}
          /\ \A e \in Homes : copy[e] # NoCopy => copy[e].home = e
          /\ \A e \in Homes : volume'[e].home = e
          /\ r.opening \in {"copy", "serve"} => r.env = activeEnv
    BY <1>1, <1>2, <2>1, NotebookTyped DEF NotebookInv, SteadyInv, Pending
  <2>4. QED
    BY <1>1, <2>1, <2>2, <2>3, ControllerStep, NotebookTyped
<1>3. CASE Synced(t, TRUE) /\ UNCHANGED volume
  BY <1>1, <1>3, SyncedTyped, HeldStep, NotebookTyped DEF host, files
<1>4. QED
  BY <1>2, <1>3 DEF SyncWrite

LEMMA DisposedTyped ==
  ASSUME NEW r \in Controller
  PROVE  /\ Disposed(r) \in Controller /\ Disposed(r).opening = r.opening
         /\ Disposed(r).env = r.env /\ Disposed(r).closing = r.closing
         /\ Disposed(r).text = r.text /\ Disposed(r).to = r.to
BY DEF Disposed, Controller

\* A controller that is let go of, or has closed its session: it opens and writes what it did.
LEMMA LetGoInv ==
  ASSUME NotebookInv, NEW t \in Tabs, NEW r \in Controller, Now(t, r),
         r.opening = tab[t].opening, r.env = tab[t].env,
         r.closing = "write" => tab[t].closing = "write" /\ r.text = tab[t].text /\ r.to = tab[t].to,
         UNCHANGED <<host, session, files, edits, lost>>, shown' \in Tabs \union {NoTab}
  PROVE  NotebookInv'
<1>1. PICK n \in Controller :
        /\ tab' = [tab EXCEPT ![t] = n]
        /\ n.opening \in {r.opening, "ended"} /\ n.closing \in {r.closing, "ended"}
        /\ n.opening # "ended" => n = r
        /\ n.closing # "ended" => n = r
  BY NowTyped
<1>2. QED
  BY <1>1, HeldStep, NotebookTyped

LEMMA ReleaseInv == ASSUME NotebookInv, NEW t \in Tabs, Release(t) PROVE NotebookInv'
<1> DEFINE d == Disposed(tab[t])
           r == [d EXCEPT !.closing = "ended"]
<1>1. /\ d \in Controller /\ d.opening = tab[t].opening /\ d.env = tab[t].env
  BY DisposedTyped, NotebookTyped
<1>2. Now(t, r) /\ UNCHANGED <<host, session, files, edits, lost>> /\ shown' \in Tabs \union {NoTab}
  BY NotebookTyped DEF Release
<1> HIDE DEF d
<1>3. r \in Controller /\ r.opening = tab[t].opening /\ r.env = tab[t].env /\ r.closing = "ended"
  BY <1>1 DEF Controller
<1> HIDE DEF r
<1>4. QED
  BY <1>2, <1>3, LetGoInv

LEMMA LeavePageInv == ASSUME NotebookInv, NEW t \in Tabs, LeavePage(t) PROVE NotebookInv'
<1> DEFINE r == [tab[t] EXCEPT !.left = "leaving"]
<1>1. /\ tab' = [tab EXCEPT ![t] = r] /\ shown' = NoTab
      /\ UNCHANGED <<host, session, files, edits, lost>>
  BY NotebookTyped DEF LeavePage
<1>2. /\ r \in Controller /\ r.opening = tab[t].opening /\ r.env = tab[t].env
      /\ r.closing = tab[t].closing /\ r.text = tab[t].text /\ r.to = tab[t].to
  BY NotebookTyped DEF Controller
<1> HIDE DEF r
<1>3. QED
  BY <1>1, <1>2, HeldStep, NotebookTyped

LEMMA LeftPageInv == ASSUME NotebookInv, NEW t \in Tabs, LeftPage(t) PROVE NotebookInv'
<1> DEFINE d == Disposed(tab[t])
           r == [d EXCEPT !.left = "left"]
<1>1. /\ d \in Controller /\ d.opening = tab[t].opening /\ d.env = tab[t].env
      /\ d.closing = tab[t].closing /\ d.text = tab[t].text /\ d.to = tab[t].to
  BY DisposedTyped, NotebookTyped
<1>2. Now(t, r) /\ UNCHANGED <<host, session, files, edits, lost>> /\ shown' \in Tabs \union {NoTab}
  BY NotebookTyped DEF LeftPage
<1> HIDE DEF d
<1>3. /\ r \in Controller /\ r.opening = tab[t].opening /\ r.env = tab[t].env
      /\ r.closing = tab[t].closing /\ r.text = tab[t].text /\ r.to = tab[t].to
  BY <1>1 DEF Controller
<1> HIDE DEF r
<1>4. QED
  BY <1>2, <1>3, LetGoInv

LEMMA CloseSessionInv == ASSUME NotebookInv, NEW t \in Tabs, CloseSession(t) PROVE NotebookInv'
<1> DEFINE r == [tab[t] EXCEPT !.release = "ended"]
<1>1. /\ Now(t, r) /\ session' = NoEnv
      /\ UNCHANGED <<activeEnv, switching, straddled, volume, shown, edits>>
  BY DEF CloseSession, host
<1>2. /\ r \in Controller /\ r.opening = tab[t].opening /\ r.env = tab[t].env
      /\ r.closing = tab[t].closing /\ r.text = tab[t].text /\ r.to = tab[t].to
  BY NotebookTyped DEF Controller
<1> HIDE DEF r
<1>3. PICK n \in Controller :
        /\ tab' = [tab EXCEPT ![t] = n]
        /\ n.opening \in {r.opening, "ended"} /\ n.closing \in {r.closing, "ended"}
        /\ n.opening # "ended" => n = r
        /\ n.closing # "ended" => n = r
  BY <1>1, <1>2, NowTyped
<1>4. \A e \in Homes : copy'[e] \in {copy[e], NoCopy}
  BY NotebookTyped DEF CloseSession
<1>5. copy' \in [Homes -> Texts \union {NoCopy}]
  BY NotebookTyped DEF CloseSession
<1>6. lost' \in SUBSET Losses
  BY NotebookTyped DEF CloseSession, Losses
<1>7. ~straddled =>
        /\ \A e \in Homes : copy'[e] # NoCopy => copy'[e].home = e
        /\ \A e \in Homes : volume[e].home = e
        /\ n.opening \in {"copy", "serve"} => n.env = activeEnv
        /\ n.closing = "write" => n.text.home = n.to
  BY <1>2, <1>3, <1>4 DEF NotebookInv, SteadyInv, Pending
<1>8. n.closing = "write" => n.text \in Texts /\ n.to \in Homes
  BY <1>2, <1>3, NotebookTyped DEF TextInv
<1>9. QED
  BY <1>1, <1>3, <1>5, <1>6, <1>7, <1>8, ControllerStep, NotebookTyped

LEMMA NotebookStep == ASSUME NotebookInv, NotebookNext PROVE NotebookInv'
BY TakeDownInv, BringUpInv, EditInv, OpenTabInv, OpeningInvs, CaptureInv, CopyFileInv, ServeInv,
   CloseTabInv, SyncReadInv, SyncWriteInv, ReleaseInv, LeavePageInv, LeftPageInv, CloseSessionInv
   DEF NotebookNext

LEMMA NotebookInvariant == NotebookSpec => []NotebookInv
<1>1. ASSUME NotebookInv, UNCHANGED notebookVars PROVE NotebookInv'
  <2>1. UNCHANGED <<activeEnv, switching, session, copy, volume, tab, shown, edits, straddled, lost>>
    BY <1>1 DEF notebookVars
  <2>2. QED
    BY <1>1, <2>1 DEF NotebookInv, NotebookTypeOK, TextInv, SteadyInv, Pending
<1>2. NotebookInv /\ [NotebookNext]_notebookVars => NotebookInv'
  BY <1>1, NotebookStep
<1>3. QED
  BY <1>2, NotebookInit_Inv, PTL DEF NotebookSpec

\* For any number of environments, tabs and edits: what a final sync writes, it writes to the
\* environment the notebook was opened in (notebook.rs, open_notebook, sync_notebook).
THEOREM SyncGoesHomeHolds == NotebookSpec => []SyncGoesHome
<1>1. NotebookInv => SyncGoesHome
  BY DEF NotebookInv, SteadyInv, SyncGoesHome
<1>2. QED
  BY <1>1, NotebookInvariant, PTL

-----------------------------------------------------------------------------
(* The sync when a notebook is closed.                                     *)

\* A controller that has nothing left to do, or nothing yet.
Rested == [NewController EXCEPT !.opening = "ended", !.closing = "ended"]
IdleTab(r) == r.opening = "no" \/ Finished(r)

\* How far a controller can be.
Shape(r) ==
  /\ r.opening = "no" => r = NewController
  /\ Finished(r) => r = Rested
  /\ r.opening \in {"copy", "serve", "answer"} => r.env \in Homes
  /\ r.has \/ r.closing \in {"sync", "write"} => r.opening = "ended"
  /\ r.left = "no" => /\ r.closing \in {"sync", "write"} => r.has
                      /\ r.release = "call" => r.closing = "ended" /\ r.opening = "ended" /\ ~r.has

\* The controller of the tab shown is neither closed nor left.
OnPage(r) == r.opening # "no" /\ r.closing # "ended" /\ r.left = "no"

\* A controller under way that had the notebook to itself, for which nothing failed, and whose page was
\* not left.
Blameless(r) == ~IdleTab(r) /\ ~r.excused /\ r.left = "no"

\* The copy the session s has is the file's.
Clean(s, copies, vol) == s # NoEnv => copies[s] \in {NoCopy, vol[s]}

\* Until it has a session the copy is the file's; and what its session would discard is the file's too,
\* or an edit that is still to be synced, or that is about to be written.
SoundIn(r, active, changing, s, copies, vol) ==
  /\ r.opening \in {"serve", "answer"} => copies[r.env] = vol[r.env]
  /\ r.opening = "answer" \/ r.has \/ r.release = "call" => s \in {NoEnv, r.env}
  /\ r.has \/ r.release = "call" =>
       /\ \/ Clean(s, copies, vol)
          \/ active = s /\ ~changing /\ r.closing \in {"no", "sync", "write"}
       /\ r.closing = "write" /\ s # NoEnv =>
            r.text = copies[s] /\ (Clean(s, copies, vol) \/ r.to = s)

ReleaseInvariant ==
  /\ \A t \in Tabs : Shape(tab[t]) /\ (shown = t => OnPage(tab[t]))
  /\ \A t \in Tabs : Blameless(tab[t]) =>
       /\ SoundIn(tab[t], activeEnv, switching, session, copy, volume)
       /\ \A u \in Tabs : u # t => IdleTab(tab[u])
  /\ ReleasedIsSynced

LEMMA RestingOK ==
  /\ Rested \in Controller /\ Shape(Rested) /\ ~Blameless(Rested)
  /\ Rested.left = "no" /\ Rested.release = "no" /\ Rested.closing = "ended" /\ Rested.opening = "ended"
<1>1. /\ Rested \in Controller /\ Rested.opening = "ended" /\ Rested.closing = "ended"
      /\ Rested.left = "no" /\ Rested.release = "no" /\ Rested.has = FALSE
  BY DEF Rested, NewController, Controller
<1>2. Finished(Rested)
  BY <1>1 DEF Finished, Gone
<1>3. QED
  BY <1>1, <1>2 DEF Shape, Blameless, IdleTab

LEMMA NewControllerIs ==
  /\ NewController.opening = "no" /\ NewController.closing = "no" /\ NewController.left = "no"
  /\ NewController.release = "no" /\ NewController.has = FALSE
BY DEF NewController

\* A step of the controller t, which is not idle, keeps the invariant when what becomes of it does.
LEMMA ControllerActs ==
  ASSUME NotebookInv, ReleaseInvariant, NEW t \in Tabs, NEW r \in Controller,
         tab' = [tab EXCEPT ![t] = r], ~IdleTab(tab[t]), Shape(r),
         shown' \in {shown, NoTab}, shown' = t => OnPage(r), "closed" \notin lost',
         Blameless(r) => /\ Blameless(tab[t])
                         /\ SoundIn(r, activeEnv', switching', session', copy', volume')
  PROVE  ReleaseInvariant'
<1>1. tab'[t] = r /\ \A u \in Tabs : u # t => tab'[u] = tab[u]
  BY NotebookTyped
<1>2. \A u \in Tabs : Shape(tab'[u])
  BY <1>1 DEF ReleaseInvariant
<1>3. \A u \in Tabs : shown' = u => OnPage(tab'[u])
  BY <1>1, NotebookAssumption DEF ReleaseInvariant
<1>4. ASSUME NEW u \in Tabs, Blameless(tab'[u])
      PROVE  /\ SoundIn(tab'[u], activeEnv', switching', session', copy', volume')
             /\ \A w \in Tabs : w # u => IdleTab(tab'[w])
  <2>1. u = t
    BY <1>1, <1>4 DEF ReleaseInvariant
  <2>2. QED
    BY <1>1, <1>4, <2>1 DEF ReleaseInvariant
<1>5. /\ (\A u \in Tabs : Shape(tab[u]) /\ (shown = u => OnPage(tab[u])))'
      /\ (\A u \in Tabs : Blameless(tab[u]) =>
            /\ SoundIn(tab[u], activeEnv, switching, session, copy, volume)
            /\ \A w \in Tabs : w # u => IdleTab(tab[w]))'
  BY <1>2, <1>3, <1>4 DEF Shape, OnPage, Blameless, SoundIn, IdleTab, Clean, Finished, Gone
<1>6. QED
  BY <1>5 DEF ReleaseInvariant, ReleasedIsSynced

\* The same for a controller that may be done with, and is reset then.
LEMMA ControllerNow ==
  ASSUME NotebookInv, ReleaseInvariant, NEW t \in Tabs, NEW r \in Controller,
         Now(t, r), ~IdleTab(tab[t]), ~Finished(r) => Shape(r),
         shown' \in {shown, NoTab}, shown' = t => OnPage(r), "closed" \notin lost',
         Blameless(r) => /\ Blameless(tab[t])
                         /\ SoundIn(r, activeEnv', switching', session', copy', volume')
  PROVE  ReleaseInvariant'
<1>1. CASE Finished(r)
  <2>1. tab' = [tab EXCEPT ![t] = Rested]
    BY <1>1 DEF Now, Rested
  <2>2. shown' # t
    BY <1>1 DEF Finished, Gone, OnPage
  <2>3. QED
    BY <2>1, <2>2, RestingOK, ControllerActs
<1>2. CASE ~Finished(r)
  <2>1. tab' = [tab EXCEPT ![t] = r]
    BY <1>2 DEF Now
  <2>2. QED
    BY <1>2, <2>1, ControllerActs
<1>3. QED
  BY <1>1, <1>2

LEMMA OfTab ==
  ASSUME NotebookInv, ReleaseInvariant, NEW t \in Tabs
  PROVE  /\ tab[t] \in Controller /\ Shape(tab[t]) /\ (shown = t => OnPage(tab[t]))
         /\ Blameless(tab[t]) => SoundIn(tab[t], activeEnv, switching, session, copy, volume)
         /\ "closed" \notin lost
         /\ IdleTab(tab[t]) =>
              /\ tab[t].opening \in {"no", "ended"} /\ tab[t].closing \in {"no", "ended"}
              /\ tab[t].left = "no" /\ tab[t].release = "no"
         /\ shown = t => ~IdleTab(tab[t])
<1>1. /\ tab[t] \in Controller /\ Shape(tab[t]) /\ (shown = t => OnPage(tab[t]))
      /\ Blameless(tab[t]) => SoundIn(tab[t], activeEnv, switching, session, copy, volume)
      /\ "closed" \notin lost
  BY NotebookTyped DEF ReleaseInvariant, ReleasedIsSynced
<1>2. IdleTab(tab[t]) => tab[t] \in {NewController, Rested}
  BY <1>1 DEF IdleTab, Shape
<1>3. shown = t => ~IdleTab(tab[t])
  BY <1>1 DEF IdleTab, OnPage, Finished, Gone
<1>4. QED
  BY <1>1, <1>2, <1>3, RestingOK, NewControllerIs

LEMMA HostReleases == ASSUME NotebookInv, ReleaseInvariant, TakeDown \/ BringUp PROVE ReleaseInvariant'
<1>1. UNCHANGED <<copy, volume, tab, shown, lost>>
  BY DEF TakeDown, BringUp, files
<1>2. session' = NoEnv \/ (session' = session /\ switching)
  BY DEF TakeDown, BringUp
<1>3. ASSUME NEW t \in Tabs, Blameless(tab[t])
      PROVE  SoundIn(tab[t], activeEnv', switching', session', copy', volume')
  <2>1. SoundIn(tab[t], activeEnv, switching, session, copy, volume)
    BY <1>3, OfTab
  <2>2. QED
    BY <1>1, <1>2, <2>1, NotebookTyped DEF SoundIn, Clean
<1>4. (\A t \in Tabs : Blameless(tab[t]) =>
         /\ SoundIn(tab[t], activeEnv, switching, session, copy, volume)
         /\ \A u \in Tabs : u # t => IdleTab(tab[u]))'
  BY <1>1, <1>3 DEF ReleaseInvariant, Blameless, SoundIn, IdleTab, Clean, Finished, Gone
<1>5. QED
  BY <1>1, <1>4 DEF ReleaseInvariant, ReleasedIsSynced, Shape, OnPage, Finished, Gone

LEMMA EditReleases ==
  ASSUME NotebookInv, ReleaseInvariant, NEW t \in Tabs, Edit(t) PROVE ReleaseInvariant'
<1> DEFINE r == [tab[t] EXCEPT !.excused = tab[t].excused \/ tab[t].closing # "no"]
           new == [home |-> activeEnv, n |-> edits']
<1>1. /\ shown = t /\ tab[t].has /\ tab[t].env = activeEnv /\ ~switching
      /\ UNCHANGED <<activeEnv, switching, session, volume, shown, lost>>
      /\ copy' = [copy EXCEPT ![activeEnv] = new] /\ tab' = [tab EXCEPT ![t] = r]
  BY NotebookTyped DEF Edit, host
<1>2. /\ r \in Controller /\ r.opening = tab[t].opening /\ r.env = tab[t].env
      /\ r.closing = tab[t].closing /\ r.text = tab[t].text /\ r.to = tab[t].to
      /\ r.left = tab[t].left /\ r.release = tab[t].release /\ r.has = tab[t].has
      /\ ~r.excused => ~tab[t].excused /\ r.closing = "no"
  BY NotebookTyped DEF Controller
<1> HIDE DEF r, new
<1>3. ~IdleTab(tab[t]) /\ Shape(tab[t]) /\ OnPage(tab[t]) /\ "closed" \notin lost
  BY <1>1, OfTab
<1>4. Shape(r) /\ OnPage(r) /\ ~Finished(r)
  BY <1>2, <1>3 DEF Shape, OnPage, Finished, Gone
<1>5. ASSUME Blameless(r)
      PROVE  Blameless(tab[t]) /\ SoundIn(r, activeEnv', switching', session', copy', volume')
  <2>1. Blameless(tab[t]) /\ r.closing = "no" /\ r.opening = "ended"
    BY <1>1, <1>2, <1>3, <1>5 DEF Blameless, Shape
  <2>2. session \in {NoEnv, activeEnv}
    BY <1>1, <2>1, OfTab DEF SoundIn
  <2>3. QED
    BY <1>1, <1>2, <2>1, <2>2 DEF SoundIn, Clean
<1>6. QED
  BY <1>1, <1>2, <1>3, <1>4, <1>5, ControllerActs

\* A tab that is opened has the notebook to itself, or nobody has.
LEMMA OpenTabReleases ==
  ASSUME NotebookInv, ReleaseInvariant, NEW t \in Tabs, OpenTab(t) PROVE ReleaseInvariant'
<1> DEFINE others == {u \in Tabs \ {t} : Opened(u) /\ ~Finished(tab[u])}
           busy == others # {}
           r == [NewController EXCEPT !.opening = "capture", !.excused = busy]
<1>1. /\ UNCHANGED <<activeEnv, switching, session, copy, volume, lost>> /\ shown' = t
      /\ tab' = [u \in Tabs |-> IF u = t THEN r
                               ELSE IF u \in others THEN [tab[u] EXCEPT !.excused = TRUE] ELSE tab[u]]
  BY DEF OpenTab, host, files
<1>2. /\ r.opening = "capture" /\ r.closing = "no" /\ r.left = "no" /\ r.release = "no" /\ r.has = FALSE
      /\ r.excused = busy
  BY DEF NewController
<1>3. \A u \in Tabs : u # t => (u \notin others <=> IdleTab(tab[u]))
  BY DEF IdleTab, Opened
<1>4. ASSUME NEW u \in others
      PROVE  /\ tab'[u].excused /\ Shape(tab'[u]) /\ ~IdleTab(tab'[u])
  <2>1. /\ tab'[u] = [tab[u] EXCEPT !.excused = TRUE] /\ tab[u] \in Controller /\ Shape(tab[u])
        /\ ~IdleTab(tab[u])
    BY <1>1, <1>3, OfTab
  <2>2. /\ tab'[u].opening = tab[u].opening /\ tab'[u].env = tab[u].env
        /\ tab'[u].closing = tab[u].closing
        /\ tab'[u].left = tab[u].left /\ tab'[u].release = tab[u].release /\ tab'[u].has = tab[u].has
        /\ tab'[u].excused
    BY <2>1 DEF Controller
  <2>3. QED
    BY <2>1, <2>2 DEF Shape, IdleTab, Finished, Gone
<1> HIDE DEF r
<1>5. tab'[t] = r /\ \A u \in Tabs : u # t /\ u \notin others => tab'[u] = tab[u]
  BY <1>1
<1>6. Shape(r) /\ OnPage(r) /\ ~IdleTab(r)
  BY <1>2 DEF Shape, OnPage, IdleTab, Finished, Gone
<1>7. ASSUME NEW u \in Tabs PROVE Shape(tab'[u])
  BY <1>4, <1>5, <1>6, OfTab
<1>8. ASSUME NEW u \in Tabs, Blameless(tab'[u])
      PROVE  /\ SoundIn(tab'[u], activeEnv', switching', session', copy', volume')
             /\ \A w \in Tabs : w # u => IdleTab(tab'[w])
  <2>1. u \notin others
    BY <1>4, <1>8 DEF Blameless
  <2>2. u = t
    BY <1>3, <1>5, <1>8, <2>1 DEF Blameless
  <2>3. others = {}
    BY <1>2, <1>5, <1>8, <2>2 DEF Blameless
  <2>4. \A w \in Tabs : w # u => IdleTab(tab'[w])
    BY <1>3, <1>5, <2>2, <2>3
  <2>5. QED
    BY <1>2, <1>5, <2>2, <2>4 DEF SoundIn
<1>9. \A u \in Tabs : shown' = u => OnPage(tab'[u])
  BY <1>1, <1>5, <1>6
<1>10. /\ (\A u \in Tabs : Shape(tab[u]) /\ (shown = u => OnPage(tab[u])))'
       /\ (\A u \in Tabs : Blameless(tab[u]) =>
             /\ SoundIn(tab[u], activeEnv, switching, session, copy, volume)
             /\ \A w \in Tabs : w # u => IdleTab(tab[w]))'
  BY <1>7, <1>8, <1>9 DEF Shape, OnPage, Blameless, SoundIn, IdleTab, Clean, Finished, Gone
<1>11. QED
  BY <1>1, <1>10 DEF ReleaseInvariant, ReleasedIsSynced

LEMMA OpenFailsReleases ==
  ASSUME NotebookInv, ReleaseInvariant, NEW t \in Tabs, OpenFails(t) PROVE ReleaseInvariant'
<1> DEFINE r == [tab[t] EXCEPT !.opening = "ended", !.env = NoEnv]
<1>1. /\ tab[t].opening \in {"capture", "copy", "serve"} /\ Now(t, r)
      /\ UNCHANGED <<shown, lost>>
  BY DEF OpenFails
<1>2. /\ r \in Controller /\ r.opening = "ended" /\ r.closing = tab[t].closing /\ r.left = tab[t].left
      /\ r.release = tab[t].release /\ r.has = tab[t].has /\ r.excused = tab[t].excused
  BY NotebookTyped DEF Controller
<1> HIDE DEF r
<1>3. Shape(tab[t]) /\ (shown = t => OnPage(tab[t])) /\ "closed" \notin lost
  BY OfTab
<1>4. ~IdleTab(tab[t]) /\ ~tab[t].has /\ (r.left = "no" => r.release # "call") /\ r.closing \notin {"sync", "write"}
  BY <1>1, <1>2, <1>3 DEF Shape, IdleTab, Finished
<1>5. ~Finished(r) => Shape(r)
  BY <1>2, <1>4 DEF Shape
<1>6. shown = t => OnPage(r)
  BY <1>2, <1>3 DEF OnPage
<1>7. Blameless(r) => /\ Blameless(tab[t])
                      /\ SoundIn(r, activeEnv', switching', session', copy', volume')
  BY <1>2, <1>4 DEF Blameless, SoundIn
<1>8. QED
  BY <1>1, <1>2, <1>3, <1>4, <1>5, <1>6, <1>7, ControllerNow

LEMMA OpenAnsweredReleases ==
  ASSUME NotebookInv, ReleaseInvariant, NEW t \in Tabs, OpenAnswered(t) PROVE ReleaseInvariant'
<1> DEFINE r == [tab[t] EXCEPT !.opening = "ended", !.has = TRUE]
<1>1. /\ tab[t].opening = "answer" /\ Now(t, r)
      /\ UNCHANGED <<activeEnv, switching, session, copy, volume, shown, lost>>
  BY DEF OpenAnswered, host, files
<1>2. /\ r \in Controller /\ r.opening = "ended" /\ r.closing = tab[t].closing /\ r.left = tab[t].left
      /\ r.release = tab[t].release /\ r.has = TRUE /\ r.excused = tab[t].excused /\ r.env = tab[t].env
  BY NotebookTyped DEF Controller
<1> HIDE DEF r
<1>3. Shape(tab[t]) /\ (shown = t => OnPage(tab[t])) /\ "closed" \notin lost
  BY OfTab
<1>4. ~IdleTab(tab[t]) /\ (r.left = "no" => r.release # "call") /\ r.closing \notin {"sync", "write"}
  BY <1>1, <1>2, <1>3 DEF Shape, IdleTab, Finished
<1>5. ~Finished(r) => Shape(r)
  BY <1>2, <1>4 DEF Shape
<1>6. shown = t => OnPage(r)
  BY <1>2, <1>3 DEF OnPage
<1>7. ASSUME Blameless(r)
      PROVE  Blameless(tab[t]) /\ SoundIn(r, activeEnv', switching', session', copy', volume')
  <2>1. Blameless(tab[t])
    BY <1>2, <1>4, <1>7 DEF Blameless
  <2>2. session \in {NoEnv, r.env} /\ copy[r.env] = volume[r.env]
    BY <1>1, <1>2, <2>1, OfTab DEF SoundIn
  <2>3. QED
    BY <1>1, <1>2, <1>4, <2>1, <2>2 DEF SoundIn, Clean
<1>8. QED
  BY <1>1, <1>2, <1>3, <1>4, <1>5, <1>6, <1>7, ControllerNow

LEMMA CaptureReleases ==
  ASSUME NotebookInv, ReleaseInvariant, NEW t \in Tabs, Capture(t) PROVE ReleaseInvariant'
<1> DEFINE r == [tab[t] EXCEPT !.opening = "copy", !.env = activeEnv]
<1>1. tab' = [tab EXCEPT ![t] = r] /\ tab[t].opening = "capture" /\ UNCHANGED <<shown, lost>>
  BY NotebookTyped DEF Capture
<1>2. /\ r \in Controller /\ r.opening = "copy" /\ r.closing = tab[t].closing /\ r.left = tab[t].left
      /\ r.release = tab[t].release /\ r.has = tab[t].has /\ r.excused = tab[t].excused
      /\ r.env = activeEnv /\ activeEnv \in Homes
  BY NotebookTyped DEF Controller
<1> HIDE DEF r
<1>3. Shape(tab[t]) /\ (shown = t => OnPage(tab[t])) /\ "closed" \notin lost
  BY OfTab
<1>4. ~IdleTab(tab[t]) /\ ~r.has /\ (r.left = "no" => r.release # "call") /\ r.closing \notin {"sync", "write"}
  BY <1>1, <1>2, <1>3 DEF Shape, IdleTab, Finished
<1>5. Shape(r) /\ (shown = t => OnPage(r))
  BY <1>2, <1>3, <1>4 DEF Shape, OnPage, Finished
<1>6. Blameless(r) => /\ Blameless(tab[t])
                      /\ SoundIn(r, activeEnv', switching', session', copy', volume')
  BY <1>2, <1>4 DEF Blameless, SoundIn
<1>7. QED
  BY <1>1, <1>2, <1>3, <1>4, <1>5, <1>6, ControllerActs

LEMMA CopyFileReleases ==
  ASSUME NotebookInv, ReleaseInvariant, NEW t \in Tabs, CopyFile(t) PROVE ReleaseInvariant'
<1> DEFINE r == [tab[t] EXCEPT !.opening = "serve"]
           e == tab[t].env
<1>1. /\ tab' = [tab EXCEPT ![t] = r] /\ tab[t].opening = "copy" /\ UNCHANGED <<shown, lost, volume>>
      /\ copy' = [copy EXCEPT ![e] = volume[e]]
  BY NotebookTyped DEF CopyFile
<1>2. /\ r \in Controller /\ r.opening = "serve" /\ r.closing = tab[t].closing /\ r.left = tab[t].left
      /\ r.release = tab[t].release /\ r.has = tab[t].has /\ r.excused = tab[t].excused /\ r.env = e
  BY NotebookTyped DEF Controller
<1> HIDE DEF r
<1>3. Shape(tab[t]) /\ (shown = t => OnPage(tab[t])) /\ "closed" \notin lost /\ e \in Homes
  BY <1>1, OfTab DEF Shape
<1>4. ~IdleTab(tab[t]) /\ ~r.has /\ (r.left = "no" => r.release # "call") /\ r.closing \notin {"sync", "write"}
  BY <1>1, <1>2, <1>3 DEF Shape, IdleTab, Finished
<1>5. Shape(r) /\ (shown = t => OnPage(r))
  BY <1>2, <1>3, <1>4 DEF Shape, OnPage, Finished
<1>6. copy'[e] = volume'[e]
  BY <1>1, <1>3, NotebookTyped
<1>7. Blameless(r) => /\ Blameless(tab[t])
                      /\ SoundIn(r, activeEnv', switching', session', copy', volume')
  BY <1>2, <1>4, <1>6 DEF Blameless, SoundIn
<1>8. QED
  BY <1>1, <1>2, <1>3, <1>4, <1>5, <1>7, ControllerActs

LEMMA ServeReleases ==
  ASSUME NotebookInv, ReleaseInvariant, NEW t \in Tabs, Serve(t) PROVE ReleaseInvariant'
<1> DEFINE r == [tab[t] EXCEPT !.opening = "answer"]
<1>1. /\ tab' = [tab EXCEPT ![t] = r] /\ tab[t].opening = "serve" /\ UNCHANGED <<shown, lost, copy, volume>>
      /\ session' = tab[t].env
  BY NotebookTyped DEF Serve, files
<1>2. /\ r \in Controller /\ r.opening = "answer" /\ r.closing = tab[t].closing /\ r.left = tab[t].left
      /\ r.release = tab[t].release /\ r.has = tab[t].has /\ r.excused = tab[t].excused
      /\ r.env = tab[t].env
  BY NotebookTyped DEF Controller
<1> HIDE DEF r
<1>3. Shape(tab[t]) /\ (shown = t => OnPage(tab[t])) /\ "closed" \notin lost /\ tab[t].env \in Homes
  BY <1>1, OfTab DEF Shape
<1>4. ~IdleTab(tab[t]) /\ ~r.has /\ (r.left = "no" => r.release # "call") /\ r.closing \notin {"sync", "write"}
  BY <1>1, <1>2, <1>3 DEF Shape, IdleTab, Finished
<1>5. Shape(r) /\ (shown = t => OnPage(r))
  BY <1>2, <1>3, <1>4 DEF Shape, OnPage, Finished
<1>6. ASSUME Blameless(r)
      PROVE  Blameless(tab[t]) /\ SoundIn(r, activeEnv', switching', session', copy', volume')
  <2>1. Blameless(tab[t])
    BY <1>2, <1>4, <1>6 DEF Blameless
  <2>2. copy[r.env] = volume[r.env]
    BY <1>1, <1>2, <2>1, OfTab DEF SoundIn
  <2>3. r.release # "call"
    BY <1>4, <1>6 DEF Blameless
  <2>4. QED
    BY <1>1, <1>2, <1>4, <2>1, <2>2, <2>3 DEF SoundIn
<1>7. QED
  BY <1>1, <1>2, <1>3, <1>4, <1>5, <1>6, ControllerActs

\* A tab that has no session yet has nothing to sync.
LEMMA CloseTabReleases ==
  ASSUME NotebookInv, ReleaseInvariant, NEW t \in Tabs, CloseTab(t) PROVE ReleaseInvariant'
<1> DEFINE step == IF tab[t].has THEN "sync" ELSE "release"
           r == [tab[t] EXCEPT !.closing = step]
<1>1. /\ tab' = [tab EXCEPT ![t] = r] /\ tab[t].closing = "no" /\ shown = t
      /\ UNCHANGED <<activeEnv, switching, session, copy, volume, shown, lost>>
  BY NotebookTyped DEF CloseTab, host, files
<1>2. /\ r \in Controller /\ r.opening = tab[t].opening /\ r.closing = step /\ r.left = tab[t].left
      /\ r.release = tab[t].release /\ r.has = tab[t].has /\ r.excused = tab[t].excused
      /\ r.env = tab[t].env
  BY NotebookTyped DEF Controller
<1> HIDE DEF r
<1>3. Shape(tab[t]) /\ OnPage(tab[t]) /\ "closed" \notin lost /\ ~IdleTab(tab[t])
  BY <1>1, OfTab
<1>4. Shape(r) /\ OnPage(r)
  BY <1>1, <1>2, <1>3 DEF Shape, OnPage, Finished, Gone
<1>5. r.release # "call"
  BY <1>1, <1>2, <1>3 DEF Shape, OnPage
<1>6. ASSUME Blameless(r)
      PROVE  Blameless(tab[t]) /\ SoundIn(r, activeEnv', switching', session', copy', volume')
  <2>1. Blameless(tab[t])
    BY <1>2, <1>3, <1>6 DEF Blameless
  <2>2. SoundIn(tab[t], activeEnv, switching, session, copy, volume)
    BY <2>1, OfTab
  <2>3. QED
    BY <1>1, <1>2, <1>5, <2>1, <2>2 DEF SoundIn
<1>7. QED
  BY <1>1, <1>2, <1>3, <1>4, <1>6, ControllerActs

LEMMA SyncedReleases ==
  ASSUME NotebookInv, ReleaseInvariant, NEW t \in Tabs, NEW failed \in BOOLEAN, Synced(t, failed),
         tab[t].closing \in {"sync", "write"}, UNCHANGED <<activeEnv, switching, session, copy, shown, lost>>,
         ~failed /\ Blameless(tab[t]) => Clean(session, copy, volume')
  PROVE  ReleaseInvariant'
<1> DEFINE r == [tab[t] EXCEPT !.closing = "release", !.text = NoCopy, !.to = NoEnv,
                               !.excused = tab[t].excused \/ failed]
<1>1. tab' = [tab EXCEPT ![t] = r]
  BY NotebookTyped DEF Synced
<1>2. /\ r \in Controller /\ r.opening = tab[t].opening /\ r.closing = "release" /\ r.left = tab[t].left
      /\ r.release = tab[t].release /\ r.has = tab[t].has /\ r.env = tab[t].env
      /\ ~r.excused => ~tab[t].excused /\ ~failed
  <2>1. PICK w \in BOOLEAN : w = (tab[t].excused \/ failed)
    OBVIOUS
  <2>2. r = [tab[t] EXCEPT !.closing = "release", !.text = NoCopy, !.to = NoEnv, !.excused = w]
    BY <2>1
  <2>3. tab[t] \in Controller
    BY NotebookTyped
  <2> HIDE DEF r
  <2>4. r \in Controller
    BY <2>2, <2>3 DEF Controller
  <2>5. /\ r.opening = tab[t].opening /\ r.closing = "release" /\ r.left = tab[t].left
        /\ r.release = tab[t].release /\ r.has = tab[t].has /\ r.env = tab[t].env /\ r.excused = w
    BY <2>2, <2>3 DEF Controller
  <2>6. QED
    BY <2>1, <2>4, <2>5
<1> HIDE DEF r
<1>3. Shape(tab[t]) /\ (shown = t => OnPage(tab[t])) /\ "closed" \notin lost /\ ~IdleTab(tab[t])
  BY OfTab
<1>4. Shape(r) /\ (shown = t => OnPage(r))
  BY <1>2, <1>3 DEF Shape, OnPage, Finished, Gone
<1>5. ASSUME Blameless(r)
      PROVE  Blameless(tab[t]) /\ SoundIn(r, activeEnv', switching', session', copy', volume')
  <2>1. Blameless(tab[t]) /\ ~failed /\ tab[t].has /\ tab[t].opening = "ended"
    BY <1>2, <1>3, <1>5 DEF Blameless, Shape
  <2>2. session \in {NoEnv, r.env}
    BY <1>2, <2>1, OfTab DEF SoundIn
  <2>3. QED
    BY <1>2, <2>1, <2>2 DEF SoundIn
<1>6. QED
  BY <1>1, <1>2, <1>3, <1>4, <1>5, ControllerActs

LEMMA SyncReadReleases ==
  ASSUME NotebookInv, ReleaseInvariant, NEW t \in Tabs, SyncRead(t) PROVE ReleaseInvariant'
<1>1. /\ tab[t].closing = "sync"
      /\ UNCHANGED <<activeEnv, switching, session, copy, volume, shown, lost>>
  BY DEF SyncRead, host, files
<1>2. CASE /\ session # NoEnv /\ copy[session] # NoCopy
           /\ tab' = [tab EXCEPT ![t].closing = "write", ![t].text = copy[session], ![t].to = activeEnv]
  <2> DEFINE r == [tab[t] EXCEPT !.closing = "write", !.text = copy[session], !.to = activeEnv]
  <2>1. tab' = [tab EXCEPT ![t] = r]
    BY <1>2, NotebookTyped
  <2>2. copy[session] \in Texts
    BY <1>2, NotebookTyped
  <2>3. /\ r \in Controller /\ r.opening = tab[t].opening /\ r.closing = "write" /\ r.left = tab[t].left
        /\ r.release = tab[t].release /\ r.has = tab[t].has /\ r.excused = tab[t].excused
        /\ r.env = tab[t].env /\ r.text = copy[session] /\ r.to = activeEnv
    BY <2>2, NotebookTyped DEF Controller
  <2> HIDE DEF r
  <2>4. Shape(tab[t]) /\ (shown = t => OnPage(tab[t])) /\ "closed" \notin lost /\ ~IdleTab(tab[t])
    BY <1>1, OfTab
  <2>5. Shape(r) /\ (shown = t => OnPage(r))
    BY <1>1, <2>3, <2>4 DEF Shape, OnPage, Finished, Gone
  <2>6. ASSUME Blameless(r)
        PROVE  Blameless(tab[t]) /\ SoundIn(r, activeEnv', switching', session', copy', volume')
    <3>1. Blameless(tab[t]) /\ tab[t].has /\ tab[t].opening = "ended"
      BY <1>1, <2>3, <2>4, <2>6 DEF Blameless, Shape
    <3>2. SoundIn(tab[t], activeEnv, switching, session, copy, volume)
      BY <3>1, OfTab
    <3>3. QED
      BY <1>1, <2>3, <3>1, <3>2 DEF SoundIn
  <2>7. QED
    BY <1>1, <2>1, <2>3, <2>4, <2>5, <2>6, ControllerActs
<1>3. CASE Synced(t, TRUE)
  BY <1>1, <1>3, SyncedReleases
<1>4. QED
  BY <1>2, <1>3 DEF SyncRead

\* What is written is the copy the session has, unless that is the file's anyway.
LEMMA SyncWriteReleases ==
  ASSUME NotebookInv, ReleaseInvariant, NEW t \in Tabs, SyncWrite(t) PROVE ReleaseInvariant'
<1>1. /\ tab[t].closing = "write" /\ UNCHANGED <<activeEnv, switching, session, copy, shown, lost>>
      /\ tab[t].to \in Homes
  BY NotebookTyped DEF SyncWrite, host, TextInv
<1>2. CASE volume' = [volume EXCEPT ![tab[t].to] = tab[t].text] /\ Synced(t, FALSE)
  <2>1. ASSUME Blameless(tab[t]) PROVE Clean(session, copy, volume')
    <3>1. tab[t].has
      BY <1>1, <2>1, OfTab DEF Shape, Blameless
    <3>2. /\ session # NoEnv =>
               tab[t].text = copy[session] /\ (Clean(session, copy, volume) \/ tab[t].to = session)
          /\ session \in Homes \union {NoEnv}
      BY <1>1, <2>1, <3>1, OfTab, NotebookTyped DEF SoundIn
    <3>3. \A e \in Homes : volume'[e] = IF e = tab[t].to THEN tab[t].text ELSE volume[e]
      BY <1>2, NotebookTyped
    <3>4. QED
      BY <3>2, <3>3 DEF Clean
  <2>2. QED
    BY <1>1, <1>2, <2>1, SyncedReleases
<1>3. CASE Synced(t, TRUE) /\ UNCHANGED volume
  BY <1>1, <1>3, SyncedReleases
<1>4. QED
  BY <1>2, <1>3 DEF SyncWrite

LEMMA DisposedIs ==
  ASSUME NEW r \in Controller
  PROVE  /\ Disposed(r) \in Controller /\ Disposed(r).opening = r.opening /\ Disposed(r).env = r.env
         /\ Disposed(r).closing = r.closing /\ Disposed(r).left = r.left
         /\ Disposed(r).excused = r.excused /\ Disposed(r).has = FALSE
         /\ Disposed(r).release = IF r.has THEN "call" ELSE r.release
BY DEF Disposed, Controller

LEMMA ReleaseReleases ==
  ASSUME NotebookInv, ReleaseInvariant, NEW t \in Tabs, Release(t) PROVE ReleaseInvariant'
<1> DEFINE d == Disposed(tab[t])
           r == [d EXCEPT !.closing = "ended"]
<1>1. /\ d \in Controller /\ d.opening = tab[t].opening /\ d.env = tab[t].env /\ d.left = tab[t].left
      /\ d.excused = tab[t].excused /\ d.has = FALSE
      /\ d.release = IF tab[t].has THEN "call" ELSE tab[t].release
  BY DisposedIs, NotebookTyped
<1>2. /\ Now(t, r) /\ tab[t].closing = "release"
      /\ UNCHANGED <<activeEnv, switching, session, copy, volume, lost>>
      /\ shown' = IF shown = t THEN NoTab ELSE shown
  BY DEF Release, host, files
<1> HIDE DEF d
<1>3. /\ r \in Controller /\ r.opening = tab[t].opening /\ r.env = tab[t].env /\ r.left = tab[t].left
      /\ r.excused = tab[t].excused /\ r.has = FALSE /\ r.closing = "ended"
      /\ r.release = IF tab[t].has THEN "call" ELSE tab[t].release
  BY <1>1 DEF Controller
<1> HIDE DEF r
<1>4. Shape(tab[t]) /\ "closed" \notin lost /\ ~IdleTab(tab[t])
  BY <1>2, OfTab
<1>5. ~Finished(r) => Shape(r)
  BY <1>2, <1>3, <1>4 DEF Shape, IdleTab
<1>6. shown' \in {shown, NoTab} /\ shown' # t
  BY <1>2, NotebookAssumption
<1>7. ASSUME Blameless(r)
      PROVE  Blameless(tab[t]) /\ SoundIn(r, activeEnv', switching', session', copy', volume')
  <2>1. Blameless(tab[t])
    BY <1>3, <1>4, <1>7 DEF Blameless
  <2>2. SoundIn(tab[t], activeEnv, switching, session, copy, volume)
    BY <2>1, OfTab
  <2>3. QED
    BY <1>2, <1>3, <2>1, <2>2 DEF SoundIn
<1>8. QED
  BY <1>2, <1>3, <1>4, <1>5, <1>6, <1>7, ControllerNow

LEMMA LeavePageReleases ==
  ASSUME NotebookInv, ReleaseInvariant, NEW t \in Tabs, LeavePage(t) PROVE ReleaseInvariant'
<1> DEFINE r == [tab[t] EXCEPT !.left = "leaving"]
<1>1. tab' = [tab EXCEPT ![t] = r] /\ shown = t /\ shown' = NoTab /\ lost' = lost
  BY NotebookTyped DEF LeavePage
<1>2. /\ r \in Controller /\ r.opening = tab[t].opening /\ r.env = tab[t].env /\ r.left = "leaving"
      /\ r.closing = tab[t].closing /\ r.has = tab[t].has
  BY NotebookTyped DEF Controller
<1> HIDE DEF r
<1>3. Shape(tab[t]) /\ OnPage(tab[t]) /\ "closed" \notin lost /\ ~IdleTab(tab[t])
  BY <1>1, OfTab
<1>4. Shape(r) /\ ~Blameless(r)
  BY <1>2, <1>3 DEF Shape, OnPage, Finished, Gone, Blameless
<1>5. QED
  BY <1>1, <1>2, <1>3, <1>4, NotebookAssumption, ControllerActs

LEMMA LeftPageReleases ==
  ASSUME NotebookInv, ReleaseInvariant, NEW t \in Tabs, LeftPage(t) PROVE ReleaseInvariant'
<1> DEFINE d == Disposed(tab[t])
           r == [d EXCEPT !.left = "left"]
<1>1. /\ d \in Controller /\ d.opening = tab[t].opening /\ d.env = tab[t].env /\ d.closing = tab[t].closing
      /\ d.has = FALSE
  BY DisposedIs, NotebookTyped
<1>2. Now(t, r) /\ tab[t].left = "leaving" /\ UNCHANGED <<shown, lost>>
  BY DEF LeftPage
<1> HIDE DEF d
<1>3. /\ r \in Controller /\ r.opening = tab[t].opening /\ r.env = tab[t].env /\ r.left = "left"
      /\ r.closing = tab[t].closing /\ r.has = FALSE
  BY <1>1 DEF Controller
<1> HIDE DEF r
<1>4. Shape(tab[t]) /\ "closed" \notin lost /\ ~IdleTab(tab[t]) /\ shown # t
  BY <1>2, OfTab DEF OnPage
<1>5. (~Finished(r) => Shape(r)) /\ ~Blameless(r)
  BY <1>2, <1>3, <1>4, NewControllerIs DEF Shape, Blameless, IdleTab
<1>6. QED
  BY <1>2, <1>3, <1>4, <1>5, ControllerNow

LEMMA CloseSessionReleases ==
  ASSUME NotebookInv, ReleaseInvariant, NEW t \in Tabs, CloseSession(t) PROVE ReleaseInvariant'
<1> DEFINE r == [tab[t] EXCEPT !.release = "ended"]
<1>1. Now(t, r) /\ session' = NoEnv /\ tab[t].release = "call" /\ shown' = shown
  BY DEF CloseSession
<1>2. /\ r \in Controller /\ r.opening = tab[t].opening /\ r.env = tab[t].env /\ r.left = tab[t].left
      /\ r.closing = tab[t].closing /\ r.has = tab[t].has /\ r.release = "ended" /\ r.excused = tab[t].excused
  BY NotebookTyped DEF Controller
<1> HIDE DEF r
<1>3. Shape(tab[t]) /\ "closed" \notin lost /\ ~IdleTab(tab[t]) /\ (shown = t => OnPage(tab[t]))
  BY <1>1, OfTab
<1>4. shown # t
  BY <1>1, <1>3 DEF OnPage, Shape
<1>5. ~Finished(r) => Shape(r)
  BY <1>2, <1>3 DEF Shape, IdleTab
<1>6. ASSUME Blameless(r)
      PROVE  Blameless(tab[t]) /\ SoundIn(r, activeEnv', switching', session', copy', volume')
  BY <1>1, <1>2, <1>3, <1>6 DEF Blameless, SoundIn, Shape
<1>7. "closed" \notin lost'
  <2>1. SUFFICES ASSUME session # NoEnv, ~tab[t].excused, copy[session] \notin {NoCopy, volume[session]},
                        tab[t].left = "no"
                 PROVE  FALSE
    BY <1>3 DEF CloseSession
  <2>2. Blameless(tab[t]) /\ tab[t].closing = "ended"
    BY <1>1, <1>3, <2>1 DEF Blameless, Shape
  <2>3. Clean(session, copy, volume)
    BY <1>1, <2>2, OfTab DEF SoundIn
  <2>4. QED
    BY <2>1, <2>3 DEF Clean
<1>8. QED
  BY <1>1, <1>2, <1>3, <1>4, <1>5, <1>6, <1>7, ControllerNow

LEMMA ReleaseInit == NotebookInit => ReleaseInvariant
<1> SUFFICES ASSUME NotebookInit PROVE ReleaseInvariant
  OBVIOUS
<1>1. \A t \in Tabs : tab[t] = NewController /\ shown # t
  BY NotebookAssumption DEF NotebookInit
<1>2. Shape(NewController) /\ ~Blameless(NewController)
  BY NewControllerIs DEF Shape, Blameless, IdleTab, Finished, Gone
<1>3. QED
  BY <1>1, <1>2 DEF NotebookInit, ReleaseInvariant, ReleasedIsSynced

LEMMA ReleaseInvStep == NotebookInv /\ ReleaseInvariant /\ [NotebookNext]_notebookVars => ReleaseInvariant'
<1>1. ASSUME ReleaseInvariant, UNCHANGED notebookVars PROVE ReleaseInvariant'
  BY <1>1 DEF notebookVars, ReleaseInvariant, ReleasedIsSynced, Shape, OnPage, Blameless, SoundIn, Clean,
              IdleTab, Finished, Gone
<1>2. ASSUME NotebookInv, ReleaseInvariant, NotebookNext PROVE ReleaseInvariant'
  BY <1>2, HostReleases, EditReleases, OpenTabReleases, OpenFailsReleases, OpenAnsweredReleases,
     CaptureReleases, CopyFileReleases, ServeReleases, CloseTabReleases, SyncReadReleases,
     SyncWriteReleases, ReleaseReleases, LeavePageReleases, LeftPageReleases, CloseSessionReleases
     DEF NotebookNext
<1>3. QED
  BY <1>1, <1>2

\* A tab the user closes, which had the notebook to itself and whose sync did not fail, discards no edit
\* made before the close (close_notebook after the final sync_notebook): whatever environment is active
\* by then, for any number of environments, tabs and edits.
THEOREM ReleasedIsSyncedHolds == NotebookSpec => []ReleasedIsSynced
<1>1. NotebookSpec => []ReleaseInvariant
  BY NotebookInvariant, ReleaseInit, ReleaseInvStep, PTL DEF NotebookSpec
<1>2. ReleaseInvariant => ReleasedIsSynced
  BY DEF ReleaseInvariant
<1>3. QED
  BY <1>1, <1>2, PTL

-----------------------------------------------------------------------------
(* The stream bridge.                                                       *)

\* What is on its way, in the queue and with the client is what the command has sent; the end is
\* known when nothing is on its way any more, and whoever sleeps is to be notified.
BridgeInv ==
  /\ BridgeTypeOK
  /\ (reader.got \o bridge.queue) \o channel = [i \in 1..command.sent |-> i]
  /\ bridge.done =>
       /\ channel = <<>> /\ command.state \in {"ok", "failed"}
       /\ bridge.failure <=> command.state = "failed"
  /\ reader.at \in {"ended", "threw"} =>
       bridge.done /\ bridge.queue = <<>> /\ (bridge.failure <=> reader.at = "threw")
  /\ SleepsWithCause

\* Whoever takes the head of a sequence and puts it behind another leaves the two together the same.
LEMMA HeadMoves ==
  ASSUME NEW S, NEW a \in Seq(S), NEW b \in Seq(S), b # <<>>
  PROVE  /\ Head(b) \in S /\ Tail(b) \in Seq(S) /\ Append(a, Head(b)) \in Seq(S)
         /\ Append(a, Head(b)) \o Tail(b) = a \o b
<1>1. Head(b) \in S /\ Tail(b) \in Seq(S)
  BY HeadTailProperties
<1>2. <<Head(b)>> \in Seq(S) /\ b = <<Head(b)>> \o Tail(b)
  BY <1>1
<1>3. Append(a, Head(b)) = a \o <<Head(b)>>
  BY <1>1, AppendIsConcat
<1>4. Append(a, Head(b)) \in Seq(S)
  BY <1>1, AppendProperties
<1>5. (a \o <<Head(b)>>) \o Tail(b) = a \o (<<Head(b)>> \o Tail(b))
  BY <1>1, <1>2, ConcatAssociative
<1>6. QED
  BY <1>1, <1>2, <1>3, <1>4, <1>5

LEMMA FramesAssociate ==
  \A a, b, c \in Seq(Frames) : (a \o b) \o c = a \o (b \o c)
BY ConcatAssociative

\* The records of the bridge, and the three sequences that hold what was sent.
LEMMA BridgeTyped ==
  ASSUME BridgeInv
  PROVE  /\ channel \in Seq(Frames) /\ bridge.queue \in Seq(Frames) /\ reader.got \in Seq(Frames)
         /\ reader.got \o bridge.queue \in Seq(Frames)
         /\ command.sent \in 0..MaxFrames
         /\ {bridge.done, bridge.failure, bridge.notify, bridge.aborted} \subseteq BOOLEAN
<1>1. channel \in Seq(Frames) /\ bridge.queue \in Seq(Frames) /\ reader.got \in Seq(Frames)
  BY DEF BridgeInv, BridgeTypeOK
<1>2. reader.got \o bridge.queue \in Seq(Frames)
  BY <1>1, ConcatProperties
<1>3. QED
  BY <1>1, <1>2 DEF BridgeInv, BridgeTypeOK

LEMMA BridgeInit_Inv == BridgeInit => BridgeInv
<1>1. ASSUME BridgeInit PROVE BridgeTypeOK
  <2>1. <<>> \in Seq(Frames)
    BY EmptySeq
  <2>2. QED
    BY <1>1, <2>1, BridgeAssumption DEF BridgeInit, BridgeTypeOK
<1>2. ASSUME BridgeInit PROVE (reader.got \o bridge.queue) \o channel = [i \in 1..command.sent |-> i]
  <2>1. <<>> \o <<>> = <<>>
    BY EmptySeq, ConcatEmptySeq
  <2>2. [i \in 1..0 |-> i] = <<>>
    OBVIOUS
  <2>3. QED
    BY <1>2, <2>1, <2>2 DEF BridgeInit
<1>3. QED
  BY <1>1, <1>2 DEF BridgeInit, BridgeInv, SleepsWithCause

\* The command's steps that send nothing.
LEMMA CommandInv == ASSUME BridgeInv, Invoke \/ Return PROVE BridgeInv'
<1>1. BridgeTypeOK' /\ command'.sent = command.sent
  BY DEF BridgeInv, BridgeTypeOK, Invoke, Return
<1>2. ~bridge.done
  BY DEF BridgeInv, Invoke, Return
<1>3. QED
  BY <1>1, <1>2 DEF BridgeInv, Invoke, Return, SleepsWithCause

LEMMA SendFrameInv == ASSUME BridgeInv, SendFrame PROVE BridgeInv'
<1>0. /\ channel \in Seq(Frames) /\ bridge.queue \in Seq(Frames) /\ reader.got \in Seq(Frames)
      /\ reader.got \o bridge.queue \in Seq(Frames)
  BY BridgeTyped
<1> DEFINE sent == command.sent
           flow == (reader.got \o bridge.queue) \o channel
<1>1. /\ sent \in Nat /\ sent + 1 \in Frames /\ sent + 1 \in 0..MaxFrames
      /\ command' = [command EXCEPT !.sent = sent + 1] /\ channel' = Append(channel, sent + 1)
      /\ command'.sent = sent + 1
  BY BridgeAssumption DEF BridgeInv, BridgeTypeOK, SendFrame, Frames
<1>2. BridgeTypeOK'
  BY <1>1, AppendProperties DEF BridgeInv, BridgeTypeOK, SendFrame
<1>3. ((reader.got \o bridge.queue) \o channel)' = [i \in 1..(sent + 1) |-> i]
  <2>1. channel' = channel \o <<sent + 1>> /\ <<sent + 1>> \in Seq(Frames)
    BY <1>1, <1>0, AppendIsConcat
  <2>2. ((reader.got \o bridge.queue) \o channel)' = flow \o <<sent + 1>>
    <3>1. (reader.got \o bridge.queue) \o (channel \o <<sent + 1>>) = flow \o <<sent + 1>>
      BY <1>0, <2>1, FramesAssociate
    <3>2. reader' = reader /\ bridge' = bridge
      BY DEF SendFrame
    <3>3. QED
      BY <2>1, <3>1, <3>2
  <2>3. flow \in Seq(Frames) /\ flow = [i \in 1..sent |-> i]
    BY <1>0, ConcatProperties DEF BridgeInv
  <2>4. flow \o <<sent + 1>> = Append(flow, sent + 1)
    BY <1>1, <2>3, AppendIsConcat
  <2>5. Len(flow) = sent
    BY <1>1, <2>3, LenProperties
  <2>6. Append(flow, sent + 1) = [i \in 1..(sent + 1) |-> i]
    BY <1>1, <2>3, <2>5
  <2>7. QED
    BY <2>2, <2>4, <2>6
<1>4. ~bridge.done /\ command'.state = command.state /\ UNCHANGED <<bridge, reader>>
  BY DEF BridgeInv, BridgeTypeOK, SendFrame
<1>5. QED
  BY <1>1, <1>2, <1>3, <1>4 DEF BridgeInv, SleepsWithCause

LEMMA OnMessageInv == ASSUME BridgeInv, OnMessage PROVE BridgeInv'
<1>0. /\ channel \in Seq(Frames) /\ bridge.queue \in Seq(Frames) /\ reader.got \in Seq(Frames)
      /\ reader.got \o bridge.queue \in Seq(Frames)
  BY BridgeTyped
<1>1. /\ channel # <<>> /\ channel' = Tail(channel) /\ command' = command
      /\ bridge' = [bridge EXCEPT !.queue = Append(bridge.queue, Head(channel))]
      /\ reader' = [reader EXCEPT !.at = IF reader.at = "asleep" /\ bridge.notify THEN "woken" ELSE reader.at]
  BY DEF OnMessage, Notified
<1>2. /\ Head(channel) \in Frames /\ Tail(channel) \in Seq(Frames)
      /\ Append(bridge.queue, Head(channel)) \in Seq(Frames)
      /\ Append(bridge.queue, Head(channel)) \o Tail(channel) = bridge.queue \o channel
  BY <1>1, <1>0, HeadMoves
<1>3. /\ bridge'.queue = Append(bridge.queue, Head(channel)) /\ bridge'.done = bridge.done
      /\ bridge'.notify = bridge.notify /\ reader'.got = reader.got
      /\ reader'.at = IF reader.at = "asleep" /\ bridge.notify THEN "woken" ELSE reader.at
  BY <1>1 DEF BridgeInv, BridgeTypeOK
<1>4. BridgeTypeOK'
  BY <1>1, <1>2 DEF BridgeInv, BridgeTypeOK
<1>5. ((reader.got \o bridge.queue) \o channel)' = (reader.got \o bridge.queue) \o channel
  <2>1. (reader.got \o bridge'.queue) \o Tail(channel) = reader.got \o (bridge'.queue \o Tail(channel))
    <3>1. bridge'.queue \in Seq(Frames) /\ Tail(channel) \in Seq(Frames) /\ reader.got \in Seq(Frames)
      BY <1>0, <1>2, <1>3
    <3>2. QED
      BY <3>1, FramesAssociate
  <2>2. (reader.got \o bridge.queue) \o channel = reader.got \o (bridge.queue \o channel)
    BY <1>0, FramesAssociate
  <2>3. QED
    BY <1>1, <1>2, <1>3, <2>1, <2>2
<1>6. ~bridge.done /\ reader'.at \notin {"asleep", "ended", "threw"}
  BY <1>1, <1>3 DEF BridgeInv, SleepsWithCause
<1>7. QED
  BY <1>1, <1>3, <1>4, <1>5, <1>6 DEF BridgeInv, SleepsWithCause

LEMMA CompletedInv == ASSUME BridgeInv, Completed PROVE BridgeInv'
<1>1. /\ bridge' = [bridge EXCEPT !.done = TRUE, !.failure = command.state = "failed"]
      /\ reader' = [reader EXCEPT !.at = IF reader.at = "asleep" /\ bridge.notify THEN "woken" ELSE reader.at]
      /\ UNCHANGED <<command, channel>> /\ ~bridge.done
      /\ command.state \in {"ok", "failed"} /\ channel = <<>>
  BY DEF Completed, Notified
<1>2. /\ bridge'.queue = bridge.queue /\ bridge'.done /\ (bridge'.failure <=> command.state = "failed")
      /\ reader'.got = reader.got
      /\ reader'.at = IF reader.at = "asleep" /\ bridge.notify THEN "woken" ELSE reader.at
  BY <1>1 DEF BridgeInv, BridgeTypeOK
<1>3. BridgeTypeOK'
  BY <1>1 DEF BridgeInv, BridgeTypeOK
<1>4. reader'.at \notin {"asleep", "ended", "threw"}
  BY <1>1, <1>2 DEF BridgeInv, SleepsWithCause
<1>5. QED
  BY <1>1, <1>2, <1>3, <1>4 DEF BridgeInv, SleepsWithCause

\* The client's signal, and the generator's steps that yield nothing.
LEMMA ReaderInvs ==
  ASSUME BridgeInv, Abort \/ ThrowAborted \/ EndStream \/ Sleep \/ LeaveStream
  PROVE  BridgeInv'
<1>1. /\ reader'.got = reader.got /\ bridge'.queue = bridge.queue /\ bridge'.done = bridge.done
      /\ bridge'.failure = bridge.failure /\ UNCHANGED <<command, channel>>
  BY DEF BridgeInv, BridgeTypeOK, Abort, ThrowAborted, EndStream, Sleep, LeaveStream, Reads, Awake
<1>2. BridgeTypeOK'
  <2>1. BridgeTypeOK
    BY DEF BridgeInv
  <2>2. CASE Abort
    BY <2>1, <2>2 DEF BridgeTypeOK, Abort
  <2>3. CASE ThrowAborted
    BY <2>1, <2>3 DEF BridgeTypeOK, ThrowAborted, Reads, Awake
  <2>4. CASE EndStream
    BY <2>1, <2>4 DEF BridgeTypeOK, EndStream, Reads, Awake
  <2>5. CASE Sleep
    BY <2>1, <2>5 DEF BridgeTypeOK, Sleep, Reads
  <2>6. CASE LeaveStream
    BY <2>1, <2>6 DEF BridgeTypeOK, LeaveStream, Reads
  <2>7. QED
    BY <2>2, <2>3, <2>4, <2>5, <2>6
<1>3. CASE Abort
  BY <1>1, <1>2, <1>3 DEF BridgeInv, BridgeTypeOK, SleepsWithCause, Abort
<1>4. CASE ThrowAborted \/ LeaveStream
  BY <1>1, <1>2, <1>4 DEF BridgeInv, BridgeTypeOK, SleepsWithCause, ThrowAborted, LeaveStream, Reads
<1>5. CASE EndStream
  BY <1>1, <1>2, <1>5 DEF BridgeInv, BridgeTypeOK, SleepsWithCause, EndStream, Reads
<1>6. CASE Sleep
  BY <1>1, <1>2, <1>6 DEF BridgeInv, BridgeTypeOK, SleepsWithCause, Sleep, Reads
<1>7. QED
  BY <1>3, <1>4, <1>5, <1>6

LEMMA YieldFrameInv == ASSUME BridgeInv, YieldFrame PROVE BridgeInv'
<1>0. /\ channel \in Seq(Frames) /\ bridge.queue \in Seq(Frames) /\ reader.got \in Seq(Frames)
      /\ reader.got \o bridge.queue \in Seq(Frames)
  BY BridgeTyped
<1>1. /\ bridge.queue # <<>> /\ UNCHANGED <<command, channel>>
      /\ reader' = [at |-> "yielded", got |-> Append(reader.got, Head(bridge.queue))]
      /\ bridge' = [bridge EXCEPT !.notify = FALSE, !.queue = Tail(bridge.queue)]
  BY DEF YieldFrame, Awake, BridgeInv, BridgeTypeOK
<1>2. /\ Tail(bridge.queue) \in Seq(Frames) /\ Append(reader.got, Head(bridge.queue)) \in Seq(Frames)
      /\ Append(reader.got, Head(bridge.queue)) \o Tail(bridge.queue) = reader.got \o bridge.queue
  BY <1>1, <1>0, HeadMoves
<1>3. BridgeTypeOK'
  BY <1>1, <1>2 DEF BridgeInv, BridgeTypeOK
<1>4. /\ bridge'.queue = Tail(bridge.queue) /\ bridge'.done = bridge.done
      /\ bridge'.failure = bridge.failure
  BY <1>1 DEF BridgeInv, BridgeTypeOK
<1>5. QED
  BY <1>1, <1>2, <1>3, <1>4 DEF BridgeInv, SleepsWithCause

LEMMA BridgeStep == BridgeInv /\ [BridgeNext]_bridgeVars => BridgeInv'
<1>1. ASSUME BridgeInv, BridgeNext PROVE BridgeInv'
  BY <1>1, CommandInv, SendFrameInv, OnMessageInv, CompletedInv, ReaderInvs, YieldFrameInv DEF BridgeNext
<1>2. ASSUME BridgeInv, UNCHANGED bridgeVars PROVE BridgeInv'
  BY <1>2 DEF bridgeVars, BridgeInv, BridgeTypeOK, SleepsWithCause
<1>3. QED
  BY <1>1, <1>2

\* BridgeIsWhole: for streams of any length, what TauriTransport's generator hands on is what the
\* command sent, whole and in order, and it never sleeps over a frame or an end it was not told of.
THEOREM BridgeIsWholeHolds == BridgeSpec => []BridgeIsWhole
<1>1. BridgeInv => BridgeIsWhole
  <2> SUFFICES ASSUME BridgeInv PROVE BridgeIsWhole
    OBVIOUS
  <2>1. reader.got \o bridge.queue \o channel = [i \in 1..command.sent |-> i] /\ SleepsWithCause
    BY DEF BridgeInv
  <2>2. ASSUME reader.at \in {"ended", "threw"}
        PROVE  /\ Len(reader.got) = command.sent
               /\ command.state = IF reader.at = "ended" THEN "ok" ELSE "failed"
    <3>1. bridge.queue = <<>> /\ channel = <<>> /\ bridge.done
      BY <2>2 DEF BridgeInv
    <3>2. reader.got = [i \in 1..command.sent |-> i]
      BY <2>1, <3>1, BridgeTyped, ConcatEmptySeq
    <3>3. Len(reader.got) = command.sent
      BY <3>2, BridgeTyped, LenProperties
    <3>4. QED
      BY <2>2, <3>1, <3>3 DEF BridgeInv
  <2>3. QED
    BY <2>1, <2>2 DEF BridgeIsWhole, InOrderAndWhole
<1>2. QED
  BY <1>1, BridgeInit_Inv, BridgeStep, PTL DEF BridgeSpec

-----------------------------------------------------------------------------
(* The registry of environments.                                            *)

\* A list in which no two environments have one id.
Distinct(l) == \A i, j \in 1..Len(l) : l[i].id = l[j].id => i = j

\* The command on the main thread has the registry as it is, with one environment changed or put
\* behind the others; that one's directories are there from their step on.
WriterInv ==
  writer.step # "idle" =>
    /\ writer.at \in 1..Len(writer.envs)
    /\ Distinct(writer.envs) /\ Len(writer.envs) <= MaxEnvs
    /\ LET env == writer.envs[writer.at] IN
       /\ Listed(writer.envs) = {e \in Listed(registry.envs) : e.id # env.id} \union {env}
       /\ writer.step # "dirs" => env.id \in homes
    /\ ~broken /\ (registry.torn <=> writer.step = "writing")

\* What was promised is listed, also while the file does not parse.
RegistryInv ==
  /\ RegistryTypeOK
  /\ Distinct(registry.envs) /\ Len(registry.envs) <= MaxEnvs
  /\ \A e \in Listed(registry.envs) : e.id \in homes
  /\ Listed(registry.envs) = promised
  /\ WriterInv
  /\ writer.step = "idle" => (broken <=> registry.torn)

LEMMA SmallestOf ==
  ASSUME NEW T, T \subseteq Nat, T # {}
  PROVE  \E n \in T : \A k \in T : n <= k
<1>1. PICK n \in T : \A k \in T : ~(<<k, n>> \in OpToRel(<, Nat))
  BY NatLessThanWellFounded, WFMin
<1>2. \A k \in T : ~(k < n)
  BY <1>1 DEF OpToRel
<1>3. QED
  BY <1>2

\* Different numbers behind a slug make different ids.
LEMMA SuffixesDiffer ==
  ASSUME NEW s \in Slugs, NEW m \in Nat, NEW n \in Nat, Suffixed(s, m) = Suffixed(s, n)
  PROVE  m = n
<1> DEFINE S == {s[i] : i \in DOMAIN s} \union Nat
<1>1. s \in Seq(S)
  <2>1. Len(s) \in Nat /\ s = [i \in 1..Len(s) |-> s[i]]
    BY RegistryAssumption
  <2>2. \A i \in 1..Len(s) : i \in DOMAIN s
    BY <2>1
  <2>3. s \in [1..Len(s) -> S]
    BY <2>1, <2>2
  <2>4. QED
    BY <2>1, <2>3, SeqDef
<1>2. /\ Append(s, m) # s /\ Append(s, n) # s
      /\ Append(s, m) = Append(s, n) => m = n
  BY <1>1, AppendProperties, AppendInjective, LenProperties
<1>3. QED
  BY <1>2 DEF Suffixed

LEMMA UpTo == \A n \in Nat : IsFiniteSet(1..n) /\ Cardinality(1..n) = n
<1> TAKE n \in Nat
<1>1. 1 \in Int /\ n \in Int
  OBVIOUS
<1>2. IsFiniteSet(1..n) /\ Cardinality(1..n) = IF 1 > n THEN 0 ELSE n - 1 + 1
  BY <1>1, FS_Interval
<1>3. QED
  BY <1>2

\* allocate_env_id finds a number, of those it looks at, whose id nobody has.
LEMMA AllocatedIsFree ==
  ASSUME NEW s \in Slugs, NEW envs \in Seq(EnvRecord), Len(envs) < MaxEnvs
  PROVE  /\ AllocateId(s, envs) \in Ids
         /\ \A i \in 1..Len(envs) : envs[i].id # AllocateId(s, envs)
<1> DEFINE L == Len(envs)
           taken == {e.id : e \in Listed(envs)}
           free == {n \in 1..(Len(envs) + 1) : Suffixed(s, n) \notin taken}
<1>0. L \in Nat /\ MaxEnvs \in Nat
  BY LenProperties, RegistryAssumption
<1>1. free # {}
  <2>1. SUFFICES ASSUME free = {} PROVE FALSE
    OBVIOUS
  <2> DEFINE holder == [n \in 1..(L + 1) |-> CHOOSE i \in 1..L : envs[i].id = Suffixed(s, n)]
  <2>2. ASSUME NEW n \in 1..(L + 1) PROVE holder[n] \in 1..L /\ envs[holder[n]].id = Suffixed(s, n)
    <3>1. Suffixed(s, n) \in taken
      BY <2>1
    <3>2. \E i \in 1..L : envs[i].id = Suffixed(s, n)
      BY <3>1 DEF Listed
    <3>3. QED
      BY <3>2
  <2>3. holder \in [1..(L + 1) -> 1..L]
    BY <2>2
  <2>4. /\ IsFiniteSet(1..(L + 1)) /\ IsFiniteSet(1..L)
        /\ Cardinality(1..L) < Cardinality(1..(L + 1))
    <3>1. IsFiniteSet(1..(L + 1)) /\ Cardinality(1..(L + 1)) = L + 1
      BY <1>0, UpTo
    <3>2. IsFiniteSet(1..L) /\ Cardinality(1..L) = L
      BY <1>0, UpTo
    <3>3. QED
      BY <1>0, <3>1, <3>2
  <2>5. \E x, y \in 1..(L + 1) : x # y /\ holder[x] = holder[y]
    <3> HIDE DEF holder
    <3>1. QED
      BY <2>3, <2>4, FS_PigeonHole
  <2>6. QED
    BY <1>0, <2>2, <2>5, SuffixesDiffer
<1>2. free \subseteq Nat
  BY <1>0
<1>3. \E n \in free : \A k \in free : n <= k
  BY <1>1, <1>2, SmallestOf
<1> DEFINE number == CHOOSE n \in free : \A k \in free : n <= k
<1>4. number \in free
  BY <1>3
<1>5. AllocateId(s, envs) = Suffixed(s, number)
  BY DEF AllocateId
<1> HIDE DEF number
<1>6. Suffixed(s, number) \in Ids
  <2>1. number \in 1..(MaxEnvs + 1)
    BY <1>0, <1>4
  <2>2. QED
    BY <2>1 DEF Ids
<1>7. \A i \in 1..L : envs[i].id \in taken
  BY DEF Listed
<1>8. QED
  BY <1>4, <1>5, <1>6, <1>7

LEMMA RegistryTyped ==
  ASSUME RegistryInv
  PROVE  /\ registry.envs \in Seq(EnvRecord) /\ Len(registry.envs) \in Nat
         /\ registry = [torn |-> registry.torn, envs |-> registry.envs]
         /\ registry.torn \in BOOLEAN /\ broken \in BOOLEAN
         /\ writer.envs \in Seq(EnvRecord) /\ Len(writer.envs) \in Nat
         /\ \A i \in 1..Len(registry.envs) : registry.envs[i] \in EnvRecord
         /\ \A i \in 1..Len(writer.envs) : writer.envs[i] \in EnvRecord
<1>1. registry.envs \in Seq(EnvRecord) /\ writer.envs \in Seq(EnvRecord)
  BY DEF RegistryInv, RegistryTypeOK
<1>2. QED
  BY <1>1, LenProperties, ElementOfSeq DEF RegistryInv, RegistryTypeOK

LEMMA NoCommandTyped ==
  /\ NoCommand \in [step : {"idle", "dirs", "write", "writing"}, envs : Seq(EnvRecord), at : 0..MaxEnvs]
  /\ NoCommand.step = "idle"
BY EmptySeq, RegistryAssumption DEF NoCommand

LEMMA RegistryInit_Inv == RegistryInit => RegistryInv
<1> SUFFICES ASSUME RegistryInit PROVE RegistryInv
  OBVIOUS
<1>1. <<>> \in Seq(EnvRecord) /\ Len(<<>>) = 0 /\ MaxEnvs \in Nat
  BY EmptySeq, RegistryAssumption
<1>2. RegistryTypeOK
  <2>1. registry \in [torn : BOOLEAN, envs : Seq(EnvRecord)]
    BY <1>1 DEF RegistryInit
  <2>2. QED
    BY <2>1, NoCommandTyped DEF RegistryInit, RegistryTypeOK
<1>3. QED
  BY <1>1, <1>2 DEF RegistryInit, RegistryInv, WriterInv, NoCommand, Distinct, Listed

\* A command begins with a list that is the registry's but for one environment.
LEMMA ProceedsInv ==
  ASSUME RegistryInv, Changes, ~registry.torn, UNCHANGED <<registry, homes, promised, broken>>,
         NEW envs \in Seq(EnvRecord), NEW at \in 1..Len(envs), NEW step \in {"dirs", "write"},
         Proceeds(step, envs, at),
         Distinct(envs), Len(envs) <= MaxEnvs,
         Listed(envs) = {e \in Listed(registry.envs) : e.id # envs[at].id} \union {envs[at]},
         step = "write" => envs[at].id \in homes
  PROVE  RegistryInv'
<1>1. at \in 0..MaxEnvs
  BY RegistryAssumption, LenProperties
<1>2. RegistryTypeOK'
  BY <1>1 DEF RegistryInv, RegistryTypeOK, Proceeds
<1>3. writer'.step = step /\ writer'.envs = envs /\ writer'.at = at
  BY DEF Proceeds
<1>4. ~broken
  BY DEF RegistryInv, Changes
<1>5. WriterInv'
  BY <1>3, <1>4 DEF WriterInv
<1>6. QED
  BY <1>2, <1>3, <1>5 DEF RegistryInv

LEMMA CreateEnvInv == ASSUME RegistryInv, NEW s \in Slugs, CreateEnv(s) PROVE RegistryInv'
<1> DEFINE old == registry.envs
           env == [id |-> AllocateId(s, old), modules |-> {}]
           envs == Append(old, env)
<1>1. /\ Changes /\ ~registry.torn /\ Len(old) < MaxEnvs /\ UNCHANGED <<registry, homes, promised, broken>>
      /\ Proceeds("dirs", envs, Len(old) + 1)
  BY DEF CreateEnv
<1>2. /\ old \in Seq(EnvRecord) /\ Len(old) \in Nat /\ MaxEnvs \in Nat /\ Distinct(old)
  BY RegistryTyped, RegistryAssumption DEF RegistryInv
<1>3. AllocateId(s, old) \in Ids /\ \A i \in 1..Len(old) : old[i].id # AllocateId(s, old)
  BY <1>1, <1>2, AllocatedIsFree
<1>4. env \in EnvRecord /\ env.id = AllocateId(s, old)
  BY <1>3, RegistryAssumption DEF EnvRecord
<1>5. /\ envs \in Seq(EnvRecord) /\ Len(envs) = Len(old) + 1
      /\ \A i \in 1..Len(old) : envs[i] = old[i]
      /\ envs[Len(old) + 1] = env
  BY <1>2, <1>4, AppendProperties
<1>6. Distinct(envs)
  BY <1>2, <1>3, <1>4, <1>5 DEF Distinct
<1>7. Listed(envs) = {e \in Listed(old) : e.id # env.id} \union {env}
  <2> HIDE DEF old, env, envs
  <2>1. ASSUME NEW e \in Listed(envs) PROVE e \in {x \in Listed(old) : x.id # env.id} \union {env}
    <3>1. PICK i \in 1..Len(envs) : e = envs[i]
      BY DEF Listed
    <3>2. CASE i \in 1..Len(old)
      BY <1>3, <1>4, <1>5, <3>1, <3>2 DEF Listed
    <3>3. CASE i = Len(old) + 1
      BY <1>5, <3>1, <3>3
    <3>4. QED
      BY <1>2, <1>5, <3>1, <3>2, <3>3
  <2>2. ASSUME NEW e \in Listed(old) PROVE e \in Listed(envs)
    <3>1. PICK i \in 1..Len(old) : e = old[i]
      BY DEF Listed
    <3>2. i \in 1..Len(envs)
      BY <1>2, <1>5
    <3>3. QED
      BY <1>5, <3>1, <3>2 DEF Listed
  <2>3. env \in Listed(envs)
    <3>1. Len(old) + 1 \in 1..Len(envs)
      BY <1>2, <1>5
    <3>2. QED
      BY <1>5, <3>1 DEF Listed
  <2>4. QED
    BY <2>1, <2>2, <2>3
<1>8. Len(old) + 1 \in 1..Len(envs) /\ Len(envs) <= MaxEnvs
  BY <1>1, <1>2, <1>5
<1>9. QED
  BY <1>1, <1>5, <1>6, <1>7, <1>8, ProceedsInv

LEMMA SetModulesInv ==
  ASSUME RegistryInv, NEW i \in 1..Len(registry.envs), NEW m \in ModuleSets, SetModules(i, m)
  PROVE  RegistryInv'
<1> DEFINE old == registry.envs
           env == [old[i] EXCEPT !.modules = m]
           envs == [old EXCEPT ![i].modules = m]
<1>1. /\ Changes /\ ~registry.torn /\ UNCHANGED <<registry, homes, promised, broken>>
      /\ Proceeds("write", envs, i)
  BY DEF SetModules
<1>2. /\ old \in Seq(EnvRecord) /\ Len(old) \in Nat /\ Len(old) <= MaxEnvs /\ Distinct(old)
      /\ old[i] \in EnvRecord /\ old[i].id \in homes
  BY RegistryTyped DEF RegistryInv, Listed
<1>3. env \in EnvRecord /\ env.id = old[i].id
  BY <1>2 DEF EnvRecord
<1>4. /\ envs \in Seq(EnvRecord) /\ Len(envs) = Len(old)
      /\ \A j \in 1..Len(old) : envs[j] = IF j = i THEN env ELSE old[j]
  <2>1. envs = [old EXCEPT ![i] = env]
    BY <1>2
  <2>2. QED
    BY <1>2, <1>3, <2>1, ExceptSeq
<1>5. Distinct(envs)
  BY <1>2, <1>3, <1>4 DEF Distinct
<1>6. Listed(envs) = {e \in Listed(old) : e.id # env.id} \union {env}
  BY <1>2, <1>3, <1>4 DEF Listed, Distinct
<1>7. i \in 1..Len(envs) /\ Len(envs) <= MaxEnvs /\ envs[i] = env
  BY <1>2, <1>4
<1>8. QED
  BY <1>1, <1>2, <1>3, <1>4, <1>5, <1>6, <1>7, ProceedsInv

LEMMA MakeHomeInv == ASSUME RegistryInv, MakeHome PROVE RegistryInv'
<1>1. /\ writer.step = "dirs" /\ homes' = homes \union {writer.envs[writer.at].id}
      /\ writer' = [writer EXCEPT !.step = "write"] /\ UNCHANGED <<registry, promised, broken>>
  BY DEF MakeHome
<1>2. writer'.step = "write" /\ writer'.envs = writer.envs /\ writer'.at = writer.at
  BY <1>1 DEF RegistryInv, RegistryTypeOK
<1>3. writer.at \in 1..Len(writer.envs)
  BY <1>1 DEF RegistryInv, WriterInv
<1>4. RegistryTypeOK'
  <2>1. writer.envs[writer.at].id \in Ids
    BY <1>3, RegistryTyped DEF EnvRecord
  <2>2. QED
    BY <1>1, <2>1 DEF RegistryInv, RegistryTypeOK
<1>5. WriterInv'
  BY <1>1, <1>2 DEF RegistryInv, WriterInv
<1>6. QED
  BY <1>1, <1>2, <1>4, <1>5 DEF RegistryInv

LEMMA TruncateFileInv == ASSUME RegistryInv, TruncateFile PROVE RegistryInv'
<1>1. /\ writer.step = "write" /\ registry' = [registry EXCEPT !.torn = TRUE]
      /\ writer' = [writer EXCEPT !.step = "writing"] /\ UNCHANGED <<homes, promised, broken>>
  BY DEF TruncateFile
<1>2. /\ writer'.step = "writing" /\ writer'.envs = writer.envs /\ writer'.at = writer.at
      /\ registry'.torn /\ registry'.envs = registry.envs
  BY <1>1 DEF RegistryInv, RegistryTypeOK
<1>3. RegistryTypeOK'
  BY <1>1 DEF RegistryInv, RegistryTypeOK
<1>4. WriterInv'
  BY <1>1, <1>2 DEF RegistryInv, WriterInv
<1>5. QED
  BY <1>1, <1>2, <1>3, <1>4 DEF RegistryInv

LEMMA WriteFileInv == ASSUME RegistryInv, WriteFile PROVE RegistryInv'
<1> DEFINE env == writer.envs[writer.at]
<1>1. /\ writer.step = "writing" /\ registry' = [torn |-> FALSE, envs |-> writer.envs]
      /\ promised' = {e \in promised : e.id # env.id} \union {env}
      /\ writer' = NoCommand /\ UNCHANGED <<homes, broken>>
  BY DEF WriteFile
<1>2. /\ writer.at \in 1..Len(writer.envs) /\ Distinct(writer.envs) /\ Len(writer.envs) <= MaxEnvs
      /\ Listed(writer.envs) = {e \in Listed(registry.envs) : e.id # env.id} \union {env}
      /\ env.id \in homes /\ ~broken
  BY <1>1 DEF RegistryInv, WriterInv
<1>3. writer.envs \in Seq(EnvRecord) /\ env \in EnvRecord
  BY <1>2, RegistryTyped
<1>4. RegistryTypeOK'
  BY <1>1, <1>3, NoCommandTyped DEF RegistryInv, RegistryTypeOK
<1>5. registry'.envs = writer.envs /\ ~registry'.torn /\ writer'.step = "idle"
  BY <1>1, NoCommandTyped
<1>6. Listed(registry'.envs) = promised'
  BY <1>1, <1>2, <1>5 DEF RegistryInv
<1>7. \A e \in Listed(registry'.envs) : e.id \in homes
  BY <1>2, <1>5 DEF RegistryInv
<1>8. QED
  BY <1>1, <1>2, <1>4, <1>5, <1>6, <1>7 DEF RegistryInv, WriterInv

LEMMA BreakOffInv == ASSUME RegistryInv, BreakOff PROVE RegistryInv'
<1>1. /\ writer.step # "idle" /\ broken' = (broken \/ writer.step = "writing")
      /\ writer' = NoCommand /\ UNCHANGED <<registry, homes, promised>>
  BY DEF BreakOff
<1>2. RegistryTypeOK'
  BY <1>1, NoCommandTyped DEF RegistryInv, RegistryTypeOK
<1>3. writer'.step = "idle" /\ (broken' <=> registry'.torn)
  BY <1>1, NoCommandTyped DEF RegistryInv, WriterInv
<1>4. QED
  BY <1>1, <1>2, <1>3 DEF RegistryInv, WriterInv

LEMMA RegistryStep == RegistryInv /\ [RegistryNext]_registryVars => RegistryInv'
<1>1. ASSUME RegistryInv, RegistryNext PROVE RegistryInv'
  BY <1>1, CreateEnvInv, SetModulesInv, MakeHomeInv, TruncateFileInv, WriteFileInv, BreakOffInv
     DEF RegistryNext
<1>2. ASSUME RegistryInv, UNCHANGED registryVars PROVE RegistryInv'
  BY <1>2 DEF registryVars, RegistryInv, RegistryTypeOK, WriterInv
<1>3. QED
  BY <1>1, <1>2

\* RegistryIsKept: for any number of environments, names and commands, and wherever the application
\* ends, environments.json has what the commands of registry.rs answered with, under ids of their own.
THEOREM RegistryIsKeptHolds == RegistrySpec => []RegistryIsKept
<1>1. RegistryInv => RegistryIsKept
  BY DEF RegistryInv, RegistryIsKept, IdsAreUnique, WriterInv, Distinct, RegistryTypeOK
<1>2. QED
  BY <1>1, RegistryInit_Inv, RegistryStep, PTL DEF RegistrySpec

=============================================================================
