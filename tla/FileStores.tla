------------------------------ MODULE FileStores ------------------------------
(***************************************************************************)
(* The tree of files in a store of the portal under concurrent calls.      *)
(* "memory" is maps under locks of their own, "volume" an object store     *)
(* whose directories are prefixes, "home" a directory of the operating     *)
(* system.  A behaviour is one of a single store, and a path a sequence of *)
(* names.  What a call does in one access is done as it begins; a call     *)
(* that ends without an effect is left out unless its answer matters.  How *)
(* a stream is written is in FileUploads, how a listing is paged in        *)
(* PagedListing.                                                           *)
(***************************************************************************)
EXTENDS Naturals, Sequences

CONSTANTS Callers,  \* calls there may be at a time
          TreePaths \* paths a call may name

ASSUME TreeAssumption ==
  \A p \in TreePaths :
    p \in Seq(STRING) /\ p # <<>> /\ \A i \in 1..Len(p) : SubSeq(p, 1, i) \in TreePaths

VARIABLES kind,     \* which store it is
          names,    \* the files
          folders,  \* the directories the store keeps: none in a volume
          calls,    \* what is under way
          answered  \* (history) the call the last step answered

treeVars == <<kind, names, folders, calls, answered>>

Root == <<>>
AnyPath == TreePaths \union {Root}

\* left, todo: the directories and the entries a listing has still to look at; got: the files in it.
\* seen, stayed (history): the files it should have that were there at some time since it began, and
\* all the time; bare: there was a time since the call began when no file was below its path.
TreeCall == [op : {"none", "put", "delete", "rmdir", "list", "walk"}, path : AnyPath,
             step : {"idle", "create", "dirs", "remove", "read"},
             left : SUBSET AnyPath, todo : SUBSET TreePaths, got : SUBSET TreePaths,
             seen : SUBSET TreePaths, stayed : SUBSET TreePaths, bare : BOOLEAN]

TreeTypeOK ==
  /\ kind \in {"memory", "volume", "home"}
  /\ names \in SUBSET TreePaths
  /\ folders \in SUBSET AnyPath
  /\ calls \in [Callers -> TreeCall]
  /\ answered \in TreeCall

NoCall == [op |-> "none", path |-> Root, step |-> "idle", left |-> {}, todo |-> {}, got |-> {},
           seen |-> {}, stayed |-> {}, bare |-> FALSE]

TreeInit ==
  /\ kind \in {"memory", "volume", "home"}
  /\ names = {}
  /\ folders = IF kind = "home" THEN {Root} ELSE {}
  /\ calls = [c \in Callers |-> NoCall]
  /\ answered = NoCall

-----------------------------------------------------------------------------
Below(d, p) == Len(d) < Len(p) /\ SubSeq(p, 1, Len(d)) = d
Child(d, p) == Below(d, p) /\ Len(p) = Len(d) + 1
Ancestors(p) == {SubSeq(p, 1, i) : i \in 0..Len(p)} \ {p}
FilesBelow(d, F) == {p \in F : Below(d, p)}
Inside(d) == {p \in names \union folders : Child(d, p)}

\* The files among F that a listing k should have.
Concern(k, F) ==
  {p \in F : \/ k.op = "list" /\ Child(k.path, p)
             \/ k.op = "walk" /\ Below(k.path, p)}

\* What the call k, which is under way, has lived through when the files become F.
Lived(k, F) ==
  [k EXCEPT !.seen = @ \union Concern(k, F), !.stayed = @ \intersect F,
            !.bare = @ \/ (k.op = "rmdir" /\ FilesBelow(k.path, F) = {})]

\* One access of the store: names and folders become F and D, the call of c becomes k and a is answered.
Access(c, F, D, k, a) ==
  /\ names' = F /\ folders' = D /\ answered' = a
  /\ calls' = [d \in Callers |-> IF d = c THEN Lived(k, F) ELSE Lived(calls[d], F)]
  /\ UNCHANGED kind

Begun(op, p, s) ==
  LET k == [NoCall EXCEPT !.op = op, !.path = p, !.step = s] IN
  [k EXCEPT !.stayed = Concern(k, names), !.seen = Concern(k, names),
            !.bare = op = "rmdir" /\ FilesBelow(p, names) = {}]

IsIdle(c) == calls[c] = NoCall
AtStep(c, op, s) == calls[c].op = op /\ calls[c].step = s
Goes(c, k) == Access(c, names, folders, k, NoCall)

\* The call fails: a path that is not routed or that escapes, a credential that is not vended, a
\* backend or a file that is gone.
FailCall(c) ==
  /\ ~IsIdle(c)
  /\ Goes(c, NoCall)

-----------------------------------------------------------------------------
\* put_file, where a file needs no directory.
PutObject(c) ==
  /\ kind # "home" /\ IsIdle(c)
  /\ \E p \in TreePaths : Access(c, names \union {p}, folders, NoCall, NoCall)

\* create_dir_all of what a new file of the home store is to be in,
MakeParents(c) ==
  /\ kind = "home" /\ IsIdle(c)
  /\ \E p \in TreePaths :
       /\ Ancestors(p) \intersect names = {}
       /\ Access(c, names, folders \union Ancestors(p), Begun("put", p, "create"), NoCall)

\* and File::create, for which the directory must be there still.
CreateInFolder(c) ==
  LET p == calls[c].path IN
  /\ AtStep(c, "put", "create")
  /\ p \notin folders /\ SubSeq(p, 1, Len(p) - 1) \in folders
  /\ Access(c, names \union {p}, folders, NoCall, NoCall)

\* create_directory: a marker in memory, a directory and those above it at home, and nothing in a volume.
MakeDirectory(c) ==
  /\ kind # "volume" /\ IsIdle(c)
  /\ \E p \in TreePaths :
       /\ kind = "home" => (Ancestors(p) \union {p}) \intersect names = {}
       /\ Access(c, names, folders \union {p} \union (IF kind = "home" THEN Ancestors(p) ELSE {}),
                 NoCall, NoCall)

DeleteNamed(c) ==
  /\ IsIdle(c)
  /\ \E p \in names : Access(c, names \ {p}, folders, NoCall, Begun("delete", p, "idle"))

-----------------------------------------------------------------------------
\* Mutant: only what is directly in the directory counts as its contents.
RemoveShallow(c) ==
  /\ kind # "home" /\ IsIdle(c)
  /\ \E p \in AnyPath :
       LET k == Begun("rmdir", p, "dirs") IN
       /\ \A q \in names : ~Child(p, q)
       /\ IF kind = "volume" THEN Access(c, names, folders, NoCall, k) ELSE Goes(c, k)

\* delete_directory refuses when a file is anywhere below; a volume has no more to do.
RemoveUnlessFiles(c) ==
  /\ kind # "home" /\ IsIdle(c)
  /\ \E p \in AnyPath :
       LET k == Begun("rmdir", p, "dirs") IN
       /\ FilesBelow(p, names) = {}
       /\ IF kind = "volume" THEN Access(c, names, folders, NoCall, k) ELSE Goes(c, k)

\* In memory the markers are under another lock, and
RemoveUnlessFolders(c) ==
  /\ AtStep(c, "rmdir", "dirs")
  /\ \A d \in folders : ~Below(calls[c].path, d)
  /\ Goes(c, [calls[c] EXCEPT !.step = "remove"])

\* the directory's own is removed under it, taken again.
RemoveMarker(c) ==
  LET p == calls[c].path IN
  /\ kind = "memory" /\ AtStep(c, "rmdir", "remove") /\ p \in folders
  /\ Access(c, names, folders \ {p}, NoCall, calls[c])

\* The home store reads the directory,
ReadBeforeRemove(c) ==
  /\ kind = "home" /\ IsIdle(c)
  /\ \E p \in folders : Inside(p) = {} /\ Goes(c, Begun("rmdir", p, "remove"))

\* Mutant: the directory is removed with what came into it meanwhile (remove_dir_all).
RemoveTree(c) ==
  LET p == calls[c].path IN
  /\ kind = "home" /\ AtStep(c, "rmdir", "remove") /\ p \in folders
  /\ Access(c, names \ FilesBelow(p, names), {d \in folders : d # p /\ ~Below(p, d)}, NoCall, calls[c])

\* and remove_dir fails when something came into it meanwhile.
RemoveFolder(c) ==
  LET p == calls[c].path IN
  /\ kind = "home" /\ AtStep(c, "rmdir", "remove") /\ p \in folders /\ Inside(p) = {}
  /\ Access(c, names, folders \ {p}, NoCall, calls[c])

-----------------------------------------------------------------------------
Entry(p, dir) == [path |-> p, is_directory |-> dir]
FileEntries(d) == {Entry(p, FALSE) : p \in {q \in names : Child(d, q)}}

\* Mutant: the common prefixes of a delimited listing are dropped.
EntriesWithoutPrefixes(d) ==
  FileEntries(d) \union
  {Entry(p, TRUE) : p \in IF kind = "volume" THEN {} ELSE {q \in folders : Child(d, q)}}

\* list_directory: files, and the directories where there are any, or what the paths have in common.
Entries(d) ==
  FileEntries(d) \union
  {Entry(p, TRUE) : p \in
     IF kind = "volume" THEN {SubSeq(p, 1, Len(d) + 1) : p \in FilesBelow(d, names) \ Inside(d)}
     ELSE {q \in folders : Child(d, q)}}

\* A listing under the locks of the memory store, or by the object store (external, one access).
ListAtOnce(c) ==
  /\ kind # "home" /\ IsIdle(c)
  /\ \E op \in {"list", "walk"}, d \in AnyPath :
       Access(c, names, folders, NoCall,
         [Begun(op, d, "idle") EXCEPT
            !.got = IF op = "walk" THEN FilesBelow(d, names)
                    ELSE {e.path : e \in {f \in Entries(d) : ~f.is_directory}}])

\* list_directory and list_files_opts of the home store.  Listings do not change the store, and one at
\* a time is as good as many (bound).
BeginListing(c) ==
  /\ kind = "home" /\ IsIdle(c)
  /\ \A e \in Callers : calls[e].op \notin {"list", "walk"}
  /\ \E op \in {"list", "walk"}, d \in AnyPath : Goes(c, [Begun(op, d, "read") EXCEPT !.left = {d}])

\* read_children reads the names in a directory, absent ones being empty,
ReadFolder(c) ==
  LET k == calls[c] IN
  /\ k.step = "read" /\ k.todo = {}
  /\ \E d \in k.left \ names :
       Goes(c, [k EXCEPT !.left = @ \ {d}, !.todo = IF d \in folders THEN Inside(d) ELSE {}])

\* Mutant: a walk does not go into the directories.
StatWithoutDescent(c) ==
  LET k == calls[c] IN
  /\ k.step = "read"
  /\ \E p \in k.todo \intersect (names \union folders) :
       Goes(c, [k EXCEPT !.todo = @ \ {p}, !.got = @ \union ({p} \intersect names)])

\* and asks for each one's metadata: a listing fails when one is gone by now (FailCall).  A walk goes
\* into the directories.
StatEntry(c) ==
  LET k == calls[c] IN
  /\ k.step = "read"
  /\ \E p \in k.todo \intersect (names \union folders) :
       Goes(c, [k EXCEPT !.todo = @ \ {p}, !.got = @ \union ({p} \intersect names),
                         !.left = @ \union (IF k.op = "walk" THEN {p} \intersect folders ELSE {})])

EndListing(c) ==
  LET k == calls[c] IN
  /\ k.step = "read" /\ k.left = {} /\ k.todo = {}
  /\ Access(c, names, folders, NoCall, k)

TreeNext ==
  \E c \in Callers :
    \/ FailCall(c)
    \/ PutObject(c) \/ MakeParents(c) \/ CreateInFolder(c) \/ MakeDirectory(c) \/ DeleteNamed(c)
    \/ RemoveUnlessFiles(c) \/ RemoveUnlessFolders(c) \/ RemoveMarker(c)
    \/ ReadBeforeRemove(c) \/ RemoveFolder(c)
    \/ ListAtOnce(c) \/ BeginListing(c) \/ ReadFolder(c) \/ StatEntry(c) \/ EndListing(c)

TreeSpec == TreeInit /\ [][TreeNext]_treeVars

-----------------------------------------------------------------------------
\* "Only an empty directory may be deleted": a file goes only when it is deleted by its own name, and a
\* directory that was deleted had no file anywhere below it at some moment of the call.
OnlyEmptyDirectoriesGo ==
  [][/\ \A p \in names \ names' : answered'.op = "delete" /\ answered'.path = p
     /\ answered'.op = "rmdir" => answered'.bare]_treeVars

\* A listing that is answered has every file that was there throughout and none that never was,
\* whatever was created, deleted and removed while it was taken.
AnsweredListing ==
  answered.op \in {"list", "walk"} => answered.stayed \subseteq answered.got /\ answered.got \subseteq answered.seen

\* In a volume and at home a client that opens the directories list_directory shows it, from the root
\* on, comes to every file ("subdirectories rolled up as entries", store/mod.rs).
WalkFindsFiles ==
  kind # "memory" => \A p \in names : \A i \in 1..Len(p) :
    Entry(SubSeq(p, 1, i), i < Len(p)) \in Entries(SubSeq(p, 1, i - 1))

ListingsAreTrue == AnsweredListing /\ WalkFindsFiles
=============================================================================
