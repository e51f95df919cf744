------------------------------ MODULE FileUploads ------------------------------
(***************************************************************************)
(* put_file_stream of the portal's three file stores, for one file of      *)
(* each: "memory" collects the stream and inserts it, "volume" runs a      *)
(* multipart upload of an object store, "home" truncates a file and writes *)
(* the chunks into it as they come.  Uploads and deletions of other        *)
(* clients interleave; a stream may break and a store may fail.            *)
(***************************************************************************)
EXTENDS Naturals, Sequences

CONSTANTS Uploads,  \* upload_file requests
          MaxChunks \* bound on the chunks of one

ASSUME UploadsAssumption == MaxChunks \in Nat \ {0}

VARIABLES file,  \* the file of each store
          upload \* the requests

uploadVars == <<file, upload>>

Stores == {"memory", "volume", "home"}
Part == [by : Uploads, chunk : 1..MaxChunks]
Hole == [by |-> "nobody", chunk |-> 0] \* bytes nobody wrote
Content == Seq(Part \union {Hole})

\* got: chunks taken from the stream.  linked: the file it has open is the one at the path.
\* alone (history): nothing else has happened to the file since it began.
Upload == [step : {"new", "create", "chunks", "stat", "done"}, to : Stores,
           length : 1..MaxChunks, got : 0..MaxChunks, linked : BOOLEAN,
           answer : {"none", "ok", "error"}, alone : BOOLEAN]

UploadsTypeOK ==
  /\ DOMAIN file = Stores
  /\ \A s \in Stores : file[s].there \in BOOLEAN /\ file[s].content \in Content
  /\ upload \in [Uploads -> Upload]

UploadsInit ==
  /\ file = [s \in Stores |-> [there |-> FALSE, content |-> <<>>]]
  /\ upload = [u \in Uploads |-> [step |-> "new", to |-> "memory", length |-> 1, got |-> 0,
                                  linked |-> TRUE, answer |-> "none", alone |-> TRUE]]

Whole(u) == [i \in 1..upload[u].length |-> [by |-> u, chunk |-> i]]

-----------------------------------------------------------------------------
\* The record of u becomes r; with an effect on its store's file, the others there are not alone.
Only(u, r) == upload' = [upload EXCEPT ![u] = r]
Disturbing(u, r) ==
  upload' = [v \in Uploads |->
    IF v = u THEN r
    ELSE IF upload[v].to = r.to THEN [upload[v] EXCEPT !.alone = FALSE] ELSE upload[v]]
Put(s, content) == file' = [file EXCEPT ![s] = [there |-> TRUE, content |-> content]]
To(u, s) == upload[u].to = s /\ upload[u].step = "chunks"
Failed(u) == [upload[u] EXCEPT !.step = "done", !.answer = "error"]
Answered(u) == [upload[u] EXCEPT !.step = "done", !.answer = "ok"]
AllTaken(u) == upload[u].got = upload[u].length

\* upload_file: the first message names the path; the store resolves it.
BeginUpload(u) ==
  /\ upload[u].step = "new"
  /\ \E s \in Stores, n \in 1..MaxChunks :
       Only(u, [step |-> IF s = "home" THEN "create" ELSE "chunks", to |-> s, length |-> n,
                got |-> 0, linked |-> TRUE, answer |-> "none", alone |-> TRUE])
  /\ UNCHANGED file

\* Mutant: the file is opened without being truncated.
CreateKept(u) ==
  /\ upload[u].step = "create"
  /\ Disturbing(u, [upload[u] EXCEPT !.step = "chunks"])
  /\ Put("home", file["home"].content)

\* File::create makes the file or truncates it.
CreateFile(u) ==
  /\ upload[u].step = "create"
  /\ Disturbing(u, [upload[u] EXCEPT !.step = "chunks"])
  /\ Put("home", <<>>)

\* A chunk that is kept until the end: a buffer, or parts of a multipart upload.
Take(u) ==
  /\ upload[u].step = "chunks" /\ upload[u].to # "home" /\ ~AllTaken(u)
  /\ Only(u, [upload[u] EXCEPT !.got = @ + 1])
  /\ UNCHANGED file

\* write_all, at the offset this handle has.
Written(content, u, i) ==
  [j \in 1..(IF i > Len(content) THEN i ELSE Len(content)) |->
    IF j = i THEN [by |-> u, chunk |-> i]
    ELSE IF j <= Len(content) THEN content[j] ELSE Hole]

Write(u) ==
  /\ To(u, "home") /\ ~AllTaken(u)
  /\ LET taken == [upload[u] EXCEPT !.got = @ + 1] IN
     IF upload[u].linked
     THEN /\ Disturbing(u, taken)
          /\ Put("home", Written(file["home"].content, u, taken.got))
     ELSE Only(u, taken) /\ UNCHANGED file

\* Mutant: an upload whose stream broke is completed with the parts it has.
BreakFinishes(u) ==
  /\ upload[u].step = "chunks" /\ upload[u].got > 0
  /\ Disturbing(u, Failed(u))
  /\ Put(upload[u].to, SubSeq(Whole(u), 1, upload[u].got))

\* The stream breaks, the client leaves, or the store fails: nothing is undone, the multipart
\* upload is not completed.
Break(u) ==
  /\ upload[u].step \in {"create", "chunks"}
  /\ Only(u, Failed(u))
  /\ UNCHANGED file

\* put_file of the collected bytes.
InsertFile(u) ==
  /\ To(u, "memory") /\ AllTaken(u)
  /\ Disturbing(u, Answered(u))
  /\ Put("memory", Whole(u))

\* finish of the multipart upload, whose answer may be lost; then stat_file.
FinishParts(u) ==
  /\ To(u, "volume") /\ AllTaken(u)
  /\ \/ Disturbing(u, [upload[u] EXCEPT !.step = "stat"])
     \/ Disturbing(u, Failed(u))
  /\ Put("volume", Whole(u))

StatFile(u) ==
  /\ upload[u].step = "stat"
  /\ \/ file["volume"].there /\ Only(u, Answered(u))
     \/ Only(u, Failed(u))
  /\ UNCHANGED file

\* flush, and the metadata of the handle.
FlushFile(u) ==
  /\ To(u, "home") /\ AllTaken(u)
  /\ Only(u, Answered(u))
  /\ UNCHANGED file

\* delete_file.  A home file that is open lives on without a name.
DeleteFile(s) ==
  /\ file[s].there
  /\ file' = [file EXCEPT ![s] = [there |-> FALSE, content |-> <<>>]]
  /\ upload' = [u \in Uploads |->
       IF upload[u].to # s \/ upload[u].step = "new" THEN upload[u]
       ELSE [upload[u] EXCEPT !.alone = FALSE, !.linked = @ /\ upload[u].step # "chunks"]]

UploadsNext ==
  \/ \E s \in Stores : DeleteFile(s)
  \/ \E u \in Uploads :
       \/ BeginUpload(u) \/ CreateFile(u) \/ Take(u) \/ Write(u) \/ Break(u)
       \/ InsertFile(u) \/ FinishParts(u) \/ StatFile(u) \/ FlushFile(u)

UploadsSpec == UploadsInit /\ [][UploadsNext]_uploadVars

-----------------------------------------------------------------------------
OneWholeUpload ==
  \A s \in {"memory", "volume"} : file[s].there =>
    \E u \in Uploads : upload[u].to = s /\ file[s].content = Whole(u)

AnsweredIsStored ==
  \A u \in Uploads : upload[u].answer = "ok" /\ upload[u].alone =>
    file[upload[u].to].there /\ file[upload[u].to].content = Whole(u)

\* In memory and in a volume a file is one upload, whole, whatever breaks or overlaps ("abort so no
\* partial object is committed", store/unity.rs); and in every store an upload that was answered and
\* met no other write or deletion of its file is what the file holds, whatever was there before and
\* whichever uploads broke.
UploadsAreKept == OneWholeUpload /\ AnsweredIsStored
=============================================================================
