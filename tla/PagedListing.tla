----------------------------- MODULE PagedListing -----------------------------
(***************************************************************************)
(* A client that lists a directory, or the tags, of the portal in pages    *)
(* while others create and delete entries.  The entries are numbered in    *)
(* the order of their paths.  A "page" walk sends back the token of        *)
(* paginate (store/mod.rs); the others ask list_files_opts for what comes  *)
(* after the last path they have: of a store that applies the two options  *)
(* in order ("resume": store/memory.rs, recursive listings of a volume),   *)
(* of the delimited listing of a volume ("volume", store/unity.rs), or of  *)
(* home ("home"), which is served through store/routing.rs only.  That     *)
(* store takes "/home" off the path it is asked for and puts it back on    *)
(* every entry, and leaves start_after as it is: store/local.rs compares   *)
(* its own paths, without "/home", with one that begins with "/home/".     *)
(* Nothing but what sorts behind "/home/" by itself then comes after it,   *)
(* whatever the rest of it says; the model has no directory "home" in home *)
(* itself, below which the rest would count.                               *)
(***************************************************************************)
EXTENDS Naturals, FiniteSets

CONSTANTS MaxEntries, \* paths there may be
          MaxChanges  \* bound on creations and deletions during a walk

ASSUME ListingAssumption == MaxEntries \in Nat /\ MaxChanges \in Nat

VARIABLES entries, \* what is stored
          pages    \* the client's walk

listingVars == <<entries, pages>>

Paths == 1..MaxEntries
Modes == {"page", "resume", "volume", "home"}

\* position: the token, or the path to start after.  A limit of MaxEntries is none.  border: how many
\* of the paths, without "/home", sort before "/home/".  The last three are history: what has been
\* there since the walk began, and the changes since.
Walk == [mode : Modes, limit : 0..MaxEntries, border : 0..MaxEntries, position : Nat, done : BOOLEAN,
         got : SUBSET Paths, twice : SUBSET Paths,
         stayed : SUBSET Paths, created : 0..MaxChanges, deleted : 0..MaxChanges]

ListingTypeOK ==
  /\ entries \in SUBSET Paths
  /\ pages \in Walk

Asleep == [mode |-> "page", limit |-> 0, border |-> 0, position |-> 0, done |-> TRUE,
           got |-> {}, twice |-> {}, stayed |-> {}, created |-> 0, deleted |-> 0]

ListingInit ==
  /\ entries = {}
  /\ pages = Asleep

-----------------------------------------------------------------------------
Rank(S, e) == Cardinality({x \in S : x < e})
First(S, n) == {e \in S : Rank(S, e) < n}
After(S, p) == {e \in S : e > p}
Greatest(S) == CHOOSE e \in S : \A x \in S : x <= e

\* Mutant: the token is the index of the last element returned.
PaginateLast(S, limit, token) ==
  LET rest == {e \in S : Rank(S, e) >= token}
  IN [page |-> First(rest, limit),
      next |-> IF limit < Cardinality(rest) THEN token + limit + 1 ELSE 0]

\* The token is an index into a listing taken anew; 0 is no token, which a client sends first.
Paginate(S, limit, token) ==
  LET rest == {e \in S : Rank(S, e) >= token}
  IN [page |-> First(rest, limit),
      next |-> IF limit < Cardinality(rest) THEN token + limit ELSE 0]

\* Mutant: max_results is applied before start_after.
TruncatedFirst(S, limit, p) == After(First(S, limit), p)

\* list_files_opts: what comes after a path, and no more than max_results of it.
ListAfter(S, limit, p) == First(After(S, p), limit)

\* The delimited listing of a volume is the first page, filtered.
ListVolume(S, limit, p) == After(Paginate(S, limit, 0).page, p)

\* Home: from the second page on, what sorts behind "/home/", wherever the last page ended.
ListHome(S, limit, p) == First(IF p = 0 THEN S ELSE After(S, pages.border), limit)

\* What list_files_opts answers to a walk by path.
ListFrom(S, limit, p) ==
  CASE pages.mode = "resume" -> ListAfter(S, limit, p)
    [] pages.mode = "volume" -> ListVolume(S, limit, p)
    [] pages.mode = "home"   -> ListHome(S, limit, p)

-----------------------------------------------------------------------------
\* A walk that has ended is forgotten with the next change.
CreateEntry ==
  /\ pages.done \/ pages.created < MaxChanges
  /\ \E e \in Paths \ entries : entries' = entries \union {e}
  /\ pages' = IF pages.done THEN Asleep ELSE [pages EXCEPT !.created = @ + 1]

DeleteEntry ==
  /\ pages.done \/ pages.deleted < MaxChanges
  /\ \E e \in entries :
       /\ entries' = entries \ {e}
       /\ pages' = IF pages.done THEN Asleep
                   ELSE [pages EXCEPT !.deleted = @ + 1, !.stayed = @ \ {e}]

BeginWalk ==
  /\ pages.done
  /\ \E mode \in Modes, limit \in 0..MaxEntries,
        border \in 0..MaxEntries : \* which directory of home is listed, and so where its paths sort
       /\ mode # "home" => border = 0
       /\ pages' = [Asleep EXCEPT !.mode = mode, !.limit = limit, !.border = border, !.done = FALSE,
                                  !.stayed = entries]
  /\ UNCHANGED entries

Receive(page, position, done) ==
  pages' = [pages EXCEPT !.got = @ \union page, !.twice = @ \union (pages.got \intersect page),
                         !.position = position, !.done = done]

\* The next page by its token; without a token the walk is at its end.
TokenPage ==
  LET answer == Paginate(entries, pages.limit, pages.position) IN
  /\ ~pages.done /\ pages.mode = "page"
  /\ pages.limit > 0 \* a client that asks for nothing gets its own token back for ever
  /\ Receive(answer.page, answer.next, answer.next = 0)
  /\ UNCHANGED entries

\* The next page by the last path received; an empty one is the end.
ResumePage ==
  LET page == ListFrom(entries, pages.limit, pages.position)
  IN /\ ~pages.done /\ pages.mode # "page"
     /\ IF page = {} THEN Receive({}, pages.position, TRUE)
        ELSE Receive(page, Greatest(page), FALSE)
     /\ UNCHANGED entries

Abandon ==
  /\ ~pages.done
  /\ pages' = Asleep
  /\ UNCHANGED entries

ListingNext == CreateEntry \/ DeleteEntry \/ BeginWalk \/ TokenPage \/ ResumePage \/ Abandon

ListingSpec == ListingInit /\ [][ListingNext]_listingVars

-----------------------------------------------------------------------------
Ended == pages.done /\ pages.limit > 0

\* A walk by token loses an entry that was there all along only to a deletion, one entry for each at
\* most, and is given an entry twice only for a creation.
PagesShiftByChanges ==
  Ended /\ pages.mode = "page" =>
    /\ Cardinality(pages.stayed \ pages.got) <= pages.deleted
    /\ Cardinality(pages.twice) <= pages.created

\* A walk by path of a store that is asked with the path it goes by is given nothing twice, and, where
\* the store filters before it truncates, every entry that was there all along.  (A volume truncates
\* first.)
ResumeIsExact ==
  /\ pages.mode \in {"resume", "volume"} => pages.twice = {}
  /\ Ended /\ pages.mode = "resume" => pages.stayed \subseteq pages.got

\* A walk by path of home is not exact.  What it is given twice sorts behind "/home/", and what it has
\* lost at its end before it: a directory all of whose paths sort behind (/home/queries) is walked over
\* and over, with nothing lost; of one all of whose paths sort before (/home/drafts) nothing is repeated.
HomeStraysByName ==
  pages.mode = "home" =>
    /\ \A e \in pages.twice : e > pages.border
    /\ Ended => \A e \in pages.stayed \ pages.got : e <= pages.border

\* What is created and deleted between two pages costs a walk by token (paginate) no more than it
\* must, and a walk by path (list_files_opts of memory and of a volume) nothing; a walk by path of home
\* (store/routing.rs) repeats and loses entries by their names, on either side of "/home/".
WalksAreWhole == PagesShiftByChanges /\ ResumeIsExact /\ HomeStraysByName
=============================================================================
