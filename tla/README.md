# TLA+ models of the Open Lakehouse Lab

This directory holds TLA+ specifications of the concurrent and stateful parts of this repository, TLC
configurations that check them on small instances, and theorems about them that the TLA+ proof system
checks for every value of the constants. Paths are relative to the repository root (`src/` in
`PROJECT.json`). `PROJECT.json` maps every definition to the lines it models, and lists the components,
runs, mutations, hazards, findings and theorems.

To check a run: `tlc -config Editor_pages.cfg MCEditor.tla`. To check the proofs: `tlapm EditorProofs.tla`.

## 1. The system

The lab is a desktop application and the servers it starts. A React UI runs in the webview of a Tauri
process; the Tauri process hosts the portal and the query engine in-process and supervises a catalog
server, a notebook server and Compose projects; the same engine also runs as a Flight SQL server alone.

    ui (webview) -- Tauri commands --> desktop (Tauri) -- spawns / kills --> uc server, marimo, Compose
                 -- in-process fetch -> desktop-host -> portal services and QueryService / IngestService
    Flight SQL clients -------------> hydrofoil server -> engine -> DataFusion, delta-rs, Unity Catalog

| Component | State | Operations | Interacts through | Hard behaviour | What makes it correct | Module |
|---|---|---|---|---|---|---|
| Sessions and statements (`hydrofoil/src/{engine,server,lineage}.rs`) | `SessionStore` (sessions by id or principal), a statement map in each session | handshake, plan, do_get, prepared statements, sweep | shared DashMaps; a session is cloned out and used across awaits | racing creators, eviction between lookup and use, two fetches of one ticket, TTLs | a statement runs where it was planned; none is lost young; runs are distinct; unused state is released | `FlightSessions` |
| Principals and their enrichment (`identity.rs`, `engine.rs`, `server.rs`) | enrichments by uid, ephemeral sessions by principal and token | extract, enrich, resolve | shared by all requests | concurrent misses, a failing provider, cyclic groups | a request runs as its own principal, with its own token | `Principals`, `GroupClosure` |
| Query pipeline (`stream.rs`, `query_service.rs`, `query.rs`, `planner/governed_lineage.rs`) | a bounded channel, a driver task, a JoinSet | plan, authorise, execute, send, read, drop | channel; the driver runs on another runtime | back pressure, panic, cancellation, ends that look alike | what is read is the result in order; an end is the whole; everything ends | `QueryStream` |
| Catalog, facts and policy (`catalog/`, `policy.rs`, `session/`) | catalog list and fact sink of a session | look up, take a snapshot, gather facts, overlay, plan, authorise | Unity Catalog | two statements of a session share sink and overlay | a statement is governed by the tags, and reads the version, of its own time | `TableResolution`, `QueryStream` |
| Managed ingest (`ingest_service.rs`, `server.rs`) | tables in the catalog | create if missing, append, commit | Unity Catalog, delta-rs | two creators, failure between the steps, retries | created once, all rows or none, the answer is true | `ManagedIngest` |
| SQL parser (`datafusion/src/sql/`) | a token stream | parse a script, decide whose it is | the planner asks it first | delimiters, clauses that repeat | an accepted script is what was written | `SqlScripts` |
| Portal stores and services (`portal/src`) | tags, assignments, files | CRUD, paged lists, streamed writes | one lock per map; the file system; an object store | change during a listing, partial writes | a listing misses nothing that stays; a failed write harms nothing; only empty directories go | `PagedListing`, `FileUploads`, `FileStores` |
| Environment lifecycle (`node/desktop/src-tauri/src/{commands,supervisor,uc,modules,notebook,lib}.rs`) | `active`, the supervised set, the notebook endpoint, processes | start, stop, open notebook, exit | async Tauri commands over shared locks; the OS | interleaved commands, failure half way, a crash that leaves Compose projects up | nothing escapes supervision but by a shutdown that failed; an active environment is up | `EnvHost`, `HostCalls` |
| Environment registry (`env.rs`) | `environments.json`, directories | create, set modules, configure | the file system | a write broken off | what was answered stays | `EnvRegistry` |
| Keys (`kek.rs`) | keychain items, `key.json` | mint, move, configure, seal | the OS keychain, files | a crash between two steps, two minters | a key in use is never replaced | `KeyStore` |
| Environment shell (`ui/src/components/EnvironmentGate.tsx`, `EnvironmentSwitcher.tsx`) | running, view, transition, query cache | start, stop, switch, manage, open | host commands, TanStack Query | handlers that overlap; values captured before an await | UI and host agree; no answer of another environment; a form saves to the environment it shows | `EnvGate` over `HostCalls`, `ManagerForms` |
| Editor (`ui/src/lib/editor`, `components/editor`, `lib/files`) | models, timers, in-flight writes, tabs | open, edit, save, run, close, mount, unmount | promises over HTTP; a module-level registry | edits during a write, failed writes, remounts with promises pending | what looks saved is saved; nothing is dropped unflushed; the tabs of an environment come back | `Editor`, `EditorTabs` |
| Query results (`ui/src/lib/editor/{runController,resultSessions}.ts`) | one controller per tab, one run each | run, cancel, close | an async stream | a late end of the run before | the pane shows the last run, every stream can be aborted | `QueryResults` |
| Notebook sessions (`notebook.rs`, `ui/src/lib/notebook`) | sessions, working copies | open, edit, sync, close | marimo, the file store | switches and closes while opening | a working copy returns to where it came from | `NotebookSessions` |
| Desktop transport (`commands.rs`, `node/desktop/src/tauri-{transport,files}.ts`) | a channel and a queue per stream | send, pull, abort | Tauri's channel | the answer, the frames and an abort meet | the client is given the stream, whole or with an error | `StreamBridge` |
| Delta planner, lineage client, CPU runtime and server start, topology, proxies, pages, CLI, generated code | see section 6 | | | | | not modelled |

`PROJECT.json` names every component with its sources, and under `hazards` the places in them that are hard
to test, each with the properties that watch it or the reason there is none.

## 2. The modules

| Module | Models | Checked by | Proved in |
|---|---|---|---|
| `FlightSessions` | the session and statement stores under concurrent RPCs, and the sweeper | `MCServer` | `ServerProofs` |
| `QueryStream` | one statement from planning to the end of its response | `MCServer` | `ServerProofs` |
| `Principals` | the principal, enrichment and token a request runs with | `MCParts` | `IdentityProofs` |
| `GroupClosure` | the walk up the group hierarchy | `MCParts` | `IdentityProofs` |
| `TableResolution` | how statements of one session get a table and its facts | `MCParts` | `StorageProofs` |
| `ManagedIngest` | bulk ingest over both surfaces into one table | `MCParts` | `StorageProofs` |
| `SqlScripts` | the SQL parser and the dispatch of what it accepts | `MCParts` | `IdentityProofs` |
| `FileUploads` | streamed writes of a file in three stores | `MCParts` | `StorageProofs` |
| `PagedListing` | a client's walk through a listing that changes | `MCParts` | `StorageProofs` |
| `FileStores` | files and directories under concurrent calls | `MCParts` | `StorageProofs` |
| `EnvHost` | the Tauri commands that start and stop environments, step by step, over processes | `MCDesktop`, `MCEnvHost` | `EnvHostProofs` |
| `HostCalls` | what of those commands the UI relies on: the abstract specification `EnvHost` implements | `host_commands` | `EnvHostProofs` |
| `KeyStore` | the key encryption key, its stores and its record | `MCParts` | `DesktopProofs` |
| `EnvRegistry` | `environments.json` and the commands that change it | `MCParts` | `DesktopProofs` |
| `StreamBridge` | a server stream from the Tauri command to the client that pulls | `MCParts` | `DesktopProofs` |
| `EnvGate` | the handlers of the environment shell, composed with `HostCalls` | `MCParts`, `MCEnvGate` | `EnvGateProofs` |
| `ManagerForms` | the forms of the environment manager | `MCParts` | `EnvGateProofs` |
| `Editor` | one file: its model, the autosave, the tab, and the store | `MCEditor` | `EditorProofs` |
| `EditorTabs` | the tabs, what is kept of them, and their restoration | `MCParts`, alone | `EnvGateProofs` |
| `QueryResults` | the runs of one SQL file and the pane that shows them | `MCParts`, alone | `EnvGateProofs` |
| `NotebookSessions` | a notebook's sessions, working copies and controllers | `MCDesktop`, alone | `DesktopProofs` |

In every module an action is the code between two points where another task can run: one access of a
shared map or lock, one effect on a process, or a JavaScript task up to its next await. Definitions
marked `Mutant` stand beside the definition whose plausible bug they are; they are in no specification.

`MCServer`, `MCDesktop` and `MCParts` instantiate modules together that share no state. A behaviour of them is one of a
single module (`part` says which), the others rest in their initial states; interleaving them would add
states and no behaviour of any one of them. In the modules themselves everything interleaves.

### The query server

`FlightSessions`: `sessions` is `SessionStore.sessions`, with one value for both kinds of key: a session's own id, or a
principal, for the ephemeral session. `statements` and `stmt` are the statements of every session and what is stored with
each. `rpc` holds each request task, with the session it cloned out of the map. Sessions are numbered in
the order they enter the store, and ages saturate at the TTL. An RPC is `Arrive`, the steps of
`resolve_session` (`EphemeralGet`, `EntryOrInsert`, `Touch`) and the access of the statement map; the sweeper
has two passes with requests between them. A client presents any key of the map, which `resolve_session` does not compare with the
principal of the request, and a handle only to an RPC of its kind. An RPC that executes a stored statement clones it out of the map
(`FindStatement`) and starts the clone later (`ExecuteStatement`, `ExecutePrepared`, `UpdatePrepared`, or `RefusePlan` when the plan
is one it must not run): the requests of other tasks, removals of that very handle included, come between the two.
The awaits of enrichment and of building a session are one point of interleaving, and either may fail.
Every RPC that resolves a session is there, and the constant `Served` says which of them an instance serves. `update`, `ingest`
and `delta` store no statement, and each starts a run of its own. `executions`, `consumed`
and the fields `used`, `home` and `kind` of a statement are history.

`QueryStream`: a batch is its number and counts as one row. The two surfaces differ as in the code: `connect` (RunQuery) has the
small buffer, the row cap, refuses DDL and DML, and sends the schema alone when there was no batch; `flight` (do_get)
admits DML, has no cap, and its encoder sends the schema first. `Lower` may begin a lineage run and may fail
after it. `RxAtEnd` and `CheckAtEnd` are the two sides of `select`, polled in either order; a panic may overtake
items still in the channel. A batch that does not encode is an error item. Terminal lineage events are
emitted by a dependency.

`Principals`: an enrichment is modelled by the principal whose facts it holds, a credential by its token; the identity
provider answers with facts of whom it was asked for, or fails. `GroupClosure` gives any directory graph, cycles and missing groups
included; its frontier is a set where the code has a `Vec` with duplicates, whose later copies are skipped as seen.

`TableResolution` has one table and leaves credentials out. Each statement looks the table up, takes a snapshot,
gathers facts into the session's sink, overlays a provider on the session's catalog list, and is planned and
authorised; the sink and the list are the session's, so that the statements meet there. `ManagedIngest` has the surfaces
`connect` (IngestTable) and `flight` (DoPut); every call of the catalog may fail, or do its work
and lose the answer, and a client may leave at any await. `Shadow` says whether `hydrofoil.default` has a table
of the same short name, which is where rows go when the catalog's table is not found.

`SqlScripts` reads a script token by token. A token is its kind, a name its number of parts; names that are
keywords do not occur, and a statement of DataFusion's own is one token. `segments` divides the same script by its
delimiters, independently of the parser.

### The portal

`FileUploads` has the three stores side by side, with one file each. In the home store the file is truncated
and then written chunk by chunk; memory and volume replace it at the end. `PagedListing` numbers the entries in the order of their
paths and has both ways of going on: the token of `paginate`, an index, and `start_after` of `list_files_opts`. The latter has a mode
per store. Home is reached through the routing store only, which strips `/home` from the path asked for and leaves `start_after` as it is,
so that the local store compares `/queries/a.sql` with `/home/queries/a.sql`: what comes after it is what sorts behind `/home/` by its own name,
wherever the page ended. `border`, which any directory listed may have anywhere, is how many of the paths sort before; a directory `home`
inside home, below which the rest of the string would count, is left out.
`FileStores` has one store per behaviour. A call that makes one access is one step; a call that
makes several takes them one by one, with others between; calls that fail without an effect are left out, one listing
at a time is under way, and a listing of the object store is one access. The single-map operations of tags and
assignments are one lock each and are not modelled beyond their paged lists.

### The desktop host

`EnvHost`: every command is a task in `cmd`: `pc` says how far it got, `taken` which processes its teardown took out of
the supervisor, and `then` what follows the teardown. A sidecar is a number in the order of spawning; a
Compose project is identified with its environment, because that is how Compose names it. Every step
that can fail has the failing alternative, with the code's cleanup or lack of it: a kill or a `compose down` that fails is swallowed,
and the command goes on as if the process had ended (`StaysUp` in `ShutDown` and `Reconcile`). `Quit` is the exit hook;
`ForceQuit` loses everything but the processes. `loose` is history: what the end of the app, or a shutdown that failed, left running.
Unknown environments and unusable keys are refused without an effect; a sidecar that dies by itself, which the code
does not notice, is not modelled. `HostCalls` keeps the active environment and, for each call, whether it is starting,
stopping or about to be answered. `EnvHost` maps to it by `CallOf`: the property `ImplementsHostCalls` is `Lifecycle!HostSpec`.

The synchronous commands run one at a time on Tauri's main thread. `KeyStore` has that thread and one asynchronous start, each
access of the keychain or of `key.json` a step that may fail, and the end of the application between any two. `EnvRegistry` has
one instance of the application; a start that reads the file while it is being written fails.
Names are slugs, sequences of words, so that the number that is appended to a taken one can meet another name.

`StreamBridge` has the command that sends (`connect_stream` or `files_download`), the channel, the queue of the bridge and the
generator that reads it. That Tauri delivers a channel in order and the command's answer after all of it is an
external assumption.

### The user interface

`EnvGate` extends `HostCalls`: its handlers call the host and are answered by it. A handler up to its await is one
action, and the rest, with the `running` it captured, another. `busy` belongs to the switcher and is lost when it
is unmounted. `Query` fills the cache with answers of the host's active environment, whatever the UI takes
as running. A reload of the webview is not modelled here. `ManagerForms` has the manager's list, selection and tabs, and one
of its three forms per behaviour, since they share nothing but the environment shown. The host's commands
act at the call and answer later; React keeps a form, with its state, when the environment it shows changes, unless the code gives it a key.

`Editor`: page `g` is the g-th mount of the editor: another route, or another environment, unmounts it and mounts the
next, while its timers and promises live on and the registry of models is shared. A text is the number of its
making, which is also Monaco's version id, and undo goes back to the text last saved. `Upload` may fail before
or after the file was replaced. Which of the stored texts a read finds is left open, since other clients write the
store and the environment may be another by then. `EditorTabs` has several files and no contents: a commit of React with its
effects is one step, a close is its last step, and a file that is read may be missing. Reloads, links into the page and
from the page, and switches are actions.

`QueryResults` numbers the runs of a file as they begin and names a controller by its first run; a run waits for its
flush first. The runner's stream is external: it gives chunks, ends or fails, and after an abort may still give what was on its way.
`NotebookSessions` has one notebook at the same path in every environment; which environment a sync writes to is
what is active when the host's command runs.

## 3. What the runs show

Every property has in `PROJECT.json` a mutation of a modelled definition under which TLC finds it violated.

| Run | Instance | What it shows |
|---|---|---|
| `server_safety` | 2 requests, 1 principal, 2 sessions, 1 handle, TTL 1, 3 runs, the RPCs that plan, execute and close; or a response with buffer 2, row limit up to 5, at most 6 batches; 1.0 M states | `ExecutedWherePlanned`, `YoungStatementsStay`, `RunsAreTraced`, `OnlyIdleSessionsLeave`, `NoneFoundAfterRemoval` while sessions are evicted and rebuilt under the requests; `InOrder`, `EndIsWhole`, `HeldBack`, `GateBeforeData` |
| `server_liveness` | 1 request at a time of every RPC, 1 session, 1 handle, 2 runs; or a response as above; fairness; 0.05 M states | `UnusedIsReleased`, `QueryEnds` |
| `host_commands` | 2 environments, one with modules and one observed, 2 commands, 2 sidecars, 1 forced quit; or a notebook in 2 environments with 2 tabs and 1 edit; 0.7 M states | with shutdowns that fail: `TrackedOnce` under any interleaving; `NothingEscapes`, `OneEnvironmentUp`, `ActivatesLive` with commands one at a time; `ImplementsHostCalls`. `SyncGoesHome`: a working copy goes back to where it was opened; `ReleasedIsSynced`: a closed tab's copy is synced first |
| `gate` | the fifteen parts of `MCParts`; 0.8 M states | the properties of the table below |
| `editor_pages` | 2 pages, 2 openFile calls, 3 texts, 2 models, fairness; 0.3 M states | `SavedIsStored`, `TabShowsModel`, `FlushedFirst`, `EditsSettle` |
| `sessions_used`, `host_restart`, `gate_overlap`, `editor_catchup`, `notebook_leave`, `results_rerun`, `tabs_switch` | small | one refuted comment each, see below |

The run `gate`, part by part:

| Module | Instance | Property: what it says |
|---|---|---|
| `EnvGate` | 3 environments, 2 handlers | `ShellAgrees`: with handlers one at a time, UI and host agree when nothing is in flight, and the cache is the running environment's |
| `GroupClosure` | 3 groups, any graph | `AnswerIsAncestry`: the groups above the principal, all, no other, once |
| `Principals` | 2 requests, 2 principals, 1 user token and the shared one | `RunsAsItself`: own principal, own token, facts the provider gave for that very principal |
| `TableResolution` | 2 statements, 1 commit or 1 change of tags | `FreshWhenAlone`: a statement alone in its session reads every version ratified when it began, under facts read since then |
| `ManagedIngest` | 2 ingests, a table of the same short name | `AnswersAreTrue`: what the client is told is what happened; `WritesAreGoverned`: nothing is stored that policy refused, nor half of a stream |
| `SqlScripts` | 2 statements | `ScriptsAreWhole`: an accepted script is what its delimiters divide it into, and only a script of one statement changes the catalog |
| `PagedListing` | 3 paths, 2 changes | `WalksAreWhole`: a walk by token misses only as much as deletions shift; a walk by path repeats nothing and, where the store filters first, misses nothing that stays; over home it strays by the names of the paths |
| `FileUploads` | 2 uploads of up to 2 chunks | `UploadsAreKept`: one whole upload in memory and volume, and an answered one is stored unless others meddled |
| `FileStores` | 2 callers, `a`, `a/b`, `c` | `ListingsAreTrue`: a listing has what was there throughout and nothing that never was; `OnlyEmptyDirectoriesGo` |
| `KeyStore` | 2 keys | `KeyIsKept`: a key that sealed something is found by every later start; a choice is recorded when it can be honoured |
| `EnvRegistry` | 4 environments, slugs `a` and `a-2` | `RegistryIsKept`: what was answered stays, ids are unique, a torn file is not replaced by an empty one |
| `QueryResults` | 3 runs of 1 chunk, 1 waiting | `ResultsAreOfRuns`: the pane shows the last run, every stream has a controller that can abort it |
| `StreamBridge` | 5 frames | `BridgeIsWhole`: frames in order and all, and no sleep that nothing ends |
| `ManagerForms` | 2 environments, 1 capability, 2 saves | `FormsAreTrue`: what is saved for an environment is what was toggled there, and what is shown is its own |
| `EditorTabs` | 2 environments, a file, a notebook, 2 mounts | `TabsAreKept`: the tabs opened and not closed come back after reload, return and switch |

**Bounds.** Two tasks are enough for every race these components have, since each is between two tasks at one
shared location; the sweeper, the forced quit, the unmounts, the end of the application and the failures come on top of them. In
`FlightSessions`, TTL 1 separates fresh from expired, two sessions allow an eviction and a rebuild under the same key,
and three runs a planning and two executions. The RPCs that `server_safety` leaves out store and remove no statement;
they take their turns in `server_liveness`, and the theorems hold for all of them. In `EnvHost` two sidecars are the servers
of a switch, or a server and its notebook server, or the servers of two starts that overlap; one environment has a Compose project and one telemetry, so that every branch of a start is
taken. Three environments in `EnvGate` let a switch overlap a stop of a third. In `QueryStream` six batches fill
the buffer, the driver's hand and the reader, and exceed the row cap. In `Editor` three texts are
the one opened, one being written and one typed meanwhile, and two models a file opened, closed and opened again. Three groups form a chain, a diamond's side and a cycle. Three paths and two
changes delete before and create behind a page's end. Two chunks are a file half written. Two keys are the one in use and the one
that would replace it. Three runs are one streaming, one that replaced it and one waiting. `a/b` is a file in a directory and `c` one
beside it. Two mounts are an open, and a reload, a return or a switch after it; what is kept of the environment that was left is
checked while it is away. One commit or one change of tags is what a statement may miss. Counters are bounded in guards and named `Max...`; an
action at its bound is disabled, which removes behaviours but adds none. `CHECK_DEADLOCK FALSE` appears for
`Editor`, where nothing has to happen with every tab closed and the bounds spent, and for `MCParts`, where ingests, uploads, scripts,
runs and a bridged stream come to their ends. Requests, commands and tabs are interchangeable, and the safety runs
`server_safety` and `host_commands` use that symmetry.

**Conditions.** Some properties are conditional on a history variable: `alone` (no command or
handler was invoked while another ran; no statement shared its session), `tidy` (no page was left with a write or an openFile pending), `Undisturbed` (no start met
another command of the key, no item was dropped by the OS), `straddled` (a notebook was opened during a switch), `late` (a tab or page
went while its run waited for the flush), `broken` (a write of the registry was cut off), `crossed` (a form was used before its own
values had come, or answered in another environment's place), `excused` (a restoration was left half-way, met a file that could not be read, or had a tab
closed under it). The runs contain the other behaviours too, and the unconditional properties range over them; what
the code does there is listed in section 5.

**Fairness.** `FlightSessions`: `Tick` and the sweeper, a tokio interval that never stops (`engine.rs`, `spawn_sweeper`);
no request is assumed to arrive or to end. `QueryStream`: `Drive`, `Join` and `Poll`, because both runtimes
run a ready task, the transport polls a response until it drops it, and a plan is taken to answer every poll;
nothing is assumed of the client. `Editor`: for each page, an armed timer fires, a write is answered and a settled promise continues; nothing is
assumed of the user, of reads, or of page switches. The safety runs need none.

**Findings.** Seven runs refute a comment:

* `sessions_used`: `sweep_statements` (`engine.rs:408`) counts from the creation of a statement, not from its last use, so
  a prepared statement in regular use is dropped; the comment speaks of statements idle for the TTL.
* `host_restart`: a switch that fails leaves `active` on an environment whose server it killed, and the next start of
  that environment returns early (`commands.rs:388`) although its comment says that it respawns.
* `gate_overlap`: a switch neither checks nor sets `transition` (`EnvironmentGate.tsx:184`), so a stop can run during it.
* `editor_catchup`: a flush that meets a write in flight has already cancelled the timer (`autosave.ts:74`): the edits made
  during that write stay unsaved, and no debounce catches up with them.
* `notebook_leave`: a page that is left discards its notebooks' working copies without a sync (`EditorSessionContext.tsx:295`), against
  `notebook.rs:63`.
* `results_rerun`: a run that was replaced writes its own end over the snapshot of the run that replaced it (`runController.ts:129`).
* `tabs_switch`: `?path=` survives a switch, so a file of one environment is opened, and kept, among the tabs of
  the other (`useTabPersistence.ts:64`, against the comment on its storage key).

## 4. What is proved

Every safety property, every action property and every type invariant the passing runs check is a theorem, for all values of the constants that satisfy the
named assumptions in the modules: that the bounds are natural numbers (positive where the code has at least one); that values like
`None`, `NoTab` or `Shared` are none of the environments, tabs, principals or tokens; that the slugs of `EnvRegistry` are sequences of words
and no modules is one of its module sets; and that the tree paths of `FileStores` are sequences of names, not empty, with every prefix of
a path a path. Each theorem stands after its lemmas, which take one group of actions each. Types are
proved for every module first, and for the parts that `MCParts` puts side by side together (`PartsTypesHold`).

* **ServerProofs**, on `FlightSessions`. `TypeInv` adds to `TypeOK` what a request holds at each stage. `StoreInv` relates statements,
  runs and executions: every handle minted so far has a home, a run below the counter, and is stored at home
  unless it was consumed or is as old as the TTL; every execution's run is below the counter. It is needed because neither
  `ExecutedWherePlanned` nor `RunsAreTraced` says where the next run id comes from. `OwnersOK` says
  that a key only names a session that was built, of its own principal (a handshake's key: its own session). From these follow
  `ExecutedWherePlanned`, `RunsAreTraced`, `YoungStatementsStay` and the action property `OnlyIdleSessionsLeave`; and, stated as a theorem only,
  `ResolvedAsNamed`: however evictions and rebuilds interleave, a request that names a session by a key gets the one that key names, whoever built it,
  and any other request one of its own principal. `HandlesOK` adds that a handle taken
  out is in no session, and that a request which has cloned a statement, or is about to take it out, holds the only session that can have it: so no
  request finds it afterwards (`NoneFoundAfterRemoval`), although one that had cloned it before may still start it.
  On `QueryStream`. `StreamInv` consists of named parts: which driver states each reader state allows, how
  the items sent so far relate to the batches yielded (`Position`), the order of the items, what a denied statement may have
  sent, and the bound of the channel. `InOrder` is not inductive alone, since the place of the
  next item depends on the item in the driver's hand. It gives `InOrder`, `EndIsWhole`, `HeldBack` and `GateBeforeData` for every capacity and every
  length of the result. `MCServer` implements both modules (`ServerIsItsParts`), so every safety property `server_safety` checks holds of it for all
  constants and with every RPC served (`ServerKeepsItsProperties`).
* **IdentityProofs.** `ClosureInv` says that what was seen or waits in the frontier is above the principal, and that the
  frontier is closed under what was seen; it gives `AnswerIsAncestry` for every directory, and `WalkAdvances`: no step visits a group twice.
  `PrincipalsInv` (each entry of the cache holds what the provider told, each kept session its key's credentials, each request
  its own) gives `RunsAsItself`. `ScriptInv` gives `ScriptsAreWhole` for scripts of any length: between two statements the parser has
  pushed what the delimiters divide off, or is one ahead and expects a delimiter (`AtStart`); within a statement its kind is the one the first two tokens
  say, its clauses are those among the tokens, and the only thing it may have doubled is a location beside a share, which the end of the
  statement refuses (`Within`). This rests on what the clause tables ask for: no token that is wanted begins a clause (`AskedIsNoClause`).
* **StorageProofs.** `ResolutionInv` follows a statement alone in its session through its steps (`StatementAlone`: what is in the sink and overlay is its
  own), for `FreshWhenAlone`. `IngestInv` (each stage of a request determines which of its rows are where; `CreatorInv`) gives
  `AnswersAreTrue` and `WritesAreGoverned`. `UploadsInv` (a file is some upload's chunks, whole outside the home store; who wrote last)
  gives `UploadsAreKept`. `TreeInv` says of a listing of the home store under way that a file which stayed was found or is still ahead, because it
  is to be looked at or lies below a directory that is to be read (`IsAhead`); it gives `ListingsAreTrue` and `OnlyEmptyDirectoriesGo` for
  any tree. It needs `ClosedTree`, that a file at home has its directories, for a walk to reach it. `ListingInv` counts what a walk by token has passed over and will be
  given again (`Behind`, `GivenAgain`) against the deletions and creations so far, and knows of a walk by path that it has been given all up to
  its position (`PathInv`), or, over home, what it can have been given twice (`HomeInv`), for `WalksAreWhole` with any page size; that rank and
  position move by at most one with a change is shown on cardinalities, without induction over the listing.
* **EnvHostProofs.** `TypeInv` adds `CommandsOK`, what each `pc` implies of the command's record. `SupervisorInv` adds that only
  spawned sidecars are tracked, without which a new sidecar could already be in a teardown's hands. It gives
  `TrackedOnce` for any number of concurrent commands. `HostCallsImplemented` is the refinement: the initial state maps
  to the initial state, and one lemma per group of actions shows a step of `HostCalls` or a stutter, using `PhasesOK` to
  identify which call a command is. `AloneInv` is for commands that come one at a time: what the one in flight has established at each of its steps (`Stage`: the
  old set is gone before the new server is spawned, and what was spawned since is the new environment's, tracked and running), whose
  notebook server is known (`ServerOK`), and that whatever runs is tracked, in a teardown's hands or was left by the end of the app or a failed shutdown. It gives
  `OneEnvironmentUp`, `NothingEscapes` and the action property `ActivatesLive`, whatever fails. `ServersInv` (a start that spawned holds a server of
  its own environment) needs no such condition and gives, as a theorem only, `EndpointsAreOwn`: commands that overlap never hand out a server of another
  environment. `DesktopIsItsParts`: `MCDesktop` implements `EnvHost` and `NotebookSessions`, so their theorems hold of `host_commands`.
* **DesktopProofs.** `KeysInv` says what each step of a task has already read or written (`TaskInv`), and that undisturbed only the current key has sealed
  (`SealedInv`); it gives `KeyIsKept`. `NotebookInv` (`SteadyInv`: a copy lies in the environment it is of while nothing straddled)
  gives `SyncGoesHome`; `ReleaseInvariant` gives `ReleasedIsSynced`: for a tab that had the notebook to itself (`Blameless`), what its session
  would discard is the file's, or an edit of the active environment still to be synced, or the text about to be written (`SoundIn`).
  `BridgeInv` gives `BridgeIsWhole` for a stream of any length: what was read, is queued and is on its way is, put together, what the command sent.
  `RegistryInv` gives `RegistryIsKept`: what was promised is listed even while the file does not parse, because the writer holds the registry with
  one environment changed or added (`WriterInv`).
* **EnvGateProofs.** `CallsOK` ties each handler to its call of the host. `AloneOK` is the inductive form of
  `ShellAgrees`: it also says, for the one handler in flight, how far UI and host are apart at each of
  its steps (`HandlerOK`). `TransitionIsInFlight`, that the status shown is that of the one start or stop of the manager in flight,
  needs no such condition and is stated as a theorem only. `FormsInv` gives `FormsAreTrue`: a form that was not crossed shows what the host
  has, but for one call in flight that will correct it (`CardInv`, `KeyInv`). `TabsInv` gives `TabsAreKept`: the tabs the user opened are in the strip, in what is kept, or
  still ahead of the restoration, at each of the three states of the page (`MountedInv`, `ReadyInv`, `KeptTabs`).
  `ResultsInv` (each controller's run is its last, each stream's controller
  exists until it is disposed of, and nobody waits for a page that is gone unless `late`) gives `ResultsAreOfRuns`.
* **EditorProofs.** `Provenance` says that baselines, writes that succeeded and reads are of stored texts. `Tidiness` says what holds while every page was left
  clean: only the mounted page has timers, writes, opens or listeners, and model, tab and status agree. They
  give `SavedIsStored`, `TabShowsModel` and `FlushedFirst`.
* **PartsProofs.** A step of `MCParts` is, for the variables of each part, a step of that part or a stutter (`StepOfAPart`), so the composition
  implements the specification of every part (`PartsAreTheirOwn`). With the theorems above, every property that the run `gate` checks, its type
  invariant and its action property included, holds of `MCParts` for all values of the constants (`PartsTypesHold`, `PartsKeepTheirProperties`).

**Only model-checked.** `UnusedIsReleased`, `QueryEnds` and `EditsSettle` are liveness under fairness, which rests on ENABLED: the prover handles
neither.

## 5. Where code and comments part, or the code surprises, without a run

* Sessions: `do_get` mints a fresh run although `engine.rs:60` says "Reattached verbatim"; a prepared update has no parent
  run, against ADR 0003; a sweep between a lookup and its touch leaves a ticket that cannot be redeemed (`engine.rs:502`, ADR 0002).
  Concurrent misses each call the identity provider, against `engine.rs:161-163`; an ephemeral session keeps the role and region headers of its
  first request; `execution_context` (`lineage.rs`) takes the client's parent for the root and drops the client's own root;
  `resolve_session` takes any key of the session map and does not compare the session it finds with the principal of the request
  (`server.rs:206-211`, `engine.rs:501-505`); a statement that a request has cloned starts even if another request takes
  its handle out, or closes it, before (`server.rs:1121`, `1145`);
  the tickets that `get_flight_info_catalogs`, `_schemas` and `_tables` answer have no `do_get` of their kind, so they cannot be redeemed.
* Catalog: a lookup of the table that fails for a moment is taken for a table that is not managed, and the ingest goes
  to the external path (`server.rs:402-410`, `1238-1244`); names that do not resolve fall through to catalogs registered earlier; the fact sink is
  the session's, so statements overwrite each other's facts (`session/mod.rs:652-656`); `register_table` does nothing (`schema.rs:86-100`);
  tag assignments are read to their first page only (`catalog/tags.rs`).
* Ingest: the loser of a race to create a table fails although `ingest_service.rs:149-150` calls it fine; `plan_ingest` uses
  only the table field of the ticket (`flight.rs:42-43`); a retry after the answer of a commit was lost stores the rows twice.
* SQL: CREATE CATALOG, SCHEMA, TABLE and VACUUM consume the `;` after them, so nothing may follow them in a script, as it may follow a
  DROP (`parse_statements`); CREATE CONNECTION, FOREIGN CATALOG, LOCATION and SHARE reach a `todo!()` inside the planner's call, whose comment
  (`session/mod.rs:281-289`) says that all but CREATE and DROP of catalogs and schemas is delegated, and CREATE TABLE is not
  delegated either; a CREATE SCHEMA that is rejected becomes DataFusion's session-local one; RETAIN and FULL may repeat, DRY RUN may not.
* Portal: the home store leaves a truncated file when a stream breaks, against the trait's "aborts the upload" (`store/local.rs`);
  `max_results` 0 returns its own token for ever (`store/mod.rs:76-79`); a volume's delimited listing is cut before `start_after` is applied
  (`unity.rs:330`, against `store/mod.rs:50-52`); the routing store does not translate `start_after` for home (`routing.rs:210-227`, against the same
  comment): a resumed walk gets all that sorts behind `/home/` again on every page, and nothing that sorts before it after the first page; the memory store's `list_directory` shows no implicit directory and its delimited listing no empty
  marked one (`memory.rs`); a home listing fails when an entry is deleted meanwhile (`local.rs:311-313`); a volume put may answer NotFound
  for what it stored; `delete_directory("/home")` removes the home root; `if-match` is read neither by `upload_file`
  (`service/files.rs:25`) nor by the desktop, against `store.ts:62`, so a save replaces whatever others wrote.
* Host: a kill or a `docker compose down` that fails is logged and forgotten (`supervisor.rs:32-64`), so the process runs on untracked, beside those of
  the next environment; a project is tracked again by the next start of its environment, whose own `down` may fail as well (`modules.rs:145`), a
  sidecar never.
* Host, under two concurrent commands: two starts track the servers of two environments (`uc.rs:114`); a teardown between the
  tracking of a project and its bring-up leaves it untracked (`modules.rs:166`); two opens spawn two notebook servers
  (`notebook.rs:197`); an open begun before a switch records its server after it (`commands.rs:407`).
* Keys: a start and a configuration that both find no key mint one each, against "minted once" (`kek.rs:328-332`); biometric items
  that the OS dropped are minted again; the record and the store may differ after an end between their two writes (`kek.rs:349`, `358`);
  a start mints a keychain key for a remote environment as well.
* Registry: it is written in place, so a write broken off leaves it unreadable for good, and a start meanwhile fails; two
  instances of the application lose each other's environments; a creation that was broken off leaves directories and a key which the next creation of
  that name takes over.
* Notebooks: one opened while the environment changes syncs to the other environment; a dispose during a pending open leaks the session; reopening
  overwrites a copy that was not synced; closing on an old page may remove the new page's copy; a final sync that fails is swallowed.
* Transport: an abort neither stops `connect_stream`'s driver (against `runner.ts:41-46`) nor wakes the sleeping bridge, and the queue has no
  bound; `GetDirectoryMetadata` creates the directory on the desktop (`tauri-files.ts:67-73`).
* Server: the first of the two servers to finish its graceful shutdown ends the other's responses (`main.rs:133-137`).
* Shell, under overlapping handlers: the `running` captured by a stop can clear an environment that is up.
* Manager: the capabilities card and the key section have no key, so a toggle made while the next environment's values load stores the
  previous one's set, a save that fails rolls back the previous one's set into the card, and the answer of a key call sets the status of whichever
  environment is shown; the pane falls back to the first environment when the running one stops with nothing picked; a card can be edited while
  its environment starts; a creation whose dialog was closed still moves the selection.
* Editor: a page that ends late disposes of the next page's models; a late
  `openFile` leaves a model without a tab; a write or a read on its way during an environment switch reaches the other
  environment's file (`autosave.ts:87`; ADR 0015 excludes it); closing while a write is in flight, or after one that failed,
  loses edits (`EditorSessionContext.tsx:219`); `flushAll` flushes only the tabs whose timer is armed
  (`autosave.ts:112`, against its comment at 38); `NewNotebookDialog.tsx:56-63` takes a failing stat for "not there" and overwrites.
* Tabs: a restoration that is left half-way, or meets a file it cannot read, shrinks the set that is kept; a notebook opened before the editor is
  ready may not be kept; a tab closed during the restoration may come back as its target; a link to `/editor?path=` from the mounted page
  is put back to the active tab (against `useTabPersistence.ts:7-8`); `?volume=` leaks across environments like `?path=`.
* Results: a run whose flush is awaited while its tab closes or its page goes starts in a disposed registry and cannot be aborted
  (`EditorSessionContext.tsx:263`); a late chunk of an aborted run takes the frame of the next one; the last chunks of a run that fails
  are not drawn (`runController.ts:135`).

## 6. What is not modelled, and the plan

Not modelled, with the reasons per component in `PROJECT.json`: the delta planner and log store (plan construction; the
protocol is delta-rs's), terminal lineage events (a dependency emits them), the CPU runtime and the start and end of the servers (one
`select`), topology planning (a pure function of the configuration), the desktop's request proxy, pages that only show what a query returned
(catalog, import, the tree's expansion), the CRUD of tags (one lock per call, no state across calls), the
command line client, and the protocol definitions with the code generated from them, which make up more than half of the implementation's lines.

Components marked `partly` leave out operations that keep no state of their own or lie in a dependency: the metadata RPCs of Flight SQL, Arrow
encoding (success or failure), the rewriting of a plan into filters and masks (the policy engine's), credentials of tables, the
host's file commands and proxy, unary calls of the desktop transport, view state and added volumes of the editor.

What the plan has left: theorems of a kind no run states, where they say more than the properties do. `EndpointsAreOwn`, `ResolvedAsNamed` and
`TransitionIsInFlight` say what survives overlapping commands, requests and handlers; what of `ShellAgrees`, `NothingEscapes` and the editor's
properties on untidy pages survives it is not stated yet.
