# Bunner: specifications, model checking and proofs

This directory holds TLA+ models of the parts of Bunner (the TypeScript framework of this
repository: a DI container, an HTTP adapter, a compiler and an MCP server) in which the order
of events decides whether the program is right: processes that share files, worker threads
that crash and are replaced, and user code that may return, refuse, throw or answer at any
point of a request. Beside them there are the functions on which much else rests: what an index, a query, a
build or a container makes of its inputs. TLC checks the models on small instances; TLAPS
proves the theorems of the `*_proofs` modules for every value of the constants.

Run a check with `tlc -config <file>.cfg <Module>.tla` and a proof with
`tlapm <Module>_proofs.tla`.

## 1. Inventory

| Part (under `packages/`) | State it keeps | Operations | Interacts with | What is hard |
|---|---|---|---|---|
| Owner election, `cli/src/watcher/owner-election.ts` | the lock file `.bunner/cache/watcher.owner.lock` | `acquire`, `release` | every `bunner mcp`, `bunner mcp rebuild` and `bunner dev` process, through the file | system calls of several processes interleave; crashes leave stale files; pids are recycled |
| MCP server, `cli/src/mcp/server/mcp-server.ts` | its role, the queue of reindexes, card files, the index | start, ~20 tools, watch callbacks, SIGINT | election, index, cards, signal file | one queue for some writers and none for others; roles that go stale |
| Index, `cli/src/mcp/index`, `verify`, `cli/src/store` | SQLite tables, `file_state` | full and incremental reindex, verify | cards, source files | incremental must equal full; transactions; a crash between rows |
| Cards, `cli/src/mcp/card` | one file per card | create, update, status, rename, delete, relations | tools, index | check-then-write on files; rename in two steps |
| Dev command, `cli/src/bin/dev.command.ts`, `cli/src/watcher` | `fileCache`, `manifest.json`, the changeset file | a callback per file event; rebuild; changeset rotation; reader mode | election, file watcher | callbacks are not awaited and overlap |
| Compiler, `cli/src/compiler` | module graph, per-file analyses | analyse, build graph, generate | dev and build commands | cycles, visibility, scopes; order must not matter |
| Cluster, `core/src/cluster` | `workers`, `reviving`, `destroying`, pending calls | start, crash handling, revival with back-off, destroy | worker threads, HTTP adapter | late events of replaced workers; calls to dead workers; destroy during a revival |
| HTTP adapter, `http-adapter/src` | handlers, middlewares, filters; a response per request | `fetch`, `handle`, `BunnerResponse` | user code, router, container | two levels of middlewares, five error paths, one shared response |
| Router, `http-adapter/src/router` | a tree of patterns, a cache | build, match | route handler | backtracking, precedence of static, parameter and wildcard parts, the cache |
| Route handler and pipes, `http-adapter/src/route-handler.ts`, `pipes` | the routes with their filters, middlewares and parameters | register, match, transform an argument | metadata, container, router | an instance is found in five ways, by name among them |
| HTTP utilities, `http-adapter/src/utils`, `middlewares` | none that outlives a request | `getIps`, query parser, CORS | request, response | one value written in many ways; answers that caches keep |
| Container and scanner, `core/src/injector` | factories, instances | set, get, scan, dynamic modules | adapter, generated code | order of scanning, tokens, constructors that throw |
| Validator and transformer, `core/src/validator`, `transformer` | the compiled functions by class | convert, check | validation pipe | nested and recursive classes, conversions that a check then sees |
| Application and runtime context, `core/src` | one record of what start-up has registered | start, stop, register | adapters | - (the application is a stub) |
| Configuration, diagnostics, logger, scalar, common | none that outlives a call | parse, format, print | all | - |

What makes each part right, in short: at most one owner, and always one in the end; a cluster
slot that loses its worker is manned again, by one worker; a request is answered once, an
exception with an error, a refusal without the handler; an index equal to what a full
reindex would write; a manifest equal to what a full build would write; a match equal to the
best route of the table; an argument that passes the checks of its class; an object made once
and given to all that ask for it; a build that keeps to what its modules say of themselves.

## 2. What is modelled

### OwnerLease, OwnerElection, OwnerElection_proofs

`OwnerLease` is the promise: the role of owner is handed out only while nobody has it.
`OwnerElection` is `acquire()` and `release()`, a step per system call, because the
processes share only the file:

| Action | Code |
|---|---|
| `Start` | `acquire()` is called (`startBunnerMcpServerStdio`, `bunner mcp rebuild`, `bunner dev`) |
| `Create` | `openSync(lockPath, 'wx')`: an empty file, or `EEXIST` |
| `OpenForWrite`, `WritePid` | `writeFileSync(lockPath, ...)`: open-and-truncate, then the bytes |
| `ReadLock`, `Check`, `Remove` | the handling of `EEXIST`: read, `kill(pid, 0)`, `rmSync` |
| `Retry`, `Fallback` | the end of a pass, and the code after the loop |
| `BeginRelease`, `ReleaseRead`, `ReleaseRemove` | `release()` |
| `Exit`, `Recycle` | the operating system: a process dies anywhere, its pid goes to another program |

State: `lock` is the content of the file, `attached` the processes whose open descriptor is
still of the file at the path, `pc`, `seen` (the pid read) and `attempt` the locals. Pids have the
same number of digits. The constant `Overlap` says whether several processes may be inside
`acquire()` at a time: the code promises nothing to forbid it, and most of what the election
is for holds only without it.

### ClusterManager, ClusterManager_proofs

The main thread (`cluster-manager.ts`), the remote calls (`ipc.ts`) and the worker threads.
`workers`, `reviving` and `destroying` are the fields of the manager; `loopPc`, `loopWorker` and
`loopAttempt` are the closures that `reviveWorker()` launches (a slot has room for two, so that a
second one is visible if it ever starts); `life`, `call` and `inbox` are the threads and
their queues of events; `phase` and `awaited` are `BunnerHttpAdapter.start()`. `handleCrash()` and
`destroy()` are one step each: they await only `remote.destroy()`, which the proxy does not
offer, so that the call fails at once. Events carry the slot and not the worker, as the
listeners do.

### RequestPipeline, RequestPipeline_proofs

One request through `fetch()` (`bunner-http-server.ts`), `handle()`
(`request-handler.ts`) and the `BunnerResponse` that all of it shares. A `stage` is a list of user
functions or one function; `item` counts the functions called and `running` says that one runs.
A user function is what it may do: any number of `SetStatus`, `SetBody`, `Redirect` and `End`, then
a return, `false`, or an exception. `BuiltStatus`, `BuiltBody`, `Ended`, `WithDefault` and `Response`
are `build()`, `end()`, `applyDefaultErrorHandler()` and `toResponse()`. The variable `events` is
history: it remembers what user code has done, so that the properties can speak of it.

### ChangesetWriter, DevWatcher

`bunner dev` as the owner of the watch. `DevWatcher` extends `ChangesetWriter`: each handler of a
file event calls `append()` on the way, and the two share the file system.

| Action | Code |
|---|---|
| `EditFile` | the user; once the watcher is subscribed, an event of `ProjectWatcher` |
| `Scan`, `FirstBuild`, `Subscribe` | `dev()` up to `projectWatcher.start()` |
| `Deliver`, `CheckExists` | the callback starts a handler, `exists()` and `isDeleted` |
| `AppendInHandler` | `append()`: `CheckInitialized`, `Exists`, `ReadText`, `Initialize`, `RemoveRotated`, `Rename`, `Renamed`, `AppendFile`, a step per await |
| `HandleDeletion`; `BeginAnalysis`, `ReadFile`, `Analyze` | the two branches, up to the first await of `rebuild()` |
| `Generate`, `WriteManifest` | the rest of `rebuild()`, with `writeIfChanged()` |

The content of a file is the number of the edit that made it, and an analysis is the version it
is of; `Unparsable` and `Clashing` name the edits after which a file does not parse, or does not fit
with the others. `job` holds the locals of the handlers. `overlap` and `spoiled` are history: the
code keeps handlers apart by nothing, and what it promises depends on whether two of them met.
An edit makes one event, delivered in order, as late as it likes; a manifest is written in one
step.

### CardIndex, CardIndex_proofs

The SQLite index of the MCP server: `indexProject()` (`index-project.ts`) in both modes, and the
three things that run it: the start of the owner, the queue of its watcher, `bunner mcp rebuild`.

| Action | Code |
|---|---|
| `EditFile`, `Signal` | a file is edited, and its event, or `reindex.signal`, puts a reindex into the queue |
| `Start`, `RebuildProjectIndex`, `TakeFromQueue`, each with `Begin` | the scan, and in a full reindex `BEGIN` and the clearing of the tables |
| `RemoveCard`, `RemoveCode` | `deleteRemovedFile()` and the end of `indexProject()`, a step per transaction |
| `StatFile`, `ReadFile`, `WriteCard` or `WriteCode` | the loops over the changed files: `stat()`, reading, then the transaction that writes the rows |
| `WriteRelations` | the second loop over the changed cards: a card's relations with their reverses |
| `Finish`; `Reject`, `Fail`, `Crash` | the end of a reindex; a file that is gone or does not parse, an error of SQLite, the death of the process, all three through `Abort` (`withTransaction`) |

State: `cards`, `relations`, `links` and `tracked` are the tables `card`, `card_relation`,
`card_code_link` and `file_state`; `removed`, `changed`, `reading`, `text` and `rebuilt` the locals. The
content of a card is the set of the cards it has relations to, that of a source file the cards it names. A row
of `file_state` matters only against what `stat()` and the hash would say now: none, stale or
fresh. `saved` is what SQLite would roll a full reindex back to; in an incremental one each
step is a transaction of its own. `halfDone`, `older`, `missed` and `failed` are history: they say
which promises a failure, or an order of edits, has voided.

`Code` is every `*.ts` file under the source directory, which is what a scan takes
(`index-project.ts:554`), and `Declarations` those of them that end in `.d.ts`, whose events the watcher
drops (`mcp-server.ts:2279`). `missed` holds the files that have changed since the last scan without an
event that will tell of it: a `.d.ts` file while the watcher runs, any file while none does. At
rest the index is right of all other files, and of a missed one as of the last scan. `PLAN.md` 7.1 means
the events to be dropped; that the scan indexes the files all the same is why they can be stale.

The scan that a reindex begins with (the lists of files, and their `stat()` and hash) is one step;
each file is then looked at again, in a step of its own, before it is read. A card's file is named for its key, as the tools name it. Left out: a key edited by
hand; `code_entity` and `code_relation`, with the tracking of moves, which are in `CodeIndex`; and
the reindexes of the tools, which are not in the queue and are in `CardTools`. A first build that fails
leaves `index.sqlite` behind, and the next start takes it for built: the model does so too (`Start`).

### CardTools, CardToolsMC, CardTools_proofs

The tools of the MCP server that write: `card-crud.ts` and the tools of `mcp-server.ts` around
it. A tool is an asynchronous function, and each action is what one does up to its next await;
calls of one process or of two interleave without any lock.

| Action | Code |
|---|---|
| `Start` | a client calls a tool |
| `CreateExists`, `CreateWrite` | `cardCreate()` |
| `ReadCard`, `WriteCard` | `cardUpdate()`, `cardUpdateStatus()`, `relationAddDefault()`, `relationRemoveDefault()`: read and check, then write what was made of it |
| `DeleteReferences`, `FileExists`, `DeleteUnlink` | `card_delete` with its question to the index, `cardDelete()` |
| `RenameTarget`, `RenameMove`, `RenameRead`, `RenameWrite` | `cardRename()`: target free?, `rename()`, read, write under the new key |
| `SweepRead`, `SweepWrite`, `SweepCodeRead`, `SweepCodeWrite` | `cardRenameEverywhereDefault()`: the relations of all cards, then `@see` in all source files |
| `ReadCode`, `WriteCode` | `linkAddDefault()`, `linkRemoveDefault()` |
| `Keyword` | `keyword_create`, `keyword_delete`, and the same of tags |
| `Scan`, `WriteIndex` | `reindexAfterWrite()`, and the tool that reindexes: what has changed; then the rows, or the error and what is left of them |
| `Crash` | the process dies, and its calls end where they are |

State: `disk` and `code` are the files, `index` the tables, `registered` says whether the one keyword
is in its table, and `call` has the locals of each call (`pc`, `held`, `left`). A card is its key, its
status, its relations and whether it has the keyword. `Extends` says which texts begin with which
keys: `removeSee()` looks for a key without asking where it ends. `alone` and `sound` are history:
a call beside which no other ran; files that were in order at the start, and calls made one after the other,
with success, that reindex, bring only keys of cards that exist and name the card to delete or rename by its
key. The reindex is that of `CardIndex` in two steps, with a full rollback, or what an incremental one
leaves.

A key can be written in several ways (`Name`, and `Text` for what follows `@see`), and `KeyOf` is the key
that `parseFullKey()` (`card-key.ts:25-42`) reads out of each: `/a` and `a/` are `a`, and the index reads
`a` out of `@see a*/`. Which of the two the code goes by differs from place to place, and the model follows
each: paths of cards, the new key of a rename and the rows of the index go by `Target`, `NewKey` and `Read`,
what is read; the reference check of `card_delete`, the sweep of `card_rename`, the stored targets of
relations, `@see` as it is put in and taken out, and the key that `cardUpdate()` compares go by `Asked`, what
the client wrote. So `ReferencesHold` is about calls that name the card by its key, `RenameLeavesNoTrace`
about the key as it was written, and neither says what the descriptions of the two tools do (see the
disagreements below). What no key can be read out of is left out.

`ReturnsInStep` says what a reindex that ran alone leaves: every file is known as it is, nothing dangles,
and the files found changed have exactly their relations and links. Of a file that was not changed it says
so only while the calls were sound: a relation that a failed reindex has left (the run `index_atomic`), or a
link to a card that came later, stays until its file changes. Two reindexes that run over each other are in
the model and promise nothing.

### CardQueries, CardVerify, CodeIndex, CardSamples

Functions of the files and of the tables of the index.

| Module | Code | Definitions |
|---|---|---|
| `CardQueries` | the tools that read, `mcp-server.ts` | `GetContext`, `GetRelations`, `ListCards`, `ListUnlinked`, `CoverageReport`; `Visited` is the walk shared by `GetSubgraph`, `ImpactAnalysis` and `TraceChain` |
| `CardVerify` | `verify-project.ts`, and a full reindex of the same files | `KeyIssues`, `ClassificationIssues`, `RelationIssues`, `SeeIssues`, `CycleFound`, `DeprecatedReferenced`; `IndexBuilds`, `CardRows`, `RelationRows`, `LinkRows` |
| `CodeIndex` | `index-project.ts`: entities, code relations, moves | `IndexFile`, `DeleteRemovedFile`, `Moved`, `Retarget`, `Full`, `Incremental` |

Each states its properties beside the definitions, by quantifiers and without queues, stacks or
depths. `CardSamples` has the inputs: 512 tables of four cards with chains, a cycle and a second
way; projects of three cards that depend on each other in every way, and of one or two with
everything that can be wrong with them; histories of three snapshots of the source files.

### RouteRegistry, Validation, QueryString, ClientIp, Cors, RequestSamples

What prepares a request for its handler.

| Module | Code | Definitions |
|---|---|---|
| `RouteRegistry` | `route-handler.ts` | `TryGetFromContainer`, `TryGetFromContainerBySuffix`, `TryCreateControllerInstance`: how a token becomes an instance; `RegisterController`, `RegisterMethod`, `FilterTokens`, `ResolveMiddlewares`, `ParamFactory` |
| `Validation` | `validation.pipe.ts`, the compilers of `core` | `PlainToInstance`, `Converted`; `Fails`, `Errors`, `NestedErrors`; `Transform` |
| `QueryString` | `query-parser.ts` | `ScanToken` is the loop over the characters, `ProcessPair`, `ParseComplexKey`, `Descend`, `AssignLeaf` |
| `ClientIp` | `utils/ip.ts` | `ExtractHeaderIp`, `Pushed`, `CollectPair`, `CollectElement`: the bodies of the loops; `CollectForwardedFor`, `CollectXForwardedFor`, `GetIps` |
| `Cors` | `cors.middleware.ts` | `MatchOrigin`, `CommonHeaders`, `PreflightHeaders`, `Vary`, `Handle` |

A query is a sequence of tokens, an address what it names and how it is written, a value of JSON a
record that says its kind, and headers a set of pairs. A compiled validator or transformer is
the function it computes, not its text. `RequestSamples` has the inputs: all queries of at most five tokens
of four kinds, and trees of two levels, in every mode; every writing of an address in each
header; every combination of the options of CORS with every request at once; twelve classes
and every value of a few shapes; two controllers whose services come from containers that
know all of them, some, or another class of the same name.

### Names, ModuleGraph, Injection, GeneratedContainer, BuildSamples

From a project to the objects that run.

| Module | Code | Definitions |
|---|---|---|
| `ModuleGraph` | `module-discovery.ts`, `module-graph.ts`, `module-impact.ts`, `dev-incremental-impact.ts` | `Owner`, `Owned`; `Graph`, its `Node`s with `Implicit`, `Explicit` and `Merged`; `AssertVisibility`, `ValidateVisibilityAndScope`; `Dfs`, `SearchTo`, `DetectCycles`; `Builds`; `FromQueue`, `AffectedFiles`, `BuildModuleImpact`, `DevIncrementalImpact` |
| `Injection` | `container.ts`, `scanner.ts` | `Set`, `Get` with `Create` and `Args` (a constructor may throw, its dependencies having been made), `ScanModule` and `RegisterSteps`, `RegisterProvider`, `LoadDynamicModule` |
| `GeneratedContainer`, extends both | `injector-generator.ts`, `manifest-generator.ts` | `CreateContainer` and `CreateScopedKeysMap`, module by module (`WithEntries`, `WithKeys`), `FactoryEntry`, `ClassDefinition`, `DiNodes`: the container of a project that builds |

`GeneratedContainer` is where the two meet: `BuiltResolves` takes a project through `Builds`, generates
its container and asks that for every key. It is about projects whose providers are classes and values, in which the name
of a class is the token of a provider in its own module only, and where a class is given what modules provide as themselves
(`ClassesAreProvided`). Without that the code promises less: a value under a class's name is what
is injected, and in a later module it takes over the class's scoped key. `BuildSamples` has trees of directories with module files in any
of them, all imports between four files of two modules, projects of three modules with
every visibility, scope and dependency of their classes, and modules that import each other in
cycles, as classes and as module objects, with one loaded at run time.

A parameter of a constructor is a record: its type, and by what it asks, the type, a token of `@Inject()`,
a `forwardRef()`, or something that no name can be told of. Three pieces of code read it, each in its own
way, and so does the model: the graph, which checks visibility, scope and cycles, knows no forward reference and
takes the type (`CheckedClass`, `ExtractDeps`; `module-graph.ts:443-470`, `:505`); the generated container gets
what is referred to (`InjectedClass`, `Dependencies`; `injector-generator.ts:550-580`); the manifest
tells of it too, and leaves out what it cannot name (`ToldDeps`; `manifest-generator.ts:225-252`). What holds of a
project that builds is therefore stated of the other ways to ask and of forward references to what the type
names (`BuiltKeepsDecorators`), or to modules that the graph knows of (`ForwardsAreKnown` in `BuiltRuns`):
without these conditions neither holds (see the disagreements below). Parameters are taken as the parser gives them: those with a modifier or a
default value, and none that is plain (`ast-parser.ts:1765-1826`). Forward
references in the `inject` list of a factory, which only the manifest reads, are left out.

`Container.get()` calls itself, and `scanModule()` too. In `Injection` each is a function by depth: what `get()` does
while it may still call itself `d` times (`Attempts`) refers to the same for `d - 1`, and at depth 0 the stack
overflows, which is an exception like another. `StackLimit` bounds the depth, 9 in the run, which no chain of the samples
without a cycle reaches; `Acyclic` says that the chains of factories end within it, and `ProjectAssumption` that it has room
for as many calls as a generated container has factories. A
scan is no deeper than there are modules, since a module that is visited ends it. The search for cycles
(`SearchTo`) is a function by depth too, one deeper than there are modules: its stack holds none twice. The queue
of an edit's impact is taken from as often as there are files (`AffectedFiles`), since none is put into it twice.
A sort followed by a search for the first is written as the choice of the least (`Owner`, by `MetBefore`).
`Names` has what both halves share: the name that says there is none, and a map after `set()`.

### InputChecks, InputChecks_proofs, FunctionsMC

`InputChecks` is a behaviour that chooses one of the functions and takes one of its inputs. Which
inputs there are, and which names the functions compare, are constants: `Cors`, `CardVerify`,
`CodeIndex`, `RouteRegistry`, `ClientIp`, `Injection`, `ModuleGraph` and `GeneratedContainer` are proved about in `InputChecks_proofs` for all of them. Its assumptions
say what an input is: a list is a list, a snapshot has finitely many files, the classes in
the order of the metadata are in the metadata, no text is both a placeholder and an address, modules
import modules of their application, which are finitely many, a token that is a class has no scope, no class
is without a name, a marker is imported from a module file or from nowhere, and a provider is given in one of the ways
that the code knows. `FunctionsMC` extends it with the functions that are
only checked, and with the router: a behaviour either runs the router or takes one sample.

### Router, RouterMC, Router_proofs

The router as `BunnerHttpServer` sets it up: all routes are added, one that is refused ends the
start, and then paths are matched. A path is a sequence of segments, a pattern a sequence of
parts, and a node of the tree is named by the parts that lead to it.

| Action | Code |
|---|---|
| `Add` | `Router.addOne`, and `Builder.add` with every choice of the optional parameters and every conflict |
| `Serve` | the end of `BunnerHttpServer.boot` |
| `MatchStatic` | `Router.match` up to the raw lookup |
| `MatchCached` | the cache, `RouterCache.get` |
| `MatchDynamic` | the rest: `Processor.normalize`, the static map again, `Matcher.walk`, defaults, `RouterCache.set` |

`Variants` lists what `handleParam` registers for a route, with each optional parameter left out and then
taken, and `AddVariant` registers one of them. `Walk` is the matcher with its backtracking, as a function over
the nodes (`Visit`: the children that lead on, `Hits`, in the order of `Before`, then the wildcard, `Tails`); its
stack of frames and the flat buffers of `Flattener` are left out. `AnswerIsBest` compares it with a definition that knows no tree:
of all variants of all routes that fit the whole path, the first where the first part that
differs decides. Left out: percent-decoding, the safety and the anchors of regular expressions,
`strictParamNames`, the limit of a segment's length, case folding, and routes that are added after the first
match, which the server never does (the cache would go stale). `RouterAssumption` says how routes are parsed
(a pattern only of a parameter, a static part never empty or of dots, which `validateSegments` and
`resolveDotSegments` see to) and that `localeCompare()` tells any two names apart: of two parameters that it takes
for equal, the one added first would win, and the answer would depend on the order of registration.

Modelling it brought to light what the properties do not call wrong. A parameter with a regular
expression is never found again, because `findMatchingParamChild` compares the source as written with
that of the compiled `^(?:...)$`: two routes that share `/:id{...}`, or two methods on it, are
always refused. `/:x` and `/:y` are both accepted, and the second is out of reach. Whether a
wildcard and a static part are accepted side by side depends on which comes first. And a route with two
optional parameters records only the last choice that leaves one out, so a path without both gets a
default for one of them.

## 3. Runs

| Run | Bounds | What it shows |
|---|---|---|
| `election_sequential` | 3 pids, no overlap | one owner, the lock names it, the loop never falls through, and the election implements `OwnerLease` |
| `election_race` | 3 pids, overlap | a settled owner is deposed by nobody; every `acquire()` ends |
| `election_split` (violated) | 2 pids, overlap | two processes that start together can both become owner: the empty file between creation and write is taken for corrupt |
| `cluster_slot` | 1 slot, 4 threads, 2 attempts, every fault | the bookkeeping of crashes and revivals; an empty slot is filled again |
| `cluster_start` | 2 slots, 2 threads each, 1 attempt | `start()` settles; `destroy()` stops every occupant |
| `pipeline` | 3 statuses, 2 functions a stage | answers, refusals, exceptions, early ends |
| `pipeline_lost` (violated) | 1 status, 1 function a stage | a status set before an exception hides it |
| `dev` | 2 files, 3 edits, 2 handlers at a time, 2 lines | analyses follow the disk and the manifest the analyses, as far as handlers do not overlap; the changeset rotates without loss; the watcher catches up |
| `index` | 1 card and 1 source file, with a second card or with a `.d.ts` file, any of them there to begin with, 2 edits, 1 fault | relations come in pairs, nothing old passes for new, an idle watcher has indexed all files it heard of, a `.d.ts` file is right as of the last scan, and the queue is worked off |
| `index_atomic` (violated) | 2 cards and 1 source file, the rest the same | a reindex that breaks off leaves a card's old relations for good |
| `tools` | 3 keys, one the beginning of another, 2 other ways to write one, 1 source file, 19 requests, 3 calls of which 2 overlap, 1 crash | which writers may leave a card under a key that is not its file's; calls one after the other that use keys keep references whole; a rename leaves no trace of what it was given as the old key; a tool returns with an index in which nothing dangles and that has what it found changed |
| `functions` | the samples above; the router with 3 of 12 routes in every order, 6 paths, 2 methods, 2 cache entries | the router gives the best route, through static map, cache and tree alike; reading tools agree with the tables and each other; what verify lets pass is indexed; incremental reindexes of code keep links and relations; queries, addresses, answers to other origins and bodies are read as they are written; routes have all their filters; a build keeps to its modules and its container resolves; singletons are one |

Why the bounds are enough. Three pids: an owner or a stale lock, and two that race for it; every
property is about two processes and the file. One slot with four threads: the first worker, one
that replaces it, one failed start and its retry; late events of each can reach any
other. Two slots are needed only where slots interact, in `Promise.all` and `destroy()`.
Two functions a stage: one that changes something and one that finds it changed; the statuses
stand for an ordinary one, one without a body, and one that `toResponse()` rejects. Three edits and
two lines: the changeset fills, rotates and is appended to again, from a file that an earlier
process left empty, half full or full; two files, one there and one not, so that handlers of one
file meet, and of different files. Two cards, because every property of the index relates at most a
card, another, and a source file; two edits, because the files may be anything when the
first process starts: the index has then seen three versions of the project, one edit can
come within a reindex that another began, and one that goes unheard, of a `.d.ts` file, is brought in by
another; one fault, since a second one finds the same tables as the first. The second card and the `.d.ts` file are
never there together (`Together`): no property relates them but as a card and a source file. Three
routes, because which route answers is decided between two, and a third is what the matcher must come back from; the twelve have every kind of part,
at the root and below, and the six paths a dead end, dot segments, a trailing slash and the
root. A third path evicts one of the two cache entries. In `tools` two calls overlap and a third
comes before or after: the properties are about a call, what ran beside it, and what an
earlier one left; the three keys are the source of a rename, its target, and a card that refers to
both, and the nineteen requests have every tool, those that reindex and those that do not, and a card to
delete, to rename and to relate to named in another way; the source file has the key at the end of a comment. For the functions the
bounds are those of the samples: every rule of the code has a sample on each side of it, at
the limit where there is one (depth, number of parameters, hops, visibility), and the
smallest size at which the rules meet (a cycle of three cards, a second way, a third file).

### Fairness

- Election: weak fairness of the code's steps of each process. `acquire()` and `release()` are
  synchronous: once called they run on unless the process is killed. Starting, releasing,
  exiting and recycling are never forced.
- Cluster: the event loop takes every event, back-off timers run out, and a live worker answers
  its calls. Crashes and `destroy()` are never forced. A worker that hangs is not a case of
  `StartSettles`: `init()` has no timeout.
- Dev: every await is answered and every event delivered, each handler for itself. Edits are
  never forced.
- Index: a reindex that has begun goes on, and the queue is worked off: a promise chain whose
  every link ends. Starts, edits, signals, crashes and errors of SQLite are never forced.
- Pipeline: a step of the framework, or a user function that returns or throws. Each function is
  awaited, and one that never settles is a request that is never answered, whatever the
  framework does.

### Disagreements with the documents

- `PLAN.md` 14.1 promises a single owner and a single writer; `election_split` shows two.
- `error-handling.spec.md` says that no exception is lost; `pipeline_lost` shows a handler that
  sets a status, throws, and is answered with that status.
- `PLAN.md` 6.2 says that the update of a file is all or nothing; `index_atomic` shows a card whose
  row is new and whose relations are old. The row and `file_state` are committed first, and the
  relations after the rows of all other cards; if one of those does not parse in between, no
  later incremental reindex looks at the card again.

Six more were met while modelling. The model does what the code does, and the property leaves the case
out, or has no reason to mention it:

- `card_delete` is to delete a card "if no references exist" (`mcp-server.ts:1799`, `PLAN.md` 8.2), and
  `card_rename` to "update all references" (`:1839`). A key written as `/a` is read where the file is looked for
  and taken as it stands where the references are (`:1813`, `:1852`): the first deletes a card that others
  name, the second moves it and leaves them the old key, and so a target that `relation_add` has stored as
  `/a`, or an `@see a*/`, when `a` itself is renamed. TLC finds each at once when the condition on how a
  call names the card is dropped.
- `ARCHITECTURE.md` 2.4 calls the boundary of a module a barrier, and `di.spec.md` has DI-R-001, "cycles
  fail build". Of a `forwardRef()` the module graph sees only the parameter's type, and the generated container
  follows the reference (`module-graph.ts:505`, `injector-generator.ts:571`). Where the type does not name the
  class, it is injected though its module keeps it to itself, or though it is of a request and the other a
  singleton; and two modules that need each other build, with a cycle on which the container's
  `get()` recurses without end. (Cycles within one module are not
  looked for at all, `module-graph.ts:275`.)
- `PLAN.md` 14.1 promises that a reader is promoted when its owner dies: `acquire()` runs once
  (`mcp-server.ts:2219`), and a reader stays one.
- `PLAN.md` 14.1 promises a single writer of the cards too: two calls of `cardUpdate()` read the
  same card, and the second to write takes back what the first has written
  (`card-crud.ts:134`). `KeysAreSafe` says what remains true: the key is not among what is taken back.
- `relation_remove` does not remove the last relation of a card (`mcp-server.ts:1226`), though it
  returns as if it had.
- `interfaces.ts:9` of the query parser calls `parameterLimit` the number of parameters to parse: of a
  query with more, the last pair within the limit is read once more, with the rest of the query as its value
  (`query-parser.ts:62`). `FlatIsRead` speaks of queries within the limit.

What `dev` shows only under a condition is worth knowing too. Handlers that overlap do harm, and
TLC finds it at once when the condition is dropped: two handlers of one file leave the older
analysis, two rebuilds write the older manifest last, two rotations remove the generation that
the other has just made, and `text()` may reject because the other has renamed the
file. The first two repair themselves with the next event that comes alone.

Of the functions, these conditions carry weight, and each stands where the code's answer is
arguable:

- *Index and cards.* A card whose keyword is not registered makes every later reindex reject, in
  whole or in part. `link_remove` of a key also removes `@see` of keys that begin with it (`:1147`).
  `verify` folds the case of keywords and trims them, the reindex wants them exact; it
  compares the target of a relation as written (`verify-project.ts:374`), the reindex normalises it. A file
  that moves takes its relations along to the new key, where some are out of date until it
  changes again (`index-project.ts:882`), so `RelationsAreKept` speaks of relations that must be there, not
  of those that must not.
- *Requests.* `registerCLIMetadata()` has no caller, `@Queries` is not validated, and a body with a record
  in a record is handed on unchecked. A middleware token that resolves to nothing is dropped without a word
  (`route-handler.ts:665`), where a filter's throws (`:752`). `arrayLimit` does not bound `a[]=`. An answer
  to an origin that is refused has no `Vary`, and one to a preflight that asks for no headers does not name
  `Access-Control-Request-Headers`, though one that asks for some gets another answer
  (`cors.middleware.ts:94-97`): a cache may give either to a request that is worth more. `AnswersFit` says that
  it never gives more than the request's own answer would, and that other answers are the same
  (`Unmarked` names the two). A regular expression with the flag `g` keeps its
  place between two requests (`cors.middleware.ts:144`).
- *Builds.* A request-scoped class that a definition lists becomes a singleton unless the list
  says otherwise (`module-graph.ts:216`). Of two classes of one name in two modules the last is
  checked for both, allowlists go by the names of modules, forward references are not looked at, cycles
  within one module are not looked for (`module-graph.ts:275`), and a request-scoped class is let into a transient one that a singleton holds.
  `graph.resolveToken()` always gives null (`module-graph.ts:356`), so that `useExisting` and the parameters
  of a factory ask for keys that no generated container has; and a provider whose token is no class
  is printed in the manifest as a name that nothing declares: `ManifestLoads` says where that is not so.
- *Containers.* A constructor that throws leaves `undefined` in the scanned class that depends on it, and the
  error is lost (`scanner.ts:187`, `:209`). The scanner asks for a class by its name (`scanner.ts:197`), which is no key unless
  the scoped keys of generated code say so; nothing in the repository uses `BunnerScanner`.

## 4. What is proved

`OwnerElection_proofs`, for every set of pids: `TypeCorrect` (the loop counter needs `Counted`: it
is below its bound wherever a pass can end); `SettledOwnerKept`, which needs no invariant but
types; and for `Overlap = FALSE` `SequentialSingleOwner`, `SequentialLockNamesOwner` and
`SequentialFallbackUnreached` from the invariant `SeqInv` (who may be where while another is
owner or acquiring, and what the file then holds), and `SequentialImplementsLease`, step by step
under the mapping `roles`.

`ClusterManager_proofs`, for every set of slots, number of threads and number of attempts:
`TypeCorrect`; `RevivalsAreExclusive` and `RevivalMarksExact`, which are inductive only
together (a crash clears the mark of an occupied slot, and only because an occupied
slot is under no revival is that mark not one of a running revival);
`NoSpawnAfterDestroy`; `DestroyLeavesOnlyRevivals`, from the invariant that a worker
of the constructor that is alive is in its slot; `ExhaustionGivesUp`; and `DeadOccupantNoticed`,
from `NoticeInv`: a worker is only ever in the slot it was made for, the `close` of a dead one is the last
of its events, and one that is dead when its revival puts it in the slot still has events to come.

`RequestPipeline_proofs`, for every set of statuses and lists of any length: `TypeCorrect` and
`SystemHandlerCalledOnce`; `RefusedIsNotHandled` (no step leads back to the way in); `SentStays`
(what `end()` built is never rebuilt, and `handle()` returns nothing before it is over); and
`ErrorsSurface`, from `SurfaceInv`, which says stage by stage how far an error has come: to the
status after the late system error handler, to what was sent after `handle()`.

`CardIndex_proofs`, for every set of cards and source files and any number of edits and faults:
`TypeCorrect`; and from the one invariant `IndexInv` three theorems. `PairedCorrect`: what a
step removes and what it writes are both closed under reversal. `FreshCorrect`: what was read is what is on
the disk, or the file has been touched since its `stat()`. Both hold of `saved` as well, because a
rollback may bring it back at any time. `RowsCorrect`: a row that is not right is in `removed` or
`changed`, or a reindex is to come, or the file is one of `missed`, or something is known to have failed; it needs the other two,
because the scan leaves out what `file_state` takes for fresh. `EdgesCorrect` needs a second
invariant, `EdgesInv`: every relation and link is that of a row or file as it was indexed, in the
tables that are read, but for the cards whose relations a transaction has still to write
(`halfDone` and `rebuilt`), and also in `saved`; and a stale source file is still to be
indexed unless a failure or an event is known of or it is one of `missed`.

`Router_proofs`, for every set of routes, methods and paths and every size of the cache:
`CacheCorrect`, from `RouterInv`: every entry is what the tree would answer now. It
needs that the tree is complete before the first match, that the key holds the method and the
path, and that eviction only removes. `BestAnswers` says what the tree answers, `AnswerIsBest`. Its
invariant has three parts. `TreeInv`, while routes are added: the tree is finite and closed under
beginnings, the children of a node are `Compatible` (what `Blocked` refuses is not there), wildcards have no
children, and a node has route `i` for a method exactly if its parts are a variant of route `i`. That
needs all variants of a route to be registered, or the route to be refused; `Built` is a fold, so it
is shown for the sequence of trees that the fold goes through. `StaticInv`: the static map has the last
route of each static path, which is its only one, since the tree refuses a second. `BestInv`: answer and
cache are right of the routes as they are. For a tree that satisfies `TreeInv`, `Walk` finds the best route:
`FoundExists` shows that the recursive function it chooses is there, `BestAt` that from each node it finds
the best of the variants below that node that fit the rest of the path, by descent along the segments; two
candidates that differ do so first at two children of one node, of which `Before` puts one first, so
the best one is one only (`WinsAsymmetric`).

`CardTools_proofs`, for every set of keys, files and requests and any number of calls that
interleave and of crashes: `TypeCorrect`, which says for each place of a call what it holds there;
`KeysCorrect`, step by step. Then, of a call beside which no other runs (`AloneInv`: such a call
is the only one, and stays so or ceases to be alone), `RenameCorrect` from `RenameInv`, which
says phase by phase which cards and source files are already free of the old key as the client wrote it; and
`StepCorrect` from two invariants: `Sane`, of the tables between any two steps (what `file_state`
takes for fresh is tracked, every row's file is tracked, relations and links have rows), and
`ScanInv` (what the scan of a call alone has found is still so when it writes). `Sane` needs no
call to be alone: it is what a failed or dead reindex leaves for the next one to build on. Last,
`ReferencesCorrect` from `SoundInv`, which holds while `sound` does: the files are in order but
for what the one call that runs has yet to put right, phase by phase, and the tables describe
them closely enough that the check of `card_delete` sees every reference there is. That the files are in
order at the start is part of `sound`, as is that calls use keys: tools cannot promise more, since a project whose
files refer to missing cards keeps such references, and another writing of a key gets past the check and
the sweep.

`DevWatcher_proofs`, for every set of files, any number of edits and of handlers at a time:
`TypeCorrect`, through the steps of `ChangesetWriter`; `CacheCorrect` from `CacheInv`: events are
taken in order (`OrderInv`), the last handler of a file knows at each of its awaits what the disk
holds or that another event is to come (`FitsInv`), a file that is not spoiled has one handler at
a time (`OneInv`), and its analysis follows unless one is pending (`FollowInv`); and
`ManifestCorrect` from `ManifestInv`: a handler that runs alone takes its snapshot and writes it
with nothing between that changes the analyses. `ChangesetCorrect` is from `ChangesetInv`, of
handlers that have not overlapped yet: `SerialInv`, appends are made one at a time in the order of the
edits; `CountInv`, the counter is the length of the file but between a rename or an append and its update;
`RecordInv`, the i-th record of the newer generation is at least i events later than
any of the older; and `KeptInv`, a record in neither is older than `MaxLines` events. It needs that the mark for a missing
file is no sequence of records, which `ChangesetAssumption` says.

`InputChecks_proofs`, for every set of inputs and all names. `AnswersCorrect`: `AnswersAreUsable` of
`Cors`, for all options and any set of requests: a kept answer goes by its own `Vary` alone (`Reused`), and is
that of the request or `Unmarked` and no more than it. It assumes that no request names `*` as its
origin, which no browser sends. `VerifiedCorrect`: `VerifiedIsIndexed` of `CardVerify`; where `verify` finds no wrong
key, the row that `verify` takes for a key and the one that the index keeps are of the same file. `IndexCorrect`:
`IndexFollowsCode` of `CodeIndex`, after any number of incremental reindexes, whatever order the files
are taken in. `RoutesCorrect`: `RoutesAreGuarded` and `ResolvedIsNamed` of `RouteRegistry`, for any metadata
and any container. `ClientCorrect`: `ClientIsFirst` of `ClientIp`, for headers of any length, with any
addresses; it assumes that a placeholder is no address. `SingletonsCorrect`: `SingletonsAreOne`, which is three properties of
`Injection`, for any modules, providers and constructors that throw, any tokens in any order, and any `StackLimit`. Five of these are about folds, and a fold is opened once and for all: `FoldExists`
says that the function it chooses is there, `FoldRuns` that the values it goes through are a run, one
`Step` for each element, and what a run keeps follows by `SetInduction`. The invariants are, of the
incremental reindexes, which rows, links and files the tables have of each file and which
relations are `Kept` since when; of the start, that each route is made as its method says
(`IsMade`), that nothing is taken away again (`Grows`), and that the tokens collected so far are each
there once, in the order of their first occurrences (`Collected`); of the headers, that what is
read so far is the addresses they name so far, the one mentioned first at its head (`Reads`),
which one more element, a second header and the removal of duplicates all keep.

Of the container the invariant is `IsOrderly`, which every call of `get()` keeps, one that throws too: the objects made are
those of the tokens that have one, one each, an object's arguments are the container's instances
of what its factory asks for, or undefined, and undefined only for what can never be had. What can be had does not depend on
what was asked before: `CanBeMade` is the largest set of tokens whose factories do not refuse and need only tokens of
the set. `CreateAnswers` is one factory and `ArgsAnswer` its arguments, given that the calls one level deeper
answer: with an instance if the token can be made, with an exception if not, and without touching an
instance that is there. `TowerAnswers` goes up the depths, for the tokens whose chains have ended by
then; `TowerExists` shows that a function by depth, which is a `CHOOSE`, is there (`Level` is one
layer of it). `GetsAnswer` then follows any number of calls, from a container on which nothing has been asked
(`ContainerIsListed`). `OwnWins` is of the scan: the last step of a module that is a class registers its own
providers (`EndsWithOwn`), and a later factory replaces an earlier one.

`ModulesCorrect` is `ModulesAreKept`, which has a part for each function of the compiler.
`FilesHaveNearestModule`: directories around one file are beginnings of one another, so that a longer path has more names,
and `MetBefore` puts exactly one module first. `ImpactIsClosed`: whatever is taken from the queue keeps that the
files that import an affected one are affected or their import is still in the queue, and that no file outside
the least closed set is affected. That the queue is empty after as many steps as there are files is counted: what has been
taken and what is in the queue together are the affected files, each once. `BuiltKeepsDecorators` and `ListedStaysVisible`: the
invariants of the folds `Implicit`, `Explicit` and `Graph` say where each provider of a node is from, so that what
`AssertVisibility` looked at is what the decorator says, for each way to ask in which `CheckedClass` is
`InjectedClass`. `CycleIsTold`: along a search the stack is a path without repetition,
a module that was left leads only to modules that were visited, and while no cycle is known the modules that were left
`Escape` (whatever set of them is taken, one leads out of it); a module that is met again on the stack closes a cycle
that is told in one rotation. That a module reaches itself is the other half: a closed set has no such one
when every set of modules has one that leads out of it.

`BuiltCorrect` is `BuiltResolves`, and needs the two before. The container and the scoped keys are folds over the modules and
over the entries of each, so that they have what each module's node says (`ContainerHolds`, `ScopedKeyFound`), and a provider of
a node that stands for itself is a class of that module as it was written (`ProjectIsOfClasses`). That no chain outgrows the
stack is where `build()` and the container depend on each other: a chain longer than there are factories leaves
a set of them in which each asks for another of the set, without end (`IsStuck`, `OnlyStuckOutgrows`, by counting).
`build()` has found no cycle, so one of the modules of such a set leads to none of the others (`SomeLeadsOut`), and its
part of the set is stuck by itself, inside one module, which the hypothesis excludes (`NoCycleAcross`); here
it counts that forward references lead along its edges (`ForwardsAreKnown`). Then
everything can be made, and `IsOrderly` says which objects were given (`ResolvedHolds`).

Assumptions: else only the named `ASSUME`s on the constants, which TLC evaluates in every run.
Model-checked only: liveness (`AcquireTerminates`, `EmptySlotIsFilled`, `StartSettles`,
`RequestIsAnswered`, `ManifestCatchesUp`, `QueueDrains`), which is out of the prover's reach; the
functions that are recursive or read what recursive ones compute (`ReadsAreExact`, `QueryIsRead`,
`ArgumentIsChecked`).

## 5. Not modelled, and why

- Text in, text out: the walk over syntax trees (`ast-parser.ts` and the extractors), the printing of manifest, injector
  and metadata, the resolution of adapter specifications (`adapter-spec-resolver.ts`, which reads
  constants out of syntax), diagnostics, logger, scalar. They keep no state between
  calls, and their results are strings or what a parser says.
- Stubs and declarations: the application, the decorators and types of `common`, the
  configuration that is read once.
- In the modelled parts: the serialisation and numbering of RPC messages; the cookie, upload
  and security middlewares; the wording of errors; `instanceToPlain` and custom transforms; the
  text search of SQLite, and the order and number of the rows of a list; the log of the impact of an edit, the reports
  beside the manifest (constant texts), and what SIGINT does to a dev process.
- Several processes of different kinds at once. Each is modelled as an owner by itself, the
  MCP server in `CardIndex` and `CardTools`, the dev command in `DevWatcher`; that a dev process which
  owns the lock leaves the MCP server beside it without a watcher, and that a former owner goes on
  after SIGINT, are hazards that no property covers.
- Two more hazards have none, on purpose: a first build that fails leaves an index that passes
  for built (the model has it, and nothing is promised there), and a server middleware that
  refuses replaces a `Response` that a handler has returned (nothing says what is right).

## 6. What is left

| Modules | Code | Properties | Bounds |
|---|---|---|---|
| `WatchCoordination`, composing `OwnerElection`, `CardIndex` and `DevWatcher` | reader modes, `reindex.signal`, SIGINT | every signal is answered by a reindex, also beside a dev process | 3 processes |
| `CardTools` over `CardIndex` | the two-step reindex as an abstraction of `indexProject()` | the detailed reindex implements it while no card is edited | 2 cards, 1 source file |
| `WorkerRpc` | `ipc.ts` | a call is answered once, with its own answer | 2 calls, 2 workers |

A theorem to come: what `Search` finds in `CardVerify`, as a lemma of its own. What the recursive definitions compute (the
parser of queries, the conversion of bodies) stays with TLC.
