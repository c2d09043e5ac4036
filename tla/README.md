# mundus-animarum in TLA+

mundus-animarum keeps the *souls* of ObjectiveAI agents: a key-value store per
agent in Postgres, with subscriptions and a queue of change notifications. It
is reached from the command line and, through a shared MCP server, by the agents
themselves. This directory specifies what is concurrent in it, checks the
specifications with TLC, and proves the main results with TLAPS.

Paths below are those of the repository (`src/db/mod.rs` is the crate's file of
that name).

## Inventory

| Component | Code | State | Operations |
|---|---|---|---|
| Soul store | `src/db/mod.rs` | tables `souls`, `key_subscriptions`, `soul_subscriptions` (with `unread`) | `set_key`, `delete_key`, `get_key`, `list_keys`, `subscribe_*`, `unsubscribe_*`, `subscriptions`, `take_notifications`, `connect`/`migrate` |
| Session manager | `src/mcp/header_session_manager.rs`, `src/mcp/session.rs` | registry id -> identity; map id -> worker handle (of rmcp); one cleaning task per worker | `create_session`, `initialize_session`, `create_stream`, `accept_message`, `close_session`, lazy mint, cleaning |
| MCP tools | `src/mcp/tools.rs`, `src/mcp/mod.rs` | none (looks the identity up per call) | nine tools over the store |
| MCP server, daemon | `src/mcp/run.rs`, `src/command/daemon/` | the listener; the lock file holding the URL | bind, acquire the lock, serve |
| Launcher | `src/command/mcp/` | none | spawn the daemon, wait for the lock file, announce its URL |
| Command line | `src/command/*.rs` | none | resolve owner, target and scope; one store call |
| Context, configuration | `src/context.rs`, `src/run.rs` | the lazily made connection; identities from the environment | `db()`, `agent_full_id()`, `agent_instance_hierarchy()` |
| Process entry | `src/main.rs`, `src/error.rs`, `src/lib.rs` | none | print one line, exit code |
| Build, install, test harness | scripts, `tests/common` | - | - |

How they interact: every command and every tool call ends in one call of `Db`.
All processes (each command line run is one; the daemon serves many sessions)
share the database and nothing else, so the store is where they meet, statement
by statement. Within the daemon the HTTP requests, the session workers and their
cleaning tasks meet in the two maps of the session manager. The launcher and the
daemon meet in the lock file.

What is hard:

* **Store.** Reads are two statements without a transaction; writes are a
  transaction of up to three statements, claims of three more; subscriptions
  come and go in between. What a statement sees, which rows it waits for, and
  what a rollback leaves, is decided by Postgres' READ COMMITTED rules. Correct
  means: a committed change reaches each subscriber, once; nothing that did not
  happen is reported; parallel claims are disjoint; calls return.
* **Session manager.** "Is there a session?" and "make one" are apart by several
  awaits; the cleaning task of a worker removes entries by id, possibly those of
  a successor; the two maps are changed under two locks; clients go away, workers
  end when idle, the server restarts. Correct means: who sends the two headers is
  served under the session's identity; nothing stays behind.
* **Daemon.** Two may start; one must win; the launcher must read a URL that is
  alive.

## Modules

| Module | What it is |
|---|---|
| `SoulStore` | the store, one action per SQL statement |
| `MCSoulStore` | small instances of it |
| `SoulStoreProofs` | the theorems about it |
| `SoulCalls` | what one call of the store promises its caller: it happens once, as asked, or leaves no trace |
| `SoulCallsProofs` | that `SoulStore` implements `SoulCalls` |
| `SoulBoard` | what the store is to everyone else: each call is one step, whoever makes it |
| `SoulBoardProofs`, `CallsBoardProofs` | that `SoulStore`, and that `SoulCalls`, implement `SoulBoard` |
| `Plugin` | the nine tools and the seven commands over a `SoulBoard`, and what they resolve |
| `MCPlugin` | a small instance of it |
| `PluginProofs` | the theorems about it |
| `Sessions` | the session manager, one action per stretch between awaits |
| `MCSessions` | small instances of it |
| `SessionsProofs` | the theorems about it |
| `SessionTable` | what the session manager is to its clients: a table of sessions |
| `SessionTableProofs` | that `Sessions` implements it, and what requests are promised |
| `Daemon` | the processes of one state directory: connecting, migrating, the lock, the launcher |
| `MCDaemon` | small instances of it |
| `Service` | what the daemons are to the launchers: one service |
| `DaemonProofs` | the theorems about `Daemon`, among them that it implements `Service` |

### SoulStore

`souls` and `subs` are the committed tables. The two subscription tables are one
function: a row is `[who, target, scope]`, its scope a key or `SoulScope`, and its
value `"absent"`, `"read"` (`unread = FALSE`) or `"unread"`. Each connection runs
one call at a time; `pc` is the statement it runs next and `call` its arguments.
`owned` and `held` are the rows its open transaction has written: no one else sees
the new values until the commit, and a writer of such a row waits
(`FreeCell`, `FreeRow`). An UPDATE over many rows is one step that finds the
committed rows (`FireKey`, `FireSoul`) and one step per row that writes it
(`Raise`), in any order, since nothing in the statement fixes one.

| Code | Actions |
|---|---|
| `set_key` | `StartSet`, `Upsert`, `FireKey`, `Raise`, (`FireSoul`, `Raise`,) `CommitWrite` |
| `delete_key` | `StartDelete`, `DeleteRow` or `DeleteNothing`, then as `set_key` |
| `get_key`, `list_keys` | `StartRead`, `Select`, `Clear`; `SelectOnly` without a reader (the command line) |
| `subscribe_*`, `unsubscribe_*` | `Subscribe`, `Unsubscribe` |
| `take_notifications` | `StartTake`, `ClaimKeys`, `ClaimSouls`, `Count`, `Settle` |
| a process or connection dies | `Kill`; `Clear` and `Settle` with a reply that does not arrive |
| Postgres breaks a deadlock | `DeadlockAbort` |

Values matter only as "the row exists" and "it changed", so keys, agents and
values are members of small sets; agents and keys are numbers because ORDER BY
compares them. A `DELETE` that finds no committed row does not wait for a row being
inserted; an `INSERT` waits for anyone's open write of its row, a row being inserted
or deleted included. `FOR UPDATE SKIP LOCKED` is `Batches`: the first rows, in
order, of those nobody has locked.

The history variables say what no guard may read: `informed` are the rows whose
subscriber has been shown everything committed in their scope, and `exposed` are
those that lost a change in one of three windows:

1. the change committed between the SELECT and the UPDATE of a read;
2. the subscription was added after an open write had looked for it (`late`);
3. the change was returned in a reply that never arrived.

`NoLossOutsideWindows` says these are the only ways to lose a change. The first two
contradict the code's own documentation and are the findings below; the third is
what an at-most-once queue promises.

Left out: `subscriptions()`, whose two SELECTs are in `Plugin`; LIMIT subqueries evaluated
again by a plan that Postgres may choose; serialization failures, which READ
COMMITTED does not have.

### SoulCalls and SoulBoard

`SoulCalls` keeps the calls and drops the statements. `job` is the call a connection is
running, with its arguments; one step of the call does all of it and ends it (`Write`,
`DeleteNothing`, `Read`, `Take`), or it ends without a trace (`Fail`). `behind` is what a
write in flight may miss, and it is the write's own: a subscription added while it is
running. `SoulStore` implements it (`ImplementsCalls`, by `job <- [c \in Conns |-> Job(c)]`,
`behind <- late`): no call has an effect at two moments or on a row that is not its own, no
write is answered for by another, and a deadlock or a death in the middle undoes all of a
call. The value of a reply is not part of it, because a read's reply may be older than what
it clears, which is `finding_read_clear`.

The board has the same tables and no statements: `Write` changes a key and raises every
subscription of its scope at once, `Read` clears the reader's row, `Take` resolves some of
what is pending, `Subscribe` starts caught up and leaves what is pending alone. `SoulStore`
implements it (`ImplementsBoard`, by `Board == INSTANCE SoulBoard WITH young <- ...`), and so does
`SoulCalls`, which is the second half of the way:
a write and a claim happen at their COMMIT, a read at its UPDATE, a subscription at its
only statement; all other statements are stutters, or `Age`. `young` is the one thing the
code's callers must know beyond that: the subscriptions that a write already under way may
miss (`late` in `SoulStore`, the second window). The board does not say what a read
*returns*, which is the first window, nor which part of the pending rows a claim takes,
since it skips what others have locked.

### Plugin

How a tool call or a command becomes a call of the store, over `SoulBoard` rather than
`SoulStore`: the statements do not matter here, the arguments do. A session's `identity` is
its entry in the registry, a full id and an instance; `job` is the call each request or
process is making. A step picks a tool and its arguments (`Request`, which keeps the
identity that `resolve_session` found), or a command and its environment (`Run`); another
performs the call (`Perform`), or it fails (`Fail`); in between, sessions are recorded anew,
closed, forgotten (`Connect`, `Forget`). `Sessions` says when the registry changes;
`Plugin` lets it change at any time.

| Code | Definitions |
|---|---|
| tools `get`, `list` | `ToolReads` |
| tools `set`, `delete` | `ToolWrites` |
| tools `subscribe_*`, `unsubscribe_*` | `ToolSubscriptions` |
| tool `notifications` | `ToolTakes`, `Limit` |
| `Context::caller`, `agent_full_id`, `agent_instance_hierarchy` | `Caller`, `Targets`, `Owner` |
| `SubscriptionArgs`, its `resolve` | `Selectors`, `Resolve` |
| commands | `Get`, `List`, `Set`, `Delete`, `Subscribe`, `Unsubscribe`, `Subscriptions` |
| `Db::subscriptions` | `ListKeys`, `ListSouls`, `ReplyListing` |

A string is the sequence of its segments between `/`, and any string can be a header, an
environment variable or a selector's argument, as in the code; the empty string is one empty
segment, so that a parent given as such yields `/name`. `Entities` are the instances there
are or that a selector may mean, and bounds nothing else: two of them may come to one
hierarchy (`Namesakes`: `y` below `r/x`, and `x/y` below `r`), and the code cannot tell them
apart. `SubscribedAsAsked` says what is true all the same: a hierarchy is subscribed only to
what was asked for some instance of that hierarchy, and an instance that shares its hierarchy
with no other is subscribed to all that was asked for it. What namesakes lose, one of them
by the unsubscribing of the other, is thereby named. A failed call commits nothing: one
that committed and could not say so is `Perform`.

`asked`, `steady`, `ever` and two fields of a job (`by`, `for`) are history, which no guard
reads: the instance that is *meant* by a selector, told apart from the hierarchy it is
resolved to, and what was subscribed all the time, or at some time, since a listing began.

### Sessions

`registry` is `SessionRegistry`, `sessions` the inner map. A `worker` slot goes from
`"free"` to `"waiting"` (for an initialize), `"running"`, `"ended"`, `"forgotten"`
(its cleaning task has done one of its two removals) and back. A request's steps
follow `create_stream` / `accept_message`. An initialize is asked about twice: `Check` is
the `has_session` of line 168 and `Ensure` the one of `ensure_session`, line 110, which every
other message starts with. `Mint` follows, then `Initialize`, or `Fail` if the worker is
gone, `Insert`, `Send` (the handle that is in the map *now*), `Serve` (`resolve_session` and
the tool). If the handle goes between `Check` and `Ensure`, the new worker gets the
synthetic initialize, is inserted, and the real one is sent to it afterwards, as any other
message (`synthetic` says which initialize a minting request drives): that an initialize
"never" comes to `ensure_session` (`src/mcp/header_session_manager.rs:102-103`) is true only
of ids that are not held. A first POST without an id is `CreateSession`,
`Record`, `Begin`; a DELETE is `Forget`, `Drop`. `CleanRegistry` and `CleanSessions`
are the task spawned by `mint_worker`, and the tower's own for its sessions, which
calls `close_session` and hence does the same.

`Mint` is one step although it awaits the registry's lock: nothing happens between
taking the lock and spawning the task. A worker ends when its last handle is
dropped, when it is closed, or, with `"idle"`, when it has had nothing to do for
the keep-alive time. That takes minutes, so it does not befall a worker between its
initialize and the insertion of its handle. A session of a refused first POST stays,
waiting, as it does in the code.

The constant `Hazards` names which events an instance has: `"overlap"` (two requests
for one id at a time), `"close"`, `"cancel"`, `"fail"` (a worker that dies under its
initialize, so that the request ends in the error of lines 115-117 or 170-173 and its
worker in the cleaning task), `"idle"`, `"restart"`. A GET stream neither reads the registry nor changes a map and is left out.

### SessionTable

What is left of `Sessions` for clients who send one request at a time and neither close a
session nor go away, when no initialize fails (`Sequential` below): `known` is the identity under which an id is
served, if it is, `request` what each client waits for (`Ask`), `answer` how that ended.
`Open` makes a session under the identity of the request that found none, and may answer
it at once if it is an initialize (the usual one is answered by being minted, one that
comes through `Ensure` is not); `Serve` answers under the identity the session has, `Lose` and `Restart` drop a session as a whole, `Refuse` answers a request
without headers for an unknown id.
There is no second map, no worker, no cleaning task and no moment in which an id is in one
map only: `ImplementsTable` maps `known` to the registry where there is a live worker on the
id's behalf (`Known`).

### Daemon

Each process runs once, as a command, as `daemon begin` or as the launcher, and each
reads its arguments, then its configuration, then does its work. `schema` is what the
catalogue holds; `lock` the live holder of the `"mcp"` lock, who stands for the URL it
published.

| Code | Actions |
|---|---|
| `run`, `main` | `Inform`, `Misconfigured`, `Dispatch`, `End` |
| `Context::agent_full_id` | `Untargeted` |
| `Context::db`, `Db::connect` | `Connect`, `DatabaseFails` |
| `Db::migrate`, per statement | `Skip`; or `Look`, then `Create` or `Duplicate` |
| a command's call | `Call` (what it does is `SoulStore`) |
| `mcp::run` | `Bind`, `BindFails`, `Acquire`, `GiveUp` |
| `mcp mundus-animarum begin` | `Spawn`, `Announce`, `HostFails` |
| a process dies | `Kill` |

`IF NOT EXISTS` is two steps, because Postgres is: it looks the name up among what is
committed, and enters it under a unique index, waiting for whoever is entering the same
name. A process killed in between may or may not have created its object, and `Init` has
any part of the schema. The lock file is taken as this code uses it: `try_acquire`
claims and publishes in one step, the claim lasts until the process dies, and
`wait_read` returns what a live holder has published. Whether and when the host starts
a daemon, or a second one, is left open. The socket listens from `Bind` on, so a URL
that is published answers, if slowly, before `serve` runs. `OnceCell` is not a variable:
each process asks for its connection once, and a failure ends it.

`Service` is what launchers see of it: a set of daemons that serve, those that have ended,
and what each launcher has been told. There is no lock file and no database in it; a
daemon starts where none serves, and a launcher is told once, of one that serves then
(`ImplementsService`).

## What the runs check

| Run | Instance | Shows |
|---|---|---|
| `soulstore_calls` | 1 agent, 2 keys, 2 subscribers with three rows over both tables, 2 connections that may die, limits 1 and 2 | `TypeOK`, `NoLossOutsideWindows`, `NoPhantomNotification`, `ClaimsAreExclusive`, `BatchWithinLimit`, `DeadlocksNeedTwoKeysOfOneSoul`, `ClaimsLoseNothing`, `IInv`, `RemainingNeverUndercounts`, `ImplementsCalls` |
| `soulstore_returns` | 2 keys, 2 subscribers of the soul, 2 connections, reads, writes, claims | `EveryCallReturns`, `ImplementsBoard` |
| `plugin_all` | 2 agents, 1 key, a root instance and one below it that shares its full id, a process without environment, two instances below those that only selectors mean and that have one hierarchy, through a name of two segments; 1 session, 1 tool call, 1 command, counts 0 and 2 with a cap of 1 | `TypeOK`, `SubscribedAsAsked`, `ListingIsBetween`, `IInv`, `ToolsActForTheirSession`, `OnlyToolsResolve`, `BatchWithinCount` |
| `sessions_all` | 1 id, 3 requests, 3 workers, all hazards, failing initializes among them | `TypeOK`, `EveryEntryHasAnOwner`, `IInv` |
| `sessions_idle` | 2 ids, 2 identities, 2 requests, idle ends and restarts | `LiveSessionsAreKnown`, `OneWorkerPerId`, `IdentityIsPinned`, `RequestsKeepTheirWorker`, `ImplementsTable`, `DeadHandlesGo` |
| `daemon_all` | 1 command, 2 daemons, 1 launcher, the five statements, failures and deaths anywhere | `TypeOK`, `ConnectedFindsTheSchema`, `OneServer`, `AnnouncedServes`, `IInv`, `LaunchersAreAnswered`, `ImplementsService` |

Bounds. Two connections suffice for every conflict between two calls, and the safety
properties of the store are proved for any number; one soul is enough because calls
on different souls share no row except in a claim, whose order over rows is
exercised by two scopes. `Watchable` bounds who subscribes to what: in
`soulstore_calls` a reader with a key and a soul subscription, so that a claim spends its
limit over both tables, and another subscriber of the soul; in `soulstore_returns` the soul
subscriptions; in `plugin_all` it bounds what is asked for the instances below the root: a
key and a soul for the child, a key for each of the two that share a hierarchy. Two
keys and two subscribers of one soul are the least in which a deadlock exists.
Two daemons and a command are the least in which
one daemon loses the lock, another process wins a CREATE, and a launcher is answered by
the daemon that is left; a process that runs once is enough because it keeps nothing
that a later one could see but the schema and the lock. Three requests on one id are the least in which a cleaning task meets both a mint
and a request served by the successor. `Values` has one member: an overwrite and a
new key differ by whether the row exists.

In `plugin_all` a count of 0, one above the cap and none are tried; a call and a
command in flight are enough because a call is one step of the board, and the listing, which
is two, races with the tool. `Missable` is empty there, since which subscriptions an
open write misses is the concern of `SoulStore`, which the run leaves to it; the theorems
have no such bound.

Symmetry is declared over connections in `soulstore_calls` and over everything in
`sessions_all`; nowhere a liveness property is checked.

### Fairness

`SoulStore`: strong fairness of each connection's next statement. The runtime keeps
polling a call, and Postgres grants a row to its waiters in the order they came, so a
statement whose row becomes free again and again gets it. Deadlocks are detected
(weak fairness of some `DeadlockAbort`). Nobody has to start a call, and nobody is
killed by fairness. `Sessions`: weak fairness of each request and of each worker's end
and cleaning: they are tasks of one runtime. No client has to send anything.
`Daemon`: weak fairness of each running process's next step, and none of its failures, so
that a launcher is not excused by an error; nobody has to be started, so a launcher
is promised an answer only while a daemon runs. With none it waits for ever, as the code
does, which is why the run does not check for deadlock.

### Findings

Each is a run that TLC ends with a counterexample.

* `finding_read_clear`: a reader's SELECT returns the old value, a write commits and
  raises the notification, the reader's UPDATE clears it (`src/db/mod.rs:172-189`, and
  `:138-153`). The subscriber has the old value and nothing pending.
* `finding_late_subscription`: a subscription inserted after a write's UPDATE has
  looked for subscriptions, and before its COMMIT, is never raised (`src/db/mod.rs:218`,
  `:226`, `:254`, `:259`); the subscriber that reads at once sees the old value.
* `finding_mint_race`: two requests for an id the server does not know (after a
  restart) both mint a worker; inserting the second handle drops the first, its worker
  ends under its request, and its cleaning task then removes the second one's entries
  (`src/mcp/header_session_manager.rs:110-118`, `:89-90`).
* `finding_reopen`: a DELETE, then a request with the same id. The old worker's cleaning
  task removes the identity just recorded and finds no handle yet; the new handle is
  inserted afterwards. The session is held but unknown: all its tool calls are refused
  and no request rebuilds it.
* `finding_reconnect`: a resumed initialize for a held session is not asked for its
  headers (`src/mcp/header_session_manager.rs:168`), though `src/mcp/session.rs:14-15`
  says that a reconnect without them is rejected.
* `finding_migration`: two processes connect to a new database at once; both find a table
  missing, one creates it, the CREATE of the other is refused by the catalogue, and
  `Db::connect` fails though the database is reachable (`src/db/mod.rs:75-119`). If that
  one is the daemon, its launcher is left waiting.

## What is proved

`SoulStoreProofs`, for every value of the constants under `NamesAssumption` (names are
distinct from the sentinels, the possible subscription rows are finitely many):

* `Invariance`: `IInv` is an invariant. Its parts beyond the properties themselves are
  why it is inductive: `LocksAreExclusive` (two open transactions share no row),
  `CallsHoldWhatTheyNeed` (which locks are held at which statement; `keySetChanged`
  stays true of the committed table because the soul row is locked), and
  `WritesReachTheirScope` (each existing row of an open write's scope is written, about
  to be, or `late`).
* From it `TypeCorrectness`, `NoLoss`, `NoPhantom`, `ExclusiveClaims`, `LimitRespected`,
  `Deadlocks` and the action property `RemainingIsUpperBound`.
* `ClaimsKeepCurrent`: `ClaimsLoseNothing` is inductive relative to `IInv`. Between the three
  statements of a claim, writes commit; none can have found a row the claim holds, so what the
  claim returns is the last change, unless the write had looked too early.
* Where the two findings about the store end. `EveryChangeIsRaised`: with
  `[]NoneTooLate` (no subscription behind the back of an open write)
  `ChangeRaisesEverySubscription` holds. `ResolvedIsTold`: if moreover no write commits
  between the two statements of a read it concerns (`[][NoneOvertaken]_vars`) and no process
  dies (`Mortal = {}`), `ResolvedMeansInformed` holds. So the windows the findings show are
  the only ones. Their hypotheses leave reads, writes, claims and subscriptions
  interleaved in every other way: on the instance of `finding_read_clear`, with claims, TLC
  reaches 6730 states that satisfy both, writes in the middle of a read among them.

The argument for `NoLoss` is at the commit of a write: the rows it changes are those of
`Concerned`; by `WritesReachTheirScope` each that exists is held, and becomes unread, or
is late, and is exposed. Replies resolve only rows that they inform or expose
(`ReplyFacts`). For `Deadlocks`: a member of a cycle holds a row and waits for one, hence
is raising; two that wait for each other's rows of one key would hold the same soul row,
which `LocksAreExclusive` excludes.

`SoulCallsProofs`: `CallsRefinement`, `Spec => ImplementsCalls`, for any number of connections
which may die. Each statement is one step of its own connection's call, or a stutter. What a
commit writes is settled by `WritesReachTheirScope`; that another call's step is not this one's
is settled by the locks; that a subscription can be missed only by the writes it came behind
is `late`, connection by connection. `CallsBoardProofs`: `CallsMakeTheBoard`, the same calls
without their callers are the board.

`DaemonProofs`, for any number of processes and any list of statements:

* `Invariance`: `IInv`. `ConnectedFindsTheSchema` is not inductive; `MigratedIsCommitted`
  is what makes it so: each statement a process has been through is committed (nothing
  drops it again), and it uses its connection only after the last. `HolderServes` and
  `RolesAreKept` carry `OneServer` and `AnnouncedServes`.
* From it `SchemaIsThere`, `SingleInstance`, `AnnouncementsHold`, `TypeCorrectness`.
* `ServiceRefinement`: `Spec => ImplementsService`. Who takes the lock finds no one serving,
  since a server holds it; who is announced serves at that moment, since the holder does; a
  launcher that has announced is over (`AnnouncersAreOver`), so it is told once.
* Where `finding_migration` ends. `MigratingAloneConnects`: with `[]OneMigrates` (no two
  processes are in `migrate` at once while the schema is not complete)
  `ConnectsIfReachable` holds: what a process is about to create is not there
  (`NoneIsAhead`). Hence `MigratedConnects` (once the schema is complete any number of
  processes connect at once) and `AloneConnects` (so does one command or daemon that has the
  database to itself).

`SoulBoardProofs`: `Refinement`, the direct way, `Spec => ImplementsBoard`. Each statement is shown to be
one action of the board or a stutter, from `IInv`: at a write's COMMIT the rows it holds are
those the board fires, less those in `late` (`WritesReachTheirScope` again), and a claim's
batch is pending and within its limit. It has no assumption beyond `NamesAssumption`.

`PluginProofs`, under `PluginAssumption` (sentinels are distinct, rows finitely many) and
`EntityAssumption` (strings are sequences of at least one segment, nothing more):

* `Invariance`: `IInv`. `CallsAreAllowed` relates each call in flight to the identity or
  the instance it was made for, which is what is left of the session once the call has begun;
  `ListingsAreHalfDone` is what a listing knows between its two SELECTs.
* From it `SubscriptionsHaveTheirOwner`, `ListingsHold`, `ToolsAreTheirSessions`, `OnlyToolsDo`,
  `BatchesAreWithinCount` and `TypeCorrectness`. The first holds of names of any strings.
  `OneSegmentOwners` says what it comes to where no name has a `/`: no two instances share
  a hierarchy (`LastSegment`: sequences that end in one more segment are equal part by
  part), so an instance is subscribed to exactly what was asked for it.
* `StoreIsUsedAsPromised`: `Spec => Store!Spec`. Under any identities, selectors and counts
  the store is called with agents, keys, subscribers and limits there are, so that what is
  proved of the board, and by `Refinement` of the statements below it, is what tools and
  commands get.

`SessionsProofs`, for any number of ids, requests and workers:

* `Invariance`: `IInv`, with all hazards. `WorkersHaveTheirPlace` is what `EveryEntryHasAnOwner`
  needs: a worker being minted is alive and known to its request alone until it is inserted,
  so that no cleaning task takes away an entry while its owner is still coming; a session the
  tower has just created has one request and one worker.
* From it `EntriesHaveOwners` and `TypeCorrectness`.
* Under `Sequential` (`Hazards` has no overlap, close, cancel or fail): `OneWorkerEach`,
  `LiveSessionsKnown`, `SettledSessionsKnown`, `IdentitiesArePinned`. `OneWorkerPerId` is the
  strengthening: as an id has one worker, the task that cleans up after it removes entries of
  its own. The findings `finding_mint_race` and `finding_reopen` are what happens without it.

`SessionTableProofs`, under `Sequential` too:

* `RequestsKeep`: a request mints under the identity it names, and the worker it is served by
  is there until it has answered (`RequestsKeepTheirWorker`), though workers end when idle and
  the server restarts.
* `TableRefinement`: `Spec => ImplementsTable`. At an `Insert` the id appears in the table,
  complete, and a real initialize is answered by that, while one whose worker was driven by
  the synthetic initialize is answered later, or loses the session again; at the end of its worker, or a restart, it goes, complete, although
  two cleaning steps follow; `RequestsKeepTheirWorker` is the invariant it needs, since it says
  which worker a request in the middle of its steps is about.
* `PostsServed`: if moreover no worker is idle long enough to end (`Hazards \subseteq
  {"restart"}`), whoever sends both headers is served (`PostsAreServed`), however often the
  server restarts and forgets the sessions its clients still hold.

The hypotheses on `Hazards` are as weak as they can be: with any one of `"idle"`, `"fail"`,
`"cancel"`, `"close"` or `"overlap"` TLC finds `PostsAreServed` violated, and with any one of
the last four, `SettledSessionsAreKnown` (two ids, two requests).

Only model-checked: liveness (`EveryCallReturns`, `DeadHandlesGo`, `LaunchersAreAnswered`), since
liveness under fairness, and ENABLED, are beyond the prover, and the findings, which are
counterexamples. `ConnectionsAreIdentified` has no theorem: that a held session is reopened
without its headers does not depend on what clients do at the same time.

## Plan

The plan of the first version (the abstract store, the proofs about sessions, tools and
commands) is carried out, and each component has an abstract specification that it is proved
to implement, but for `Plugin`, whose store is one. What could follow:

1. `Plugin` composed with `Sessions`, so that the registry changes only as the session manager
   changes it. `Plugin` allows every change, so its properties hold of the composition; a
   composition would add when a tool call is refused.
2. What a read returns, in `SoulBoard`: a read as two steps, so that the first window is part
   of the abstract store, as the second is.

## Not modelled

Parsing of arguments and environment (clap, envconfig), rendering of JSON, the wording of
errors, the scripts and the test harness: no state, or not part of the program. GET streams
of the session manager (`create_standalone_stream`, `resume`) change nothing here.
`list_tools`, `get_tool` and `get_info` return constants.
