# Verification of the crossfyre toolchain

TLA+ specifications of the parts of the crossfyre toolchain whose correctness depends on
the order of things: tasks that interleave, messages that are lost or delivered twice,
processes that die between two steps. TLC checks each one on small instances, TLAPS proves
the central invariants for every instance. `PROJECT.json` lists the runs, the mutants that
show what each property can catch, and which lines of the source each definition stands for.

Check a run with `tlc -workers 2 -config <cfg> <MC module>`, a proof with `tlapm <module>`.

## 1. The system

The repository holds five scanning engines (voyage, doorward, ambulo, toolmark, plessor), the
`crossfyre` CLI, the `node` agent that runs the engines for a platform (`core`), an MCP server
that gives a model the engines as tools (`mcp`), a capturing proxy (`capture`), a callback
server (`oast`) and an Android client. The platform (its HTTP API, its NATS server with a
JetStream work queue) is outside the repository, and so are the targets.

| Component | State | Operations | Speaks with | Hard behaviour | What makes it correct |
|---|---|---|---|---|---|
| node egress settings, `core/src/egress/state.rs` | `current`, `stale`, `last_failure`, the `refreshing` lock | announce, refresh, poll, decide for an op, apply an authorize answer, stop direct work | platform over HTTP, announcements over NATS | announcements lost with the connection, answers older than an announcement, two fields under two locks | never send from the node's own address when told not to; never forget to be behind; catch up |
| node operations, `core/src/lib.rs`, `core/src/ops/` | `DONE_OPS`, `CANCELLED_WORKFLOWS`, a semaphore per workflow | pull, push, claim, run, report, ack, cancel, resume | work queue, platform over HTTP, engines over TCP, egress settings | at-least-once delivery, crash before ack, halt during a wait, handler dropped at an await | what is acked is accounted for; run by one node; halted work stays halted; heard of in the end |
| node daemon and supervisor, `core/src/lib.rs` | connection, intervals, child process | select loop over commands, heartbeats, ticks; restart of a dead child | both of the above | one loop that must not block; eviction after refused heartbeats | commands are taken in order; the node comes back unless it was evicted |
| egress gateway, `core/src/egress/gateway.rs` | leases, connection permits, per-host counters | lease, authenticate, connect, pump, end | engines over SOCKS5, the proxy | a lease dropped while a connection is being opened | what a dropped lease had open closes; only vetted addresses go on; slots under the cap come back |
| capture gate, `capture/src/gate.rs` | queue of held requests, two switches, a Notify | decide, resolve, resolve all, switch, shutdown, await an arrival | flows of the proxy, the host's threads | two critical sections for one action; send after unlock; futures dropped at an await | held requests are decided once, and by somebody; nothing passes unseen while on |
| capture flow, `capture/src/flow.rs` | per-request | scope check, gate, dial, record | gate, scope, TLS | check of a name, later use of its address | what is out of scope is never dialled |
| callback server, `oast/src/store.rs`, and its scan, `plessor/src/oast.rs` | registrations, interactions, under two locks; what a scan parked | register, capture, poll, deregister, expire | DNS/HTTP/SMTP listeners, targets, plessor | two maps that must agree; answers lost after what they carry was taken | a callback is proof; none is lost between two calls; registrations end |
| MCP jobs, `mcp/src/jobs.rs`, `core.rs` | a directory of job files shared by sessions | start, pump, cancel, recover, prune, shut down | engines, other sessions through the disk | cancel against completion; a session that died; check of the cap, then write | a job ends once, in a true state; a dead session's jobs are not left running |
| MCP confirmations and limits, `mcp/src/confirm.rs`, `limits.rs` | remembered answers, buckets, pacers | ask, remember, take, pace | the person at the client | two calls that ask the same question | no call without an answer that covers it |
| doorward, `governor.rs` | window, in flight | probe, feedback | targets | feedback while probes are out | the window stays in its bounds |
| ambulo, `daemon.rs`, `scanner.rs`, `libs/ambulo_db.rs` | scan rows, entries, wordlists, in a database; a pool of workers per scan | prepare, claim, record, requeue, park, delete, sweep | targets, sqlite or postgres | statements without transactions, rows that scans share, workers that park, a daemon that dies | an entry in one hand; "done" means exhausted; nobody waits for ever |
| voyage, `daemon.rs`, `scanner.rs`, `libs/voyage_db.rs` | one row for a domain and wordlist, its entries | prepare, claim, wait for others, record, requeue, resume | resolvers, the database | workers that wait for what others claimed; resume after a crash | results survive a resume; "done" means exhausted; scans end |
| adaptive rate, `adaptive/src` | rate, samples | tick, sample | engines | concurrent ticks | the rate stays between its clamps |
| plessor, toolmark | per request | scan | targets | I/O | detection, over strings |
| installer and services, `core/src/toolchain` | per engine a binary, a version file, a unit and its settings, under a public and a legacy name | install, update, migrate, remove, start, stop, set ports | systemd, the release server | a command cut between two files, two names, no right to write | what is installed is whole; never two units of one engine; what ran runs; updates take hold |
| cfx-script, executor | helper process | run a script | node daemon | drop while it runs | a dropped job leaves no helper |
| auth, creds, scope, dguard, transport, tunnel, relsign | none to speak of | parse, decide, encode | | | pure functions and I/O |
| cloud_wire, spec, surface, finding, bridge | none | types and parsers | | | |
| tui, crossfyre, node, mobile, vendored lru | | user interface, command lines, third-party code | | | |

How the node's parts interact: `run_daemon` holds one NATS connection. Its select loop takes
commands and ticks in turn; a second task pulls operations from the work queue and spawns
`run_operation` for each; `keep_current` polls the egress settings. `run_operation` asks
`EgressState::for_op` whether to go out directly, with a lease on the gateway, or not at all,
and hands the operation to the handler of its type, which speaks to an engine. A direct
operation runs inside `while_direct`, which drops it when the settings stop being direct.

The engines are daemons of their own. voyage and ambulo keep the work of a scan in a database,
so that a scan survives its daemon; plessor keeps none, and asks the callback server at the end
of a pass. An MCP session is a process of its own that starts plessor's scans for a model: a call
starts one, a pump reads its lines into files, and everything that may end it (the pump, a call
of `cancel_scan`, the call that started it, the shutdown, the next session) writes the same file.

## 2. The plan

In this order, and all of it done:

1. `NodeEgress` - what the node must never get wrong: from which address it sends.
2. `LocalGate` - the gate between a person and what a proxy forwards.
3. `NodeOperations` - at-least-once delivery, acks, halts, claims, crashes.
4. `EgressGateway` - leases and what outlives them.
5. `OobCallbacks` - the callback server composed with the scan that uses it and the target that
   calls back, with requests and answers that are lost.
6. `McpScans` - a session's scans with everything that ends them, crash and recovery, caps, the
   question about the scope and the audit; it refines `ScanRecord`, the life of a job's file.
7. `AmbuloScans`, `VoyageScans` - the work of a scan in tables without transactions, several scans
   of one row, workers that park or wait, resume after a crash.
8. `EngineInstalls` - the commands that put, move and remove an engine, cut at any step; it refines
   `EngineOnHost`, an engine with one name.
9. Proofs for each: the types, then the invariants that the module is for, then the
   refinement.

Left, should the project grow: the supervisor with the heartbeat and its eviction (a restart is
`NodeOperations`' `Crash`); abstract specifications for the gate (a request is decided once) and the
node's operations (dispatched, accounted for, heard of), with the refinements proved.

## 3. The modules

### NodeEgress, MCNodeEgress, NodeEgressProofs

Code: `core/src/egress/state.rs`, and its users in `core/src/lib.rs`. `EgressState`'s fields are
the variables `current`, `stale`, `lastFailure`, `platformHasSettings` and the lock `refreshing`.
Every read or write of a field under its own lock is an action; an HTTP request is asked
(`Ask`), answered at the platform (`AskAnswered`), and its answer used later (`Settle`, `Set`), so
that a change falls between any two. Tasks are the operations, the .cfx jobs, the select loop
(`Main`, with what it handles in `handling`) and `keep_current` (`Poll`). The platform's revisions
(`rev`, `SettingAt`), its announcements (`inbox`) and the connection (`link`) are external. What a
proxy's address or credentials are is left out: a setting is direct, a proxy, or unusable.

`told`, `doubted` and `floor` are history: what the node was told by number, whether a doubt
without a number absorbed it, and what had been told when a task began to ask.

### LocalGate, MCLocalGate, LocalGateProofs

Code: `capture/src/gate.rs`; `HangUp` is a flow (`flow.rs`) whose client disconnects while
`decide` waits. A section under the mutex is an action (`Arrive`, `Resolve`, `Close`, `SetEnabled`,
`Drain`, `Forget`), and so is each send on a oneshot channel (`Send`), which comes after the
mutex is released, the timeout (`Elapse`), and the two halves of `arrival` (`Check`, `Register`).

### NodeOperations, MCNodeOperations, NodeOperationsProofs

Code: `run_operation`, `while_direct`, `run_op_type`, the pull consumer and the command handlers
of `core/src/lib.rs`, with `open_engine`, `publish_failed`, `publish_refused` and
`Relay::finish` of `core/src/ops/mod.rs`. A copy is a task spawned for a delivery; `pc` says at
which await it is. `cancelled` is the workflow's membership of `CANCELLED_WORKFLOWS`, `done` is
`DONE_OPS`, `permits` and `waiters` are the fair semaphore of the workflow. The handlers differ
in one thing that the properties see: whether they look at the halt between two lines
(`Attentive`); an engine's stream ends with `done` (`EngineDone`) or otherwise (`EngineGone`).
Which settings apply is NodeEgress's subject: `Decide` takes any outcome and `Stop` may stop a
direct copy at any await.

External: the platform dispatches what it has not heard of (`Dispatch`), halts and resumes; the
queue redelivers after `ack_wait` (`AckWait`) and holds back what exceeds `max_ack_pending`; the
client buffers what the node publishes (`outbox`), which the server reads in order (`Flush`) or
not at all (`LoseSent`); another node claims (`OtherClaims`); the process dies (`Crash`).
Assumed of the platform: a node that claims what it already owns is told that it has it, and a
message id is not reused while anything refers to it.

### EgressGateway, MCEgressGateway, EgressGatewayProofs

Code: `core/src/egress/gateway.rs`, and `accept` of `tunnel/src/socks5_server.rs`. `life` is where
a lease is: in the table `leases`, out of it, its watch channel `ended` (`Drop` takes the two
steps `Remove` and `End`). Each accepted connection is a task of `serve`; `pc` names the await it
is at, `permits` is the semaphore `conns`, `who` the lease it authenticated as, `target` and `left`
the rest of `onward`. Where `serve` returns early it drops its permit (`Close`), and records or
not: `Fail` does, `Cut` does not. `log` is `LeaseState`'s, `summary` what `take_summary` gave out.
A dial has two parts, before and after the upstream is asked for the target (`Ask`): `select!`
polls the dial once even when the lease has ended, and then drops it.

Left out: bytes, ports, replies to the engine; of a name's addresses the order within IPv4 and
within IPv6, so any order. External: engines, which may use any lease they ever had, the
resolver and the upstream. `asked` and `counted` are history.


### OobCallbacks, MCOobCallbacks, HostProofs

Code: `oast/src/store.rs`, `plessor/src/oast.rs`, and in `plessor/src/inject.rs` the registration, the
parking of payloads and the question at the end of a pass. `regs` and `kept` are the two maps of the
store; a section under one of their mutexes is an action, so a capture (`CallBack`, `Keep`), a poll
(`Poll`, `Drain`), a deregistration (`Deregister`, `Discard`) and the collector (`Collect`, `Sweep`) have
two each, with what is between them in `sealing`, `draining`, `leaving` and `expired`. Every request and
answer between scan and server can be lost (`RegisterLost`, `PollLost`, `GiveUp`, the silent half of
`Drain`). A callback is known by its payload. Left out: the encryption of what is kept, the grace
period of a registration as a duration (`Lapse` says that it is over), and the listeners.
`called`, `stored`, `lost` and `overtaken` are history.

### McpScans, ScanRecord, MCMcpScans, McpScansProofs

Code: `start_scan` and `pump` of `mcp/src/tools/inject.rs`, `cancel_scan` of `tools/scans.rs`, `call`,
`check_scan_caps`, `cancel_job` and `shutdown` of `core.rs`, the files of `jobs.rs`, the question of
`confirm.rs`, and `run_op` of `plessor/src/daemon.rs` as the engine. A job is named by the call that
starts it; `call` is the place of that call, `pump` that of its pump, `stop[k]` that of whoever stops a
scan: a `cancel_scan`, the call itself when its client cancels it, or the server (`Server`). `meta` is
the record in memory, `file` the one on disk, `copy` what the pump is about to write. Tasks run on
several threads, so a step ends wherever another one could see what it shares: the pump counts
(`Count`) and writes (`Write`) in two, an abort takes effect at the pump's next await (`AtAwait`).
`Crash` leaves the files; `Recover` is the session after it, and what the heartbeat of a job says is
any subset. Left out: pages of findings, pruning, every other tool, and
writes of a job file that fail, which the code passes over. `missed` is history: the jobs that
somebody ended who could not stop their pump.

`ScanRecord` says what a reader of the job files may rely on: nothing, `running`, one of four
ends, and then no more. `ImplementsRecord` maps its `status` to the status in `file`, and to "unsure" for
the jobs in `missed`, for which the code does not keep that promise (see section 6).

### AmbuloScans, MCAmbuloScans, AmbuloScansProofs

Code: `prepare_scan` and the two kinds of scans of `ambulo/src/daemon.rs`, the workers of `scanner.rs`, the
tables of `libs/ambulo_db.rs`. A statement of SQL is an action: there is no transaction around two of
them, and a request that stops between two leaves what it wrote. `status` and `entry` are the tables
`scans` and `scan_entries`, `lister` and `words` those of the wordlist; `at` names the statement a request is
about to execute. Streams have a row of their own, one-off scans with the same configuration find
each other's. A worker claims (`Claim`), probes, records or queues again; with the adaptive rate,
workers from `target` on park, and `drained` tells them that they may end. `Crash` loses everything but
the tables. `lost` is history: what a failed statement, a crash or a slow adaptive worker left behind.
Left out: a stream that is asked for with no tasks, which says "done" with its words queued
(`scanner.rs:317`), and a worker that panics (`scanner.rs:333`), which tells parked workers nothing.

### VoyageScans, MCVoyageScans, VoyageScansProofs

Code: `prepare_enum` of `voyage/src/daemon.rs`, the workers of `scanner.rs`, `libs/voyage_db.rs`. As above, with
what differs here: every request for the same domain and wordlist shares one row; a name is inserted
unless it is there; a resume queues again what is claimed (`ResetHalted`), whoever claimed it; and a
worker that finds nothing queued ends only when nothing is claimed either (`FindNoWork`, `End`), so
that workers wait for each other (`WaitForOthers`). Unlike ambulo's, each worker builds its own resolver
and client before its loop, and ends like one that has worked when it cannot: `Start` spawns any subset
of the workers, which is also a pool of fewer tasks or none. `ClaimBreaksOff` is a claim without its answer, `Panic` a
worker that dies with its entry; `End` and `Finish` are the same whatever ended the others. `lost` is history: entries
that stay claimed though nobody has them, those an adaptive worker queues again late, and those that were queued when a
scan had no worker left that looks (`Looks`), or none from the start. The last are taken off it when a scan
begins that has a worker, which owes them. A failed look at the queue changes nothing and is a stutter.

### EngineInstalls, EngineOnHost, MCEngineInstalls, HostProofs

Code: `core/src/toolchain/install.rs` (`install_one`, `update_with`, `remove_one`, `stage_binary`,
`commit_staged`), `migrate.rs` whole, the units of `service.rs`, and the commands of
`crossfyre/src/main.rs` and `core/src/lib.rs` that call them. One engine that was renamed, on Linux: `bin`,
`record`, `unit` and `settings` are its files under each name, `staged` the `<name>.new` beside the
public one, `enabled` and `daemon` what systemd knows of each unit. A change of one file, and a call of
systemctl, is an action; `pc` is the place of a command between two of them. `InstallsInit` is any of four
machines: without the engine, with one that an older release installed, with
binaries under both names (an install made before the migration ran), and with the link that 0.1.31 left. `Look` decides what the
migration has to do and whether it may; `Fetch` asks for the manifest, `UpdateDecides` and
`InstallDecides` are what becomes of the answer; a command may be given with or without the right to
write (`rights`). `Kill` and `Reboot` cut at any step; `MoveFails`, `FetchFails`, `CopyFails`, `CommitFails`, `RecordFails` and
`CreateFails` are the steps whose failure the code handles.

Left out: cfx-script and the CLI's and node's own binaries, engines that a package manager owns, the check
of downloads, the directories' owners, ports and environment of a unit, macOS and Windows. External:
systemd, which carries out what it is told for a unit that is there, and starts what is enabled when
the machine does. `ran`, `failed`, `abandoned` and `misled` are history: the engine ran when the command
began; a step of it failed; the last migration left the old unit where it was; a binary was moved beside
the version file of one that a cut removal took.

`EngineOnHost` is what they promise to somebody who sees no names and no files: an engine is installed
in one version or not at all, with an earlier one beside it at most; a version gives way only to a released
one that is not older; nothing is replaced or removed under its process. `ImplementsEngine` maps
`installed` to the version under the public name or, without one, under the legacy name, `spare` to the
legacy one beside a public one, and `runs` and `spareRuns` to the versions their units' processes run. A migration is then invisible, or drops the spare version.

## 4. The runs

All runs explore their instance completely, and pass. What is interchangeable - requests and
threads of the gate, messages and copies of an operation, calls that start a scan, ambulo's
requests - is a symmetry in the runs that check no liveness. Deadlock is checked but where the
system may come to rest: `EgressGateway` when every connection is closed, `NodeOperations` when every
operation was heard of and every message acked, `OobCallbacks` when every scan is done, `McpScans` after
the next session has recovered, `AmbuloScans` and `VoyageScans` when every request is over. The type
invariants are not among the properties of the runs, since they are proved for every instance;
TLC checked each of them on these instances before the proof was written.

| Run | Question | What it shows |
|---|---|---|
| `egress_safety` | one op, a job, the select loop and the poll, two changes, one drop | `KnowsItIsBehind`: a revision announced by number is installed, being fetched, or marked; `ExpectationHonoured`: what was announced when a task asks is what it works with; `InstallsInOrder`; `OpsDoNotHammer` |
| `egress_live` | a .cfx job, Bench sends, announcements with and without a revision, lost ones, failing fetches, a credential refresh | `OldOnlyWhileReplaced`: nothing goes out on settings known to be old except in the window between two writes; the node catches up (`CatchesUp`), and stops direct work (`NoDirectWorkOutlivesASwitch`). A Bench send decides as an operation does (`fresh`), and a job is stopped as one is (`while_direct`) |
| `gate` | two requests, a deadline, clients that hang up, two threads that resolve, drain, switch and shut down | `NothingUnseenWhileOn`; every hold has exactly one sender (`EveryHoldHasOneSender`); a shutdown ends every hold (`ShutdownEndsEveryHold`) |
| `ops_safety` | one op in two messages, either delivery mode, a crash anywhere, halt and resume, another node that claims | `AckedIsAccountedFor`, `OnlyTheOwnerWorks`, `HaltedStaysQueued`, `Throttled`, `PushedIsFreeToRun` |
| `ops_live` | crash, loss, full buffer, redelivery, an unknown type | `EveryOpIsHeardOf` |
| `gateway` | a lease with `block_internal` over SOCKS4 and one without, two connections for one slot, four addresses | `SlotsAddUp`, `OnlyVettedGoesOn`, `EachCountsOnce`; a dropped lease closes what it had (`EndedIsCut`) |
| `ambulo` | two scans, adaptive streams or one-off, two workers each, a failing statement, a crash, the sweep | `OneWorkerPerEntry`; a stream that says "done" has tried every word it fetched (`StreamIsExhausted`); a parked worker can go on or end (`ParkedCanEnd`) |
| `voyage` | two enumerations of one row, from scratch or not, adaptive or not, workers that cannot be built, a failing statement, a lost answer or a panic, a crash | `DoneIsExhausted`; a result is lost only to a fresh start or a second claim (`ResumeKeepsResults`); scans end, also those that resume, unless an entry stays claimed or the pool is without the worker that leads it (`ScansEnd`) |
| `mcp` | one scan, and a call of `cancel_scan`, the call's own cancellation, the shutdown, a crash and the next session all ending it | `ImplementsRecord`; `CancelledWasAsked`: a shutdown is never taken for a cancellation; `CancelIsFinal`; `EndingCountsAll`; `RecordedEnds`, whatever the engine does |
| `mcp_caps` | two calls that start a scan where one may run, the question, cancellation, shutdown, crash | `NeverTooMany`, `AuditedOnce` |
| `installs` | any commands one after the other on any of the four machines, one cut, one failing step | The two units of an engine never run together (`NeverTogether`); a command that was neither cut nor failed leaves running what ran (`EndsAsItRan`); the whole is one engine that never gets older and runs what is installed (`ImplementsEngine`); an update takes hold in the end (`UpdatesTakeHold`) |
| `oob` | one scan, two payloads, two attempts to register, two polls, a restart | `EveryCallbackIsAccountedFor`, `UnregisteredIsDropped`, `RegistrationsEnd` |

### Bounds

- `NodeEgress`: two changes are the fewest at which an answer, an announcement and what is
  installed can be three different revisions; one drop of the connection is enough to lose an
  announcement and to be unsure. One op and one job: ops share no state but `EgressState`, and
  the two tasks of the daemon race with it already. The proofs have no such bound.
- `LocalGate`: two requests make a queue with an order; two threads are what every race of the
  gate takes; requests are decided once, since their ids are never used again.
- `NodeOperations`: two messages for one op are a redelivery beside a re-dispatch; two copies
  race and queue at a semaphore of one permit; an outbox of one makes publishing wait; one
  crash, one halt with its resume, one loss. A second halt would tell a dispatch before it from
  one after it, which `era` does for the first. `EveryOpIsHeardOf` has one slot for messages, so
  that a re-dispatch waits for the ack of what it replaces.
- `EgressGateway`: of two connections for one slot one is turned away, and two of one lease share
  its log; two public IPv4 addresses are the fewest that are retried, and with `MaxAddresses` 2
  and one more IPv4 address refused as internal, one IPv6 that SOCKS4 cannot carry, every verdict
  of `vetted` occurs; a list of one destination is full at once.
- `OobCallbacks`: two attempts are a registration whose answer is lost and one that takes its place,
  or finds none under `MaxRegs` 1; two payloads tell the one that called back from the other; `Cap` 2
  with four callbacks overflows; two polls are an answer that is lost and one that comes after it.
  Scans share only the ceiling, which an orphaned registration takes from the same scan too.
- `McpScans`: one job and one `cancel_scan` are three stoppers beside the pump, the shutdown being the
  third; one finding is counted or not; one heartbeat writes an old copy. Under caps, two calls for
  one place is where the check and the record come apart. `MaxStarts` 2 keeps the hourly cap
  from hiding the other one.
- `AmbuloScans`, `VoyageScans`: two requests race for a row, two workers for an entry, of which the first
  never parks; ambulo's two words make a wordlist that is half stored, voyage's names are inserted
  one statement each and one is enough for a race on it. One failing statement and one crash reach
  every branch; the proofs have no bound on either.
- `EngineInstalls`: two releases make an installed version old; commands are not bounded, so that every
  sequence of them is explored from each machine. One cut, at any step, and one failing step, at any that
  may fail, in either order: what either leaves behind is what any later command starts from. One
  session: two of them exclude each other nowhere (section 6).

### Fairness

- `NodeEgress`: tasks that can go on do (tokio schedules every ready task); the lock is tokio's
  fair mutex, so a task that waits gets it among others that come back (strong fairness of
  `Lock`); the connection comes back; `keep_current`'s timer fires; and of the polls one is
  answered in the end (strong fairness of the answer), without which no node could catch up.
- `LocalGate`: flows and calls that can go on do. Nothing is assumed of the operator or of the
  deadline.
- `NodeOperations`: copies go on - an engine's stream comes to an end, a request is answered or
  fails; the queue redelivers what is not acked and, when it may deliver again and again, does;
  the client writes its buffer; a platform with nothing under way for an operation it has not
  heard of dispatches it again. The last one is what resume-pending and the platform's own
  sweep do, and is an assumption about code outside the repository.
- `EgressGateway`: the deadlines of the code come - of the SOCKS exchange (`GivesUp`), of the
  resolver (`Resolve`), of the dial (`UpstreamFails`) -, a drop that was begun is finished, and a
  task woken by the end of its lease runs (`Cut`). A tunnel in use need not end, and no lease
  need be dropped.
- `OobCallbacks`: the scan goes on, since its requests have deadlines; a call the server has begun is
  finished; a registration's time comes; the collector's timer fires. No request need arrive.
- `McpScans`: tasks go on, the time limit of a scan comes, a stop that was begun is carried on. The
  engine need do nothing, ever. A question is answered or dismissed, on which no property depends.
- `VoyageScans`: tasks go on: the database answers or fails, a probe ends in its timeout. Requests need
  not come, the controller need not move the target, and nothing says that a crash does not come.
- `EngineInstalls`: a command that was begun goes on until it is cut. No command need be given; the
  property says what is so where updates are tried again and again.

## 5. What is proved

Each theorem is `Spec => []Inv`, or of an action property or a refinement, for every value of the
constants that the module's `ASSUME`s allow: any number of operations, jobs, requests, threads,
workers, words, any revisions and any bounds on failures. `PROJECT.json` lists them.

- `NodeEgressProofs`: `TypeCorrect`. `FetchesExclude`: whoever is between `Lock` and release is
  the holder of `refreshing`. `InstalledInOrder` needs more than that: an answer in flight is at
  least as new as `current` (`AnswersAreNewer`, because the platform's revision grows and only
  the holder of the lock installs), unless a credential refresh wrote past the lock
  (`OnlyReauthorizing`); together `OrderInv`. `NeverForgets` and `OldOnlyInTheWindow` are parts of
  one inductive invariant, `MemoryInv`, on top of `OrderInv`: a mark is never lowered, an answer
  clears it only if it is at least as new, and the window in which `stale` is cleared and
  `current` not yet set belongs to the holder of the lock, whose answer is what was announced.
  `LeavesAsDispatched` by `ExpectInv`, which adds that a .cfx job expects nothing: a task sends only from
  the decision on what it has just read (`GoOutHonours`), and neither is touched while it sends.
  `FailuresHoldBack` from `FetchesExclude`: who notes a failure has the lock, so nobody else is asking.
- `LocalGateProofs`: `TypeCorrect`. `NothingSlipsIn`: `GateNotHoldingIsEmpty` is inductive with the
  types. `HoldsCanEnd` and `DecidedIsGone` follow from `SenderInv`: a request's sender is in
  exactly one of the queue and one call's batch, as long as nothing was sent. The lemmas on
  removing an element from a sequence are proved there, since the library has none.
  `NothingUnseen` adds `SwitchInv`: whatever a switch's drain or batch holds, arrived while the gate was
  off or being switched off, or has no flow any more.
- `NodeOperationsProofs`: `TypeCorrect`, whose invariant adds that whatever refers to a slot of a
  message - a copy, an ack, a command - refers to one that names an operation. `QueuedStaysHalted`:
  the copies a halt caught in the queue of the semaphore stay before the look at the halt, and the
  halt is in force as long as there are any (`HaltInv`). `OwnerWorks`: a slot with a copy at it is
  not dispatched again and an owner is not replaced, so a claim outlives the work (`OwnerInv`).
  `NoMoreThanTasks`: free permits and copies that hold one add up to `Tasks` (`PermitInv`), which
  needs that what waits for a permit is of a type that takes one. `NothingIsLost` by `AccountInv`: a
  message that is acked is accounted for, an ack in the client's buffer has its operation's report ahead of
  it there or is accounted for already, and so has a copy that is about to ack; the order of the
  buffer is what makes the fate of a message at the server inductive. `PushedRunsOnResume` by `EraInv`: a halt
  that is in force, or on its way, at a node whose workflow runs has its resume behind it
  (`ResumeFollows`), and what was dispatched since was sent after both (`PushedInv`). `Steps`, `WorldMovesNone` and
  `OthersStay` say once which steps move which copies, and the proofs share them.
- `EgressGatewayProofs`: `Step` says in a few lines what any step of `serve` may change,
  `ServeStep` that each of its actions is one, and the proofs use nothing else of them.
  `TypeCorrect` and `InternalIsOutOfReach` come from `ServeInv`: a connection past its request has
  a lease and a destination (`Assigned`), and under `block_internal` what is dialled and what is
  left to dial is public, which is why what was asked for is (`PublicOnly`). `SlotsComeBack` counts
  held connections. `CountedOnce` needs of the list that a destination that is missing though
  there is room had no connection (`RoomIsForNew`).
- `HostProofs`, callbacks: `TypeCorrect` carries the limits of the store. `CallbacksAreProof` by `Genuine`: a
  payload on any of the places between a callback and a finding was called back for, under the id
  of its scan. `NoneIsLost` by `Accounted`, which follows a callback from one place to the next, and needs
  that a scan whose answer is out has none yet. `UnregisteredIsNotKept` by `Dropped`: whoever is between
  the two sections of a capture has an id that is registered or was overtaken.
- `AmbuloScansProofs`: `OneAtATime` by `ClaimInv`: an entry is inserted once, by its own request, and one in
  hand stays claimed unless its row is deleted. `Exhausted` by `RowInv`, that a stream's row and
  entries are its own, and `StreamInv`, which says at each statement of a stream what it has inserted
  and, of a pool, that a queued entry has a worker that will look again. `NoneIsStranded` by the
  part of it on adaptive pools.
- `VoyageScansProofs`: `ResultsAreKept`, a property of steps, from the types. `Exhausted` by `QueuedIsSeen` and
  `ClaimedIsHeld`: a queued entry has a request that has still to look or a worker that will look
  again (`Looks`), and a claimed one is in somebody's hands or is about to be reset. That a step takes nobody
else's look away needs that a worker which looks at whether others are at work found nothing queued before.
- `McpScansProofs`: `TypeCorrect` has the audit lines, the counts and the places of a pump before it
  is spawned (`Audit`, `Counts`, `Early`); `OneLineEach` and `EndingsCount` follow. `JobInv` says what file, memory and
  pump have to do with each other, for a job that nobody missed; `StopInv` what a stopper may rely
  on at each of its places; `Story` is both with the types, and gives `OnlyAskedIsCancelled` and `CancelsAreFinal`. For
  the `Refinement` each action moves at most one job along `ScanRecord` (`BarStep`), and `Recover` any number at
  once. `LimitOfScans` by `LockInv`: only the holder of `scan_start` is between the look at the caps and the
  record, so that what is counted can only shrink behind its back.

- `HostProofs`, installs: `InstallsTypeCorrect` is for any number of sessions. The others suppose
  `OneSession`: commands are given one after the other. Without that they are false, as TLC shows with two
  elements in `Sessions` (section 6). `InstalledInv` has one part for the machine, `MachineInv` (what is
  under a name is whole, a unit's process is what the unit's name holds, both units work only where a
  migration gave up), and one for each kind of command, which says at each of its places what it knows of
  the machine: `MigrationInv`, `InstallInv`, `RemovalInv`, and `RunInv`, why an engine that ran will run
  again. `Kill` and `Reboot` need the machine's part alone, which is why it must hold at every place.
  `WhatRunsIsThere` and `OneUnitRuns` follow; `CommandsLeaveItRunning` is of the step that ends a command.
  `OneEngine`, the refinement, adds `ReleaseInv`: what is there was released, and what a command fetched is
  not older than what is installed until it has placed it, since only a fetch makes a command hold a version
  (`OnlyFetchHolds`). Five steps touch the binaries or the releases, and each has a lemma of its own; every
  other one can only start and stop processes (`Turns`).
  Callbacks and installs share a module, since they have nothing else in common with the rest.

Only model-checked: the liveness properties, `CatchesUp`, `NoDirectWorkOutlivesASwitch`,
`ShutdownEndsEveryHold`, `EveryOpIsHeardOf`, `EndedIsCut`, `ScansEnd`, `RecordedEnds`, `RegistrationsEnd` and
`UpdatesTakeHold`: neither ENABLED nor fairness is in the prover's reach. In the other direction
`GateNotHoldingIsEmpty`, `FoundCalledBack` and `RunsWhatIsThere` are proved and not among the properties of a
run; the last one says of the files what `ImplementsEngine` says of the engine.

## 6. Where the code does less than one would like

The models have the following behaviours, because the code has them. Where a property would
forbid one, the property excuses exactly this case, and says so; a comment or a document that
says otherwise is quoted here.

Egress. An announcement that says nothing of its revision is remembered in `stale` only, and an
answer that was on its way before it clears `stale` (`state.rs:385`), though the comment has the node
"behind" until it fetched (`state.rs:356`, `state.rs:367`). A Bench send can read two fields of
`EgressState` between their writes, and leave directly although the node was told to use a proxy.
`apply_authorize` writes past the lock (`state.rs:310`), so that an older answer can overwrite a newer
one. A connection of a lease that is still being opened when the summary is published is in no
summary (`gateway.rs:664`).

Gate. One that is switched on again between the two sections of a switch off (`gate.rs:203`) forwards what
arrives in between, although it is on. An arrival can be missed between `Check` and `Register`, since
`notify_waiters` keeps no permit (`gate.rs:159`). A client that hangs up leaves its row in the queue the
operator sees (`gate.rs:263`).

Node operations. An operation that the platform dispatches after a resume can reach the node before
the resume does, when the one comes over the work queue and the other over the command subject:
it is dropped as halted and acked (`lib.rs:362`; the comment at `lib.rs:138` says that what a pause dropped is free to run on resume).
A claim whose answer breaks off in its body is taken for a lost one (`lib.rs:442`), though the
comment at `lib.rs:424` has a failed claim tried again: the node drops in silence what it owns. An
operation that runs for longer than `ack_wait` runs in two copies, and one that is parked for that
long is held twice though it counts once against `max_ack_pending` (`lib.rs:2646`). A direct operation stopped
at its last await is marked done (`ops/mod.rs:327`); an engine that died counts as one that
finished (`network_scan.rs:394`); an unknown type is acked in silence (`lib.rs:624`); halted workflows are
forgotten with the process (`lib.rs:90`); a semaphore keeps its first size (`lib.rs:169`). Two copies of one
content discovery share a hand-off file (`content_discovery.rs:211`), which the model leaves out.

ambulo. A resumed scan does not try again what a dead daemon had claimed: entries are 'scanning', and
the reset asks for 'processing' (`ambulo_db.rs:979`), which nothing sets; the README says that an
interrupted scan resumes (`README.md:96`). A wordlist's row is there before its words, so a scan that comes
while they are stored, or after their storing failed, takes what there is for all. Entries that an
adaptive worker queues again late are left when the workers above the target have ended.

voyage. An entry whose record failed, and whose requeue failed too, stays claimed, and keeps the
workers of its row waiting until the daemon ends. A resume takes away what another request's
workers are at, and it is tried twice. A scan none of whose workers can build its resolver or its client (an
unusable `dns_server` is enough: `scanner.rs:244` and `493`, and `libs/dns.rs:85` tests that it is an error) logs
that, and then says "done" and is stored as completed with every name queued; so does one asked for with
`tasks` 0 (`scanner.rs:188`), and one whose last worker panics (`scanner.rs:198`). When only the first worker of an
adaptive pool ends so, the others are parked for good: the target starts at 1 and moves only with what is
measured (`adaptive/src/rate.rs:181`), and nobody sets `drained`. `DoneIsExhausted` and `ScansEnd` except these.
An entry whose worker panicked, or the answer to whose claim was lost, stays claimed until a scan resumes.

MCP. Whoever ends a scan takes the handle of its pump first. When that handle is not stored yet
(`inject.rs:458` makes the job known, the handle comes at `inject.rs:468`), or somebody else has it and is still aborting
(`core.rs:1119`), the second one goes on without it: both write the file, and it can say "cancelled" and
later "completed". `ImplementsRecord` calls such a job unsure.

Installer. A migration whose move fails puts the old unit back, and one that may not write leaves it;
the install that called it goes on, or the node's ports are set, and the public unit is registered
beside it, so that both can run: what `install.rs:757` means to prevent (an engine "would otherwise end up
with a second unit on its port"). A removal that is cut between the two binaries of a machine with both leaves
the public name's version file, which "describes the binary there and wins" (`migrate.rs:253`): the
next migration moves the other binary beside it, and updates pass over it as current. A command that is cut
between the version file and the start leaves the engine stopped, and the next update finds nothing to do;
an install whose copy fails has stopped the engine, and leaves it so. `remove` leaves the settings of a unit
since "a reinstall wants them back" (`uninstall.rs:84`), but under the name they have: those of a
legacy unit are under a name that the reinstalled engine does not read. Two sessions, the CLI and the daemon
of the node, share the path `<name>.new` and each other's units without a lock: with two elements in
`Sessions` TLC finds `RunsWhatIsThere` and `NeverTogether` violated, a binary that is half a copy among others, and an older
release placed over a newer one by the session that fetched its manifest first.

Callbacks. A capture that read the key of an id, and stores after the id was given back or collected,
leaves something that nothing collects until the server restarts. A callback that was taken by a
poll whose answer is lost is gone.

## 7. What is not modelled

Most of the repository is detection logic, parsers, codecs, I/O and user interfaces: code whose
difficulty is in strings, bytes and the behaviour of other programs, and which has no state that
interleaves. Translating it would say nothing that its tests do not say; so the modules cover
a small share of the lines, and most of what runs concurrently. `PROJECT.json` gives each component's
reason. The adaptive rate and doorward's governor are arithmetic on measured times, in floating
point; the models allow every outcome of it (`Tick`). The supervisor and the rest of the installer are
sequential, and their faults are those of file systems and service managers.

Data races in the sense of the language do not occur: what is modelled uses no `unsafe`, and its
memory is shared through locks, atomics and channels.
