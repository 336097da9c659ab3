# Lumio OS: specifications, model checking and proofs

Lumio is a desktop in the browser for one Linux machine: a React shell talks to a
gateway, the gateway to one agent process per logged-in user, and everything that needs
root goes through a broker. This directory holds TLA+ modules of the parts whose
correctness depends on the order of things: who acts between a check and an effect, what
a crash leaves behind, what a timer does to a change that was confirmed meanwhile.

Paths below are relative to the repository root. `PROJECT.json` maps every definition to
its lines and lists runs, mutants, hazards and theorems in machine-readable form.

## 1. The system

    browser ── HTTPS/WS ── gateway ── unix ── agent (one per user) ── unix ── broker (root)
                              │                 │  PTYs, files,                 │ SQLite audit
                              └── unix ── sessiond (root)  services, journal    ├ polkit, systemd
                                    PAM, sessions, spawns agents                ├ package worker
                                                                                └ Netplan (D-Bus)

| part | code | state it keeps | operations |
|---|---|---|---|
| broker | `server/internal/broker` | audit table (SQLite, survives), unit locks, executors | `POST /action`: validate, replay, authorize, lock, precondition, begin row, execute, verify, end row |
| package worker | `server/internal/updates` | plan, progress per request, `opMu` | refresh, plan, StartApply, progress |
| network controller | `server/internal/network` | the pending change, its timer, a mutex | Apply, Confirm, expire |
| terminal sessions | `server/internal/terminal`, `wsapi/channels.go` | session map, per session: attached, gen, scrollback, grace timer | Open, Attach, detach, readLoop, waitLoop, runTerminal |
| session daemon | `server/internal/sessiond` | sessions, agents, per-agent dead flag, all in memory | login, logout, validate, reauth, session check, spawn, reap |
| agent process | `server/cmd/lumiod/agent.go` | open sockets, PTYs, idle ticker | serve, report state, exit when idle |
| gateway | `server/internal/gateway` | login limiter; no sessions of its own | login, logout, proxy REST and WebSocket |
| WebSocket server | `server/internal/wsapi` | channels by id, seq per channel, send queue, missed pongs | subscribe, unsubscribe, ping, close |
| browser socket | `src/api/ws.ts` | subscriptions, expected seq, reconnect timer | connect, resubscribe on a gap |
| agent REST server | `server/internal/httpapi` | idempotency store | handlers, mutate |
| user and protected files | `server/internal/files`, `privfiles` | per-path locks; the file system | Write, Trash, Restore, Writer.Write |
| service feed | `server/internal/services` | subscribers with bounded queues | List, Watch, publish |
| metrics, journal, identity, PAM, static files, IPC, browser views, mock data | rest | none that outlives a request, or view state | – |

How they interact, and where it is hard:

* **Calls with deadlines.** Every arrow is HTTP over a Unix socket or D-Bus with a
  deadline. A call may take effect and its answer be lost; the caller repeats it with the
  same `requestId`. Correctness is the broker's replay (`audit.go: StoredResult`).
* **Goroutines and locks.** Handlers run concurrently; the locks are per unit (broker),
  one per controller (network), one per session (terminal), one per daemon (sessiond).
  Most mistakes would be between two critical sections of one handler.
* **Crashes.** systemd restarts every daemon. Only the audit table, files and the state of
  systemd, Netplan and APT survive; nothing is reconciled on start.
* **Timers.** The dead-man switch has two, Netplan's and the controller's. A terminal has
  a grace timer per detach. `time.Timer.Stop` does not recall a callback that has begun.
* **Callbacks and streams.** A PTY goes on printing while clients attach and detach.

* **Bounded queues.** A WebSocket has one send queue for all its channels, a subscriber of
  the service feed a queue of its own. Who may wait, who drops, and who finds out that the
  peer is gone while everybody waits decides whether goroutines end.
* **A disk that others use.** User files, protected files and other programs' writes meet in
  the file system, where a lock in one process means nothing to the others.

What makes each part correct, in a line: the broker executes a request once and reports
one result for it, with a record of everything done; the network controller never leaves
a configuration in force that nobody confirmed; a terminal client sees the scrollback and
then every chunk once; a user has one agent, and every call to sessiond is answered; the
page's subscriptions survive the loss of a socket without a gap; one package operation runs
at a time, and each accepted one ends with one result; a save replaces the revision it was
made from and nothing else; a list of services on the screen becomes what systemd says; and
a privileged action is accepted only with a fresh proof of the password.

## 2. Modules

| module | models | abstract specification | run | proofs |
|---|---|---|---|---|
| `Broker` | `internal/broker`, StartApply and the apply goroutine of `internal/updates` | `IdempotentAction` | `broker_*` | `BrokerProofs` |
| `NetworkController` | `internal/network` and Netplan as it uses it | `DeadManSwitch` | `network_*` | `NetworkProofs` |
| `Terminal` | `internal/terminal`, the terminal channels of `internal/wsapi` | – | `terminal_session` | `TerminalProofs` |
| `Sessiond` | `internal/sessiond`, `cmd/lumiod/agent.go`, the gateway's session calls | – | `sessiond_*` | `SessionProofs` |
| `WsConnection` | one connection of `internal/wsapi` and its channels, against any client | – | through `LumioSocket` | `WsProofs` |
| `LumioSocket` | `src/api/ws.ts` and `WsConnection` together | `WsConnection` | `ws_browser` | `WsProofs` |
| `UpdatesWorker` | `internal/updates`, the progress channel | – | `updates_worker` | `UpdatesProofs` |
| `ProtectedFiles` | `internal/privfiles` | – | through `UserFiles` | `FilesProofs` |
| `UserFiles` | `files/write.go`, `files/trash.go`, `httpapi`'s mutate, on `ProtectedFiles`' disk | – | `files_writers` | `FilesProofs` |
| `ServiceFeed` | `internal/services`, `runServices`, the client's merging | – | `service_feed` | `FeedProofs` |
| `Gateway` | `gateway/limiter.go`, handleLogin, re-authentication, the broker's freshness check | – | `gateway_login` | `SessionProofs` |

The `MC*` modules give the constants values and contain nothing else. Operators whose
comment says "Mutant of X" are X with a plausible mistake; no specification uses them. They
document which mistake each property excludes.

### Broker

A call is a record of constants (its requestId, the kind of its executor, the systemd
operation, unit and expected state), and `phase[c]` is the place of its goroutine in
`handleAction`. `audit` is the table in id order, `holder` the map `unitLocks`,
`progress` the worker's map. `unit` and `job` are systemd: an accepted job runs later, and
a job with mode "replace" supersedes one that waits. `Crash` keeps `audit`, `unit`, `job`
and drops the rest. `effects` and `reply` are history.

Three executor kinds keep the control of all actions: `service` (lock, precondition, poll),
`direct` (protected files, network, power, refresh, plan: called without a lock; a file
write may restart a unit, also without the unit's lock) and `apply` (answered at once, the
worker writes the end row). Left out: syntax of arguments (valid or 400), the wording of
errors, the authorization rules inside polkit (allowed, denied, unavailable).

### NetworkController

A configuration is the set of changes merged into it, its revision is the set itself.
`disk` is what a new Netplan `Config` object reads, `try` Netplan's running trial with the
fallback it took, `pending`/`over`/`timer` are the controller's, `mu` says who is inside
the mutex and before which D-Bus call. Netplan's timer and a crash do not wait for the
mutex, so every D-Bus call is a step. `agreed` is history: what the client last confirmed.
Netplan is external and modelled from its use: one Try at a time, Cancel and the timer
revert to what Try found, Apply commits and ends the Try.

### Terminal

One session, since sessions share only the manager's map (`listed`). `reader` and `waiter`
are `readLoop` and `waitLoop`, `pc[c]` is the place of client c in `runTerminal`. Every
critical section of `Session.mu` is a step: `detach` has two of them (`Detach`,
`ArmGrace`) and the others interleave. Output is counted in chunks, one per read of the
PTY; the scrollback keeps the last `Scrollback` of them. `queue[c]` is the Events channel,
`kill[c].arg` the value that the deferred `Detach(id, kill)` was given when it was
deferred. `got[c]` is history: what c was sent and where its stream must begin.

A client is one life of one channel. Coming back after a drop is another client.

### Sessiond

A login is named once: `l` is the request, the token and the agent process it may spawn.
`agents` and `dead` are the daemon's view of processes, `proc` and `owner` the truth: who
runs, and who listens on `users/<uid>.sock`. `handleLogin` is five steps because
`ensureAgent` takes `d.mu` only around map operations; `handleLogout` is four, the agent's
answer to `/agent/state` and the SIGTERM among them. `stuck` is `d.mu` held by a goroutine
that panicked: `handleLogout` locks without `defer`. `Restart` follows the unit file
(`docker/lumiod-sessiond.service`): systemd ends the control group, agents included.

### WsConnection and LumioSocket

`conn` is a connection's life (`c.done` closed or not), `inbox` and `send` the frames on
their way, `send` bounded as `conn.send` is, with `tryEnqueue` and `enqueue` apart. `table`
is `conn.channels`; `run[s]` the goroutine of a channel, `stopped` the cancelled contexts,
`seq[s]` its counter. `reader` and `pinger` are readLoop and pingLoop, each with the frame
it wants to queue: waiting for room is a place to be. `closeChannel` is two steps
(`CloseChannel` queues, `RemoveChannel` takes the id out), because the queue may be full in
between. An input frame is modelled by the time it takes: `ReadInput` puts the reader into the
write to a shell, where it reads nothing, no pong either, until `InputDone`. The client is
anybody who uses an id once per connection.

`LumioSocket` adds the browser: `sock`, `timer`, `channels`, `lastSeq` as in the class,
`life` for the part of the page that holds a subscription. The browser takes frames from
`send` and puts frames into `inbox`. There is one connection in the model: the goroutines an
earlier one has left share nothing with the next and are dropped when it opens (`Accept`);
`DeadConnectionEnds` speaks of them as long as the browser has not come back.
`ImplementsConnection` says that everything the pair does is behaviour of `WsConnection`,
so that module's theorems hold with the real browser on the other side.

### UpdatesWorker

`opMu`, `plans` and `progress` are the worker's; `query` is the Refresh or CalculatePlan
that holds `opMu`, `job[r]` the goroutine of `apply`, `call[c]` the broker's StartApply.
The clock is read before `mu` is taken, so calls and queries carry the time they read.
Entries are pruned when a plan is stored. `watch` is runUpdateProgress. `UpdatedAt` appears
twice, as the order of reports and as the hour that retention counts. apt is external: it
succeeds, fails, or is ended by its context.

### ProtectedFiles and UserFiles

`disk[p]` is a whole content or `Missing`: both writers rename complete temporary files into
place. A revision is the content it is the hash of. `save[s]` is a call of Writer.Write,
`call[c]` one of `files/write` or `files/delete` inside mutate, `lock` the lock table, `idem`
the store of answers, `trash` and `info` the two directories of the trash. `NameOf[<<p, k>>]`
is the k-th name that `uniqueTrashName` tries for p; different paths may share names, as
`x/a` and `y/a` do, or `a.1` and the second `a`. `Elsewhere` is any program without locks.
`raced` is history: whose check has been overtaken by somebody who does not hold the same
lock (`Overtaken` for trash names). The agent and the broker die separately.

### ServiceFeed

A unit is a record of fields or `Gone`, and everything is kept field by field, as the code
does: a difference has the fields that changed (`Diff`), a signal some of those a signal may
have (`Field \ Queried`), and whoever gets one merges it into what he has (`Merge`). `Empty` in a
difference says nothing, because `omitempty` leaves an empty field out; so "has become empty"
is never sent. A list asks for the `Queried` fields unit by unit, and each call may fail and
read as empty (`Lists`).

`actual` is systemd; `known` is `Manager.state`, `todo` the differences of one list or
signal that are still to be published; `queue` and `members` are the change broker, `closed`
its closed channels. `sub[s].view` is what the client shows, `Fallback` what it takes a unit for
that it has not heard of. `missed[s]` is history: the places, a field of a unit each, whose last
difference passed s by. A later difference of another field takes nothing out of it. It is
where the feed's promise ends, see section 4.

### Gateway

`failed` is the limiter; its delay is computed in `Width` bits with a sign, in units of
`Second`, as `limiter.go:51` does in 64, so that it may run over (`Signed`, `Delay`).
`attempt[l]` is a handleLogin on its way through limiter, session daemon and limiter again,
where the answer may be lost although the session exists. `sess` and `until` are sessiond's
session and its `ReauthUntil`, `reauth[r]` is handleReauth with the session it looked up,
`action[a]` a privileged action from the gateway's check to the broker's comparison with the
clock. The unlocked write of `ReauthUntil` is a step during which a reader gets any time
(`Readable`).

## 3. What is checked

Sizes are distinct states. All runs are exhaustive within their bounds.

| run | checks | states | shows |
|---|---|---|---|
| `broker_patient` | `RepliesAgree`, `AuditCoversEffects`, `OpenRowsAreEvidence`, `LockHeldWhileCritical`, `ImplementsIdempotentAction`, `EveryCallAnswered` | 21,702 | If a client waits for its answer (or for the crash) before it repeats a requestId and no INSERT fails, the pipeline is idempotent, crashes at every step included, and every call ends |
| `broker_overlap` | `AppliedOnce` | 563,700 | With impatient clients, crashes and failing INSERTs a package apply still runs once |
| `network_faults` | `UnconfirmedNeverStays`, `ImplementsFairDeadManSwitch` | 15,525 | Failing D-Bus calls, a lost answer of Try and crashes anywhere: the controller with Netplan is a dead-man switch, and every trial ends |
| `network_pending` | `RollbackTargetIsAgreed`, `NeverDroppedEarly`, `ForgottenOnlyWhenBack`, `PendingResolves` | 14,673 | Within one life of the broker, with failing calls and lost answers of Confirm: the rollback target is the confirmed configuration, late timers harm no later change, and a pending change is resolved unless Netplan kept it and the answer was lost |
| `terminal_session` | `NoGapWhileRunning`, `ListedWhileAlive`, `ExitedIsRemoved`, `UnattendedIsKilled`, `ReaderIsFreed` | 255,928 | Two clients, exit, unsubscribe and drops at any point: streams are complete, the session is neither lost nor leaked, nobody blocks |
| `sessiond_agents` | `OneAgentPerUser`, `RegisteredListens`, `EveryCallAnswered` | 15,044 | Logins one after the other, with logouts, idle exits, agent crashes, late reaping and restarts of the daemon |
| `sessiond_logout` | `EveryCallAnswered`, violated | | A late logout takes `d.mu` with it (section 4) |
| `ws_browser` | `SocketInv`, `NothingMissed`, `AgreeAtRest`, `ImplementsConnection`, `DeadConnectionEnds`, `Resubscribed` | 299,179 | Browser and agent over a socket that breaks or falls silent: no event is missed, no subscription stranded, both ends agree at rest, and a dead connection ends with its goroutines although the queue is full or the reader is in a write |
| `updates_worker` | `InstalledOnce`, `JobKeepsItsReport`, `ResultIsKept`, `AcceptedEnds` | 360,765 | Repeated requests, expiry, pruning and a crash: one installation per request and plan, results kept for their hour, and what was accepted ends |
| `files_writers` | `WrittenOnce`, `SuccessIsTrue`, `NoLostUpdate`, `RollbackFirst`, `TrashIsKept` | 2,026,771 | A write and a delete, both sent twice, protected saves of one revision, deletes of two files of one name, an outside program and crashes |
| `service_feed` | `FeedInv`, `ViewCatchesUp` | 1,019,751 | Two fields, changes with and without signals, a full queue, failing lists, a bus that goes, a channel that comes late: where no difference has passed a client by, it sees what systemd says in the end |
| `gateway_login` | `FreshMeansProved`, `BlockGrowsWhileItFits` | 6,198,737 | Four logins in flight together, up to the failure whose delay runs over; proofs of two sessions, logouts, a restart of sessiond, an action of one session |

What a theorem says for every instance is not repeated here: the type invariants, the
exclusion of two service actions on a unit, `OneOperation`, `LockIsHeld`, `TableIsExact`,
`Gapless` and others are proved (section 5) and stand in no cfg. `SocketInv` and `FeedInv`
have the type invariants of their modules in them. Of what the table lists the invariants,
the action properties and the safety part of the refinements are theorems as well.

The properties read as comments in the modules; each has a mutant in `PROJECT.json` that
breaks it.

### Bounds, and why they are enough

* **Broker:** three calls, two requestIds, one unit. A race on a requestId needs two calls;
  a third of another request on the same unit meets both in the lock. Units share nothing,
  so a second one would only multiply states. In `broker_patient` c1 insists on an active
  unit, c2 repeats c1, c3 stops the unit: preconditions hold, fail, and change between.
  `broker_overlap` has two applies of one request beside a file write with restart. Each call happens
  once, so `audit` needs no bound: at most two rows per call.
* **Network:** three Apply calls, two changes, a3 repeating a1's. Two calls show one change
  against the next; the third comes when the first's callback is still on its way.
* **Terminal:** two clients, two chunks, a scrollback of one and a channel of one, so the
  scrollback overflows, the channel fills and readLoop blocks. The proofs need no bound.
* **Sessiond:** two logins of one user for the races on the agent, one login each of two
  users for the logout of an unknown token.
* **WebSocket:** two subscriptions, one that drops samples (metrics) and one whose source
  can end, two events each, a send queue of two, one missed pong, one fault. Two channels
  are what it takes for one to fill the queue of the other; with two slots a frame of each
  kind can be in front of another; one fault is a reconnect, and the second connection
  meets everything the first left behind. A write to a shell that blocks comes before the first
  event (`QuietInput`); the queue fills with answers and pings meanwhile.
* **Updates:** three calls, c1 and c2 one request, c3 another for a plan with nothing to
  install; two plans, one watcher, a lifetime and a retention of one tick, a clock of two,
  one crash. Every entry can expire, be pruned and be asked for again.
* **Files:** one crash, one outside change, three names in the trash, and one of three crowds
  (the constraint `Together` of `MCFiles`): a save sent twice, a delete sent twice and a protected
  save; two protected saves of one revision with a write and a delete; two deletes of a, which
  the outside program may put back between them, beside one of b, of the same name in another
  directory. The outside program does not put the old content back, which `WrittenOnce` needs. A collision
  takes two paths, and a third would meet the same name in the same way.
* **Service feed:** one unit, an active state, which signals have, and an enabled one, which
  is asked for, two values and the empty one for each, queues of one. Either one channel and three
  changes: one to be dropped, one to be delivered after it in the other field, one to come
  back; or a second channel beside the first and one change, which is what a baseline taken
  for somebody else needs (the constraint `OneOrLate`). Units are treated alike and share
  only the queue's room. The theorem needs no bound.
* **Gateway:** four logins of one name, a threshold of two, a longest block of three ticks, four
  bits, in which the third failure's delay is capped and the fourth's runs over; all four may
  be let through before the first fails. Or (the constraint `Apart`) two logins beside two proofs of
  one session, one of another and an action, a window of one tick, a clock of three. One
  crash of sessiond. The limiter shares nothing with the proofs but the clock and the sessions.

A constraint cuts steps off that no fairness asks for, so that every behaviour within it is a fair
behaviour of the module, and what it leaves out is in the theorems as far as they go.

`CHECK_DEADLOCK FALSE` stands where the system may stop, and the cfg says why: when every
client, subscriber or part of the page has left, or every call, each made once, is answered.
The broker's, the network's and the terminal's modules have an `Idle` step with an explicit
condition instead, so a deadlock there would be reported.

### Fairness

| formula | assumed | because |
|---|---|---|
| `Broker!FairSpec` | WF of each call's handler | goroutines are scheduled; every wait (polkit, systemd poll, worker) has a deadline; Go's mutex hands over to waiters |
| `NetworkController!FairSpec` | WF of clocks, timer callbacks, the holder of the mutex; SF of `ExpireVerified` | D-Bus calls have deadlines; expire is repeated every five seconds, and the re-read does not fail for ever |
| `Terminal!FairSpec` | WF of readLoop, waitLoop, each client's loop, timers; WF of Attach after Open | goroutines and timers run; a client that stops reading is cut off by the write deadline |
| `Sessiond!FairSpec` | WF of handlers, of an exit begun, of `cmd.Wait` | as above; clients and the idle timer are not assumed to do anything |
| `LumioSocket!FairSpec` | WF of the browser's handlers and timers, of readLoop, pingLoop and each channel's end | an event loop and goroutines run, an attempt to connect ends, a write to a dead peer meets its deadline. A write to a shell is assumed to end only once the connection is done (`InputDone /\ conn = "done"`): then the shells of its channels are left, and the grace timer kills who does not read |
| `UpdatesWorker!FairSpec` | WF of a running query, SF of each accepted apply | apt ends with its context, which excludes a process of apt's that outlives it with its standard output open (`updates.go:74` sets no `WaitDelay`, so `Wait` would wait for it, and `opMu` with it); `sync.Mutex` in starvation mode is not given to a TryLock while somebody waits |
| `ServiceFeed!FairSpec` | WF of the watch loop and of each channel, SF of the poll | the ticker fires again and again and `select` chooses among what is ready at random; not every list fails in one of its calls (`PollReads(actual)`) |

Nothing is assumed of users, shells, crashes, Netplan's answers, systemd's jobs, the
network, or the order in which subscribers come and go.

## 4. Where the code and its documents differ

Kept as a violated run: `sessiond.go:192`, `handleLogout` reads `sess.User` of a session
that may be nil, between `Lock` and `Unlock` (`sessiond_logout`; docs/PROTOCOL.md:746-748).

Differences that are in the modules, each with the property, where there is one, that fails if
a run allows it and checks it:

* `broker.go:246`: the replay lookup and the begin row are not atomic, and only package
  applies have a second barrier; two overlapping calls with one requestId execute a service
  action twice (`ExecutedOnce` without `PatientClient`; docs/ERROR_AND_RECOVERY.md:144-145).
* `limiter.go:51`: at the 36th failure, and at many later ones, the product of the delay is
  negative in 64 bits, from the 57th on it is zero; the cap looks at the other end only, and the
  name is free (`BlockedAfterThreshold`; gateway_test.go:279-281). 36 logins in flight together
  get there without waiting for a block, and so do 36 in a row, entries being removed by a
  success only. `BlockGrowsWhileItFits` speaks of the failures before.
* `channels.go:258`: an edit between a channel's snapshot and the manager's first list is in
  neither (`EditsSurface`; docs/PROTOCOL.md:535). A difference dropped at a full queue ends the
  same way, and so does a field that becomes empty, for instance because `GetUnitFileState`
  failed: the client keeps the old value until the field changes again.
* `trash.go:52`: two files of one name, or `a.1` beside the second `a`, deleted at the same
  time may choose one name in the trash, and the later rename replaces the earlier file
  (`NeverOverwritten`; trash_test.go:66-69). `TrashIsKept` says that nothing else overwrites.
* `privfiles.go:96`: two protected saves that read one revision both succeed; the first
  acknowledged content is then lost, and the second's rollback copy is of the older one
  (`SaveReplacesExpected`; docs/ERROR_AND_RECOVERY.md:125-128).
* `idempotency.go:83`: simultaneous duplicates both run, and the later answer replaces the
  earlier in the store (`RequestOnce`; docs/PROTOCOL.md:133-135). A revision check makes the
  second of two saves fail (`WrittenOnce`), and its "stale" is what is replayed then, errors being
  stored for a day like everything else. A duplicate that comes after somebody has put the
  old content back writes once more.
* `network.go:321`: when Netplan commits and the answer is lost, Confirm reports an error,
  the timer cancels an object that has no Try any more, and the change stays
  (`UnconfirmedReverts`; docs/ERROR_AND_RECOVERY.md:93-95).
* `terminal.go:123`: detach clears `attached`, unlocks, and arms the timer under the lock
  again. A client that attached in between has nothing to stop and is cut off after the
  grace period (`GraceOnlyUnattended`; docs/PROTOCOL.md:315-318).
* `agent.go:48`: only a login starts agents; docs/ERROR_AND_RECOVERY.md:109 has systemd
  restart them (`AgentComesBack`, even under `AskingSpec`, where the client keeps asking).
* `agent.go:59`: two first logins of one user at the same time spawn two agents; the model
  contains it with `MayOverlap = TRUE`.
* `audit.go:102` replays a stored failure as 500 whatever its first status was
  (docs/PRIVILEGE_MODEL.md:243 "the original"); `RepliesAgree` speaks of results, not codes.
  It also leaves out applies when the broker may die: what was answered is an acceptance,
  and the replay reports what became of it.
* `broker.go:396`: the restart after a file write takes no unit lock
  (docs/ERROR_AND_RECOVERY.md:132-133 serialises per target).
* `broker.go:411`: the job of an action whose wait timed out may run between the
  precondition check and the call of the next action (docs/PRIVILEGE_MODEL.md:239-241).
* `broker.go:470`: a duplicate applyPlan that gets past the lookup leaves a begin row
  without an end row (docs/PRIVILEGE_MODEL.md:221); `OpenRowsAreEvidence` therefore speaks
  of service actions only.
* `audit.go:61`: the error of the INSERT is ignored (docs/ERROR_AND_RECOVERY.md:62).
* `broker.go:133`: open rows are not reconciled on start (docs/ERROR_AND_RECOVERY.md:115).
* `channels.go:166`: unsubscribe does not kill the shell at once, because the argument of
  the deferred call was evaluated before; the grace timer does it later.
* `terminal.go:184`: after the exit readLoop's select may drop a chunk and deliver the next;
  `seq` counts what is sent and shows no gap (docs/ERROR_AND_RECOVERY.md:46-47).
* `agent.go:159`: SIGTERM follows an answer that may be old (docs/PROTOCOL.md:742-743).
* `conn.go:298`: removeChannel does not ask whose id it removes. A client that reuses an id
  (docs/PROTOCOL.md:224 allows it after `closed`) can lose the new channel to the old one's
  end. The browser counts its ids up, so it never does (`FreshIds`). A terminal's exit and a
  finished update call closeChannel even when unsubscribe has been there before; the client
  then gets a second `closed`, and may get an event after the first.
* `ws.ts:161`: numbers have no gaps (`Gapless`), since a dropped sample does not use up a
  number. The branch that subscribes anew after a gap is never taken.
* `updates.go`: a refresh or a plan that meets another operation is refused as busy;
  docs/ERROR_AND_RECOVERY.md:28-30 and docs/PROTOCOL.md:865 say queued. Applying a plan does not
  use it up, so another request may apply it again.
* `trash.go:52`: a crash or a full disk between the rename and the `.trashinfo` leaves a file
  that does not know where it came from, and the repetition of the request finds nothing to
  delete. `Trash` resolves a symbolic link and moves its target, `Write` replaces the link, so
  the two do not take the same lock.
* `systemd.go:271`: units that are unloaded are never published. `watch` returns for good when
  AddMatch or Subscribe fails or the bus goes, and signals older than a list step the state
  back until the next poll.
* `conn.go:252`: while a program does not read its input, the connection reads nothing, and
  its own missed pongs end it.
* `journal/cli.go`: Follow calls `cmd.Wait` while the pipe is still being read, which may
  cost the last lines of a child that ends by itself; the journal is not modelled.
* `sessiond.go:249`: one proof holds for every privileged action of the session for the
  window (docs/PRIVILEGE_MODEL.md:74 has it per group of actions, line 276 describes what is
  built). The write without the lock is a data race; `FreshMeansProved` shows that it does
  no harm.

## 5. What is proved

TLC shows the properties for the bounds above, TLAPS for every set of calls, clients and
logins, every buffer size and every switch, unless an assumption is named. A `*Proofs`
module holds one chain per component: type invariant, then a strengthening per concern.

**Broker** (`BrokerProofs`).
`TypeCorrect`; `StoredResultStays` (rows are only appended, and the first terminal row of a
requestId stays the first). `LockIsHeldWhileCritical`: the invariant pairs both directions,
whoever holds a lock is in the locked section of that unit and whoever is there holds it;
alone, neither survives a step. `UnitsAreSerialised` follows.
`AtMostOneExecution` assumes `PatientClient` (no overlap, INSERTs succeed): of the calls of
one request at most one is in flight; one that has executed is in flight, lost, or has its
end row in the table, so that the next lookup hits; and the worker's progress map covers an
apply that has been answered.
`NothingGoesUnrecorded` needs only that INSERTs succeed: `RowsInv` matches each place of the
pipeline with the rows its call must have. `OpenMeansUnfinished` adds to the patient client's
invariant that a call which is done has its end row. `AppliesRunOnce` has no assumption at
all: whatever overlaps, fails or crashes, an apply that is queued, running or done is the
worker's entry for its request, and there is no other one. `OneResultPerRequest` and
`IsIdempotent` assume the patient client; the first also that answers are results, which
they are unless an apply and a crash come together. `IsIdempotent` maps every step of the
pipeline to a step of `IdempotentAction` or to none.

**Network** (`NetworkProofs`). `TypeCorrect` for all. Under `ReliableApply` (the answer of
Confirm's Apply is not lost, see section 4) the invariant `Owned` ties the trial, the
mutex, the pending change and the timers together: `NothingUnconfirmedStays`, and
`IsADeadManSwitch`, the refinement of `DeadManSwitch` step by step. Under `OneLifetime` (no
crash, and no answer of Try lost; those of Confirm may be) the invariant `Resting` replaces
`UnconfirmedNeverStays` and the rollback target is the confirmed configuration:
`RollsBackToAgreed`, `DroppedInTime`, `ForgottenWhenBack`.

**Terminal** (`TerminalProofs`). `ControlInv`: who is between Attach and Detach is
`gen`, and nobody else (`OneClient`). `Life`: an exit that waitLoop saw with a client
attached leaves a `Remover`, a client that has still to pass detach (`ListedWhenAlive`,
`GoneWhenLeft`). `DataType` completes `TypeCorrect`. `Order`: what a client has got, the
rest of its replay, its channel and the chunk readLoop holds for it are consecutive and
end with the last chunk read, as long as done is open (`NoGap`). The property alone is not
inductive: it says nothing of the chunks still under way.

**Sessiond** (`SessionProofs`). `TypeCorrect` needs `Stages` (which processes a login at a
given place may have). Under `OneByOne` (`MayOverlap = FALSE`) the invariant `Owned` says
who may be in ensureAgent, that a living process is registered or about to be, and that the
socket path of a user without one is free: `AtMostOneAgent`, `TheRegisteredListens`.

**WebSocket** (`WsProofs`). For any client, any number of channels and any queue size.
`Channels` ties the table, the contexts and the goroutines together, with the channel that
readLoop is about to start (`TableIsRight`). `Queue` says what is in the send queue for a
channel: nothing before `subscribed`, and then numbers that go on up to `seq`
(`EventsAreGapless`, `AnswerComesFirst`). All three need `FreshIds`. That a write to a shell
holds the reader up disturbs none of them (`InputFacts`).
**The browser** (`WsProofs`, second half). `SocketImplements` shows that the browser is such
a client, step by step: what it takes from `send` and puts into `inbox` is `WsConnection`'s
client, a lost or replaced socket its end. `AgentKeepsItsPart` then has the four theorems
above with the browser's specification in place of `Spec`. The properties of the pair need
an invariant of both ends, `Together`. `NothingMissed` and `AgreeAtRest` alone are not
inductive: they say nothing while frames are on their way, and every frame changes one end
first. `Spoken` therefore says what frames about a channel can still be on their way
(`AskFirst`: an unsubscribe follows its subscribe; `Refusal`, `Ending`: an `error` or a
`closed` is the last word on a channel, which is out of the table or about to be).
`Following` says that the queued events of a channel are exactly those after the browser's
`lastSeq`. `Agreeing` gives a reason for every disagreement: a channel the browser has is
asked for, registered, or its end is on its way; one it does not have is being withdrawn or
taken out. `Seen` sums the agent's two dozen steps up as seven things that can happen to one
subscription, so that the browser's part is proved against seven cases. `Held` ties what the
browser keeps to the connection it has. Results: `NeverLeftBehind`, `NoEventIsMissed`,
`EndsAgree`. `FreshIds` is assumed (`BrowserAssumption`), because `ws.ts` counts its ids up.

**Updates** (`UpdatesProofs`). `WorkerInv` pairs `opMu` with the one query or goroutine that
holds it (`OneAtATime`) and each goroutine with an entry that is not a result (`ReportStays`),
which is why pruning cannot meet it. `PlanInv` says that a result
outlives the plan it is of, since `Lifetime <= Retention`: a request whose result was pruned
finds no plan (`NeverTwice`). Then `ResultsAreKept`, `PlansAreKept`, and `InStep` for
the watcher (`WatchersSeeTheEnd`).

**Files** (`FilesProofs`). `Guarded`: a lock is held exactly between check and rename, and
what was checked is still on the disk unless `raced` names the writer
(`LockHeldWhileNeeded`, `NoUpdateLost`). `Copied`: what a protected save is about to replace
is among the rollback copies, or the save was raced (`RollbackCopyFirst`). `NameStillFree`: a delete
that holds a trash name finds it as free as when it chose it, unless a delete of another
path has overtaken it, which `raced` notes; deletes of one path exclude each other by its
lock, and `RacedGrows` keeps the note (`NothingOverwritten`, for any sharing of names). `Honest` and
`OnceOnly` are about repetitions: `AnswersAreTrue` assumes that the calls of one request
are of one kind (`OneKind`), `RepeatedWriteIsOne` that they name one path and one revision (`Repetitions`)
and that nobody puts the old content back (`NothingComesBack`).

**Service feed** (`FeedProofs`). `FeedInv` compares what a client shows of a field, with the differences in its queue, with
what the manager knows of it. `Feeds` makes it inductive: a difference still to be published
carries the manager's newest value of each of its fields (`DifferenceIsCurrent`), a queue
belongs to a subscriber that is on or leaving and a closed one gets nothing (`InTurn`),
before the first list there is nothing to publish (`NothingBefore`), and at a place that no
difference has passed by, what the manager knows, unless it is empty, is the last value in
the queue or on the screen (`OnItsWay`). The lemmas on `Newest` say what an Append and a Tail do to it,
place by place; `SignalIsNews` and `PollIsNews` that whatever the manager writes down anew
and is not empty it is about to publish; `SeenAfterUpdate` that a merge changes what it carries and nothing else
of a unit that is known. `FeedIsRight` holds for any number of units, fields, values,
subscribers and queue places.

**Gateway** (`SessionProofs`, second half). `NotesKnown`: a `ReauthUntil` that can be read,
stored or in a call that is about to write it, is the end of a window of a proof that was
noted (`FreshIsProved`); the reader who meets a write under way may get any time, but the
proof that is being written is fresh then. `GoneStaysGone`. For the limiter, `Limited` says
that no block reaches further than a failure at this moment would carry it, which is what a
late failure of a login that was let through earlier could undo. It needs the delay to grow with
the count as long as it fits its bits (`DelayGrows`, `ProductGrows`); that a power of two
grows is obtained without induction, from the number of subsets of `1..n` (`PowerGrows`).
`OnlySuccessUnblocks` says it of every failure whose delay fits, 35 in the code, and
`GatewayTypeCorrect` of the types, where a block may lie before zero.

Only model-checked: liveness (`EveryCallAnswered`, `PendingResolves`, the fairness of
`ImplementsFairDeadManSwitch`, whose safety part is `IsADeadManSwitch`, `ExitedIsRemoved`,
`UnattendedIsKilled`, `ReaderIsFreed`, `DeadConnectionEnds`, `Resubscribed`, `AcceptedEnds`,
`ViewCatchesUp`), since the prover has no rules for fairness and ENABLED. Facts by induction
over data are out of its reach too; the modules use functions and quantifiers instead of
recursive operators.

## 6. What is left to do

The plan the development began with has been carried out. In order of weight, what could
come next:

1. `Gateway`'s freshness composed with `Broker`'s authorization step, which takes the answer
   as `allowed` or `denied`.
2. The journal channel: the child process, its pipe and the context that ends it.

## 7. Not modelled, and why

* Metrics, identity, PAM, configuration, static files, IPC: requests in, formatted data
  out; no state that a later step could find stale.
* The journal reader: a child process per query whose lines are passed on. As a source of a
  channel it is one of those of `WsConnection` that end or fail.
* Cookies, headers, CSRF and origin checks, argument syntax, path rules: stateless tests
  that unit tests reach.
* The agent's other REST handlers: they translate a request into a call of a component or
  of the broker, and its error into a status.
* What a user types into a terminal, and resizing: bytes passed on in order. The time the write takes is in `WsConnection`.
* React views and the mock source: sequential view state; their races with the server are
  in the modules of the protocol.
* Durability below SQLite and the file system: a row that was inserted and a rename that
  was made survive a crash of the process.
* Wall-clock lengths: a deadline is a step that may happen once its condition holds; the
  order of two deadlines is kept where the code fixes it (`WindowEnds`), and where the code
  compares times the model has a clock (`UpdatesWorker`, `Gateway`). `UpdatedAt` goes through
  JSON and loses its monotonic reading; a clock that is set back is not modelled.
* More than 64 pending signals, which godbus may hand over out of order.

## 8. Running

    tlc -config MCBroker_patient.cfg MCBroker      # any MC*_<run>.cfg with its module
    tlapm BrokerProofs.tla                         # any *Proofs.tla
