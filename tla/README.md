# The OpsHalo Agent runtime in TLA+

OpsHalo is an Electron SSH/SFTP workbench. Its Agent lets a language model work
on a server through a runtime that owns all authority: it evaluates every
proposed action, asks the user, executes, verifies changes, and survives
pauses, cancels and crashes. This directory models that runtime from the window
to the host, and the parts of the workbench whose control flow is hard: the SSH
connection, file transfers and the MCP server's long commands. TLC checks the
models on small instances; TLAPS proves most of their safety properties for every
value of the constants. `PROJECT.json` maps every definition to the
lines it stands for.

## 1. Inventory

### The Agent runtime (`src/app/agent`, the core)

| Part | State | Operations | What makes it correct |
|---|---|---|---|
| State machine (`session/state-machine.js`) | the session record: status, current invocation, pending approval, budget, memory with change records and obligations | one case of `reduceSession` per command | a command the runtime pushes is legal where it arrives; terminal statuses are final |
| Session manager (`session/session-manager.js`) | per task: mailbox, abort controller, safe points, approval timer, flags, progress detector | `start`, `control` (pause, resume, cancel, revise, resolve), `process`, `runEffect`, `failRuntime`, `finishRuntime` | a task never hangs, holds no authority when stopped, ends when cancelled, is honest about changes |
| Gateway (`tools/gateway.js`) with policy, normaliser, registry | none of its own | `prepare`, `execute`, `revokeTask`, `cancel` | nothing runs without a capability for exactly this action |
| Approvals (`approval/*.js`) | requests, grants for a task, issued tokens | `create`, `resolve`, `expire`, `supersede`, `revokeTask`; `issue`, `verify` | an approval is used once, for what was shown, while it is in force |
| Verification (`verification/*.js`) | obligations in the record | `runChecks`, `evaluate`, completion outcome | no change counts as done before its checks have passed |
| Execution (`execution/*.js`) | ledger of invocations, active calls, pending bridge requests | `execute`, `cancelTask`, `request`, `onMessage` | one invocation changes the host at most once; cancelled work settles |
| Read-probe bundles (`execution/read-probe-bundle.js`) | none | `prepare`, `executePrepared` | only bounded reads run without asking and in parallel |
| Session store (`session/session-store.js`) | snapshot, manifest and event files | `commit`, `load`, `recoverInterrupted`, quota | a crash loses no task and no change |
| Provider sessions, Codex app server (`providers/*.js`) | one session per task, one child process, pending requests | `acquire`, `rebuild`, `expireIdle`, `close`; JSON-RPC | one turn at a time; every request settles |
| Config refresh (`runtime-config-refresh.js`) | pending config | `refresh`, `flush` | the policy does not change under a running task |
| Evidence, audit (`evidence/`, `audit/`) | files with a quota | write, finalise, delete, clean | references resolve to what was recorded |
| Observation, harness, knowledge, metrics | none that matters for control | text processing, model calls | – |

### Around it

The Electron main process (`src/app/lib`) offers IPC, databases and windows.
One child process per terminal session (`src/app/server`) holds SSH, SFTP,
tunnels, transfers and the zmodem and trzsz protocols; the runtime reaches it
through `session-execution-bridge.js`. `src/app/mcp` and the MCP widget expose
the workbench to other tools, with a table of long-running tasks. The React
renderer (`src/client`) keeps tabs, the transfer queue, synchronisation and the
projection of Agent events (`store/agent-session.js`).

| Part | State | Operations | What makes it correct |
|---|---|---|---|
| SSH connection (`server/session-ssh.js`) | connect options, lists of key files, nested handlers | `sshConnect`, `nextTry`, `hopping`, `jumpConnect`, `retryJump`, questions to the user | every key is tried before the user is asked; success means a whole chain; no endless retry |
| Session processes (`server/session-server.js`, `session-process.js`, `session-api.js`, `session-common.js`) | a child per terminal, its requests, open exec channels | dispatch, exec, cancel, exit, reconnect | one answer per request, and only a true one |
| File transfer (`server/transfer.js`) | handles, shared buffer, positions, timers | open, stat, read, write, pause, resume, destroy, kill | reported complete only when complete; silent when destroyed |
| Transfer list (`components/file-transfer/*.jsx`, `store/transfer-list.js`) | the list, queued operations, the conflict dialog, policies | add, schedule, start, ask, pause, resume, cancel, end | nothing is replaced unasked; slots; every transfer leaves |
| MCP tasks (`mcp/server/tasks.js`, `widget-mcp-server.js`, `store/mcp-handler.js`) | task table, background commands, pid and exit files | start, poll, cancel, sweep, evict | a task says what its command did; nothing is left behind |
| Agent window (`store/agent-session.js`) | the projection of each task | event, gap, snapshot, control, reload | the window shows a moment of the task, and never an older one |

### How the parts interact

* The renderer calls `control` by IPC; the manager publishes events back.
* Every command goes through the task's mailbox. `process` reduces it, commits
  the record, and then **awaits** the effect; what the effect finds out is
  pushed as the next command. So one worker per task makes steps, and IPC calls,
  timers and the bridge run between its awaits.
* Effects call the gateway, which calls approvals and capabilities (synchronous)
  and the execution runtime (asynchronous, through the bridge).
* `preemptActive` and `abortActive` reach across: they abort the signal under
  which an effect is waiting.
* The store is written on every commit and read at start-up.

### What is hard

* Control calls find the worker in the middle of an effect; some are queued,
  some act at once, some wait for a *safe point*.
* An error anywhere becomes a `FAIL` command, which the transition table may
  refuse.
* A change passes from the gateway's tokens to the executor, to the record, to
  its obligations and its verdict in separate steps, each of which can be cut
  off by a pause, an exception or a crash.
* Approvals have a timer, may be revised, revoked, answered late or granted
  for the rest of the task.
* Budgets run out at any point, also between the parts of one operation.

`PROJECT.json` lists the hazards at their lines, with the properties that watch
them, and those no property watches yet.

## 2. Modules

```
AgentStateMachine        the reducer: statuses, table, records, commands (constant level)
  AgentSession           one task at run time: worker, user, timer, crash
    AgentSessionRefinement   AgentSession implements ChangeLedger
      MCAgentSession         small instances for TLC
      AgentSessionProofs     theorems
ChangeLedger             what a task promises about changes (abstract)
AgentHost (MC..., ...Proofs)        several tasks, their files, the configuration, start-up
AgentView (...Proofs)               one task between the main process and its window
ProviderRuntime (...Proofs)         provider sessions, the Codex app server, its logins
ExecutionBridge (MC..., ...Proofs)  a tool call through three processes to the host and back
  RemoteCalls            what that layer promises (abstract); ExecutionBridge implements it
SshConnect (MC..., ...Proofs)       from the bookmark to a shell, through jump servers
Transfer (...Proofs)                the pipelined copy of one file in the session process
TransferListState                   the renderer's list of transfers: its state, what holds of it
  TransferList (MC...)              its steps: scheduler, queue, conflicts, controls
McpTasks (...Proofs)                long commands of MCP clients
```

The modules meet at their interfaces. What `AgentSession` assumes of execution
(it settles, and starts an invocation once) is what `ExecutionBridge` shows; that
a turn ends is `ProviderRuntime`'s `TurnsSettle`; that a record survives a crash
is `AgentHost`'s subject, and that the user sees what was committed is
`AgentView`'s. They are checked one by one: a product of two of them is beyond
TLC at any size at which the interesting cases of both still happen.

### AgentStateMachine

`allowedTransitions` is the table of `state-machine.js`; `Target`, `Legal`,
`Reduced` and `NextEffect` are `reduceSession` split by what they answer: where a
command leads, whether it is refused, what it does to the record, which effect it
starts. Commands with a fixed target share the table `PlainTarget`. The bundle
commands are the plain ones with two intents.

An *intent* stands for a `NormalizedIntent`. What the runtime does with a tool
depends on its definition and on the policy's verdict, so both are one field,
`kind` (`read`, `sensitive`, `review`, `shell`, `tool`, `interactive`, `denied`,
`fatal`, `broken`; the module explains each). `content` is the arguments, `plan`
the postconditions of its verification plan as a sequence of kinds of checks
(`read` runs by itself, `review` needs the user, `denied` and `fatal` are refused,
`broken` does not parse, `missing` names no tool), `pre` says that it declares a
precondition, `check` that the runtime proposed it to verify a change. `id` is the invocation id; all checks share 0,
which no change has. Memory is reduced to the obligations and to one status per
invocation for the change records.

### AgentSession

| Variable | Code |
|---|---|
| `record` | `runtime.record` as last committed (a commit follows each change of it) |
| `queue` | `TaskMailbox.queue` |
| `effect` | where `process` / `runEffect` stands; `NONE` between commands |
| `entry` | the newest entry of `ApprovalManager.requests`; older ones are resolved or superseded |
| `timer` | `runtime.approvalTimer` |
| `issued`, `grants` | unused capabilities, `ApprovalScopeStore` |
| `signal` | `runtime.abortController`: none, live, aborted |
| `safePoint` | `cancelAfterSafePoint` / `pauseAfterSafePoint` |
| `resourcesRevoked`, `pendingTerminalVerification` | the fields of that name |
| `repeats` | the run of equal records in `ProgressDetector` |
| `deadlinePassed` | the clock has passed `taskDeadlineAt` |
| `resuming`, `restarts` | resume calls in flight, crashes so far (bounds) |
| `ran`, `consentOnce`, `consentTask`, `doubted` | history variables: what was sent to the host, what the user agreed to, changes with a check that did not pass. No action reads them. |

The code is JavaScript on one event loop: what runs between two awaits of
something outside the process is atomic. So an effect is one action, or two when
it awaits the provider (`HARNESS_TURN`), the executor (`EXECUTING`), the checks
(`PRECHECK`, `RUN_CHECKS`), the observation pipeline (`BUILD_OBSERVATION`) or the
synthesiser (`VERIFY_COMPLETION`). Promise continuations run before the next
macrotask, which is why a user's call, a timer or the clock only takes its turn
when the worker is idle or in one of those awaits (`Interruptible`). A crash is
allowed anywhere.

`IgnoreCommand`, `RejectCommand`, `AcceptCommand` are `TaskMailbox.drain` with
`process`: a command on a finished task, a refused one, an accepted one with
commit, timer, safe point, abort and finish. Each other worker action is one
branch of `runEffect`. `UserPause` … `ReviseApproval` are the branches of
`control`, `ApprovalTimerFires` the timer's callback, `ResumeBound` the rest of a
resume after its await, `Restart` the death of the process followed by
`recoverInterrupted` and `attach`.

### ChangeLedger and AgentSessionRefinement

`ChangeLedger` says what a task owes its user about changes, in five actions:
consent, withdraw, send, record, judge. The mapping is by the history variables
and the change records; `ImplementsLedger` is its specification as a property.

### AgentHost

What a task does is `AgentSession`'s subject. Here a record is its status (active,
paused, ended), its version and the number of its newest event, and what counts is
that every step of `process` is a `Commit`: event file, snapshot, manifest, each of
which may be the last write before a crash (`Torn` files are those `load` refuses)
or be refused by a full disk. A commit that throws becomes `failRuntime`, whose
own commit may throw again. `Start`, `StartRejected` and `StartBound` are the calls
of one send button around the await of the session's binding; `Settle` tells
`runtime-config-refresh.js` that a task has stopped, which flushes a deferred
configuration; `Load`, `Boot`, `Booted` and `Recover` are `index.js` with
`recoverInterrupted`. A write refused during the recovery ends the start-up: `initIpc`
throws before the page is loaded (`Down`), and the next start finds what was written.

### AgentView

`events` is the log of one task, `inbox` and `requests` the two directions of
Electron's IPC, which keeps the order of one sender. `view` is the window's entry
for the task. `Receive` is everything `store/agent-session.js` does with one
message: apply the next event, ignore an old one, fetch a snapshot for a gap; then
wake the control call that waits (`waitForTaskStatus`). The main process answers a
snapshot in one turn of its loop (`AnswerFetch`).

A control call goes through three steps of the main process. `AcceptControl` checks it
as it arrives: a pause or cancellation of a change in hand is kept for the safe point
and answered at once, a resume or an answer needs the present snapshot version, what
passes goes into the mailbox (`commands`). `RunControl` is `process`: refused by the
table, thrown at the commit, or committed with its events sent. `ReplyControl` answers
when the effects have run, or one has thrown. So events, the task's own moves and other
messages fall between the click and the answer. `Controlled` is the reducer: a resume
goes to `verifying` when a change is yet to be judged (`owed`) and to `planning`
otherwise; the choice *cancel the task* on an approval ends it without a result.
`Verified` is `MUTATION_VERIFIED`, the only place where what waits for the safe point is
run; the end of a change in `executing` is an ordinary move.

A refused fetch (rate limit), a commit that throws after numbers were given out, a
failed answer and a reload of the window are where something gets lost; `dropped`
remembers up to where. The timeline, and the events a snapshot brings for it, are left
out.

### ProviderRuntime

`pc[a]` is the await at which an actor stands: a task in its turn, the user in a
login or logout, the account refresh after a completed login. `child` and `client`
are the processes and the one `clients` entry of the account; `bound` says whose
events still reach the manager. A turn resolves the executable, connects, reads
the account, starts a thread or uses its own, starts the turn and waits for
`turn/completed`; timers, the child's exit and the abort signal end those awaits.
The account refresh that follows a login is an actor of its own. It goes through
`clientFor` like every caller, so a login that completes when its account's client is
already gone looks up the executable and starts another child. That takes a third
child; the run has two, the theorems any number. A child that exits before it is ready
also fails the `start()` of the one who created it (`StartFails`), which removes the
entry and the binding of the account whatever client they name by then.

### ExecutionBridge and RemoteCalls

The three processes and the two channels between them, with a response that can
come late. `Execute` is the gateway's call with its ledger check; `Dispatch` and
`SessionReceives` the two `agent-dispatch.js` handlers with the capability each
process consumes; `work` and `host` what the session process and the remote side do
with a call, so that the order of exit status, drain window, grace timer and close
is free. `RemoteCalls` has three actions, start, end, report, and its guards say
what a report may claim. `execute` decides by a pattern over the message of an error
whether a failed change is `unknown` or an error with a confirmed end
(`src/app/agent/execution/execution-runtime.js:96`); the outcome `channel` stands for
every failure the pattern recognises, `noexit` for a channel closed without exit status
and any other failure it does not.

### SshConnect

One action per callback or answer. `phase` is the step that comes next, `handlers`
how many `catch` handlers stand around the attempt (of `sshConnect` and of
`retryJump`): an error inside a retry is caught by the handler that started the
retry, which is where the sequence of attempts is decided. A server may answer an
attempt in any way the client tells apart (`Errors`). What is saved for a host is a set
of secrets; `values` and `blank` are the bookmark's `interactiveValues` with and without
something in the first line, which answer every question by themselves (`StoredValues`).

### Transfer

A file is a function from positions to the position its byte came from, so that a
byte copied to the wrong place shows. `requests` holds reads, writes and pause
timers that are under way: any may be answered next or with an error, a read also
short. A write of a download may be short too (`fs.write` reports how much it took;
`writeCb` does not look, `Written`): `cut` remembers what was left out. All share one
`buffer`, as in the code.

### TransferList

`TransferListState` declares the state and states the two invariants, so that
`TransferProofs`, which holds the theorems about one file's copy and about the list,
can name them; `TransferList` has the steps. The list, its component state (`stage`,
`found`, `wrote`), the conflict dialog and the queue of operations are separate because the code updates them in separate
ticks: a queued start is applied to the list as it was when the start was taken
from the queue (`ProcessOp`, `ApplyInit`). `Control` is the scheduler's effect that
runs whenever the list changes and starts transfers in the order of the list
(`InOrder`); `UserDecides` and `Act` the dialog with its answers for a batch;
`ToolCall` a transfer started by an MCP tool with a conflict policy, which the code
keeps in a global from then on (`globalPolicy`). A lookup of the target may fail, which
the code takes for an absent target (`found` = "unknown"). `Lost` is a transfer for which
nothing arrives any more: the tab's panel is gone when the copy is opened
(`transfer.jsx:295`), or the socket was closed and those who wait on it dropped.
`answer` is the last answer for a transfer: the user's, or the policy of a tool call where
it decides. It is what `CopiesAsAnswered` compares the copies with; no action depends on it.

### McpTasks

`tasks` and `status` are the table of `tasks.js`, `calls` the renderer's work: a
call whose request has timed out goes on, unheard. A poll is up to three remote
commands (pid file, `kill -0`, exit file), between which `HostStep` moves the
command's wrapper from typed to running to ended, writing its pid and exit files. For a
`Flaky` command a remote command may fail: `runMonitorCmd` then types it into the
terminal and takes the last lines of the screen for its output, which may be anything
(`RemoteSays`; `misheard` remembers). `kill` ends the wrapper, not what it started, and a
kill may do a part of its work. `leftBehind` remembers commands whose one clean-up was
lost or came while a file was still to be written.

## 3. What is checked

The bounds are in the `.cfg` files, each named by a constant. No run but
`AgentHost` uses symmetry (two clicks that nothing tells apart, no liveness).
Deadlock is not checked: each system may come to rest for good (a finished task, a
connected session, bounds that are used up), and which rests are legitimate is what
`RestsOnlyWhereItCanBeWoken`, `CallsSettle`, `TransferSettles`, `TransfersLeave` and
the like say.

| Run | Question | Size |
|---|---|---|
| `AgentSessionChanges` | Structured changes with prechecks and with checks that need an answer or have no tool, two overlapping resumes, a crash, turns that throw or end in every status: types (`TypeOK`), a finished task stays finished (`TerminalIsFinal`), consent in force (`ChangesAreAuthorized`), one execution per invocation (`ChangesRunOnce`), a record of every change sent (`StartedChangeIsRecorded`), an obligation for every open change and never two (`PendingChangeIsOwed`), no completion over an unverified change (`CompleteImpliesVerified`). | 2.1 M states |
| `AgentSessionLedger` | All kinds of actions, refused and malformed ones too, results and observations that throw, revisions to another content and task-wide grants: `ImplementsLedger`, and a failed check is never outvoted (`FailedCheckNeverPasses`). | 142 k |
| `AgentSessionRest` | Bundles, reviews, pause, resume, cancel and a crash under fairness: a stopped task holds no token, grant, open approval or live signal (`InertWhenStopped`); a task rests finished, paused or waiting for an approval (`RestsOnlyWhereItCanBeWoken`) that is open with its timer running (`AwaitedApprovalIsOpen`); the worker comes to rest (`ComesToRest`); a cancel ends the task (`CancelSettles`). | 238 k |
| `AgentHost` | Two clicks, two tasks, a full disk, a crash anywhere in a commit, a start-up refused a write, configurations saved at any time: what the window was shown is on disk (`PublishedIsDurable`); a restart loses a task only where two renames were torn apart (`OnlyATornSnapshotLosesATask`); a deferred configuration waits for something (`PendingConfigHasAReason`) and never changes under an active task (`PolicyFrozenWhileActive`). | 2.4 M |
| `AgentView` | Controls from the click to the answer with the task's own steps between, gaps, commits that throw, a reload, a refused fetch: the window shows one moment (`ViewIsAMomentOfTheTask`), never an older one (`ViewNeverGoesBack`), the present one when nothing is under way (`QuietViewIsExact`); control calls return, those kept for a safe point when it comes (`ControlReturns`). | 712 k |
| `ProviderRuntime` | Two tasks and the settings page, a child that dies and is replaced: no session is closed under its turn (`RunningTurnKeepsItsSession`), an account shown as authorising has a login that can end (`AuthorizingHasALogin`), every turn ends (`TurnsSettle`). | 293 k |
| `OneServerPerProfile` | *Violated*, see below. | |
| `ExecutionBridge` | A change in an exec channel and a fetch over SFTP, each tried twice, either process dying, messages that cannot be sent, a reconnect: `StartsAtMostOnce`, `ImplementsRemoteCalls`, `CallsSettle`. | 97 k |
| `SshConnect` | Two hosts, two key files on each machine, every saved secret, stored answers, three answers of the user: `AsksAfterKeys`, `WholeChainOpen`, `NoSilentRetries`. | 325 k |
| `Transfer` | A download of 0 to 7 bytes in chunks of 2, three reads at once (so a last chunk that is short, full or missing), two faults (errors, short reads, short writes), a pause, destruction at any moment: `VerdictIsTrue`, `QuietAfterDestroy`, `TransferSettles`. | 779 k |
| `TransferList` | Two transfers of a batch for one slot, one added with its file and one without, conflicts, answers for all, a tool call's policy, failed lookups, lost copies, one control click: `CopiesAsAnswered`, `SlotsRespected`, `TransfersLeave`. | 201 k |
| `McpTasks` | Two commands for a table of one, one on a host that may not run the renderer's commands, two requests at a time, every timeout: `CompletedCommandHasEnded`, `OnlyACancellationOverturns`, `EndedTasksAreCleanedUp`. | 319 k |

Bounds worth a word. `MaxSteps` 2 (turns of the model) lets a change be followed by
another action or by a completion; `MaxRepeats`, `MaxErrors` 1 are reached within
it; `MaxReads` 2 runs out in the middle of prechecks and verification, 8 never does.
Bundles have two probes (preparation treats the third like the second). A second
crash of a paused task changes nothing that the first did not. In `AgentView` the task
leaves planning by itself while the log has at most four events, and the user makes three
calls (a change, a pause, a resume into its verification, a pause that waits for it); one
fault makes one gap. In `Transfer`, 7 bytes in chunks of 2 with three slots is the
smallest size at which a slot is used again while a later one is still being written.
In `McpTasks` two commands and room for one task make every start an eviction.
One of the two commands is `Flaky`, so that both kinds of hosts occur together.
`AgentHost` lets one commit be refused and one crash happen: two of either only
repeat the first from a state already reached.

### Fairness

* `AgentSession`: the worker (the event loop runs continuations that are ready;
  provider calls, executions and checks have timeouts), a resume after its await, a
  timer that is set.
* `ExecutionBridge`: the timers, and processes that are up handling what they have.
  Hosts owe nothing; `CallsSettle` does not need them.
* `AgentView`: both event loops take what is in their queues (`Receive`, `Answer`), the
  mailbox its commands (`Run`, `Fail`), and the checks a resume started come to an end
  (`Verified`: each is a read with a timeout). Nothing is assumed of the task's other
  moves: a safe point after a change that was executed in this run of the task need not
  come, and the wait for it ends by its timer.
* `ProviderRuntime`: timers of requests and of the child's start, the idle sweep,
  continuations. The app server owes nothing.
* `SshConnect`: a server answers or runs into `readyTimeout`; the user answers or
  closes what is asked. `NoSilentRetries` has to be read with this: it is about
  retries that nobody is asked about.
* `Transfer`: both file systems answer and timers fire. `TransferList`: the page
  runs, lookups and copies that are neither paused nor lost end, the user answers the
  dialog. `McpTasks`: the renderer comes to its clean-up calls, and the sweep's timer
  fires. Commands and their hosts owe nothing.

Users' other acts, the clock, faults and crashes get no fairness anywhere.

Each property of a passing run has a mutant: a definition of the code's model
changed the way a bug would change the code, with which the same run must fail.
The changed forms stand in the modules before their originals, marked *Deviation*
in their comment or their name. `TypeOK` of the modules beside `AgentSession` is no
run's business: it is proved, with the invariant of each module (section 4).

### Where the code departs from its documents

`OneServerPerProfile` is a run that ends in a violation: `design.md:483` promises at
most one app server process per profile, so that two processes never refresh one
login. `clientFor` looks for a client, awaits the executable, and only then stores
the new client: two callers that both find none (in the run's trace a task's turn and a
logout on the settings page) start one process each. The second
replaces the first in the map; the first lives on with a turn in it, later turns go
to the other, and the exit of the first removes the entry of the second.
`AuthorizingHasALogin` and `TurnsSettle` hold in spite of that.

The models show more of the kind. The passing runs leave the situation out of their
constants or name it in the property; where they do, it is said here.

*Agent tasks*

* A pause or cancel during a change is stored for a safe point that only
  `MUTATION_VERIFIED` is, and only a resume leads there: a change that is executed ends
  in `CONTINUE_PLANNING` (`session-manager.js:801-830`), so the model is called again and
  the window's wait rejects after 125 s (`ControlReturns` speaks of waits during
  `verifying`, or whose status comes).
* The ninth automatic read throws in `policy_check`; `FAIL` is not allowed from
  there; the task shows as running and never moves. The same happens to a result that
  does not match its schema. There are four such rests (`Stalled` in the proof): the policy
  check with the deadline passed, no read left or a tool call that does not fit its schema;
  and, since an error of an effect is rejected to the caller when the command came from the
  user, a turn that throws after a resume, an execution that throws after an approval, and
  the checks of a change after a resume with the signal still aborted, for the reasons of the
  policy check. (`AgentSessionRest` has reads to spare and no
  faults; the theorem `RestIsExplained` shows that there is no fifth.)
* Approving an interactive command resolves the approval and then pushes a command
  the table refuses. (`AgentSessionRest` offers none.)
* A change whose first check failed before a crash is judged by its remaining checks
  after the resume. (`AgentSessionLedger` has no crash.)
* A fact that answers the question completes the task over an unverified change.
  (`AgentSessionChanges` has no direct answers.)
* A change whose result does not parse ends the task before it is recorded.
  (`AgentSessionChanges` lacks this fault and that of an observation that throws.)
* A check the policy denies is proposed again for ever: obligations are looked at
  before budgets. (`AgentSessionRest` has only checks that run or ask.)
* A resume resets `resourcesRevoked` when it is called, not when it is applied: of two
  overlapping resumes the second can come between a pause and its command, and the
  pause after that revokes nothing. (`AgentSessionRest` has one resume at a time.)
* A cancel accepted during a change is not honoured while a check waits for an
  approval; a crash between `executing` and the call to the host records a change that
  was not made; a pause during follow-up checks leaves its aborted signal to the checks
  after the resume.

*Several tasks and their files*

* Two start calls with one `clientRequestId` that are both resolving their terminal
  start two tasks (`session-manager.js:111` looks, `:170` stores).
* A crash between the renames of snapshot and manifest drops an unfinished task
  without a word (`session-store.js:58`); the property names this case.
* A start whose commit throws leaves an attached task in `intake` that counts as active
  for ever; a resume whose commit throws leaves an active task nobody drives; after a
  refused commit a deferred configuration may never be applied. (The property excepts
  tasks with a refused commit.)
* A write refused while a start-up marks the interrupted tasks as paused
  (`session-store.js:166`) throws out of `initAgentRuntime` and `initIpc`: the whole
  application does not start (`Recover`).
* Recovered tasks are not announced to the window: after a reload it asks for nothing
  until an event arrives (`design.md:1481` has it call `getSnapshot`).
* A resume clears the pending approval without an event; `user_input.resolved` is never
  published; a fetch refused by the rate limiter loses the event until the next one.
* The window projects `session.resumed` as `planning` (`store/agent-session.js:89`), also
  when the task is `verifying`, until the snapshot that the control fetches at its end
  corrects it; that is after the verification's effects have run (named in
  `ViewIsAMomentOfTheTask`).
* *Cancel the task* on an approval ends it without a `finalResult`
  (`approval-manager.js:77-82`) and leaves the approval in the record. The window makes an
  empty result of the event, none of a snapshot, and in the second case tells nobody
  (`isIncompleteTerminalSession`; named in both properties).

*Providers*

* The runtime keeps a session object that the idle sweep has closed; its next turn
  fails with `PROVIDER_SESSION_CLOSED` and ends the task. Login and logout do not
  invalidate the cached account. Late deltas are told apart by thread, not by turn.

*Execution*

* A channel that closes without an exit status counts as an error whose remote end is
  confirmed (`session-common.js:166`, `execution-runtime.js:96`), where
  `agent-tool-safety/spec.md:91` asks for `unknown` and no retry. The same holds of any
  failure whose message the pattern at that line does not recognise. (In `ExecutionBridge`
  only calls that change nothing end that way, `Droppable`.)

*SSH connection*

* The list of key files found on one jump server is still used for the next hop
  (`session-ssh.js:232`), so that a password is asked for although not every key of
  that server was tried (`:319`). (`SshConnect` runs with two hosts, one hop.)
* The password question of a hop is filled in with the password of the first host, and
  the question for a user name with the saved password (`:181`, `:752`).
* `2FA_RETRY` at a hop is never retried; closing the passphrase question of a saved key
  at a hop asks it again for ever; starting over from the first host leaves connections
  to later ones open.
* Stored `interactiveValues` answer every question the code asks, also that for a
  passphrase: a wrong one is put in and refused again and again, with nobody asked
  (`session-ssh.js:171-173` with `:823-840` and, at a hop, `:259-267`; `NoSilentRetries`
  excepts sessions with such values). An empty first line with an empty user name has the
  same effect on the question for the name.

*File transfer*

* A source that shrinks after it was measured is read at its end for ever (named in
  `TransferSettles`). Between destruction and the kill the target is still opened and
  truncated; `tryStat` after the kill throws in the session process; a channel that is
  still being opened when the transfer is destroyed is never closed.
* A local write that takes less than it was given is counted as whole
  (`transfer.js:335-343`): the download is reported complete with a hole (named in
  `VerdictIsTrue`).
* The policies `renameAll` and `skipAll` of a tool call reach a function that knows
  `skip`, `cancel` and `rename`, so that the file is overwritten, where the tool's
  description offers `renameAll` (`widget-mcp-server.js:836`). The policy is kept in a
  global that nothing resets: later transfers of the user replace files without asking.
  (`CopiesAsAnswered` promises that the user was asked only until a tool call has brought a
  policy; from then on that the policy, read as the code reads it, decides.)
* A lookup of the target that fails counts as an absent target (`transfer.jsx:86-91`), and
  what is there is replaced unasked (named in `CopiesAsAnswered`).
* A transfer is listed for ever, and keeps its place, when the tab's panel is gone as the
  copy is opened (`transfer.jsx:295` throws uncaught) or the socket closes
  (`ws.js:142-151` drops those who wait; `initWs` never rejects). With all places lost
  nothing starts any more until the user cancels (named in `TransfersLeave`).
* Cancelling during the lookup of the source makes the check for conflicts return
  false: the cancelled transfer copies, and replaces its target without asking (named
  in `CopiesAsAnswered`). Cancelling during the next two steps leaves an orphan copy
  that ends in the history.
* Cancelling everything while a start is being applied stops the queue for ever (named
  in `TransfersLeave`). A resumed transfer may be one more than the slots allow (named
  in `SlotsRespected`). A pause before the copy is open has no effect.

*MCP*

* `cancel` does not look again after its await (`tasks.js:118`): a task that completed
  meanwhile becomes cancelled, against the comment above it (named in
  `OnlyACancellationOverturns`).
* A poll between the typing of the command and its pid file finds nothing and fails the
  task for ever while the command starts; so does any error or timeout of a poll. A
  running task that is evicted has its files removed under it, and writes its exit file
  again at its end.
* When a remote command cannot be run (a refused channel, a local tab), it is typed into
  the terminal and the screen's last lines count as its output (`mcp-handler.js:904-917`).
  As a pid they are garbage, and whatever is not `alive` is `completed` while the command
  runs (named in `CompletedCommandHasEnded` by `misheard`).
* `kill` (`:1038`) ends the wrapper; the command it started survives a cancellation, and a
  poll that is under way meanwhile calls it completed.
* A clean-up is asked for once: without a window, or after a timeout, the renderer's record
  and the host's files stay (`tasks.js:91-94`; named in `EndedTasksAreCleanedUp` by
  `leftBehind`, as are those that came too soon).

## 4. What is proved

Every theorem holds for all values of the constants that satisfy the named assumptions
of its module (`SessionAssumption`, `ViewAssumption`, …: limits are naturals, plans are
sequences of kinds of checks, and the like), and is about `Spec`, without fairness. Each
module has one inductive invariant, or a chain of them, and one lemma per action.
Hypotheses beyond the assumptions exclude behaviour of the code with which the property
is false; each is named with what it excludes. Exceptions written into a property
(`cut`, `misheard`, a policy brought by a tool call) are in the theorem as well.

### AgentSession (`AgentSessionProofs`)

| Theorem | Property | With |
|---|---|---|
| `TypeCorrect` | `TypeOK` | |
| `AuthorizedChanges` | `ChangesAreAuthorized` | |
| `FinishedTasksStay` | `TerminalIsFinal` | |
| `PendingChangesAreOwed` | `PendingChangeIsOwed` | |
| `ChangesRunAtMostOnce` | `ChangesRunOnce` | |
| `ThreadInvariance` | `ThreadInv` (below) | one resume at a time |
| `StoppedTasksAreInert` | `InertWhenStopped` | one resume at a time |
| `StartedChangesAreRecorded` | `StartedChangeIsRecorded` | one resume; results parse, observations do not throw |
| `CompletionsAreEarned` | `CompleteImpliesVerified` | the same, and no direct answers |
| `AwaitedApprovalStaysOpen` | `AwaitedApprovalIsOpen` | one resume; no interactive actions |
| `RestIsExplained` | `RestsOnlyWhereItCanBeWoken`, or one of the four rests of section 3 (`Stalled`) | one resume |
| `TasksRestWhereTheyCanBeWoken` | `RestsOnlyWhereItCanBeWoken`, while there is budget | one resume; turns, tokens and results do not fail; tool calls fit their schema |
| `FailedChecksStay` | `FailedCheckNeverPasses` | no pauses, no crashes |
| `LedgerImplemented` | `ImplementsLedger` | one resume; no crashes |

The hypotheses are the entries of *Agent tasks* above: two overlapping resumes can leave
a second command of a thread the first one ended (`MaxResuming <= 1`); a result that does
not parse and an observation that throws lose the change (`"invalid_result"`,
`"observation"` not in `Faults`); a direct answer completes the task over any change;
approving an interactive action resolves the approval nobody asks for again; after a
pause or a crash the remaining checks judge alone; a crash between `executing` and the
call to the host records a change that was not made. The runs are narrower here and
wider there: `AgentSessionChanges` has two resumes in flight and shows that its
properties hold with them on that instance; the theorems have any number of steps,
crashes, budgets, contents and plans.

The first invariant, `IInv`, carries the first three: `TypeOK` with a queue whose messages
fit their types (`TypeOK` says of a command only that its fields are in range, which is
too little for the reducer's result); `EffectFits`, the same for the running effect;
`FinishedIsIdle`, since an effect could write a finished record; `AuthorityIsBacked`,
because a change runs on a token and the property speaks of consents, so that withdrawing
the one and revoking the other must happen in the same steps.

The rest is added in layers, each proved on top of those before it:

* `OwedIn`: pending changes and obligations, one to one. `RUN_CHECKS`, follow-ups and
  `retainUncertainMutation` move an obligation; none drops one without a verdict.
* `IdsInv`: an invocation id has one holder, of the intent in a command or an effect, the
  pending approval, the token and `ran`. That ids grow with the steps is not enough: the
  intent also travels back and forth between record, approval entry and queue.
* `ThreadInv`: one command or effect carries the task on, the mailbox holds pauses and
  cancels beside it, and a stopped task has none. Nearly every other statement about what
  is *not* going on at some point comes from it.
* `InvocationFits` and `UnrecordedIsUnderWay`: a change that was sent and is not recorded
  is the one that executes, or the result of which is being handed on. `CompletionIsEarned`:
  when `COMPLETE` is in the mailbox no change lacks its verdict and none can be sent before
  it is reduced.
* `OfferedInv`, `AskedIsOpen`: where an approval is pending, its entry is live, on the card
  and on the timer, through revisions (which supersede it) and the follow-ups of checks.
* `RestInv`: while a task runs and nothing is being done, the mailbox holds a command that
  moves it (`CarriedOn`), or it is one of the four cases. That a command is *queued* is
  `ThreadInv`; that it is *legal* where it is reduced takes three more facts. What the policy
  or the user allowed has its token until it is used (`TokensHeld`), so an execution does not
  fail for want of one. What the worker observes it has executed itself (`Observes`), so an
  observation that throws fails the task and not the caller. An aborted turn has the pause or
  the cancel that aborted it in the mailbox (`AbortIsQueued`), so dropping its answer leaves
  something to do. TLC checked the four on three instances with faults and a budget that runs
  out before they were proved.
* `PlannedIn` (with `OfferedInv`): the kinds of the actions that are pending, and of the
  checks that are owed, are the planner's or a plan's. A check is not invented on the way.
* `NeverPaused`, `DoubtIn`: without interruptions the doubt about a change is in the
  obligation, in the command or in the effect that will judge it.
* `SignalIsLive`, `FlightIsSent`: what the refinement needs of an execution in flight. The
  refinement proof then has one lemma for each class of steps: those that do nothing to
  the ledger, that withdraw, consent, send, record, or judge.

### The other modules

| Module | Theorems | With |
|---|---|---|
| `AgentHostProofs` | `HostInvariance`, `ShownIsOnDisk` (`PublishedIsDurable`), `RestartKeepsTasks` (`OnlyATornSnapshotLosesATask`), `ConfigWaitsForAReason` (`PendingConfigHasAReason`), `PolicyChangesBetweenTasks` (`PolicyFrozenWhileActive`) | |
| `AgentViewProofs` | `ViewInvariance`, `ViewIsAMoment` (`ViewIsAMomentOfTheTask`), `ViewExactWhenQuiet` (`QuietViewIsExact`), `ViewMovesForward` (`ViewNeverGoesBack`) | |
| `ProviderRuntimeProofs` | `ProviderInvariance`, `TurnsKeepTheirSession` (`RunningTurnKeepsItsSession`), `AuthorizationIsAwaited` (`AuthorizingHasALogin`) | |
| `ExecutionBridgeProofs` | `Invariance`, `OneStart` (`StartsAtMostOnce`); `RemoteCallsImplemented` (`ImplementsRemoteCalls`) | the last: no change loses its channel without an exit status |
| `SshConnectProofs` | `Invariance`, `SuccessHasItsChain` (`WholeChainOpen`), `FirstHostAsksAfterKeys`; `AllAskAfterKeys` (`AsksAfterKeys`) | the last: at most one jump server |
| `TransferProofs` | `TransferInvariance`, `TransferVerdict` (`VerdictIsTrue`), `TransferQuiet` (`QuietAfterDestroy`) | |
| `TransferProofs`, of `TransferList` | `ListInvariant`, `ListTypesHold` (`TypeOK`), `ListSlotsRespected` (`SlotsRespected`), `ListCopiesAsAnswered` (`CopiesAsAnswered`) | |
| `McpTasksProofs` | `McpInvariance`, `CompletedMeansEnded` (`CompletedCommandHasEnded`), `EndedStaysEnded` (`OnlyACancellationOverturns`) | |

* `AgentHost`. A task that has files has a snapshot (`FilesHaveSnapshot`); memory is never
  behind what the window has been shown (`MemoryIsAhead`); only tasks the window knows
  have work or a failure ahead of them (`OnlyKnownTasksMove`); and before the window can
  call, memory holds recovered tasks only (`BootLoadsPaused`), which is why the policy may
  change at a start.
* `AgentView`. The proof is about the channels. Numbers never decrease from what is shown
  along the channel to the newest event (`NumbersGrow`), so nothing that arrives takes the
  window back; every message says what the log says at its number (`InboxFits`), a record
  in a snapshot exactly (`IsAt`), the view up to what the window cannot tell (`Shows`:
  planning for verifying, the result of a cancellation). For the present to be shown in the
  end, three more: the newest event is shown, on its way, asked for, or known to be lost
  (`NewestIsComing`); a `resumed` event is followed by the answer of its control, or the
  effects of that control still run (`ResumesAnswered`, `Running`); and so whatever is not
  shown exactly, the status of a resumed verification and the approval that a resume
  cleared without an event, will be corrected by a snapshot or is known to be lost
  (`ViewIsCorrected`). The log has an invariant of its own, that a `paused` or `resumed`
  event follows the change of status it announces (`LogFits`).
* `ProviderRuntime`. The two properties are inductive together with the types. Trying to
  prove the types showed that an earlier model took the client of a completing login for
  granted; the code has no such guarantee, and the refresh now looks for one itself.
* `ExecutionBridge`. `LedgerAgrees`, `HostAgrees`, `OneRequest`: ledger, messages, the two
  processes' tables and the host tell of a call in one order; `CancelIsLate`, `ReplyIsLast`.
  For *at most once* the ledger alone suffices: the capabilities that the server and the
  session process consume are a second line. The hypothesis of the refinement: a channel that
  closes without an exit status is reported as an error whose remote end is confirmed.
* `SshConnect`. `QuestionsFit`, `ChainOpen`, `KeyIsListed`, and what the lists of keys hold
  for a direct connection and for a hop (`DirectKeys`, `JumpKeys`). With two jump servers
  `AsksAfterKeys` is false (section 3), for the first host it holds with any number.
* `Transfer`. Requests answer for disjoint stretches of the file and disjoint slots of the
  buffer, what is neither requested nor to be requested is settled, and the count is the
  number of settled positions; hence it equals the size only when each of them is. Settled
  means in its place, or left out of a local write (`cut`): of an upload all are in place.
* `TransferList`. The scheduler counts what runs and what is queued to start. For the count
  to bound what will run, a start has to be queued once, for a transfer that waits, and has
  to stay in `pendingInitIds` until it is applied (`EntriesFit`, `StartsFit`); then a place
  is taken from the moment a start is queued (`TakenSlots`), and it is that set which never
  exceeds `MaxTransport` (`SlotsFit`): the transfers that run are fewer, lost ones included.
  For the answers, the
  dialog holds each transfer once and only transfers that wait for it (`DialogFits`): an
  answer for all that reached a copy already open would be recorded and change nothing. A
  policy left with a component is the last answer for its transfer until the target is
  looked up (`AnswersFit`). The invariant was checked on the run's instance before it was
  proved. The order of the list and of the queue is stated with sequences of given members
  (`InOrder`) and the queue edited with `RemoveFirst`; what those return is proved from
  their definitions, no recursion being involved.
* `McpTasks`. A call of the renderer is a sequence of remote commands with other steps
  between; what it has seen of its command must stay true meanwhile (`CallsFit`), which needs
  that a pid file means a launched wrapper and an exit file one that is over (`FilesFit`),
  and that a command is typed once (`RunOnce`). All three hold of a command unless it was
  misheard, which the invariant carries along; a kill that writes an exit file without
  having killed is of that kind.

### What stays with TLC

* Liveness under fairness is out of the prover's reach: `ComesToRest`, `CancelSettles`,
  `ControlReturns`, `TurnsSettle`, `CallsSettle`, `NoSilentRetries`, `TransferSettles`,
  `TransfersLeave`, `EndedTasksAreCleanedUp`.
* `RestsOnlyWhereItCanBeWoken` without the words *while there is budget*. On the instance of
  `AgentSessionRest` the reads suffice; for all constants a theorem would have to bound the
  reads of whole behaviours by `MaxSteps` and the plans. Where the property fails, the state
  is one of those `RestIsExplained` names.

## 5. What is not modelled

* Session manager: `submit_user_input` (its status, `awaiting_user`, is not reached by
  any legal command), `EXECUTION_PROGRESS` and `EVIDENCE_DELETED` (no effect on
  control), `VERIFY_MUTATION` and `BLOCK` (never pushed), the longer deadline of approved
  background tasks, feature flags that switch bundles off. The renderer offers *resume*
  on paused tasks only; `AgentSession` relies on it.
* In `AgentSession` the session fingerprint and the policy version are constant and
  commits succeed; `ExecutionBridge` and `AgentHost` vary them.
* Several tasks share the approval manager and the executor by task id, and nothing
  else; that sharing is not modelled.
* Store: what `enforceQuota` trims, how records are encoded.
* Providers: `removeProfile`, rate limits, `rebuild`, the adapters that hold no session,
  shutdown.
* Execution: background tasks and pid reuse on the host, terminal handoff, decoding and
  capture of streams.
* Terminal sessions: the WebSocket and its two-minute connection timer, the terminal
  stream, zmodem, trzsz, tunnels, SFTP calls other than the ones above. Two things seen
  while reading: the exit of an *old* child removes the new child's entry after a
  reconnect (`session-process.js:120`), and `known_hosts` is read, changed and written
  without a lock (`ssh-known-hosts.js:233-251`).
* Transfers: folders and their archives, moves and copies on one side (`mvOrCp`), transfers
  between two remote hosts (a handler that watches the list for its first half).
* MCP: the other tools, which are single calls into the renderer, and the HTTP
  transport's sessions. A reload of the window, which empties the renderer's table of
  commands; a start whose request timed out (its record is kept for ever, its command has
  no task); a command so short that it ends before its own pid file is written; pids the
  host uses again.
* Agent window: the timeline and the events snapshots bring for it, `awaiting_user`.
* Parsing, classification, redaction, prompts, rendering, bookmarks, themes, database
  adapters, packaging: text in, text out, or plumbing. They are most of the lines of the
  repository, and `PROJECT.json` says why for each component.

## 6. Plan

Done: the modules above with their runs, and the theorems of section 4: type correctness
of every module, every safety property that a passing run checks (some under the hypotheses
named there), both refinements.

To come:

1. `AgentSession` with overlapping resumes: which of the theorems that assume one at a time
   hold with any number (the `AgentSessionChanges` run suggests the records and the
   completion do) and the thread invariant this needs.
2. `FailedCheckNeverPasses` and `ImplementsLedger` with crashes that do not fall between
   `executing` and the call to the host.
3. More of the system: the session processes' lifecycle (reconnect against the exit of an
   old child), background tasks and evidence files.
