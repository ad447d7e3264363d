# GitGym, modelled in TLA+

GitGym gives each user a Git workspace and a shell in it for a limited time. Three
programs share the work:

- the **API** (`services/api`, Go, MySQL) owns users, practice sessions and clean-up jobs;
- the **runner** (`services/runner`, Go) owns workspace directories and shells;
- the **web client** (`apps/web`, TypeScript) shows the session, the terminal and the
  repository.

This directory holds TLA+ modules translated from the source, configurations that
check them with TLC and proofs checked with TLAPS. `PROJECT.json` maps every definition
to its source lines and lists runs, mutants, hazards, findings and theorems.

## Inventory

| component | state | operations | talks to | hard part | correct when |
|---|---|---|---|---|---|
| practice service (`service/practice_service.go`, `service/practice_session_reaper.go`, `store/mysql.go`) | `practice_sessions`, `workspace_cleanup_jobs` | create, current, by id, reset, repo state, connect; expire sweep, clean-up sweep, reconciliation, requeue | runner by HTTP, store by SQL, operator by HTTP | every call is several statements; handlers, two loops and the runner interleave; each may fail half-way; the process may die | no live workspace is deleted, no ended one is forgotten, attempts are bounded and not wasted |
| runner clean-up manager (`engine/workspace_cleanup.go`, `handlers/deletes.go`) | pending timers, failures | delete now, delete later, supersede | terminal manager, file system | timers race with immediate deletes and die with the process | the last request wins; no directory goes under a live shell |
| terminal manager (`engine/terminal_sessions.go`) | slots, sessions, subscribers | acquire, release, read loop, input, resize, close | shell process, clean-up manager, resets | starting and releasing happen outside the lock; broadcast blocks inside it | one live shell per workspace; release ends; no reader blocks everybody |
| terminal handler (`handlers/terminal_ws.go` in the runner) | per connection: trackers, last sequence | connect, input, resize, completion events | terminal session, API bridge | output arrives in arbitrary chunks | each command completes once, in order |
| terminal bridge (`handlers/terminal_ws.go` in the API) | two sockets, two goroutines | copy frames, close | practice service, runner, browser | either side may fail first | both sides close, nothing leaks |
| workspaces, templates, snapshots, commands (runner) | directories | create, reset, snapshot, run | file system, git | reset under a live shell | a reset workspace equals its template |
| authentication (`handlers/auth.go`, `middleware`) | `user_sessions`, cookies | login, callback, check, logout | GitHub | revocation against requests under way | a revoked session authorises nothing |
| current session (`CurrentPracticeSession`) | newest row per user | current, create, expire, orphan | web client | creates, sweeps and lookups overlap; status and age disagree | a lookup never goes behind what the user was told |
| migrations (`cmd/migrate`) | `schema_migrations` | look for the initial schema, apply, record | MySQL | two statements per file; two commands at once; a command may die | what is recorded has been applied; one of two commands completes the schema |
| web client (`hooks`) | session, terminal, repository views | load, refresh, reconnect, reset, new session, log out | API | calls overlap, answers come out of order | the page shows the current session or says that it may not |

Read-only or stateless, and therefore only inputs of the models: HTTP status mapping and
JSON, catalogue look-ups, configuration, components and styles, scripts, contracts,
scenarios and the database schema.

## What is modelled

| module | models |
|---|---|
| `PracticeStore` | what one store call does to a session row and to a job row, for MySQL and the in-memory store |
| `PracticeCleanup` | the API process: HTTP requests, expiry loop, clean-up loop, over the store and the runner as its client sees it |
| `WorkspaceLifecycle` | the abstract promise about a session and its workspace, which `PracticeCleanup` implements |
| `CurrentSession` | which of a user's sessions is the current one: creates, lookups, sweeps and expiry interleaved |
| `TerminalSlots` | the runner's terminal manager: `Acquire` and `Release` over the slots map |
| `RunnerCleanup` | the clean-up manager over `TerminalSlots` (it EXTENDS it): DELETE now or later, timers, superseding, removal |
| `TerminalSession` | inside one shell's session: the pump, the goroutine that waits for the process, `close`, and the two goroutines of each connection, over the session's mutex and bounded channels |
| `CompletionTracker` | what a connection makes of output cut into chunks: marker lines, text held back, exit commands |
| `TerminalBridge` | the API's two copying goroutines and their handler |
| `RunnerWorkspace` | one workspace directory: creation, resets, the user, snapshots, removal and crashes, one file operation or git command at a time |
| `CommandLine` | `parseCommand`, one rune or escape at a time |
| `CommandRun` | `RunCommandWithEvents`: processes with deadlines, what they leave running, events |
| `Migrations` | the migration command over the statements of its files |
| `BrowserLogin` | log in, callback and log out over two cookies and the `user_sessions` rows |
| `WebSession` | the session the page shows: `useCurrentSession` and the actions of `App` |
| `RepoCard` | the repository card: `useRepoState` and the refresh context of `App` |
| `MCPracticeCleanup`, `MCRunnerCleanup` | finite instances of one specification |
| `MCUserCommands`, `MCShared`, `MCBrowser` | finite instances of several components side by side |
| `Filtering` | some of a sequence's elements in their order, used by `CompletionTracker` and `CommandLine` |
| `*_proofs` | theorems (see Proofs) |

Several components share a process but no variable: a shell's session knows nothing of the
tables a migration creates. `MCUserCommands`, `MCShared` and `MCBrowser` put such components
side by side and let one of them move (`stage`, `part`). As they share no variable, every
behaviour of one of them appears with the others standing still, and every behaviour of all
is one of each with stutters, so nothing is lost for properties of each. Where components do
share state they are composed: `RunnerCleanup` extends `TerminalSlots`, `PracticeCleanup` uses
`PracticeStore` and implements `WorkspaceLifecycle`.

What one component assumes of another is stated by the other:

- `PracticeCleanup` takes the runner's delete as one call that ends; `RunnerCleanup` shows that
  it does (`DeletedOrReported`) unless a session jams.
- `TerminalSlots` knows of a session that it may end by itself or jam, and of its shell that it may
  exit or let go of its terminal (`ShellDetaches`). `TerminalSession` has the jam (`Jammed`) and shows
  that `close` waits for nothing else. A connection may wait for one thing more: what is typed is
  written with the mutex let go, and stays in the message loop's hands until the shell reads it (`Unread`).
- `CompletionTracker` reads output that arrives in order and without a gap; `TerminalSession` shows
  that a subscriber gets it so (`NothingSkipped`).
- `RunnerWorkspace` is created once and removed by one deletion; `RunnerCleanup` says which one
  begins.

### PracticeCleanup and the code

Each action is one store statement (or transaction) or one runner call, because these
are the points where other goroutines, the runner and a crash can come in between.

| action | code |
|---|---|
| `CreateWorkspace`, `StoreSession` | `CreatePracticeSession`: the runner call, then the insert |
| `ReadSession` | `PracticeSessionByID` or `CurrentPracticeSession`, and `ensureSessionAvailable` |
| `RunnerAnswers`, `RunnerSaysNotFound` | reset, repository state or terminal connection; 404 leads to `orphanSession` |
| `TransitionSession`, `TransitionFails` | `transitionSession` and its update |
| `UpsertJob`, `UpsertFails`, `RequestFallback` | `upsertWorkspaceCleanupJob`, `fallbackWorkspaceCleanup` |
| `ReadExhaustedJob`, `RequeueJob` | `RequeueExhaustedWorkspaceCleanupJob`: check, then update |
| `ExpireSweep`, `ExpireLookup`, `ExpireUpsert`, `ExpireFallback` | `ExpireStalePracticeSessions` |
| `ClaimDueJobs`, `DeleteSucceeds`, `DeleteFails`, `MarkJob`, `MarkFails`, `RecoverJob` | `RunWorkspaceCleanupDueJobs` |
| `ListMissing`, `Backfill` | `ReconcileWorkspaceCleanupJobs` |
| `RunnerTimerFires`, `RunnerRestart`, `LoseWorkspace` | the runner's delayed deletes, its restart, a directory lost otherwise |
| `ApiCrash`, `Tick` | process restart; one sweep interval passes |

Abstractions:

- An instant is the time left until it is reached, so nothing needs an absolute clock.
- A request is a slot in `Requests`; what it answers is left out, what it writes is not.
- A store statement fails committed or not; a runner call fails with or without effect.
- A session identifies its workspace, its job and its row. The owner check is left out:
  a request that fails it changes nothing.
- The claim's order by `scheduled_at` is left open: any batch of the right size.
- There is one clean-up worker, the deployment the job design assumes; leases are
  modelled because a restart makes them matter.

### CurrentSession and the code

| action | code |
|---|---|
| `Reject`, `MakeWorkspace`, `MakeWorkspaceFails`, `Insert`, `InsertFails` | `CreatePracticeSession`: the start is taken, the runner called, the row inserted |
| `Begin`, `Read`, `Check`, `Expire` | `CurrentPracticeSession`: the newest row by `started_at` and id, `ensureSessionAvailable`, the update of an expired one |
| `Sweep`, `Orphan`, `Tick` | the expiry loop, an orphaning by another request, time |

A request whose context is cancelled is an insert that fails. Ticks are coarse, so that
starts can tie. The update of a lookup overwrites the whole row, as the code's does.

### The runner's terminals and the code

| action | code (`engine/terminal_sessions.go`) |
|---|---|
| `AcquireCalled`, `GiveUp`, `ReuseSession`, `WaitForSlot`, `SlotReady`, `InstallSlot`, `StartShell`, `Publish` | `Acquire`, one round of its loop and its start outside the mutex |
| `AskJammedSession` | `Acquire` asking `isClosed` of a jammed session, with the manager's mutex held |
| `ReleaseCalled`, `NothingToRelease`, `ReleaseWaits`, `ReleaseWoken`, `ClaimSlot`, `FinishSession`, `KillShell`, `DropSlot`, `ReleaseReturns` | `Release` |
| `PumpReads`, `BroadcastBegins`, `Send`, `SendDone`, `PumpReadFails`, `PumpClosesBackend` | `pump` and `broadcast`, which sends with the session's mutex held |
| `ProcessReaped`, `MonitorFinishes` | `monitorProcessExit`, `waitProcess` |
| `ReleaseBegins`, `ReleaseFinishes`, `ReleaseTerminates`, `ReleaseClosesBackend`, `ReleaseReaps` | `close` |
| `Subscribe`, `Receive`, `ChannelClosed`, `ContextDone`, `Deliver`, `Unsubscribe`, `Report` | `ReadLoop` and the goroutine of `handlers/terminal_ws.go` that runs it |
| `Attach`, `MessageArrives`, `SocketFails`, `Join`, `ClientGoes` | the handler's message loop |
| `Input`, `InputWritten`, `InputFails` | `WriteInput` and `Resize`: the check under the mutex, then the write to the terminal, and what the message loop makes of an error |
| `ShellExits`, `SessionEnds`, `ShellDetaches`, `SessionJams` (in `TerminalSlots`) | what `Acquire` and `Release` see of a session: the process exits and is waited for; the pump reads the terminal's end while the process runs; a broadcast holds the mutex for good |
| `IngestOutput`, `FlushFrames`, `StreamEnds`, `SubmitExit`, `SubmitExitHead`, `SubmitExitTail`, `SubmitOther` | the trackers of `handlers/terminal_ws.go` |

The options a shell is started with, a kill that fails, the Windows variant and processes in the
background that keep the terminal open are left out; a shell that lets go of its terminal is in
`TerminalSlots` only. `hasCommandCompletion` never decides
anything: an exit completion is flushed once and then forgotten.

### RunnerCleanup and the code

| action | code (`engine/workspace_cleanup.go`) |
|---|---|
| `DeleteNow`, `DeleteLater` | `Schedule` |
| `Supersede`, `CancelEntry` | `cancelPending`: under the lock, and after it |
| `ClearPending`, `BeginPendingDelete` | the goroutine of a timer: cancelled or fired |
| `ReleaseTerminal`, `RemoveDirectory`, `RecordCleanupResult` | `deleteNow`, `recordCleanupResult` |

Durations are left out: an armed timer may fire at any time.

### The directory, commands and schema and the code

| action | code |
|---|---|
| `MakeDirectory`, `Write`, `GitInit`, `GitConfig`, `GitAdd`, `GitCommit`, `CreationFails` | `CreateWorkspace` and the template's files |
| `List`, `RemoveEntry`, `AllRemoved`, then the steps of a creation, `ResetFails` | the reset handler |
| `Edit`, `EraseFile`, `CommitAll`, `InitAgain` | the user's shell |
| `AskHead`, `AskStatus`, `SnapshotOver` | `CaptureSnapshot` |
| `EmptyDirectory`, `RemoveDirectory`, `Crash` | `os.RemoveAll`, a dying runner |
| `Refuse`, `PreSnapshot`, `RecordStarted`, `Launch`, `LaunchFails`, `Exit`, `Deadline`, `Collect`, `PostSnapshot`, `RecordFinished` | `RunCommandWithEvents` (the tests' entry) around `RunCommand` (the handler's) |
| `StartHelper`, `HelperEnds` | what git starts and leaves running with its output open |
| `EscapedBackslash`, `EscapedQuote`, `CloseQuote`, `QuotedRune`, `OpenQuote`, `Blank`, `PlainRune`, `Unterminated`, `Finish` | the branches of `parseCommand`'s loop, and its end |
| `Start`, `CheckApplied`, `CountTable`, `Baseline`, `Execute`, `Record`, `Crash` | `main` of `cmd/migrate` |

Any git command may fail at any time (a lock, a full disk). The branch's name never changes.
Ten initial tables are two; the server may finish the statements of a command that has died,
and commits each `CREATE TABLE` by itself. A process that has exited past its deadline is told
as a time-out, as the code does. The git commands of a snapshot have no time-out of their own,
and that they end is assumed.

### The bridge and the browser and the code

| action | code |
|---|---|
| `Accept`, `FirstError`, `CloseRunner`, `CloseBrowser`, `Cancel` | `PracticeTerminalWebsocket` in the API |
| `ReadFrame`, `ReadFails`, `WriteFrame`, `WriteFails`, `Report` | `proxyTerminalFrames`, once per direction |
| `GitHubLogin`, `Callback`, `Exchange`, `ExchangeFails`, `CreateBrowserSession`, `CreateFails`, `Answer`, `AnswerFailure`, `AnswerLost` | the login handlers |
| `SendLogout`, `RevokeBrowserSession`, `RevokeFails`, `LogoutAnswer`, `LogoutLost` | the logout handler |
| `TerminalLost`, `TerminalBack`, `TryAgain`, `RetrySync`, `OpenPicker`, `NewSession`, `Reset`, `Logout` | what happens to the page and what the user does in `App` |
| `ServeLookup`, `ServeCall`, `ServerChanges`, `LookupArrives`, `CallArrives`, `CallFails` | the server's answers and their continuations in `useCurrentSession` and `App` |
| `Fetch`, `Answer`, `Succeed`, `FailQuietly`, `Fail` | the effect of `useRepoState` |
| `ReceiveExit`, `Notice`, `Reconnect`, `Show`, `Hide`, `Renew`, `ResetRepo`, `ResetDone`, `Retry` | the triggers `App` gives it |

WebSockets and GitHub are external. Frames and changes of a repository are counted. Tabs of
one browser share the state cookie, so of two logins at once both may fail. In `WebSession` the
catalogue is loaded, opening and confirming the picker is one step, and a load, its
continuation and the effects of the render are one step, as they are in one turn of the
browser's event loop; 404 and 410 are not told apart. In `RepoCard` the triggers other than a
command are one (they differ in wording), and a status and its exit frame arrive together.

## Runs

| run | instance | shows |
|---|---|---|
| `survive` | 1 session, 2 requests, any 2 faults, 3 attempts, fair | the workspace of an ended session always goes; races waste no attempt |
| `exhaust` | 1 session, 2 requests, 4 failing deletes or runner restarts, fair | removed, or shown to the operator; a requeue starts over |
| `two_sessions` | 2 sessions, 1 request, any 1 fault | shared sweeps, batches and faults end or delete no wrong session |
| `deletions` | 1 workspace, 2 connections, 2 DELETE calls (a call's goroutine is used again), 2 shells at a time, which may let go of their terminals; any removal may fail | one shell per workspace, no waiter forgotten, a release kills, no deletion lost, the last decides, shells go before the directory |
| `deletions_end` | 1 connection, 2 DELETE calls, 1 jam, any removal may fail, fair | calls of the terminal manager end, accepted deletions are carried out or their failure is recorded, unless a session jams |
| `commands` | 2 command calls; commands of 5 runes or 2 arguments of 2; 1 connection with a channel of 1; outputs of 3 pieces cut anywhere; 2 frames each way; fair | arguments are read as written, every call has one start and one end event with its outcome, no output is lost or doubled, and every connection, call and goroutine ends unless the session jams or its shell never reads what was typed |
| `shared` | 2 creates and 2 lookups; 2 migration commands, 4 runs of which 2 die; 2 resets (or 1 and a snapshot), 2 changes by the user, removal, crash; 2 connections that only watch, with channels of 1, and 3 chunks | no lookup goes behind what the user was told; what is recorded was applied; a reset that succeeds restores; two subscribers each get all the output |
| `browser` | 3 logins, 2 logouts, 2 faults, a restart; 3 sessions and 4 calls of the page; 3 commands, 4 fetches, 1 reset on 2 sessions | the cookie is known to the store, a page at rest says what it knows, a ready card is current |
| `due_pending`, `exhausted_listed`, `succeeded_final`, `latest_intent` | 1 session, 1 request | four statements of the design documents that the code does not keep |

`SessionEnds`, `OutputKept`, `ParsedAsWritten`, `SchemaCompletes`, `WorkspaceKept`, `OutputInOrder`
and `CardIsCurrent` each join properties that are stated, with their comments, in the
component's module.

Bounds.

- `PracticeCleanup`: `MaxAttempts` is 3 instead of 5 so that a run of faults can exhaust it (4
  faults) or not (2 faults). Delays are 1 and 2 ticks in the code's order: the session's time
  to live, the orphan grace and the first retry are shorter than the lease, and later retries
  are no shorter than the first. Two requests suffice for one to act on what the other has made
  stale; two sessions for a batch and a sweep to hold more than one row. With `MaxFaults` not
  below `MaxAttempts` the liveness part of `ImplementsLifecycle` does not hold: that is what
  `exhaust` is about.
- `PromptWrites` says that the successive writes of one handler, or of one expiry sweep, fall
  within one sweep interval. Clean-up writes run under a five second timeout
  (`workspaceCleanupWriteTimeout`), the interval is a minute, and the retries that an upsert
  would have to outlast take more than twenty minutes. `survive` also passes without it, in five
  times the states.
- `RunnerCleanup`: a third task changes nothing but who is superseded, and the theorems hold for
  any number. Workspaces do not interact but through the manager's mutex.
- `TerminalSession`: a channel of one chunk (32 in the code) fills up at once. Two chunks are
  enough for a gap, and two readers for one to hold up the other. Liveness is checked for one
  reader who also types (`Typists`), as for two the graph is too large; the safety of two is in
  `shared`, where nobody types: what typing can do to the output is to end the connection, and a
  socket that fails does that too. The theorem is for any typists.
- `CompletionTracker`: the pieces hold whole, broken and coloured markers; two adjacent cuts
  around a middle piece are all the ways in which a chunk can begin and end.
- `CommandLine`: a rune is read by its neighbours only, so five runes (quote, escape, quote,
  blank, quote) hold each case; larger instances say the same.
- `Migrations`, `RunnerWorkspace`, `CurrentSession`: two of each actor overlap in every order; a
  third would repeat the part of one of them.
- `BrowserLogin`, `WebSession`, `RepoCard`: one call more than what a misplaced answer needs (an
  older one, a newer one, and one that is under way when either arrives).

Fairness.

- `PracticeCleanup` (`FairSpec`): the loops are goroutines started once, and each sweep is straight
  code: weak fairness of `ExpiryStep` and `WorkerStep`. It assumes that store and runner calls
  return; the clean-up loop's delete has no timeout of its own, so a runner that never answers
  is outside this model. A handler that has reached a write goes on (`RequestWrite`); a request
  waiting for the runner may wait for ever. Time passes (`Tick`). Fairness forces no request, no
  requeue and no fault.
- `TerminalSlots`, `RunnerCleanup`: the goroutines of `Acquire`, `Release` and a deletion go on, timers
  fire. `Release` looks again after each start it has waited for, so `DeletedOrReported` needs that
  shells are not started for ever (`StartsCease`).
- `TerminalSession`: the pump, the waiting goroutine, `close`, the read loops and message loops go
  on. A connected client reads or disconnects; no client need come, type or leave, and no shell
  need write, exit or read what is typed (`InputWritten` is not fair). A write to a terminal that is
  closed, or whose shell has exited, fails.
- `TerminalBridge`: both goroutines and the handler go on. Writes of the bridge have no timeout, so
  the far end is assumed to read or to be found gone.
- `CommandRun`: every step of a call goes on, a deadline passes, and what a command leaves running
  ends by itself (`HelpersEnd`; without it `CallsReturn` fails, see below).

Deadlock is checked in the runs of `PracticeCleanup`. The others stop when their bounded inputs
are used up, so it is not.

## What the code does not keep

Four statements of the design documents have a run that refutes them:

- *Pending jobs are claimable when due* (retry policy). A job whose last attempt could
  not be recorded is re-enqueued as pending with its attempts used up; no claim takes it
  and no list shows it.
- *Exhausted failures are visible* (retry policy). A process that dies in the last attempt
  leaves a running job, out of attempts: not claimed again, not listed, not requeueable.
- *A succeeded job needs no new one* (job design). An upsert that comes late starts it over;
  this is harmless, as the delete finds nothing.
- *The latest intended reason and schedule are preserved* (job design). The expiry sweep
  that ended a session may upsert after a request that had read it earlier orphaned it.

Others are stated in the modules under "Not kept by the code". TLC refutes each as an
invariant or property of its module in an instance like those above:

| definition | the code | what says otherwise |
|---|---|---|
| `TerminalSession.ReleaseEnds` | `broadcast` (`terminal_sessions.go:571`) sends to a full channel with the session's mutex held; a read loop that leaves needs the mutex to unsubscribe: both wait for ever, and so does `Release` | the terminal plan: "Close the PTY and kill the process on release" |
| `TerminalSession.ShellExitEndsNormally` | the pump may see EIO and close the session before the process is reaped (`:551`): the socket closes with an internal error | `terminal_ws_test.go:150` expects a normal closure |
| `TerminalSession.FinalOutputDelivered` | the waiting goroutine may close the session before the pump has read the last output (`:669`) | `terminal_ws_test.go:154`: exit frames come before the close |
| `TerminalSlots.ReleaseKillsAll` | `Acquire` drops a slot whose terminal has ended without closing the session (`:131`): a process that let go of its terminal outlives `Release` | the terminal plan, as above |
| `RunnerCleanup.NoShellWhenRemoved` | an `Acquire` between release and removal starts a shell in the workspace (`workspace_cleanup.go:117`) | the clean-up design: "stop any active terminal session for that workspace before deleting" |
| `CompletionTracker.MetadataRemoved` | a chunk that ends inside a marker's payload is shown, and its command never completes (`terminal_ws.go:297`) | the tracker test: "expected metadata marker to be removed from transcript" |
| `CompletionTracker.ExitReported` | an exit typed key by key is not recognised (`terminal_ws.go:149`) | `terminal_ws_exit_completion_test.go:13` |
| `TerminalBridge.RunnerCloseStatusPreserved` | a frame of the browser that cannot be written is reported before the runner's close is read (`handlers/terminal_ws.go:65`) | `TestPracticeTerminalWebSocketPreservesRunnerCloseStatus` |
| `RunnerWorkspace.SnapshotOfOneMoment` | HEAD and status are asked for one after the other (`snapshots.go:17`) | the snapshot design: "the current live workspace state" |
| `Migrations.AppliedIsNoObstacle` | a command that dies between applying and recording leaves a schema on which every later run fails (`cmd/migrate/main.go:101`) | the README: run it to create the schema |
| `WebSession.KeptOnFailure` | what to keep is decided when a lookup starts (`useCurrentSession.ts:62`) | `useCurrentSession.test.tsx:45` |
| `WebSession.WorkbenchStays` | each lookup sets "loading", which unmounts the terminal (`useCurrentSession.ts:61`) | `App.test.tsx:4012` |
| `WebSession.SignedOutStays` | an answer to "Retry sync" after a logout shows the workbench (`App.tsx:560`) | `App.test.tsx:3405` |
| `WebSession.RecoveryOffersPicker` | the recovery page's button needs the status "ready" (`App.tsx:580`) | the recovery design |
| `CurrentSession.FindsActive` | the newest row counts whatever its status (`mysql.go:56`) | the persistence design: "the most recent active session" |
| `RepoCard.OutcomeIsTheCommands` | an outcome is the difference of two snapshots (`useRepoState.ts:112`) | the outcome design: "what the last completed command changed" |
| `BrowserLogin.FailureCreatesNothing` | the answer of an insert may be lost (`auth.go:92`) | the OAuth design: "do not create a browser session" |
| `BrowserLogin.SessionPersists` | the cookie has no lifetime (`auth.go:214`) | the OAuth design: "the persistent `gitgym_session` cookie" |
| `CommandLine.EscapedQuotesHandled` | an escaped quote before a blank ends the argument (`commands.go:212`) | `TestParseCommandHandlesEscapedQuotesInsideQuotedArgument` |
| `CommandRun.CallsReturn` without `HelpersEnd` | the deadline kills git only; its pipes may stay open (`commands.go:98`) | `TestRunCommandReturnsTimeoutError` |

The runs check what remains true next to these: a release ends *unless the session jams*, and
leaves no shell *but one that had let go of its terminal*; a connection whose client has gone ends *unless
its shell never reads what was typed*; text is kept *but for a cut inside a marker*, a lookup hides an active session *only behind a newer
one*, and so on.

## Proofs

All are for any values of the constants, from the modules' named assumptions only. These say that
bounds and durations are numbers; that the null values are none of what they stand for; that
those who act under different roles (a reset, the creation, the user, the removal; the two ends of
the bridge), and the kinds of runes and of tokens, are different; that `PracticeCleanup` and `CurrentSession` have finitely many sessions and
requests; and that there is a reset, and room for a chunk in a channel and for a call of the page. `MCShared`, `MCUserCommands`
and `MCBrowser` are proved about as they are run: their theorems are of `Parts` or `FairStages`
for arbitrary constants, and a part that moves alone implements its own module
(`RowsMove`, `CookiesMove`).

| module | proves about |
|---|---|
| `PracticeCleanup_proofs` | `PracticeCleanup`, `WorkspaceLifecycle` |
| `RunnerCleanup_proofs` | `TerminalSlots`, `RunnerCleanup` |
| `Workspace_proofs` | `RunnerWorkspace`, and the types of all of `MCShared` |
| `Shared_proofs` | `CurrentSession`, `Migrations`, `TerminalSession` |
| `UserCommands_proofs` | `CommandRun`, `TerminalBridge` |
| `LineText_proofs` | `CommandLine` |
| `OutputText_proofs` | `CompletionTracker`, and the types of all of `MCUserCommands` |
| `Browser_proofs` | `BrowserLogin`, `WebSession`, `RepoCard` |

`PracticeCleanup`:

- `TypeCorrect`: `TypeOK`, strengthened by what each program counter says about the fields
  next to it (`TypeInv`). That attempts stay within their maximum rests on `Claimable`.
- `LiveWorkspacesAreSafe`, `SuccessIsTrue`, `EndedSessionsStayEnded`: from `LifeInv`. Deleting a live
  workspace is excluded because everything that may lead to a delete (`Doomed`: a job, a timer,
  a swept or claimed copy, a request past its transition) is of an ended session, and an
  ended session stays so; the latter needs that a row is inserted once (`InsertsAreFresh`)
  and that written-back copies were read from a stored row (`CopiesAreOfRows`).
  A success is recorded after a delete that left nothing (`SuccessIsReal`).
- `ImplementsTheLifecycle`: every step is a step of `WorkspaceLifecycle` or leaves it alone
  (`StepRefines`), so `Spec => Lifecycle!Spec`. `QuietStepLife` carries most of the induction: a
  step that changes no session row is safe if whatever it newly touches is ended.
- `NoAttemptIsWasted`: `AttemptsPaidByFaults`, from `PaidInv`: as long as the workspace exists, each
  attempt but the one under way has its fault, and a job nobody has claimed has none.
- `NothingIsForgotten`: `NoForgottenWorkspace` where only the runner fails (`OnlyRunnerFails`: store
  statements succeed, the process lives, writes are prompt, two attempts at least). Who holds
  the workspace is followed through a sweep, a claim and a requeue (`KeptInv`).

`TerminalSlots`: `TypeCorrect` and `WakeupsKept` from `MapInv`: who starts or closes a shell owns its
slot alone (`Owned`), the slot is in the map under its workspace (`Mapped`), and a slot that is
being started or closed has somebody who does it (`Attended`). `ShellsApart` and `ReleaseEnds`
(one shell; a release kills) from `ShellInv` on top: a living shell is in the map unless it has let
go of its terminal, a shell not yet started is of the starter only, and of the
shells a release remembers those the map leads to are its workspace's, and none is once it returns.

`RunnerCleanup`: `UsesTheTerminalManager` shows that the two managers together implement
`TerminalSlots.Spec`, so its theorems hold of them. That needs a little of the table's
invariant (a task past its removal has released the terminal), and the table's needs
the types of the terminal manager, so both are proved in one induction (`BothInvariants`).
`TypesCorrect` has the types of both, and that only tasks there are get cancelled.
`NoDeletionIsLost`, `TheLastDecides` and `ShellsGoFirst` follow from `Armed` (what the table holds
waits for its timer and is the last asked for), `TakenOut` (an entry that was taken out is not
in the table when it is cancelled) and the theorems of `TerminalSlots`.

`CurrentSession`: `NeverAnOlderOne` and `AbandonedIsPaid` from `Inv`: what a user was told is stored
(`ToldAreStored`), and from its beginning a lookup has a row to find that is no older
(`NoneOlder`); that a newest row exists is by well-founded induction on what is left below
`MaxTime`. `OnlyANewerOneHides` needs more (`HidesInv`): the row a lookup found when it read is
at least as new as every session that stays usable, although the lookup checks and expires it
only later; a copy read as ended is of a row that is ended by now, as no row becomes active again.

`RunnerWorkspace`: `ResetsKeepTheirPromise` from `WorkspaceInv`, which has a part for each reset and one
about all. For each: what is left from before it listed the directory is still on its list
(`OldLeft`); with only resets at work everything else is the template's (`AmongResets`); with
nobody, how far the template and its commit are (`Alone`). `Alone` alone would not do: a reset is
undisturbed only if the others are idle, and what overlapping resets leave together is known of
none of them. So `MissingInv` says of each file of the template that is missing, in the directory,
the index or the last commit, that some reset has still to write, add or commit it, or is
disturbed by others. Snapshots have an invariant of their own (`CaptureInv`): the present is among
the moments noted, whoever changes the directory. `TypesCorrect` rests on `Stamped`, that no file and no
commit is of the future; both instances are shown to do no more to the directory than `Effect`
allows, and `Effect` keeps it. It has the types of the other parts of `MCShared` too.

`Migrations`: `SchemaIsCompleted` from `SchemaInv`. Safety needs what each command has seen (`Grounded`):
the files before its own are recorded, the statements before its next one applied. That one of the
commands that overlap finishes is not about any one of them; the invariant names one that nothing
the others can still do will make fail (`Champion`, `OnTrack`): it has still to see that no table of
the next file exists, or is the one that has begun to create them. When it is overtaken,
the one that overtook it takes its place.

`TerminalSession`: `OutputComesInOrder` from `SessionInv`: what a subscriber has printed, has in hand and has in
its channel are consecutive and end with what the pump has sent it (`ReaderInv`, `SentUpTo`), a channel is
open exactly as long as its reader is subscribed, and those the pump has still to send to are
subscribed while it holds the mutex (`PumpInv`): so nobody sends on a channel that was closed.

`CommandRun`: `Pairing`, `Outcomes`: what each program counter says about the events of its call
(`Progress`) and about its outcome (`Settled`, `Recorded`).

`TerminalBridge`: `PassedOnComesLast` from `BridgeInv`: as long as the receiving side is there and no write has
failed, what it got and what the goroutine carries are all that was read (`Flow`); a goroutine that has
read a close has read everything before it (`Reported`); and what the handler passes on is such a close
(`Origin`).

`CommandLine`: `CommandsRead` from `LineInv`, for lines of any length. That no ordinary rune is lost or
moved is kept by each branch of the loop (`Kept`). That a line is read as it was written needs to know
what is left of it: the invariant names the arguments not yet read, and says that the rest of the
line is how they are written (`ReadSoFar`), with a case each for between two words, within a word,
and within a quote that is open. Which branch the loop takes follows from the first runes of that rest;
an escaped quote before a blank is the one case in which they mislead it.

`CompletionTracker`: `OutputSurvives` from `TrackerInv`, for outputs of any length cut into any chunks. The
ordinary text and each command are either shown, completed, held back or still to come (`Balanced`):
that holds however the output is cut. As long as no cut did harm, what was shown and what is held are
what one drain of all that was read gives (`Followed`): the loop over the lines, started with the text
held back, gives the same as the loop over everything from the line's beginning (`Alike`), or the two are in the
middle of a line that neither may hide (`Apart`, `Quiet`). `StagesTypeCorrect` needs the same
invariant, as what is held back is short only because it may still become a marker.

Both compare texts that a loop computes: selections, joined pieces, the lines of a text. These are
recursive functions or operators of the community modules, and what they give for a text with one
more element is proved once (`OnlyAppend`, `OnlyConcat`, `FlattenAppend`, ...), by induction on
lengths. The induction itself is the least element of a set of counterexamples (`NumbersByInduction`,
from `WellFoundedInduction`).

`BrowserLogin`: `CookieKnown`, `OutRevoked` from `Inv`: tokens are of logins that were answered, their
rows stay until a logout with that very token, and what was revoked stays so.

`WebSession`: `RestIsReported` from `WebInv`: the hook has what the last lookup returned, and what stands
in for it is said, was dismissed, or is the session of a create whose lookup is still under way
(`StandsInv`); without the last case it is not inductive. That the number of calls stays within
what was started bounds their set (`TasksInv`).

`RepoCard`: `TheCardIsCurrent`, `TheCardNeverGoesBack` from `RepoCardInv`: the card's properties rest on what an
answer on its way will show (`FetchInv`): a fetch that counts is the last, of the session
shown, and its answer is not older than the commands the page has noticed, the one it was
made for, and what the card shows. That a repository only grows while commands are counted is
`ShellInv`; that what the page has heard is of its session, `PageInv`. `TypesCorrect` has the types of
all three.

Only model-checked:

- everything under fairness (`RemovedOrListed`, the liveness of `ImplementsLifecycle`,
  `WaitsEndOrJam`, `DeletedOrReported`, `SessionEnds`, `BridgeEnds`, `CommandsReturn`): the prover has
  neither liveness nor ENABLED. The safety part of `ImplementsLifecycle` is proved, as a step
  property (`KeepsLifecycle`).

## Not modelled

- The practice catalogue and configuration: read-only.
- The middleware's look-up of a session, the operator check, `AuthMe` and the development
  bypass, which only read; the expiry of `user_sessions` rows.
- Status mapping, JSON, path resolution and validation in the handlers: stateless.
- The terminal panel's own transcript and connection states (`useTerminalSession`), except for
  what the card and the session use of them.
- Git's content, file contents and the shell's bootstrap script beyond the marker lines it
  prints.
- Durations, except where their order matters (`PracticeCleanup`, `CurrentSession`).
- A runner that accepts a delete and never answers: the clean-up loop has no timeout, and
  `PracticeCleanup` assumes an answer.

## Plan

Left, in this order:

1. `useTerminalSession`: connecting, reconnecting and resuming from a sequence number, composed with
   `TerminalBridge`.
2. Clean-up under a runner that does not answer: a fault in which a call of the worker stays
   open, and what then still holds.
3. Liveness of two connections on one session, once the session's model is split into the pump
   and one connection.

Hazards and the properties that cover them are listed in `PROJECT.json`.
