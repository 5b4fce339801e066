# Codex Monitor: a TLA+ verification project

Codex Monitor is a Tauri application (Rust back end, React front end) that
drives `codex app-server` processes for a set of workspaces, locally or through
a remote daemon. This directory holds TLA+ models of its stateful parts, TLC
configurations that check them on small instances, and TLAPS proofs of the
properties that matter most. Paths below are relative to `src/`; those of the
back end start with `src-tauri/src/`.

## 1. The system

### Back end

| part | where | state | module |
|---|---|---|---|
| session pool | `shared/workspaces_core/`, `bin/codex_monitor_daemon.rs` | `workspaces` (id -> entry), `sessions` (id -> shared session), the spawn lock, which ids are in `workspaces.json` | `SessionPool` |
| app-server session | `backend/app_server.rs` | `pending`, `request_context`, `thread_workspace`, `hidden_thread_ids`, `workspace_ids`, `workspace_roots`, callbacks | `AppServerSession` |
| remote backend | `remote_backend/` | cached client, `pending`, `connected`, outgoing queue | `RemoteBackend` |
| daemon connection | `bin/codex_monitor_daemon/transport.rs`, `rpc.rs` | authentication, tasks and permits, answers to write | `DaemonConnection` |
| terminals | `terminal.rs` | map of pty sessions, one reader thread each | `TerminalPanel` |
| login | `shared/codex_core.rs` | what a cancel has to reach, by workspace | `AccountLogin` |
| dictation | `dictation/real.rs` | session, capture thread, flag of the transcription under way, status and handle of a model's download | `Dictation` |
| agents, prompts | `shared/agents_config_core.rs`, `prompts_core.rs` | files | `AgentSettings`, `CustomPrompts` |
| storage, rename, rules, tailscale | `storage.rs`, `shared/*_core.rs`, `rules.rs`, `tailscale/` | files with a copy in memory, child processes | none yet (section 10) |

### Front end

| part | where (`features/`) | module |
|---|---|---|
| reducer of threads, message queue, turns | `threads/hooks/threadReducer`, `useQueuedSend`, `useThreadMessaging`, `useThreadTurnEvents`, `useThreadActions` | `ThreadStore`, `ThreadTurns` |
| list of threads, agents, archive | `useThreadActions`, `useThreadLinking`, `useThreads` | `ThreadList` |
| rows of a thread | `utils/threadItems.ts`, `useThreadItemEvents` | `ThreadItems` |
| live connection of the open thread | `app/hooks/useRemoteThreadLiveConnection`, `useRemoteThreadRefreshOnFocus`, `useWorkspaceRefreshOnFocus` | `LiveConnection` |
| list of workspaces | `workspaces/hooks/useWorkspaceCrud` and its neighbours | `WorkspaceList` |
| data of the panels | nineteen hooks under `git`, `skills`, `models`, `prompts`, `workspaces`, `home`, ... | `PanelData` |
| git panel and diffs | `app/hooks/useGitCommitController`, `git/hooks/useGitActions`, `git/components/`, `useGitPanelController`, `usePullRequestComposer` | `GitActions`, `DiffPanel` |
| composer | `composer/`, `threads/hooks/useReviewPrompt` | `Composer` |
| options of a thread | `app/orchestration/useThreadOrchestration`, `threads/utils` | `ThreadOptions` |
| dialogs | `workspaces/hooks/useWorktreePrompt` and its neighbours | `WorkspacePrompts` |
| settings | `settings/hooks/`, `settings/components/sections/` | `SettingsForms` |
| terminal panel | `terminal/hooks/`, launch scripts | `TerminalPanel` |
| notifications | `notifications/hooks/`, `useSystemNotificationThreadLinks` | `Attention` |
| updater and event hub | `update/hooks/`, `services/events.ts` | `Updates` |
| dispatch of the agent's events, plans, names, hooks, limits | `app/hooks/useAppServerEvents`, `threads/utils/threadNormalize`, `useThreadHookEvents`, `useThreadTurnEvents` | `ThreadNews` |
| home of a workspace | `workspaces/hooks/useWorkspaceHome`, `workspaces/components/WorkspaceHome*` | `WorkspaceHome` |
| account: whose is shown, switching it | `app/hooks/useHomeAccount`, `useAccountSwitching` | `HomeAccount`, `AccountLogin` |
| file tree and preview | `files/components/` | `FileTree` |
| custom prompts | `prompts/`, `app/hooks/useMainAppPromptActions` | `CustomPrompts` |
| agents and servers in the settings, phone's wizard | `settings/hooks/useSettingsAgentsSection`, `useSettingsServerSection`, `mobile/hooks/useMobileServerSetup` | `AgentSettings`, `RemoteServers` |
| dictation in the window | `dictation/hooks/`, `app/hooks/useDictationController` | `Dictation` |

### How they interact

The front end calls Tauri commands. In local mode they run the shared cores
directly, in remote mode they are sent over TCP to the daemon, which runs the
same cores. A core looks a session up in the pool and sends a request through
it. The session's reader task gives the answer back to the caller and turns
every other line into an event for one workspace (or, for account events, for
all). Events go to the front end through Tauri or through the daemon's
broadcast. On the Rust side everything shared is behind one `tokio::sync::Mutex`
per table, so an operation that touches two tables is not atomic. On the
TypeScript side each callback is atomic, but it acts on the state of the render
that made it: what it does after an `await` it does to a state it has not seen.

### What is hard, and what makes each part correct

* **Pool.** All connected workspaces are to share one app-server. Five
  operations may create or replace it under one lock; removals and the daemon's
  synchronisation do not take that lock. Correct: one shared session, no process
  nobody knows of, no workspace connected to a process the program killed, a
  respawn that reaches everyone, a failed add that leaves no trace, requests
  that always return.
* **Session.** Requests of many tasks over one pipe with answers in any order,
  timeouts, and an exit at any point; threads must be given to the workspace
  they belong to from partial information. Correct: an answer reaches its own
  request, tables do not leak, no request waits for a dead process, threads go to
  their workspace, hidden threads stay hidden.
* **Remote backend and daemon.** A connection lost while requests wait, retries,
  clients replaced while others use them, settings changed meanwhile. Correct:
  every call returns and says what became of it, what is retried may be repeated
  safely, unused connections close.
* **Threads.** A call, its answer and the notifications about it arrive in any
  order, and each is handled with the state of some render. Correct: the marks of
  a thread end up right, no message is lost, a stop hits the turn it was meant
  for, the queue moves, rows and families come out as the server has them.
* **Panels, forms, dialogs.** Answers that come after the user moved on. Correct:
  what is on screen is of what is selected, what was asked is done once and where
  it was asked, what says it is busy waits for something, late news undo nothing.

`PROJECT.json` lists the hazards one by one, at the line where each bites, with
the properties that cover it.

## 2. Plan

Done: the pool, the session, the remote system with its abstract channel, the
turns, the lists, and the stateful hooks of the front end, with the proofs of
section 8. Left, in order:

1. `WorkspaceStore`: entries in memory against `workspaces.json`, stale
   snapshots, a rename with its rollbacks, crash and restart.
2. `AgentsConfig` (a file and the configuration, written one after the other with a
   rollback) and `EventStream` (the daemon's broadcast and its lag).
3. The message view and the sidebar, as far as they keep state of their own.

Theorems still worth proving: `QuietMeansIdle` of `ThreadTurns`, `NewsStep` of
`PanelData`. `StopHitsItsTurn` only holds while the user stops once (section 6).
An abstract specification still worth stating is an atomic pool with one session,
which `SessionPool` without removals should implement.

## 3. SessionPool

Models the functions of `workspaces_core` that attach workspaces to a session,
replace it, or detach them, and `sync_workspaces_from_storage` of the daemon.

| variable | code |
|---|---|
| `entries` | `AppState.workspaces` (ids) |
| `written` | ids that were ever in `workspaces.json` |
| `dirs` | clone and worktree checkouts on disk |
| `sessions` | `AppState.sessions`; the `Arc` is the process it owns |
| `proc` | the child process: unused, live, crashed, killed |
| `wsIds`, `args` | `WorkspaceSession.workspace_ids`, `codex_args` |
| `lock` | `CONNECT_WORKSPACE_SPAWN_LOCK` |
| `pc`, `req`, `cur`, `new`, `todo`, `gone`, `kept`, `victim`, `doomed` | locals of the handlers under way |
| `leaked`, `late` | history, for the properties only |

An action is the stretch of a handler between two awaits that touch shared
state: `Begin...` (what is looked up before the first await), `Checkout`,
`Lock`, `Own`, `OwnCheck`, `Peek`, `Check`, `Prune` (finding a live session),
`Spawn`, `Initialize...`, `Persist`, `Rollback`, `RollbackKill`, `Attach`,
`Insert`, then `ReadCurrent`, `Retarget`, `Reregister`, `KillOld` (respawn),
`NextChild`, `Kill`, `Unregister`, `KillChild`, `RemoveDir`, `RemoveDirFails`,
`Drop` (removal), `SyncSwap`, `SyncPrune`, `SyncKill` and `Crash`.

Abstractions: an argument string is a member of a small set; a fresh UUID is an
id nothing refers to; the order of a `HashMap` is a free choice; files are sets
of ids. A request that returns without having changed anything is no step.

| run | question | bounds |
|---|---|---|
| `pool_attach` | adds, a worktree, a respawn and a synchronisation with crashes and failed writes; nothing is removed | 3 workspaces, one a worktree of another; 2 handlers, so every pair of requests overlaps; 3 processes, so each handler may spawn one beside the first |
| `pool_removal` | removals of a workspace, of its worktree or of both against connects and a respawn | the same workspaces, all known at the start; 2 handlers, 2 processes |
| `settles` (part `pool`) | every request returns | a workspace and its worktree, connect, respawn, synchronise; 2 handlers, 2 processes |
| `pool_sync_kills_shared` | finding, section 9 | |

Two exceptions are stated in the properties and not hidden. `late` marks a
workspace published while a removal of the same id, or of the last sharer, was
between its two awaits: `kill_session_by_id` decides under the mutex and kills
after it. `ConnectedIsServed` says that nothing else goes wrong. `leaked` marks a
process the code drops without killing it: an initialize that fails at once (a
timeout does kill), a worktree whose list cannot be written, a respawn that lost
the race with the last removal. `ConnectedIsServed` does not hold once the daemon
synchronises; that is the finding, and why `pool_removal` has no `sync` request.

Fairness (`settles`): weak on every handler's steps, because tokio polls every
woken task, and strong on the lock, because its Mutex serves waiters in order.
Steps that wait for git, the file system or initialize are finite in the code
(initialize has a 15 s timeout; git ends).

## 4. AppServerSession

One `WorkspaceSession`: tasks that send requests and the reader of the
process's output.

| variable | code |
|---|---|
| `nextId` | `next_id` |
| `pending` | `pending`; the value is the caller that holds the receiver |
| `ctx` | `request_context` |
| `thread_workspace`, `hidden` | `thread_workspace`, `hidden_thread_ids` |
| `workspace_ids`, `workspace_roots` | same names; a root is given by which workspaces it lies in |
| `callbacks` | `background_thread_callbacks` |
| `pc`, `call`, `id`, `answer` | locals of `send_request_for_workspace`; `answer` is the oneshot channel |
| `at`, `line`, `from`, `routed` | locals of the reader task |
| `alive`, `inbox`, `out`, `creator`, `begun`, `archived` | the process (external) |
| `shown` | history: the event emitted for the line |

A caller runs `Obtain` (it found the session and takes an id), `Register`,
`Pend`, `Context`, `MapParam`, `Write`, then `Answered`, `Canceled` or
`Timeout`, the last one followed by `Unpend` and `Uncontext`. The reader runs
`Read`, then for an answer `AssignRelated` or `AssignListed` and `Answer`, for
an event `Route` and one of `Announce`, `Suppress`, `Emit`; at the end of output
`ClearPending` and `ClearContext`. Each is one acquisition of a mutex, but for a
few the code takes one after the other with nothing of another task's in
between that could tell: `Obtain` takes the id together with the look-up, `Read`
removes the context with the line, `Emit` updates the table and emits.

The process is external. It answers each request at most once and in any order,
mentions a thread only after the answer that created it, speaks about a turn only
after a request that names the thread, may start a sub-agent's thread inside a
turn and a memory consolidation thread by itself, and may exit at any time.

| run | question | bounds |
|---|---|---|
| `session_answers` | right answer, clean tables, no request waits for a dead process (liveness) | 2 requests, of one caller or of two: one is retired while the other is open and a late answer is under way |
| `session_routing` | where threads and turn events go, and that memory consolidation stays hidden | a workspace and one nested in its directory, two threads and a consolidation thread; start, list, turn; 2 requests |

`MaxId` bounds the requests and `MaxOut` the lines written and not yet read (one,
beside the line the reader is handling); both stop the system, so deadlock is not
checked. Two requests are enough for one to be retired while the other, of the
same caller or not, is open. Every invariant of these runs is proved for any
number of requests, callers, threads and lines (section 8).

Fairness: weak on the reader and on every caller's steps (tokio polls woken
tasks). None on `Timeout`, which the liveness property must not need, and none
on the process.

## 5. RemoteBackend, DaemonConnection, RemoteSystem

In remote mode every command goes through `call_remote`. `RemoteBackend` is the
client, `DaemonConnection` the daemon's `handle_client` and request tasks.
`RemoteSystem` joins them by the two directions of each socket and adds network
failures and daemon crashes.

| variable | code |
|---|---|
| `settings`, `resetting` | host and token in `AppState.app_settings`; `update_app_settings` between its write and its reset |
| `cached` | `AppState.remote_backend` |
| `pc`, `attempt`, `cfg`, `use`, `first`, `asks`, `id`, `reply`, `result` | locals of `call_remote`, `ensure_remote_backend` and `RemoteBackend::call`; `reply` is the oneshot channel |
| `connected`, `pending`, `nextId`, `queue` | `RemoteBackendInner` |
| `writing`, `reading` | the two tasks of `spawn_transport_io` |
| `up`, `down`, `broken`, `closed` | the socket (`closed`: `handle_client` has returned) |
| `authed`, `tasks`, `outq` | locals of `handle_client` and of the tasks of `spawn_rpc_response_task` |
| `executed` | how often a daemon has run the call's method |
| `late`, `overtaken` | history, for the properties only |

A call runs `Look`, then, if no client is cached, `Resolve`, `Connect`, an auth
request of its own, `Publish`; its request is `Check`, `Pend`, `Send`, and
`ReceiveOk`, `ReceiveError` or `Timeout`; `Clear` forgets the cached client after
any error and decides on the second attempt. `WriteOk`, `WriteFails`,
`WriterEnds`, `Read` and `ReadEnds` are the client's tasks; `Authenticate`,
`Refuse`, `Spawn`, `Execute`, `Respond`, `WriteOut` and `Close` the daemon's.
`mark_disconnected` is one step although it stores the flag before it takes the
lock: a call that reads the flag between the two fails as it would afterwards, a
call that enters `pending` between the two is drained as it would be before.

Two details matter. `WriterEnds` needs every clone of the client to be dropped
(`Referenced`), and that half-close is what ends the daemon's loop. A crashed
daemon's sockets are closed by its kernel, and reset only where it had unread
lines; so the client can still read answers, and can still write without an
error to a connection it knows to be lost. This is why a call that passed
`Check` before `mark_disconnected` and enters `pending` after it waits for its
300 s (`late`): `LostWaitersAreTold` shows it is the only kind that does.
`CachedIsCurrent` has an exception of the same kind: `update_app_settings` resets
the client while another call is still connecting with the old settings, and
publishes its client afterwards (`overtaken`).

`RpcChannel` is what a command may rely on: one run, or two if it is retry-safe;
"ok" means it ran; a call that is not retry-safe and was told the daemon is
unreachable, or was refused, has not run and never will; any other error says
nothing, and the call may still take effect later. `executed` and the result of
returned calls are its variables. The model also shows what is not promised: the
first copy of a retried call may run after the second has been answered.

| run | question | bounds |
|---|---|---|
| `remote_lost` | what calls are told, how often they run, what stays behind; clients and tokens across a settings update | 2 calls, 2 connections, 2 daemons, several settings, one fault or update at any point; queue and permits of 1, so both are full at times |
| `remote_channel` | the abstract channel with its liveness; no connection stays open that nobody uses | 1 retry-safe call, 3 connections, 2 faults, so that the retry can fail as well |

`MaxEvents` bounds faults and updates together; `Conn` bounds the connections: a
call that finds none left is told the host is unreachable. Calls are made once
each and the system stops when they have returned, so deadlock is not checked.
One settings update runs at a time. Two calls under faults with liveness are
beyond what TLC explores in minutes, hence two runs; the safety half of the
refinement is proved without bounds.

Fairness: weak on each call's steps, timers included, on each task of the client
and of the daemon, and on the reset of the client. None on connecting, on faults,
on updates, nor on the daemon noticing that the network has dropped a connection.

## 6. Threads: ThreadStore, ThreadTurns, ThreadList, ThreadItems

`ThreadStore` holds the reducer: one operator per reducer action, each a function
from a state to a state. The modules that use it keep two copies: `store`, which
a dispatch changes at once, and `seen`, the store of the last render, which is
what a callback or an effect reads. That difference is where most of these
hazards come from.

`ThreadTurns` drives the threads of one workspace.

| variable | code |
|---|---|
| `store`, `queued`, `inFlight`, `started` | the reducer's state; `queuedByThread`, `inFlightByThread`, `hasStartedByThread` |
| `seen`, `effects`, `handled` | the last render, whether its effects have run, how much was handled since |
| `known`, `pending`, `loaded` | the refs: optimistic turn ids, `pendingInterruptsRef`, `loadedThreadsRef` |
| `calls` | async functions that wait for an answer, each with what it captured |
| `server` | the app-server: turns, what it wrote, what it was asked (external) |
| `drafts`, `fate`, `stops` | messages to submit; history for the properties |
| `scene` | the bounds of this behaviour, counting down |

Actions are the effects of a render (`Effects`), the user's (`User`,
`UserAnswers`), `Render`, the handling of an answer or a notification, and the
server's. A request and its answer are two steps. Tauri delivers answers and
events apart, so a notification written after an answer may be handled before it;
`Lead` bounds by how many. `Batch` bounds what is handled between two renders,
`MaxWire` what the server has written and nobody handled. The server may tell of a
thread's status (`thread/status/changed`) before or after the notification of what
changed it, or not at all (`tells` of a scene): active with a turn's start or a
question, idle with its end (`systemError`, with an error, is handled alike),
notLoaded when the thread leaves its memory. `onThreadStatusChanged` marks and clears
without comparing turns; the marks come right because a status is written in one
order with what it tells of. An answer without a turn id is handled like an error;
one without a thread id ends a message silently (`unstarted`).

`ThreadList` holds the rows: lists page by page, threads started, opened, forked,
reviewed, archived and removed, the links between a thread and the agents it
spawned, and the cascade that archives a family. A thread is its rank by
creation; a cursor is the rank of the last thread of a page. Its `past` is history
for the properties: which threads came or went while a list or a page of older ones
was in flight (`late`), which living ones lost their row to such a page or to an
archive the server refused (`lost`), what the cascade asked for and owes (`asked`,
`due`), agents that acted before anything told of their parent or whose parent's
archive was refused (`orphans`), threads an agent reported to (`told`) and whether
one did before its own link was on screen (`crossed`). `ThreadItems` holds
what a thread shows of the agent's items: deltas, completions, snapshots and the
scrollback limit.

| run | question | bounds |
|---|---|---|
| `thread_turns` | the marks of a thread are right once nothing is under way, a running turn is shown, no message is lost, a stop hits the turn it named, the queue moves (liveness) | 2 threads, 2 messages, 2 turns, an answer overtaken by at most 1 notification, 2 things handled per render; each scene gives some of the calls, stops, failures and status changes a budget, so that they meet in pairs |
| `thread_list` | rows are right, every thread can be reached, families are trees, a cascade reaches everyone | 8 threads, among them two agents, a review that has one, a consolidation thread and one of another workspace's directory; pages of 2; plans in `MCThreadList` |
| `queue_stuck` | finding, section 9 | |
| `front` (part `items`) | a thread's rows say what was said | 4 items of two tokens, a list of 3 rows |

Assumptions. The user acts on what is rendered, and the effects of a render run
before the next input; a turn outlasts a render. In `ThreadList` rows come
ordered by creation, an answer is read and handled in one step, the cascade's
skip marks do not expire, and an agent is spawned by a living thread. An archive may
be refused while the thread lives on, the cascade's and the one the user asks for by
removing a row: `archiveThread` logs the error (`useThreadActions.ts:1028-1043`), and
the row is gone. A page of older threads may load while threads come, go and are
listed; it puts back the rows of its closure, so the code can lose the row of a
living thread or bring back that of an archived one. `EveryThreadIsReachable` says
that this lasts until the next list made when all is quiet, and holds for every other
thread meanwhile: until then it leaves out `lost` and what came or went during the
page or a list (`late`), and claims nothing before the first list, after a list that
is not preserving has failed (it has cleared the cursor, `:566-570`), and after one
that ended with an older page in flight, whose cursor then replaces its own
(`plan.listed`). `RowsAreRight` claims nothing of a thread archived during a list or
page. In `ThreadItems` commands that run side by side all end
before the agent does anything else, events sent before the answer to a
`thread/resume` are handled before it, and a snapshot holds ended items.

Fairness of `thread_turns`: weak on renders, effects, the handling of what has
arrived, the server's answers, the end of each turn and the user's answers to
questions. None on what the user does of their own accord.

`StopHitsItsTurn` has one exception and one bound. The exception is what the code
does (`misled`): a stop pressed before the turn has an id leaves the thread in
`pendingInterruptsRef` (`useThreadMessaging.ts:522-524`); when that turn then fails to
start, the failure branches (`:353-359`, `:394-398`) do not take it out, and
`turn/started` of the thread's next turn stops that one
(`useThreadTurnEvents.ts:236-241`), which the user did not mean. Without the exception
TLC finds this in the scene with one stop and one failure. The property holds the code
to the rest: no other thread's turn, and no later turn otherwise, whichever request
fails.

The bound is one stop. With a budget of two and no failure on one thread TLC still
finds the property true. With two stops and one failure it does not hold: the user
stops turn 1; a late `item/started` marks the thread as processing again, now without
a turn; the user stops again, which leaves the thread in `pendingInterruptsRef`; the
first stop's request fails, and the next queued message replaces turn 1 by turn 2. The
answer of `turn/start` and the `turn/completed` of turn 1 come before the
`turn/started` of turn 2, so the hook has turn 2 as the known one, takes the end of
turn 1 as stale and keeps the mark (`useThreadTurnEvents.ts`), and `turn/started` then
stops turn 2. The run therefore shows the property for one stop, and no theorem states
it. A detached review is exempt from `QueueDrains` itself, as the other messages that
start no turn of their thread are; what is queued behind anything else is not.

## 7. The rest of the front end

Each module below models one group of hooks with their components. `MCFront`
puts them side by side: a behaviour picks one part (`focus`) and runs it, so the
parts add up and do not multiply, and each of the run's properties is stated for
all parts that can violate it. `MCSettles` does so for liveness, together with the
pool.

| module | state | what it says |
|---|---|---|
| `PanelData` | nineteen hooks as records of the choices they differ in: which answers they drop, which requests they hold back, what a change of subject does | `ShownIsOfTheSubject`, `NewsStep`; in the end `Wanted` |
| `GitActions` | one job per async function of the commit box, push, pull, sync, stage, revert, apply, init; each keeps its workspace | `NewsOfThisWorkspace`, `InOrder` |
| `DiffPanel` | panel mode, centre, selected file, pending jump, marked files, error on show, discards and reviews | `OneSubject`, `NewErrorsShow`, `OneJumpPerChoice`, `DiscardedAsConfirmed`, `OneReview` |
| `Composer` | one text area over drafts, images, queue and history per thread; dictation, suggestions, review prompt | `OwnText`, `PromptIsHere`, `SentFromHere` |
| `ThreadOptions` | model, effort, tier, mode, access and arguments by thread or draft: stored, seeded, typed; a behaviour follows one of them | `OwnOption`, `StartsAsShown`, `RuntimeArgs` |
| `WorkspacePrompts` | worktree, clone, url and rename dialogs, dropped paths, a phone's path list; a confirmed one is a job | `DoneOnce`, `WaitsForSomething` |
| `SettingsForms` | five forms with drafts, optimistic and confirmed saves, the load at the start | `TypedForIt`, `ShownIsStored` |
| `TerminalPanel` | tabs, buffers and launch scripts with the backend's table of shells | `LaunchedWhereAsked` |
| `Attention` | requests and plans to tell of, turns that ended, sounds, the thread a notice opens | `ToldRightly`, `SaysWhatEnded`, `LongTurnsAreTold`, `LinkIsFollowed`, `NothingUntold` |
| `Updates` | the updater's two hooks, the hub every event goes through, the notice after a restart | `HeardOnce`, `OffersAnUpdate`, `WaitsForSomething`, `SaysWhatIsNew` |
| `WorkspaceHome` | runs, drafts, modes and picked models by workspace; a run is one async function that goes on while the user is elsewhere | `HomesAreApart`, `RunSaysWhatRan`, `SubmittingIsARun` |
| `AgentSettings` | stored agents, the copy shown, four forms over it, a call per press | `FormsAreApart`, `LimitIsSettled`, `SentWhenChanged`, `BusyIsUnderWay` |
| `FileTree` | open folders, filters, the preview and its selection, reads under way | `PreviewIsOfItsFile`, `InsertedIsOfTheFile`, `LoadingIsReading` |
| `CustomPrompts` | prompt files of two scopes, lists under way, the editor, what is sent | `NoPromptIsLost`, `SentIsFilled`, `SavingIsUnderWay` |
| `HomeAccount` | accounts and limits by workspace, the choice of one, the requests for it | `BestIsShown`, `AskedWhenShown`, `StaysStep` |
| `AccountLogin` | the window's one tracked login, the backend's entry per workspace, the app-server's logins | `IndicatorIsHere`, `LoginIsFollowed`, `LoginCanBeCancelled`, `SwitchingIsALogin` |
| `RemoteServers` | stored and shown list of servers, the one in use, saves one after the other, checks, the wizard | `ServersAreConsistent`, `ServersAreAsAsked`, `ReadyIsReached`, `ServersAreUnderWay` |
| `Dictation` | the backend's session, captures, transcriptions and downloads; commands and events under way; key, button, composer | `MicIsHeld`, `KeyStopsIt`, `CancelEndsDownload`, `TextIsWanted`, `FailureIsTold`, `ShownIsSo`, `ProcessingIsUnderWay` |
| `ThreadNews` | plan, diff, usage, name, hooks and limits as said and as rendered; the dispatch by method | `NameIsTheUsers`, `NothingIsGuessed`, `PlanIsAsSaid`, `HookRowIsRight`, `LimitsAreAsTold`, `NothingIsUnheard` |
| `LiveConnection` | attempts of a client to attach to the open thread, focus, drops, polls, against a daemon that forgets with the connection | in the end `Attached`, `UpToDate` |
| `WorkspaceList` | the window's list against the stored one: refresh cycle, add, connect, settings, groups, worktrees | in the end `Settled` |

The four properties of `front` are conjunctions of these: `OnScreenIsOwn` (what is
shown is of what is selected), `DoneAsAsked` (once, where it was asked, in order),
`BusyMeansWaiting`, and `NewsNeverGoBack` for what late answers may do. The three
of `settles` are `EveryRequestReturns` (pool), `SettlesInTheEnd` and
`ReturnCatchesUp`.

Bounds: two subjects (a third shows nothing new, since a hook compares the one it
kept with the one at hand), and a budget per behaviour that says how often each
kind of thing may happen. The budgets are chosen so that every two kinds that
share state meet in one of them; they are listed beside each instance in
`MCFront` and `MCSettles`, and `CHECK_DEADLOCK FALSE` is there because a behaviour
stops when its budget is spent.

Fairness of `settles`, stated part by part with the part's variables: weak on effects, timers that poll, answers of requests that
do not fail, renders and the tasks of the pool; none on the user or on faults. A
failed request is not repeated unless the code does so, and the properties say
under which conditions a part must settle.

What these models leave out on purpose, and their assumptions:

* `DiffPanel`: the desktop layout with the unsplit view; the refresh after a file
  was staged or reverted is taken with the answer; one file job at a time.
* `Composer`: the cursor stays at the end of the text; the ranking of suggestions.
* `ThreadOptions`: the models' list is loaded, every effort is supported; one start
  in flight; passive effects of a render run before the next one.
* `WorkspacePrompts`: names and branches; two reports of one drop come within 750 ms.
* `Attention`: ages are counted in half minutes; an event and its render are one
  step; `turn/started` may be missed after a lost connection, and the properties
  that need it ask whether it was heard.
* `LiveConnection`: polls that find nothing; heartbeats, which the daemon never
  sends; the end of the ten seconds for which a mark ignores a detach event.

`LiveConnection` says what a client of a remote daemon can rely on, which is less than
one would wish, and its two properties are stated for just that.

* `SettlesInTheEnd` asks for attachment of a user who stays with a thread, in a behaviour
  in which nothing fails, unless the client went `astray` in its last attempt. There are
  two such ways. An attempt that finds itself subscribed marks its own unsubscribe so
  that the detach event is ignored (`useRemoteThreadLiveConnection.ts:236-241`); when the
  user switches away and back meanwhile, the mark meets the detach event of the switch's
  unsubscribe instead (`:374-376`), and the client stays detached. And an attempt that
  ends while no thread is selected leaves a subscription behind whose detach event nobody
  hears. Every other order of up to three switches, or two and another client's detach
  or attachment, a switch and a loss of focus, or a time hidden and another client,
  ends attached. A blur and two switches is the same pattern from a return instead of a
  detach (both call `reconnectLive` with `runResume`); it has half a million states and
  is too large beside the other parts.
* `ReturnCatchesUp` has no assumption on failures. A polled thread is up to date in the
  end, whatever was lost and whichever attempt a return joined; a thread whose user came
  back in an attempt that began with the return and read it is up to date also when it
  is not polled. Nothing is claimed where the code misses news: the return joins an
  attempt that had read the thread before the loss, or its read fails silently, and the
  next event calls the connection live (`:408`), or a turn is shown as running, so that
  nothing polls (`useRemoteThreadRefreshOnFocus.ts:118-125`). A budget has a loss of
  focus, two pieces of news, a failed request and a lost connection together.
* `AgentSettings`: an agent's instructions are its file's, so one text stands for
  both; a change of the file and of the configuration is one step.
* `HomeAccount`: a clock of thread updates up to `MaxTime`; `AccountLogin`: the page
  opens or does not, what the browser does is the user's.
* `RemoteServers`: a server is reached or not; Tailscale's own status is left out.
* `Dictation`: what the back end does under one lock is one step, with the event that
  tells of it; a download either is whole, goes on or fails.
* `ThreadNews`: an event says which of its parts it has; their text is a model value.

## 8. What is proved

Proofs hold for every value of the constants: any number of workspaces,
handlers, processes, calls, connections, threads and messages, and any bound.
They use the assumptions the modules name (`...Assumption`): `None` is none of the
other values, a worktree's parent is no worktree, requests are well typed,
budgets are natural numbers. TLC evaluates each on every run.

| module | theorems |
|---|---|
| `SessionPoolProofs` | `TypeCorrect`, `OneSharedSession`, `DirectKillsArePrivate` |
| `SessionPoolTraceProofs` | `NoProcessIsLost`, `RespawnsReachEverybody`, `FailedAddsLeaveNoTrace`, `ConnectedWorkspacesAreServed`, `NoWorktreeIsStranded` |
| `AppServerSessionProofs` | `TypeCorrect`, `AnswersReachTheirRequest`, `TablesForgetReturned` |
| `AppServerRoutingProofs` | `EventsReachTheirWorkspace`, `ConsolidationIsHidden` |
| `RemoteSystemProofs` | `AnswersReachTheirCall`, `TableMatchesWaiters`, `TokenAloneDecides`, `CachedClientIsCurrent` |
| `RemoteRunsProofs` | `ResultsSayWhatRan`, `ImplementsChannel` |
| `ThreadTurnsProofs` | `TypeCorrect`, `NoMessageIsLost` |
| `ThreadListProofs` | `TypesAreRight`, `RowsStayRight`, `CascadeStaysInFamily`, `FamilyStaysATree`, `ThreadsStayReachable` |

So every safety property of the back end's runs is a theorem.

**Pool.** `SingleSharedSession` is not inductive: `Insert` publishes a session its
handler chose several awaits earlier. `PoolInv` adds that only the holder of the
spawn lock is between `Lock` and its return (`LockInv`), and what that handler
knows in each place (`Knows`): while it looks for a session `cur` is the one all
connected workspaces share; once it has found none the map is empty and stays so,
because only lock holders add to it; when it attaches, `Held` agrees with
everything in the map; after `Retarget` all of the map is `new` and the old
process is out of it. Removals and the synchronisation only take entries out, so
they preserve each of these.

`NoProcessIsLost` needs `OrphanInv`: every running process is accounted for by the
map, by a handler that holds it, or by `leaked`; `KindInv` and `LocalsInv` say
which handler can be where with what in its locals. `RespawnsReachEverybody` needs
`ArgsInv` on the ids still to be registered after `Retarget`, and
`FailedAddsLeaveNoTrace` needs `AddInv`: two adds never share an id (`AddsDiffer`),
an add's id is referred to by nobody else before it is published (`Unseen`).

`ConnectedWorkspacesAreServed` assumes `SyncFree`, that no request is a
synchronisation: the local application never makes one, the daemon does, and with
it the property is false (section 9). `ServedInv` says that an unpublished session
is private to its handler (`Private`, `Unpublished`), and in which windows an id of
the map may be given up (`GivenUpOf`), unregistered (`UnregisteredOf`) or attached
too late (`InsertedOf`). `NoWorktreeIsStranded` assumes in addition that no worktree
is added meanwhile (`NoNewWorktree`): one added between the listing of the parent's
children and the removal of the parent is stranded, which is a hazard of
`PROJECT.json`. `FamilyInv` says what a removal in progress has listed and taken
out. `pool_removal` is a run in which both hypotheses hold.

**Session.** `RequestInv` relates the two tables, the callers, the reader and the
lines under way. An id belongs to at most one caller and is never used again
(`IdsInv`). Every request the process holds and every answer it has written
carries the id of a request already sent, and whoever still has that id made that
request (`ReplyInv`); this makes a late answer harmless. `PendingInv`, `ContextInv`
and `AnswerInv` say at which points of a call its entries exist. `EndInv` is what
`TablesForgetReturned` needs beyond them: a waiting request can be missing from
`pending` without an answer only when the reader has emptied it at the end of
output, and then the reader also empties `request_context`.

`RoutingInv` follows a thread from its creation: who created it and how deep in
nested roots (`ThreadInv`, `NamedInv`), which workspace the context of a request
names (`FromInv`, `AnswersInv`), what lines may mention (`EventsInv`), and so where
the table may map it (`MappedInv`, `RoutedInv`, `ShownInv`). The lemma
`DeepestIsCreator` is why nesting does no harm: of the attached workspaces whose root
contains the thread's directory, the deepest is the one that created it.
`MemoryInv` says that the reader knows of a consolidation thread before anything of
it could be shown.

**Remote.** The layers are typing (`TypeInv`), ids that are never reused
(`IdsInv`), requests and answers on both directions of a socket that agree with the
call that made them (`TrafficInv`), the pending table against those who wait
(`TableInv`), and `AnswerInv` on what a receiver finds. `TokenInv` follows a token
from settings to daemon (`AuthedInv`, `SharedInv`, `LinesInv`, `ToldInv`); `FreshInv`
is what a client on its way to be cached may be out of date with.
`RunsInv` counts: each call has as many runs, copies under way and attempts left
as it is allowed together (`BudgetInv`), the copies of a retried call are on
different connections (`ApartInv`), an "ok" was run (`OkInv`), and what was never
sent never runs (`UnsentInv`). From it follow `ResultsSayWhatRan` and
`ImplementsChannel`: the initial states map to initial states of `RpcChannel` and
every step to one of its steps or none (`Spec => Channel!Spec`).

**Turns.** `TurnsInv` is `TypeInv /\ NoMessageVanishes /\ FlushesWhatIsQueued`. Two of
its parts carry the argument. `WireProper`: an ok answer on the wire comes after the
fate of its message was settled, and an answer is one to a call that waits.
`CallsProper`: a call that holds no message is a read, a stop or a reply. So the
handler of an error knows whose message it has to give back. The message that the
flush effect sends is taken from the queue of the render it was made with; that it
is still the first of the queue is `FlushesWhatIsQueued`, and holds because a
render's effects run before the next input. `RemoveQueuedMessage` removes one of
equal messages, which needs the least index at which a queue holds one.

**Lists and families.** The rows, the cascade, the tree and the pages have an inductive
invariant each, over the types (`TypeOK`). The first three also use `KnownOK`: whatever
is listed, captured, asked for or on the wire is a thread of this workspace that has
been on the server.

`RowsInv` adds that the open thread has a row (`Opened`) and `FreshOK`: a thread that is
listed, that a list in flight has read or captured, or that some news is about is
alive, went while a list was in flight, or its archive is still to come on the wire,
after that news. `RowsAreRight` alone is not inductive because it says nothing until
all is quiet; `FreshOK` says what is true meanwhile. The wire is handled in order,
which is why a row that news brings back is taken away again.

`CascadeInv` adds `CascadeOK`: what a cascade carries is in `Family` (an agent, or a
thread an agent reported to, which the code takes for an agent), and every living
thread that is due is carried by some cascade.

`TreeInv` adds `TreeOK`. The check for a circle reads the parents of the last render,
so two links made in between are not checked against each other. What keeps the tree
is that a link follows spawning or reviewing, both of which go to an older thread
(`Links`), unless a report is taken for a spawning, which happens only when the agent's
own link is not on screen (`crossed`). And a listed agent is `Tied`: its parent is its
spawner, or it is on its way out; if its turn is on the wire, the item of its spawner
that mentions it is on the wire before (`Announced`). `LinksAreATree` is the lemma that
parents which are all older are no circle, for any number of threads.

`ReachInv` follows what the pages have read of the threads that neither came nor went
while a list was under way (`Settled`). A list that reads on has all of them from its
cursor up, and from the cursor it will go on from up they are among the first `Target`,
which it shows (`PagesOK`): that is why the page on which the target was exceeded has to
be read again, and why a target met exactly need not be. An older page works alone; the
rows it saw, what it has read and what is below its cursor is everything, and the rows
it will put back are still there (`OlderOK`). So a settled thread of a listed workspace
has its row, is about to lose it to the user's own request, is below the cursor, or is
about to be brought back by news that no later archive takes away (`ReachOK`; `ComesOK`
says that an archive on the wire of a living thread is followed by such news). Every
other step is `Gentle`: it moves no cursor and takes a row only for an archive. TLC
checked the four parts, on the plans of the run and on others, before they were
proved. They rest on `PageCovers` (a page leaves out no thread between its cursor and
the next) and `FirstOfLonger` (the first rows of a longer list are still among its first).

`AncestorsIn` and `Those` are recursive functions, and tlapm's induction theorems
cannot be used. `SetInduction` (a set of naturals with zero and every successor holds
all of them) follows from the least member of a set, and `RecursionExists` builds
the function a recursion on naturals defines from its finite runs. With both the
definitions unfold, and what the walks return is proved for every family and list
(`AncestorsClimb`, `AncestorsAreOlder`, `ThoseOf`, `ThoseDescend`).

**Only model-checked**: liveness, which is out of the prover's reach
(`EveryRequestReturns`, `ExitSettlesRequests`, `UnusedConnectionsClose`, `QueueDrains`,
`SettlesInTheEnd`, `ReturnCatchesUp`, and the fairness half of
`ImplementsFairChannel`); `QuietMeansIdle`, `RunningIsShown` and `StopHitsItsTurn` of
`ThreadTurns`, whose invariant would have to follow every notification on the wire
(the last of them is only true with one stop, section 6); and the modules of section 7.

## 9. Where the code and its tests disagree

* `pool_sync_kills_shared`: the daemon's synchronisation kills the process of
  every session it takes out of its map, also when a workspace that stays listed
  shares it. The daemon's test expects the session of a listed workspace to
  remain, and only has one process per workspace.
* `queue_stuck`: the effect that flushes the queue marks a message as in flight,
  and the mark is only removed once the thread was seen to process. A queued
  message that starts no turn there (`/status`, `/fork`, `/new`, ...) leaves the
  rest of the queue waiting for ever. The hook's test says that queued messages are
  sent one at a time.

Other behaviours met while modelling that no document speaks against are kept out
of the findings. Those the properties had to make room for are named in comments
where the exception is: `late` and `leaked` of the pool, `late` and `overtaken` of
the remote client, `stray` of `ThreadTurns`, `late`, `lost`, `orphans` and `crossed`
of `ThreadList`, `overtaken` of `ThreadItems`, `behind` of `SettingsForms`,
`heard` of `Attention`, `crossed` and `tooLate` of `Dictation`, `mixed` and `overlap`
of `AccountLogin`, `unseen` of `ThreadNews`, `astray` of `LiveConnection`. Among them, for a reader of the code:

* `ThreadTurns`: a thread that never ran a turn is read while its first turn is asked
  for; if the start fails, the late read marks it as processing again and nothing
  takes the mark off. So does a steer that fails, with an error the code does not know
  for a stale turn, after its turn is over. A read that takes the mark off
  before a render saw it, and a start that then fails, leave the queue waiting.
* `ThreadList`: a report of an agent that is handled before the agent's own link was
  rendered hangs the spawner under the agent, and can close a circle, because both
  checks read the last render. A detached review that an agent reported to counts as
  an agent, and the cascade archives it. An agent spawned below a thread the cascade
  itself archives is not reached. A living agent of an earlier session that acts
  before it is listed or read gets a row without a parent.
* `LiveConnection`: a switch away and back during an attempt, or an attempt that ends
  while no thread is selected, can leave the client detached until the next return; and
  a client that is called live again by an event is not polled, so that news lost
  before are missed (section 7).
* `ThreadNews`: handlers go on from refs set at render. Two events before a render
  are each merged with the older state: a partial update of the limits loses the one
  before it, a hook that ends quietly before its row was rendered stays "running". A
  late event of an archived thread brings its row back without the user's name.
* `AccountLogin`: of two logins of one workspace the first's loop removes the second's
  entry; an answer that comes after the user went elsewhere and began another makes
  that one's completion be ignored.
* `Dictation`: two starts both pass the idle check and the second leaves the first's
  capture running; a blur before it listens leaves the microphone on; an error of the
  microphone during processing sets a later session idle; choosing another model
  during a download makes the first impossible to cancel.
* `RemoteServers`: each save is built from the settings shown at the press, so two in
  flight undo each other; a failed rollback leaves the refused server in the list.
* `AgentSettings`: a generated description, the end of an update and the end of a
  write act on whichever form is open then.
* `CustomPrompts`: a failed save closes the editor and loses the text, because the
  error is swallowed on the way; a form opened in one workspace saves into another.
* `FileTree`: with the filter for modified files each poll opens all folders again;
  `HomeAccount`: a late answer overwrites a newer one.
* `WorkspaceHome`: a blocked send counts as ready; a failed run loses text and images.

## 10. What is not modelled

* Entries of the workspace list in memory against `workspaces.json`, the rename of a
  worktree, the rollback of the agents' configuration, the lock file of the approval
  rules.
* The daemon's broadcast of events and its lag.
* The permission request, audio and transcription of dictation.
* git, GitHub and file commands, usage statistics, tailscale, window, menu and tray:
  one platform call each and no state a model would tell apart.
* The extraction of ids from JSON (`extract_thread_id` and its kin are modelled by
  what they yield), and codex itself beyond what the reader relies on.
* Rendering: messages, markdown, sidebar, layout.

## 11. Running

In this directory: `tlc -config Attach.cfg MCSessionPool`, and likewise
`Removal` and `SyncFinding`; `Answers` and `Routing` with `MCAppServerSession`;
`Lost` and `Channel` with `MCRemoteSystem`; `Turns` and `QueueStuck` with
`MCThreadTurns`; `List` with `MCThreadList`; `Front` with `MCFront`; `Settles` with
`MCSettles`. The longest (`Routing`, `Lost`, `Settles`, `Front`) take three to four minutes
with two workers. Proofs: `tlapm` on each module of section 8; the longest take
about ten minutes.
