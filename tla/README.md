# Verification of codex_app_server_sdk

TLA+ models of the asynchronous Python client for the Codex app server
(`src/src/codex_app_server_sdk/`), model-checked with TLC and, in part, proved
with TLAPS. Paths below are relative to the repository root unless they are
`.tla` or `.cfg` files, and `client.py` and `transport.py` stand for the files
of that name in `src/codex_app_server_sdk/`.

## 1. Inventory

One `CodexClient` talks JSON-RPC over one transport to one server. Everything
runs on one asyncio event loop: a coroutine runs until its next await that
really suspends, and any other task may run there. So there are no data races,
but everything read before an await may be stale after it.

Tasks: the application's calls; one receiver task, the only reader of the
transport; one background task per prompt; `close`.

| Component | State | Operations | Interacts with |
|---|---|---|---|
| Turn routing and sessions | `_deferred_notifications` and its condition `_notification_ready`, `_turn_sessions`, the `_TurnSession` objects (raw events, steps, flags) | publish, find the earliest event of a turn, apply it, release a turn | receiver (producer), chat calls (consumers), close |
| Chat and cancellation | the continuation in the application's hand: cursor and mode | `chat_once`, `chat` (a generator), `cancel`, resuming a continuation | routing; requests `turn/start`, `thread/read`, `turn/interrupt` |
| Request/response correlation | `_next_request_id`, `_pending` (futures), `_send_lock` | `request`; the receiver completes futures; failure and close fail them | every other component sends through it |
| Initialize handshake | `_initialized`, `_initialize_result`, `_initialize_lock` | `initialize`, and the methods that call it first: chat and thread creation | correlation |
| Lifecycle | `_started`, `_closed`, `_receiver_task`, `_background_tasks` | `start`, `close`, context manager | all |
| Prompts | `_pending_approval_requests`, `_pending_user_input_requests`, both handlers, `approval_mode` | parsing, dispatch, handlers, automatic decline, timeout, `respond_*`, resolution by the server | receiver, send lock, release of turns |
| Prompt streams | the queues `_approval_requests`, `_user_input_requests` | `approval_requests`, `user_input_requests` | receiver (producer), close (sentinel) |
| Thread handles | `_thread_id`, `_defaults` of each `ThreadHandle` | `start_thread`, `resume_thread`, `fork`, `update_defaults` | requests; the server's thread settings |
| Transports | `_proc` or `_socket` | connect, send, recv, close | client |
| Parsing | none | envelope identifiers, items, prompts | routing, prompts |
| Thin RPC wrappers | none | `list_threads`, `exec_command`, ... | each calls `request`, with no handshake of its own |
| Release workflow | the tag, the runs of `publish.yml` and their artifacts, PyPI, the GitHub release | `scripts/check_release.py`, the jobs, their repetition by the maintainer | GitHub, PyPI |
| Examples, docs, tests | | | not part of the SDK |

What is hard, and what makes each part correct:

- **Routing.** Events of several turns share one buffer; some envelopes lack
  ids; events may come before the answer to `turn/start`; a timer may fire while
  an event is delivered; two calls may consume the same turn; the receiver may
  end or the client close at any await. Correct: a turn gets its own events,
  all of them, in order; a call reports the outcome the server decided; a turn
  is released only once it has ended; every waiter is woken.
- **Chat.** A stream may be interrupted by inactivity, resumed, and cancelled.
  Correct: every step is handed out once and in order.
- **Correlation.** Answers come in any order, late, or never; a caller may be
  waiting for the send lock, for the pipe or for the answer when its timeout, a
  cancellation, the end of the receiver or a close comes. Correct: an answer
  reaches the call whose message it answers, and no call waits for a future that
  nobody will complete.
- **Handshake.** Concurrent first calls, failures in the middle, requests that do
  not wait for it. Correct: once per connection, and before anything that a
  method which initializes the connection asks.
- **Prompts.** Handler, timeout, automatic decline, calls of the application,
  the server and the end of the turn compete for one prompt, with an await
  between the look at the table and the write. Correct: one response, no stale
  response, no forgotten prompt.
- **Lifecycle.** Concurrent starts and closes, a close while `connect` is awaited,
  a close by a prompt handler, cancellation of either, a server that does not
  terminate. Correct: close comes to its end, leaves no connection and no handler
  behind, and ends every observer after the last prompt.
- **Release.** Jobs fail between any two steps and are repeated; builds are not
  reproducible; PyPI takes one file at a time and never a second version of one.
  The tag may be moved before anything is public. Correct: what is public is one
  build of a commit that was validated as the tag's, and a version of which one
  file is public comes out in full.
- **Handles.** Concurrent updates and missed answers. Correct: no update is lost,
  and the snapshot says what the server has where the client can know it.

`PROJECT.json` lists these hazards one by one, at their lines.

## 2. Modules

| Module | What it is |
|---|---|
| `TurnRouting` | notification buffer, turn sessions, `chat_once`, `chat`, `cancel`, continuations |
| `TurnDelivery` | abstract: what the application gets of a turn; `TurnRouting` implements it |
| `Rpc` | `request`, `initialize`, receiver, `close`: ids, futures, locks |
| `RequestReply` | abstract: what `request` promises; `Rpc` implements it |
| `FifoLock` | `asyncio.Lock` as the queue of tasks that asked for it; used by `Rpc` and `Prompts` |
| `Prompts` | approvals, user input and the server's other requests |
| `Lifecycle` | `start`, `close`, the transport's connection, background tasks, prompt streams |
| `ThreadConfig` | thread configurations and their merge: `_merge_thread_config`, `_thread_config_to_params` |
| `ThreadHandles` | handles, calls in flight and the server's settings |
| `Release` | the publish workflow, its checks and its repetition |
| `MC...` | values for TLC |
| `TurnRoutingProofs`, `StreamProofs`, `FifoLockProofs`, `RpcProofs`, `PromptsProofs`, `LifecycleProofs`, `ThreadHandlesProofs`, `ReleaseProofs` | theorems |

`close` is one method that four components take part in; each module has the
part of it that touches its own state, in the order of the code. `Lifecycle`
has all the awaits of it, and who may call it.

### TurnRouting

The buffer is the history `arrived` of everything published and the set
`deferred` of the positions that are still buffered; positions increase with the
time of arrival, so the order of the Python list is the order of the numbers.
`session[t]` is the `_TurnSession` object, `tracked` the keys of
`_turn_sessions`: a call keeps its session object after another call has
released the turn, as in Python. `raw`, `steps`, `completed`, `failed` and
`interrupted` are the fields of the code; `message` says whether
`completed_agent_messages` is non-empty.

`pc[c]` is the await or yield at which call `c` is suspended (`starting`,
`waiting`, `yieldedLive`, `reading`, `interrupting`, `confirming`, ...), or the
place within an uninterrupted stretch (`top`, `backlog`, `draining`, `confirm`).
`running` holds the event loop during such a stretch, so that no other task
moves between two steps which the code executes without suspending: the loop
heads of `chat_once` and `chat`, the draining of `cancel`, the end of
`turn/start` and the first look at the flags.

`asleep` is the set of the calls suspended in `_notification_ready.wait()`. A
call that finds no event of its turn goes to sleep there (`Sleep`) and runs again
only after a `notify_all` has taken it out of the set, or when its timer fires;
it then looks again (`Looks`), and may go back to sleep. The three places that
notify are `Publish`, `ReceiverFails` and `CloseBegins`; `Cleanup` does not,
although it can make an event match. A notification that is left out, or that
wakes one waiter where it should wake all, violates `WaitersWake` or
`EndedTurnWakes`. The lock of the condition is never held across an await other
than that of the wait, which gives it up, so that no call waits for it.

`_cleanup_turn_state` pops the session first and then drops the events that
*now* match the turn; `Cleanup` evaluates `EventIsForTurn` with the session
gone, as the code does. `turn/completed` overwrites `failed` and `interrupted`.
A cancel reads the flags after every await.

The server is an assumption: it runs a turn from `turn/start` on, sends items
with their turn id, and ends the turn with `turn/completed` (and a status) or
with `turn/failed`, which it may follow with `turn/completed`. `Forms` says
which ids its terminal envelopes carry.

`TurnDelivery` is what all of this is for, without buffer, sessions, cursors or
tokens: the server tells steps of a turn and ends it; an application with one
call at a time on the turn is handed each step once, the earliest first, and the
outcome once, after the end, as the turn ended, and with no step of a stream left
out. `TurnRouting` implements it (`Delivers`). The steps told are the first
notification of each item and every one of an item without an id, which is how
`_apply_event_to_session` tells a repeated item from a new one; the steps handed
out are the notifications behind what `chat` and `cancel` gave to the application
(`yielded`), and the outcome is what `reports` has of the turn. A step that only
buffers, applies, times out, resumes or releases is a stutter.

### Rpc

A request takes an id, creates a future, enters `_pending` and joins the queue
of the send lock in one step. `Write` and `Drained` are the two halves of
`transport.send`; a failure may come before or after the write. `link` goes
through the stages of `close`: `_closed` set, pending futures failed, transport
closed. `Wants` says what each caller may call: `initialize`; an operation, which
initializes the connection unless it is (`CallInitialize`, `CallOperation`); or
`request` itself and the methods that only wrap it (`CallRequest`), which look at
`_closed` only. `Faults` selects timeouts, cancellations, failing
sends, error answers and a lost connection.

`RequestReply` says: a request is asked once, only while the client accepts
requests; it ends once; it is answered only if the server served it. The
refinement mapping reads each request's status off the outcomes, the served
messages and the id counter.

### Prompts

A worker is a call, the background task of a prompt, or the receiver. `Shape`
gives what the server puts in each request: its method, and which of the
required strings it has; `WellFormed` is what the parsers accept, and everything
else is refused by the receiver itself. `Encodes` says which decisions a request
admits.

`respond_approval` looks at the table under the send lock and removes the entry
after the write; `respond_user_input` removes it before the lock; `Respond`,
`MaySend` and `Drained` keep that asymmetry. `gaveUp` records the prompts of
which a responder was cancelled, failed to write, or had a response that cannot
be encoded. Those are the ones the code may forget (user input) or answer twice
(approvals).

### Lifecycle

`pc[t]` is where a task is within `start` or `close`. A prompt's background task
may call `close` too; it then waits for itself (`stuck`). `proc[c]` is the
process, or the peer, of the connection that call `c` opened, `conn` the one in
`_proc` or `_socket`, `reading` the one that the pending `recv` holds. `kind`
separates the two transports: a process is killed after two seconds, a
websocket closes within its own timeout. `raced` records the starts that
overlapped another start or a close: the code looks at `_started`, `_closed` and
`_proc` before the await of `connect` and not after it.

`queue` and `obs` are one of the two prompt streams; the other is alike.

### Release

A run of `publish.yml` goes through the jobs `validate`, `package` (the rest of
`ci.yml` changes nothing that is modelled, except that it may fail), `publish`
and `github-release`, whose script is the steps `ViewRelease`, `ClearAsset`,
`Attach`, `EditRelease`. The maintainer may move the tag at any time, with runs
at any job, until a file is public (`docs/releasing.md:175`: "Never move a
published version tag"); the workflow compares the tag with its commit once, in
`validate`. `overtaken` is the history of the commits that runs had validated
when the tag was moved off them. A build is a wheel and a sdist, each of which
may be missing, have another version, lack `py.typed`, or have other bytes than
those of an earlier build. `JobFails` stops a job anywhere; `Rerun` begins the job
anew with the artifacts of its run.

### ThreadHandles

A call sends its request (`StartThread`, `ResumeThread`, `Fork`,
`UpdateDefaults`), the server applies it and answers (`Serve`), the answer is
taken in (`Returns`), or the call gives up at any point (`Raises`).
`update_defaults` merges into the defaults as they are when the answer comes;
`fork` computes its message from the snapshot when it is called.

## 3. Runs

| Run | Instance | Checks |
|---|---|---|
| `routing` | 2 turns, 1 thread, 2 calls, 2 events, terminal events name their turn, calls may share a turn | `TypeOK`, `OwnEventsOnly`, `NothingLost`, `OutcomesTruthful`, `ReleasedWhenTerminal` |
| `streaming` | 1 turn, 1 call at a time, 5 events, items with and without ids, terminal events with or without ids | `StreamExactlyOnce`, `TokenResumable`, `Delivers` |
| `waking` | 2 turns, 2 calls, one call at a time on a turn, terminal events name their turn, fairness that relies on no timer | `WaitersWake`, `EndedTurnWakes` |
| `rpc` | 2 callers (one of operations, one of `initialize` and `request`), 3 requests, timeouts, cancellations, lost connections, fairness | `TypeOK`, `OwnAnswer`, `AwaitedIsPending`, `HandshakeOrder`, `NoLeak`, `HandshakeOnce`, `Implements`, `CloseEndsCalls`, no deadlock |
| `prompts` | 1 caller, 1 file-change approval, 1 user input, 1 malformed user input, any two of them asked, two kinds of decision, every fault, fairness | `TypeOK`, `OneReply`, `InputKept`, `NoStaleDecision`, `KeptUntilAnswered`, `UnattendedAnswered` |
| `lifecycle` | 3 callers, 1 prompt, 2 observers, both transports, every fault, fairness | `TypeOK`, `CloseReleases`, `NoHandlerOutlivesClose`, `OneConversation`, `ObserversDrain`, `ObserversEnd`, `CloseCompletes` |
| `handles` | 2 handles, 2 threads, 2 calls, 2 fields, 2 values | `TypeOK`, `SnapshotTrue`, `NoLostUpdate` |
| `release` | 3 runs, 2 commits (one not ready), 2 versions, 2 variants of each file, 2 failures, fairness | `TypeOK`, `OneBuild`, `SameArtifacts`, `FromTag`, `PublishedIntact`, `ReleaseCompletes` |
| `foreign_terminal` | as `routing`, one caller, terminal events without turn ids | violates `OwnEventsOnly` |
| `stale_token` | 2 calls on 1 turn | violates `TokenResumable` |
| `forgotten_input` | 1 caller that may be cancelled | violates `InputNotForgotten` |
| `two_starts` | 2 callers, no faults | violates `OneProcess` |

The last four are disagreements between the code and its documentation; the
entries of `PROJECT.json` under `findings` quote the lines. Three more are known
and have no run:

- an `initialize` that times out after the server has taken it in is followed by
  a second one on the same connection, against `docs/behavior-guarantees.md:53`;
- a tag that is moved while a run packages or uploads leaves the old commit
  published under it, where `docs/releasing.md:35` has the tag "pointing to the
  commit being published": `publish.yml` checks the tag in `validate` only
  (lines 38-45). `FromTag` says what is left of that;
- a publish job that is repeated after a later run has built uploads beside that
  run's files, where `docs/releasing.md:146` has that "Existing files may be
  skipped only after the hash check above": the check is in the `package` job,
  which is not repeated. `OneBuild` is false without `Strict`.

**Why the bounds are enough.** Two turns on one thread are what ambiguous
envelopes need; two calls are what sharing a turn and competing for the loop
need; two events are an item and a terminal event, or the terminal events of two
turns. `streaming` has five events so that a duplicate, an item without id, a
delta (which moves the cursor without a step) and the end fit in one turn with a
timeout between any two. Three requests are `initialize`, its retry or one
request of each of two callers. Two fields of two values separate a merged from
a replaced configuration. Three tasks that start and close are two starts and a
close of which any two overlap; a second prompt would be handled like the first,
and the proofs are for any number. Three runs of the workflow are one that runs,
one that waits and one that takes its place.

`MaxEvents`, `MaxRequests`, `MaxAsked`, `MaxReplies`, `MaxRuns` and
`MaxFailures` are guards of `Publish`, `Ask`, `ServerAsks`, the respond calls,
`Trigger` and `JobFails`; they cut executions short and remove no interleaving
before the bound. `MaxReplies` is only reached by the repeated responses to an
approval whose responders keep failing. Deadlock is checked for `Rpc`, where a
caller can always make another call until the client is closed and then still
calls (and is refused); the other models stop when a bound is reached, the
client is closed or the release is out.

**Fairness.** asyncio's ready queue is FIFO, so a task that is due is run, and a
task that is due again and again is run: weak fairness per task in `Rpc`,
`Prompts` and `Lifecycle`, strong fairness per call in `TurnRouting`, where a
waiter is due only while the loop is free. No fairness is assumed of the server,
of the application, of its handlers or of the connection. In `TurnRouting` and
`Rpc` it is on `Progress(c)`, which leaves the timers out: the inactivity timer,
the deadline of a cancel and the timeout of a request may fire, but `WaitersWake`,
`EndedTurnWakes` and `CloseEndsCalls` do not lean on them. It includes that a pipe
drains and, in `TurnRouting`, that the requests of a chat call end one way or
another. In `Prompts` it is on `TaskStep`, with the timer of a user input, which
is what answers a prompt that nobody responds to.

`Lifecycle` assumes what the operating system and the transports give: a killed
process exits, a closing websocket ends within its `close_timeout`, and a
handler that has been cancelled ends. A process that was asked to terminate may
ignore it, and a handler that was not cancelled may run for ever.

`Release` assumes that a job that can run does, and (strong fairness) that the
maintainer comes back to the run that has built the distributions, as
`docs/releasing.md` asks. `Strict` has two rules for that maintainer. A published
tag is not moved: `docs/releasing.md:175` says so. And a run is repeated only
while no other is under way and none that came later has built distributions:
this is an assumption of the model, which neither the workflow nor its
documentation states (`docs/releasing.md:163-173` only asks to rerun the failed
jobs in the same run). Without it `OneBuild` is false: the check against PyPI is
in the `package` job, which "rerun failed jobs" does not repeat, and
`skip-existing` then completes one build's files with another's.

**Limits of the properties.**

- `StreamExactlyOnce`, `TokenResumable`, `Delivers`, `WaitersWake` and
  `EndedTurnWakes` are checked for one call at a time on a turn, and with a
  continuation that the application resumes once. The code takes the same
  continuation again as long as it tracks the turn, and then hands out the steps
  behind its cursor again. With two calls, one that waits while the other takes
  the terminal event is left waiting until its timer fires, and a stream skips
  steps that a failed cancel applied.
- `OwnEventsOnly`, `NothingLost` and `OutcomesTruthful` are checked and proved
  for terminal events that name their turn; `foreign_terminal` shows the other
  case.
- `EndedTurnWakes` is about terminal events that name their turn. One that lacks
  ids may match nobody while several turns are tracked, and match the turn that
  is left once `_cleanup_turn_state` has released the others; that notifies
  nobody, so the call sleeps until the next event or its timer.
- `HandshakeOrder` is about what the methods ask that initialize the connection.
  `request` and its wrappers are written with no handshake before them, as the
  tests do (`tests/test_client_correctness.py:288`).
- `NoLeak` excludes a failing write and a cancelled caller: the code leaves their
  entries in `_pending` until close.
- `HandshakeOnce` says that a handshake begins on the wire only while none is
  under way and none was completed. A handshake whose answer was missed may be
  followed by another.
- `OneReply` does not count the error of a user-input handler that raises, which
  the code sends unconditionally, and excludes approvals of which a responder
  failed between the write of its decision and the removal of the entry, which
  leaves the approval open to a second one.
- `NoStaleDecision` is about approvals. A response to a user input that the server
  has resolved, or whose turn was released, while it waited for the send lock is
  written all the same (`client.py:807-811`).
- `InputKept` excludes user inputs of which a responder failed; `forgotten_input`
  shows how such a one is lost.
- `FromTag` admits a commit that the tag has left after a run validated it, and
  `OneBuild`, `SameArtifacts` and `ReleaseCompletes` rest on `Strict`.
- `CloseReleases` and `OneConversation` exclude starts that overlapped another
  start or a close; `two_starts` shows one case. `ObserversEnd` excludes a close
  that was cancelled half-way or called by a handler: `_closed` is then set for
  good and the rest of `close` never runs. `CloseCompletes` is about callers that
  are not handlers.
- `SnapshotTrue` is about a thread whose settings one handle changes and none of
  whose answers were missed.

## 4. Proofs

All theorems hold for every value of the constants that satisfies the modules'
assumptions. Where a theorem needs more, its statement says so.

- **`TurnRoutingProofs`.** `TypeCorrect` (`TypeOK` is inductive);
  `ReleasedOnlyWhenTerminal`, from the invariant that the flags of a session are
  consistent; and, for terminal events that name their turn
  (`Forms \subseteq {"turn"}`), `RoutesOwnEvents`, `LosesNothing` and
  `TellsTheOutcome`. `NothingLost` alone is not inductive: one needs to know
  that an event is consumed at most once, that events of a turn that has not
  started do not exist, and what an untracked turn's session looks like
  (`RoutingInv`). `TellsTheOutcome` adds that the flags of a session agree with
  the verdict once a terminal event has been consumed (`VerdictInv`).
  `ContinuationsResume` (`TokenResumable`), for one call at a time on a turn:
  a call past turn/start has its turn for itself, and the turn stays tracked
  until that call settles it or the client closes (`HeldInv`). The steps are
  grouped by what they disturb (lemmas `MovesOf`, `TakesOf`, `SettlesOf`).
- **`StreamProofs`.** `StreamsExactlyOnce` (`StreamExactlyOnce`), for one call at
  a time on a turn and envelopes that name it. Three invariants carry it, beside
  those of `TurnRoutingProofs`. What was handed out of a turn is a beginning of
  its steps (`PrefixOf`), and its call, or the continuation that the application
  holds, knows how long a beginning: the mark and the cursor of a call replaying
  the backlog, and the cursor of a continuation, tell the steps handed out from
  the others, while a call that waits has handed out all (`Knows`, `TurnInv`).
  The steps of a session are the first events of their items (`ShapeOf`). And
  the end of a turn comes after its items, so that a completed session has them
  all (`EndInv`). A step of one call concerns its own turn (`Local`,
  `Elsewhere`), so each action has a lemma about that turn alone.
  `DeliversTurns` (`Delivers`): `TurnRouting` implements `TurnDelivery`, under
  the same conditions (TLC also checks it with terminal events that lack ids,
  for one turn). Four more facts carry it. The events of a session are a
  beginning of what the server sent of its turn (`BeginsInv`): without it a
  session could miss the first notification of an item, and its step for the
  item would not be the one that was told. Its steps are the first notifications
  of their items, all of them (`StepsAreFirst`). `chat_once` has handed out no
  step of its turn, and a call that cancels has a continuation (`ModeInv`): its
  mode says whether the cancel hands out what is left. And a terminal session
  has all of the turn's items (`EndInv`), failed and interrupted ones included.
  One lemma per abstract action says what a step has to show to be that action
  (`MapsVerdict`, `MapsTell`, `MapsHandOut`, `MapsReport`), and one per group of
  concrete actions that it does (`ServerMaps`, `SettleMaps`, `CallMaps`,
  `ClientMaps`).
- **`FifoLockProofs`.** What joining and leaving do to the queue of a lock (and
  to the queue of answers in `ThreadHandles`).
- **`RpcProofs`.** `TypeCorrect`, `AnswersAreOwn`, `WaitersAreKnown`,
  `HandshakeFirst`, `HandshakesAreSerial`, `NothingLeaks` and `Refinement`
  (`Rpc` implements `RequestReply`), all from one inductive invariant
  (`Invariant`): ids are never reused, a message on the wire belongs to the id
  it carries, a completed future has the reply to its own id, an operation is
  asked only once `initialized` is on the wire, and that only behind a served
  `initialize`; a plain request implies nothing. `OwnAnswer`
  needs all of that, since an answer is looked up by id long after the caller
  may have gone.
- **`PromptsProofs`.** `TypeCorrect`; `OneResponse` (`OneReply`),
  `InputsAreKept`, `SettledIsFinal` (`NoStaleDecision`) and `ApprovalsStay`
  (`KeptUntilAnswered`). `OneReply` is not inductive: an approval that has a
  response must be out of the table, or its responder at the head of the lock
  and about to take it out, or given up; a user input or a refused request that
  has a reply in somebody's hand must have no response yet, be out of the table,
  and be in nobody else's hand (`AnswerInv`). The latter is what taking the
  entry out before the lock buys, and what it costs is the `gaveUp` of
  `InputKept`.
- **`LifecycleProofs`.** `TypeCorrect`, `CloseLeavesNothing`, `HandlersEndFirst`,
  `ReadsWhereItWrites` and `ObserversMissNothing`, from one invariant
  (`LifeInv`) that ties the place of the task in `close` to the receiver, the
  background tasks and the connection it has dealt with so far: at most one task
  is in `close`; once it gathers, the receiver is gone and no prompt can come;
  the sentinel is last in the queue.
- **`ReleaseProofs`.** `TypeCorrect`, and for a strict maintainer
  `PypiHasOneBuild`, `ReleaseHasThePackage`, `PublicIsTagged` and `ReleasesStay`.
  The invariant (`ReleaseInv`) says that runs are at work one at a time and that
  none of the runs after the one at work has distributions, so that whatever is
  public is from the last run that has any; that assets are attached to a draft,
  by the one run that is at it; and that a run past its validation, and its
  files, are of a releasable commit where the tag is, or was when it was moved.
- **`ThreadHandlesProofs`.** `MergeIsSequence` and `MergeLaws`: the merged
  snapshot of a handle stands for the sequence of its updates. `NoUpdateLost`:
  concurrent updates never replace one another. `TypeCorrect`, from the
  invariant that says where calls, handles and threads are (`PlaceInv`: an answer
  is on its way for each answered call, once; the handle that a call makes has no
  thread and belongs to no other call). `SnapshotsAreTrue` (`SnapshotTrue`): what
  a handle believes trails the server by the answers on their way, so the
  invariant (`SnapshotInv`) is about the handle as it will be once it has taken
  them in: a field has the value that the last answer naming it sent, and the
  one in the defaults if none names it; or the answer that makes the handle is
  itself on its way. It needs the order of the answers (`CutOrder`, `AppendOrder`,
  `HeadOrder`): two updates of one field taken in out of order would leave the
  older value in the snapshot.

Only model-checked: the liveness properties (`WaitersWake`, `EndedTurnWakes`,
`CloseEndsCalls`, `UnattendedAnswered`, `ObserversEnd`, `CloseCompletes`,
`ReleaseCompletes`): liveness under fairness is out of the prover's reach.

## 5. Not modelled

- Framing, the 64 KiB limit of a line on stdio, and bounded pipes, with them the
  wait of the receiver for the send lock behind a writer that waits for the
  server: messages have no length and a write never waits for the reader.
- The extraction of ids and texts from messages of unforeseen shapes
  (`_find_first_string_by_exact_keys`, `_extract_item_text`): recursion over
  JSON, without state.
- The parameters and results of the thin RPC wrappers (`list_threads`,
  `exec_command`, ...): each calls `request`, as `CallRequest` of `Rpc` does.
- `previous_release_ref`, `check_quality.py`, `check_chat_method_links.py` and
  the documentation workflow: they choose and lint files, and have no state.
- Texts, timestamps, payloads, wording of errors. Examples and tests.

## 6. Plan

Done, in this order: `TurnRouting` (the core), `Rpc` with `RequestReply`,
`Prompts`, `ThreadConfig` and `ThreadHandles`, `Lifecycle`, `Release`, the proofs
of section 4, and `TurnDelivery` with the proof that `TurnRouting` implements it.

Next:

1. Composition of `Prompts` with the release of turns in `TurnRouting`.
2. Bounded pipes: the receiver behind a writer.
