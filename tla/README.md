# TLA+ models of the task queue

The backend (`src/backend`, Go over Redis) is a distributed, lease-based task
queue: API servers accept tasks, workers lease and execute them, and one elected
leader promotes delayed tasks, reclaims the work of dead workers and fires cron
jobs. Everything the processes share lives in Redis; every rule of the system is
a sequence of Redis calls, some of them Lua scripts. These modules model those
sequences, TLC checks them on small instances, and TLAPS proves the central
invariants for every instance.

The frontend (`src/frontend`, React) is the dashboard on top of it: panels that
poll the API, forms that submit tasks and cron jobs, a course with reading progress
kept in the browser, and an animated diagram of a task's life. A second group of modules
models what its handlers, timers, effects and events do to the state of a page.

## 1. The system

### Components, state and operations

| Component | State it keeps | Operations |
|---|---|---|
| Broker (`internal/broker`) | `ready`, `processing` (score = lease deadline), record `owner`, `node:{id}:tasks` | Dequeue, Ack, Nack, ExtendLease: one Lua script each, Dequeue then reads the record |
| Executor (`internal/worker/executor.go`) | its copy of the task, as read at Dequeue | run the handler, Ack or Nack, then Save + Schedule (retry) or Save + Push (dead letter) |
| Worker pool and doorbell (`worker/pool.go`, `queue/queue.go`) | goroutines; `ready:signal`, a capped list of wake-up tokens | claim, block on BLPOP, fall back to a poll; Signal |
| Delayed scheduler (`queue/delayed.go`) | `delayed` (score = due second) | Schedule; promote.lua every second, on the leader |
| Reaper (`internal/reaper`) | nothing between two ticks | scan of expired leases, scan of silent nodes, reclaim.lua, push to the dead-letter list, on the leader |
| Node registry (`store/node.go`, `worker/node.go`) | `nodes`, heartbeat keys with a TTL, tombstones | Register, Heartbeat, Deregister; MarkDead, DeadSince, Remove |
| Election (`internal/election`) | `leader`, a key with a TTL | SET NX, renew.lua, release.lua |
| Cron (`internal/cron`, `api/cron.go`) | `cron` hash: job and cursor | materialize: List, Exists, Save, Enqueue, UpdateCursor; CreateCron, DeleteCron |
| API (`internal/api/handler.go`) | nothing | SubmitTask, RedriveFailed, FlushData, read endpoints |
| Record store (`store/task.go`) | `task:{id}` hashes | Save (the whole record), Get, Exists |
| Events, metrics, telemetry | counters and capped lists | display only |
| Polling hook (`frontend/lib/hooks.ts`, `lib/api.ts`) | last data, last error, requests out | interval, answer, failure, unmount |
| Read-only panels (`components/NodePanel.tsx`, `ActivityLog.tsx`, ...) | one or two pollers, the tab of the log | draw the last snapshots |
| Cron panel (`components/CronPanel.tsx`) | the polled list, busy flag, toast and its timers, the schedule | create, delete, describe the schedule in English |
| Submission panel (`components/TaskSubmissionPanel.tsx`) | submitting flag, progress, toast, two dialogs, handlers under way | submit, batch in chunks, flush |
| Learning pages (`lib/learn.ts`, `lib/learnProgress.ts`, `app/learn`) | localStorage, per tab the page and a copy of the read set | follow a link, mark as read, hear storage events |
| Landing diagram (`components/landing/QueueTutorial.tsx`) | frame index, orientation, measured boxes | tick, resize, measure |
| Followers (`ReadingProgressBar`, `InteractiveGrid`, `RevisionQuestions`) | a frame asked for, what is drawn | scroll, pointer move, draw, open an answer |

### How they interact

    client -- Submit --> record, ready | delayed        cron -- Save, Enqueue --> ready
                 delayed -- promote.lua --> ready
                 ready -- dequeue.lua --> processing -- ack.lua --> completed
      processing -- nack.lua --> (executor) --> delayed | dead letters
      processing -- reclaim.lua --> ready | (reaper) --> dead letters
    dead letters -- DrainAll --> (redrive) --> ready
                 election -- starts and cancels --> scheduler, reaper, cron

A script is atomic. Two calls of one Go function are not: between them any other
process may take any step, the process may die, the call may fail, and its reply
may be lost after it was applied. Where the task is in parentheses above, it is
only in the memory of one process.

In the browser there is one thread, and an await, a timer, an effect, a storage
event or an animation frame is where something else may come in between:

    interval -- request --> API -- answer, late or never --> data | error --> panel
    click --> handler -- chunk of requests --> API -- first failure | all --> toast, flags
    article drawn -- effect --> localStorage -- storage event --> index of another tab
    scroll | pointer | resize -- event --> frame or measurement --> what is drawn

### What is hard, and what makes each component correct

- *Lease against reclaim.* A worker that is too slow, a reaper that scanned too
  early and a second worker all hold the same ID. A task must stay in one place;
  a late call must not end, re-open or re-count what belongs to another. The
  owner field is the fence, so it must always name the holder.
- *Hand-overs through memory.* Nack then Schedule, DrainAll then Enqueue,
  reclaim.lua then Push, Save then Enqueue: the places a crash can lose a task. Nothing
  else may lose one.
- *Progress.* Every submitted task ends completed or dead lettered.
- *Split brain.* A leader that stalls, or waits for a call while its loops run on, goes on
  for a while; how long is bounded, and what two leaders may do together is bounded too.
- *Failure detection.* Heartbeats race the passes of the reaper: a live node must
  come back for good, a dead one must be forgotten and lose its leases.
- *Lost wake-ups.* Tokens are capped and best effort; no worker may sleep beside
  a ready task longer than the fallback poll.
- *Cron.* No slot twice, none passed over, the cursor never ahead of the queue.
- *Polls that overtake each other.* The interval does not wait, so an older answer,
  an older error or the answer to another tab may come last. A panel that stays open must
  still come to show the server as it is.
- *Handlers behind one set of flags.* Batches go on after a failure of one request and
  after their page has closed. What a toast or a count claims must be so, two
  handlers may share the flags only by a confirmation the code lets pass, and the form must come back.
- *Progress between tabs.* Effects and storage events come in any order: no badge
  that was not earned, none that is missed.
- *Drawn state.* What follows the scroll position, the pointer or the window must
  not be left behind, and a hand-written animation must show what the queue can do.

`PROJECT.json` lists the single hazards with the line where each one bites.

## 2. The modules

| Module | What it is |
|---|---|
| `LeaseQueue` | submission, promotion, worker goroutines, reapers and redrive over the shared structures; one action per Redis round trip |
| `TaskLifecycle` | the abstract promise: each task is in one state and moves only along the arrows of the life cycle |
| `LeaseQueueLifecycle` | the refinement mapping (`StateOf`, `lifecycle`) and the property `Lifecycle` |
| `Doorbell` | pool and signal list as counters: tokens, producers about to ring, idle, woken and busy workers |
| `Election` | the leader key in discrete time, tickers, calls that hang, are repeated or land late, stalls |
| `Cron` | the materializer, its cursor, overlapping leaders, API edits |
| `Membership` | registry, heartbeat keys, tombstones, the reaper's pass over silent nodes |
| `ApiTypes` | what the read endpoints answer with |
| `Polling` | operators on one poller: its requests, and what the client makes of an answer |
| `Panels` | the read-only panels of the playground over a cluster that changes |
| `CronForm` | schedules, their English text, and when the backend fires them |
| `CronPanel` | the list, the form and the rows' buttons of the cron panel |
| `Batches`, `SubmissionState`, `Submission` | the arithmetic of chunks; what the submission panel keeps and promises; its handlers |
| `Curriculum`, `LearnState`, `Learn` | the chapters and the queries on them; what tabs keep and a badge promises; pages, links, reading progress |
| `Tutorial` | the landing diagram: timeline, provider, scene, measured positions |
| `Followers` | reading bar, pointer grid, revision questions |
| `Frontend` | the parts of the dashboard composed: `INSTANCE`s of the six state machines over their own variables |
| `MC*` | constants and symmetry for TLC |
| `LeaseQueueProofs`, `LifecycleProofs` | theorems about `LeaseQueue`: types and conservation; places, leases, fences and the refinement |
| `FrontendProofs` | theorems about `Frontend` and about its parts, but for `SubmissionProofs`, which it takes over through `INSTANCE` |
| the other `*Proofs` | the theorems of each module |

The backend modules share no variables. They meet where one abstracts the other:
`LeaseQueue` lets any reaper run at any time and any node look dead, which covers
whatever `Election` and `Membership` allow; `Cron` takes overlapping leaders as
given; `Doorbell` counts the same claims as `LeaseQueue.Dequeue`.

### Correspondence with the code

*LeaseQueue.* `rec` is the hash of a task reduced to status, retries and owner;
`ready`, `delayed`, `processing`, `dlq`, `nodeTasks` are the keys of those names;
`expired` is the part of `processing` whose score has passed. A worker's `wpc` is
the call it makes next and `held` its `model.Task`; `rpc`, `todo`, `snap` are the
loop variables of the reaper; `apc`, `batch`, `cur` those of RedriveFailed; `cpc`
is a SubmitTask request. `SaveRetry` and `SaveFailed` write the whole record from
`held`, as TaskStore.Save does; `Hydrate` is the separate read after dequeue.lua.
The step `Work` leaves open how the handler ends. `dropped` and `holder` are
auxiliary: the tasks whose carrier failed, and who took the current lease.

Faults are switched on by name. "crash" ends a node (all its goroutines), a
leader or a request; "redis" makes any call fail, before or after it was applied;
"slow" is the expired context of Execute; "stall" lets a node look dead and its
in-flight set be deleted. The client library repeats a call whose connection
broke: a repeated dequeue.lua is `DequeueReplyLost` followed by `Dequeue`, a
repeated nack.lua that finds its lease gone is `NackReplyLost`. Not modelled are a repeated push
that enters a dead letter twice, and a ZADD of Enqueue or Schedule that was applied and is
repeated after the task has been claimed, which queues it a second time: `OnePlace` holds up to
such repeats.

*Election.* `left` is the TTL of the key, `timer[n]` the time to the next tick of
a node's ticker, `ticked` the nodes for which a tick is waiting in its channel. A call
either returns in the step that makes it (`Acquire`, `Renew`, `RenewRefused`) or hangs
(`CallHangs`): its command is then on the `wire`, where Redis may carry it out at once, later,
once more each time the client repeats it, or never (`SetLands`, `RenewLands`), also when the sender has got
an error (`CallFails`), stepped down or died. So a renewal that was applied and whose reply is lost
is `RenewLands` followed by `CallFails`. The code sets no deadline on either call; how long the
client keeps one is the constant `MaxCall` (`spent` counts it). Meanwhile the loops
under `leaderCtx` run on, so a waiting leader is still `leading` and its `stale` time is counted;
only a stall of the whole process (`Pause`) stops that clock. `Tick` may not pass a due ticker
of a node that runs and waits for nothing. Tickers have any phase at the start, and a new leader's ticker
starts with its loops. `late` remembers who, since it took the key, has stalled or waited for longer
than `Prompt`, half of what a TTL leaves beside a renewal period; `stale` for how long a node has led without
the key, `headless` for how long a live cluster has had no leader since the last hanging call and the last stall.
The Release of a shutdown may be lost with the process (`ExitUnreleased`).

*Cron.* Time counts slots; an instance `<<j, s>>` is the task ID
`{job}-{timestamp}`. `mpc` walks List, Exists, Save, Enqueue and the two halves of
UpdateCursor. `fired` counts enqueues, `lost` the instances a failing leader
dropped between Save and Enqueue.

*Membership.* The pipelines of Register, Heartbeat, Deregister and Remove are one
step each, a heartbeat some time after it was sent (`sent`). A key expires
(`Lapse`) only when its node does not beat: the configuration demands a TTL above
the heartbeat interval.

*Doorbell.* Workers and tasks are interchangeable, so they are counted. `ringing`
is a producer between ZADD and Signal; the scripts add and ring in one step.
`missed` counts the rings that got lost and the tokens spent on claims that failed.

*Polling, Panels.* A poller is `data`, `error` and `calls`, the requests that are
out. `Tick` is the interval, `Answer` the moment a request reads the server (or
fails there), `Deliver` the rest of `poll` after its await; between `Answer` and
`Deliver` the cluster moves (`Advance`) and other answers pass. `GetLeader` keeps the
order of `try`, status check and `return res.json()`. `Leave` and `Return` unmount
and mount the page. What a panel draws is an operator on its snapshots (`NodePanel`,
`RowKeys`, `StatCards`, ...).

*CronForm, CronPanel.* A schedule is a sequence of five or six fields.
`describeSchedule` is the function of that name, case by case; `FiresAt` is what the
options of the parser in `internal/cron/cron.go` make of the fields. `WrongWords` names the
schedules whose text is wrong, by their fields alone. `requests` are the calls of `handleCreate` and
`handleDelete`: a row's button has no guard, so two of them may ask for the same
job. `Reach` lets a request be applied, refused, or applied with its reply lost; `here` tells
whether its page is still open. A toast never waits for an older one: `timers` counts the timeouts
under way, and `Clicks` bounds the user's clicks, never the handlers.

*Batches, Submission.* A run `r` is one call of a handler: its kind, its `stage`, the
tasks sent so far and the state of each request. `NextChunk`, `Succeed` and `Fail` are the three
ways on from `await Promise.all`; `here` tells whether the page of the handler is
still open, and so whether its setters do anything. A dialog that fades out can still be
confirmed, which is where handlers can meet: `again` counts the confirmations made beside a running
handler since the page opened.

*Curriculum, Learn.* `chapters` is the array of `lib/learn.ts`, reduced to what the code looks
at; the model checker uses a shorter one. `Draw` renders a page, `RunEffects` runs its effects some time later,
`StorageEvent` delivers to other tabs; `opened` is auxiliary. `storage` says whether
localStorage can be used.

*Tutorial.* `TIMELINE` is the array of that name with positions by name instead of
pixels; `frameIdx` and `i` are the state and the closure variable of the provider.
`measured`, `boxAt` and `window` let a position be of an older window size. `TokenDot`, `WorkerNode`,
`Connectors` and `Caption` are the components.

*Followers.* `widget` says which of the two widgets is followed; `queued` is the ref
or variable that keeps a second frame from being asked for, `frame` the pending callback,
`untold` an answer that was opened or closed, which changes the page's length without a scroll event.

*Frontend.* The parts share neither state nor calls in the browser: each panel polls
for itself, and a created job comes back through the server. A behaviour therefore
follows one of them (`focus`) while the others stand still; interleaving two of them would multiply
states and tell nothing that the parts do not.

## 3. The runs

| Run | Instance | Shows |
|---|---|---|
| `LQ_race` | 1 task, 3 goroutines on 2 nodes, 2 reapers, 1 redrive, 1 retry, no faults | `OwnerIsHolder`, `BuriedIsFailed` and the refinement, every interleaving |
| `LQ_fault` | 2 goroutines on 2 nodes, all faults | `OnePlace`, `Conservation`, `CompletedIsFinal`, `FencedByNode` and the refinement under failures |
| `LQ_live` | 2 tasks of different priority, 2 goroutines on 2 nodes, crashes, fair | `EventuallyFinished`; `OnePlace` with two tasks |
| `EL_safe` | 2 nodes, TTL 6, calls of up to 2 ticks that hang, repeat, fail or land late, stalls, crashes, shutdowns | `SingleLeader`, `StaleBound`, `LeaseIsTheOwners`, `FailoverBound` |
| `EL_live` | 3 nodes, crashes and shutdowns, fair | `EventuallyLed` |
| `DB_wake` | 3 workers, cap 3, 5 tasks, batches of 2, lost rings, failing claims, fair | `NoMissedWakeUp`, `EveryTaskClaimed` |
| `CR_live` | 2 jobs, 2 leaders, 2 slots, 2 edits, 1 failure, fair | `FiredOncePerLeader`, `SlotCovered`, `CatchesUp` |
| `MB_live` | 2 nodes, 1 task, 1 reaper, all faults, fair | `LeavesCleanly`, `RejoinsForGood`, `GoneIsForgotten`, `GoneHoldsNothing` |
| `FE_site` | each part of the dashboard in turn: 2 requests per poller, 2 states of the cluster, 1 outage, 1 job, 2 toasts at once, 2 handlers with batches of 3 in chunks of 2, 1 failed request, 2 tabs, 3 chapters, 2 questions, 3 window sizes, fair | `PanelsSettle`, `ComesBack`, `DescribesExactly`, `TellsTheTruth`, `OverlapsAreConfirmed`, `BadgeMeansOpened`, `BadgesCatchUp`, `ShowsLifecycle`, `SceneConsistent`, `DrawnFollows` |
| `LQ_lost`, `LQ_ownlease`, `CR_unqueued` | the smallest ones that show it | where the documents and the code part, below |

Every passing run but `LQ_fault`, `LQ_live` and `EL_live` checks the type invariant of its
module as well. A property is listed with the run whose instance is hardest on it: those of
`LeaseQueue`, but for `BuriedIsFailed`, which failing saves break, hold under both instances.

*Why the bounds are enough.* The races are about one task: three goroutines, two
of them on one node, are what a lease taken twice on one node and once on another
needs; two reapers are what a stale scan needs; one retry reaches both outcomes of
`CanRetry` in Go and in Lua, and a redrive starts a second life. (While the
models were built the runs were also tried with one size more where TLC allows it:
three goroutines and two retries under fairness, three slots with one job, six
tasks on the doorbell.) A TTL of six
ticks gives a period of two, so that renewals, polls and expiry fall out of step, and a `Prompt` of one tick:
calls of two ticks are the first that are not prompt, and as long as a period. Two nodes are the
old leader and the new one; a command that is still on the wire of one meets the lease of the other.
Two slots let the cursor skip one and meet the end of the clock, and
two jobs, one of which fires half as often, let a tick handle one job after
another. Five tasks, three workers and a cap of three fill the token list beside
waiting workers. Deadlock is not
checked where every process may be dead or every request served; `Doorbell` has
no such end and checks it.

In `FE_site` two requests per poller are enough for one answer to overtake another, and
a third would only overtake again. Batches of three in chunks of two have a full first
chunk, a shorter last one and a chunk that fails in part; two handlers are what a confirmation during
the fade and a return to the page need. The two states of the cluster differ in every field a panel draws,
with colliding event IDs, an overfull node, a node with more workers than dots, a dead leader
and a dead node with tasks. The second of three chapters is not out, so that links go around it. The
schedules the user may type have right words, none, and wrong ones of every kind that `WrongWords` names;
`DescribeSix` and `DescribeFive` see each of their branches. Two toasts of the cron
panel may be up or under way together, so that an older timer takes down a newer toast. With two
handlers only one can run beside another; that the bound of `OverlapsAreConfirmed` also holds for
three and more is its theorem. Deadlock is checked.

*Fairness.* Each conjunct of a fair specification is a loop of the code: workers
poll, tickers of the scheduler, the reaper, the materializer and the heartbeat
fire, a handler returns at its drain timeout, time passes a deadline, and a block
on the doorbell ends after `signalBlock`. No fairness is given to a fault, to a
wake-up token, or to a client that submits. Weak fairness is enough everywhere:
no loop depends on winning a race again and again. A call of the
elector ends after `MaxCall` ticks, which is the timeout of the client, and a stall ends. The
liveness properties name what they rely on: a worker and a reaper that survive,
a node that stays up, a job that stays enabled, a reaper whose passes do not all
fail.

In the browser intervals, timeouts and effects fire, a response that has come is handled,
and storage events arrive. Of the requests only this is assumed: while some are
waiting, one of them is answered in the end, and only `MaxOutages` or `MaxFailures`
fail; a single request may stay out for ever, which is what an overtaken poll looks like. Leaving a page, clicking and resizing are free.

### Where the documents and the code part

Three runs check what a document or a comment says and find it violated by what
the code does; each is a finding in `PROJECT.json` with the quoted line.

| Run | Claim | What happens |
|---|---|---|
| `LQ_lost` | `docs/ARCHITECTURE.md:218`: no task is ever lost | a crash between Nack and Schedule loses it |
| `LQ_ownlease` | `executor.go:117`: a reclaimed lease skips retry routing | the fence is per node: another goroutine's lease is released |
| `CR_unqueued` | `materializer.go:192`: never marked done before it was enqueued | a saved record is taken for an enqueued one |

Other places where the words promise more than the code, met while modelling and
part of the models' behaviour, without a run of their own:

| Claim | The code |
|---|---|
| `docs/ARCHITECTURE.md:293`: a task cannot be reclaimed twice | reclaim.lua looks at membership, not at the deadline: an ID of an old scan ends a fresh lease |
| `README.md:64`: no read-modify-write races | a late Save takes back the retry count a reaper has written |
| `docs/ARCHITECTURE.md:188`: the in-flight set is what the node holds | the reaper clears the set of the owner it read before its script ran |
| `executor.go:67`: a fresh drain context for all writes | it is made before the handler runs and shares its deadline |
| `handler.go:121`: a duplicate ID is refused | Exists and Save are two calls |
| `README.md:72`: crash failover within the TTL | plus up to one polling period, which is the bound of `FailoverBound` |
| `docs/ARCHITECTURE.md:286`: two leaders for up to about a TTL | `StaleBound`: two calls, or a period and a call; the client's default timeouts and repeats make a call longer than the default TTL, and nothing in the code shortens them |
| `election.go:164`: zero leaders rather than two on any renewal error | the error may come long after the key has gone, since renew has no deadline of its own: `SingleLeader` holds for calls up to `Prompt` only |
| `docs/ARCHITECTURE.md:263`: a release makes failover instant | the standby polls, and main does not wait for the release |
| `docs/ARCHITECTURE.md:296`: a double fire collapses to one entry | not when a worker has taken the first; `FiredOncePerLeader` is what holds |
| `cron/store.go:81`: UpdateCursor leaves the rest intact | it writes back the whole job it read |
| `docs/ARCHITECTURE.md:195`: recovery within the heartbeat TTL | not when the reaper fails after the tombstone; `GoneHoldsNothing` is what holds |
| `reaper.go:116`: a stalled node whose heartbeat returns is never pruned | the pass acts on a list it read before: a heartbeat after the scan clears the tombstone, which DeadSince takes for an old one; `RejoinsForGood` is what holds |
| `README.md:45`: a plain-English translation of the schedule | `*/7` is "every 7 minutes", but fires at 56 and at 0; of five fields only two are read, so that `*/15 9 * * 1` is "every 15 minutes"; `DescribesExactly`, checked by `FE_site` and proved as `FormSpeaksExactly`, says which schedules have a wrong text |
| `lib/api.ts:72`: getLeader is tolerant | `return res.json()` is not awaited, so that a body that cannot be read rejects past the catch |

Most of these are windows of one call, and the passing runs show what bounds
them: a lost task was in the hands of a process that failed (`Conservation`), a
rewound count never exceeds `max_retries` (`TypeOK`) and never keeps a task from
ending (`EventuallyFinished`), a slot is queued at most once by each overlapping
leader, a pruned node that lives comes back for good (`RejoinsForGood`), and a
dead one loses its leases all the same (`GoneHoldsNothing`).

## 4. The theorems

All hold for every value of the constants that satisfies the assumptions named in
the modules, and from the second column of the table.

| Theorem | From | Argument |
|---|---|---|
| `TypeCorrect` | `TypesOfConstants` | inductive as it stands; the conjuncts that tie a program counter to a task in hand are needed for the record updates |
| `TasksConserved` | the same | `Conservation` is inductive with `TypeOK`: every step that takes a task out of a structure puts it into another one, completes it, or leaves it with a carrier, and a carrier that fails enters it in `dropped` |
| `PlacesInvariant` | `NoSubmitRace` | the inductive form of `OnePlace`, below |
| `TaskInOnePlace` | the same | a conjunct of `PlacesInvariant` |
| `CompletionIsFinal` | the same | each step that changes a record has the task in some place before it, and a completed task is nowhere |
| `LeaseNamesHolder` | the same | a task becomes leased only by a step that writes owner and status, and every other writer of its record holds the task, so that it is not leased |
| `LeasesFenced` | the same | ack.lua and nack.lua compare the owner field, which is the holder's node by `LeaseNamesHolder` |
| `DeadLettersFailed` | the same; no failing call to Redis | strengthened by the tasks an executor or a reaper is about to bury: they are recorded as failed already, and whoever has the task is the only writer |
| `QueueImplementsLifecycle` | the same | the place of a task determines its abstract state (`StateByPlace`); each of the kinds of steps of `StepMoves` is then one action of `TaskLifecycle`, or leaves `lifecycle` as it is |
| `SoleGoroutineRoutesItsOwn` | the same; one goroutine per node | nack.lua lets through whoever is on the owner's node, and the holder is the only goroutine there |
| `LossesWereInHand` | `TypesOfConstants` | an accepted task has a record (`SavedIsRecorded`), and every task with one is accounted for by `Conservation` |
| `NothingLostWithoutFailures` | the same; no fault but stalls | nothing is ever dropped, so that `LossesWereInHand` leaves only the other two cases |
| `ElectionTypeCorrect` | `ElectionAssumption` | inductive |
| `OneLeaderUnlessLate` | none further | `LeaseCovers`: the key of a leader that is not `late` has at least a TTL less the call that took or renewed it, the time since, and the call under way, and that is more than nothing since a period and two prompt calls are shorter than the TTL |
| `OneLeaderIfPrompt` | no stalls, `MaxCall` at most `Prompt` | nobody is ever late |
| `StaleLeaderStops` | none further | `Overdue`: the time a leader has led without the key and the rest of the call or period it is in fit into the longer of the two, and one more call tells it |
| `FailoverIsBounded` | none further | `CrownReturns`: while the key is there the time without a leader and what is left of the key make at most a TTL; once it is gone, that time and the time to the next poll of any standby make at most a TTL and a period |
| `OwnerOnly` | none further | each command by its guard at Redis, also when it lands late; `None` is no node |
| `NoWorkerOversleeps` | cap at least the number of workers | `EnoughWakeUps` is the inductive form: the idle and woken workers that the ready tasks could occupy are covered one by one, or by one of the failures counted in `missed`; the cap is not hit while somebody is uncovered |
| `SlotFiresOnce` | finitely many leaders | `FiredBound`: how often a slot was queued and how many leaders are past Exists and before Enqueue with it make at most the number of leaders; whoever is not past Exists once the record is there never gets there |
| `MarkedOnceQueued` | one leader, no failing call | `QueuedFirst`: a record is of a slot that was queued or that the leader is about to queue, and the leader reads and writes the cursor for queued slots only |
| `CursorCovered` | none further | `SlotCovered` strengthened by the copies of UpdateCursor in flight |
| `DoorbellTyped`, `CronTyped`, `MembershipTyped` | the assumptions of their modules | inductive; a reaper in the middle of a node has that node |
| `SubmissionTypeCorrect` | positive sizes | inductive |
| `ThePanelIsHonest` | the same | `TruthInv`: the chunks before `sent` were accepted whole, a success toast or a count belongs to a handler that got so far, and what was accepted stays so |
| `ChunksBoundRequests` | the same | only tasks of the current chunk can be unanswered, and a chunk is no longer than `CONCURRENCY` |
| `OnlyConfirmationsOverlap` | the same | a handler starts either when the controls are enabled or by such a confirmation, which `again` counts; the end of a handler takes one from those that run and may enable the controls while others go on, so that the allowance without the flag is one less |
| `FarewellIsFinal` | none further | a node that has left has nothing on its way, and a reaper only removes |
| `RunningNodesTrusted` | no stalls | `Unsuspected`: a node is unknown until its first announcement, and from then on every scan finds its key, so that it never stays on the list of a pass |
| `SiteTypeCorrect` | bounds that are numbers | `Inv`: pollers are records over versions the server has had, and each part keeps its own conjunct, also as a bystander whose page opens and closes |
| `NothingStaysBehind` | the same | the flag of a widget is up while the browser is going to call back; what was measured at another size, or drawn for the other orientation, has its event in `pending` |
| `BadgesAreEarned` | a curriculum with distinct slugs | `Progress`: the store holds only what was opened and every copy is part of the store, which never shrinks; a page marks only itself, and only when it is an article |
| `SiteIsHonest` | bounds that are numbers | the dashboard follows the submission panel for good or never: in the first case it is a behaviour of `Submission`, whose theorems apply, in the second nothing was claimed |
| `DiagramIsTruthful`, `DiagramMovesAsQueue` | the same | `Inv` keeps the index on the timeline and the cursor one frame ahead of it, also when the page is left; what each of the ten frames and the still shows (`Frame1` to `Frame10`) is read off once, and then compared with itself and with the frame that follows |
| `SixFieldsExact` | any six fields | the fire times are multiples of the step since the last full unit; the last multiple before the next unit is followed by the step itself exactly when the step divides the unit (`EverySecond`, `EveryMinute`, `EveryHour`) |
| `FiveFieldsExact` | any five fields | as above for steps of minutes that divide the hour and steps of whole hours, each compared with the hours the second field allows; days that are not open always refute the text |
| `FormSpeaksExactly` | five or six fields in every schedule that is typed | `SixFieldsExact`, `FiveFieldsExact`; the buttons' schedules have six fields |

*The argument about places.* `OnePlace` is not inductive: that a hand-over moves a task
needs that nobody else holds it, that a task without a record is in nobody's hands but
those of the request that is about to save it, and that what a failing process dropped
does not come back. `PlaceInv` adds these three (TLC checked it, and the forms of the
others, before they were proved). The proof is in two halves. Lemma `StepMoves` reads off
the code, action by action and without any of the properties, that a step is of one of
twelve kinds: it takes one task from one place to another one, writing its record in a
certain way (`Claim`, `Accept`, `Rewrite`, `Enlist`, `Take`, `Finish`, `Release`, `Return`,
`Inter`, `Exhume`, `Withdraw`), or it is a failure that drops what a process has (`Lose`), and
in both cases leaves every other task `Still`. Each theorem then goes through the twelve
kinds instead of the forty actions.

*Its hypothesis.* `NoSubmitRace` says that no two requests with one ID are between Exists
and Save at once. It holds when requests have IDs of their own (lemma `UniqueIDs`), as those the
server makes up have (`genID` in `api/handler.go`), and when a client sends a request again only after
it has seen an answer. Two requests that race there make two copies of a task; this is the
hazard at `handler.go:124`, and the code does not prevent it. `DeadLettersFailed` needs that
saves do not fail: the executor goes on when one does (`executor.go`), and the dead letter keeps
an old status.

*Theorems under a condition that a run shows to be needed.* The three claims that the
violation runs refute are true of a smaller system, and the theorems say of which:
`AcceptedNeverLost` where nothing fails, `RoutesOwnLease` with one goroutine per node,
`NeverMarkedUnqueued` with one leader whose calls do not fail. `LQ_lost`,
`LQ_ownlease` and `CR_unqueued` break the condition once each. `RunningNodesTrusted` excludes
stalls for the same reason: a node that stalls for longer than the TTL is marked, and what
then holds is `RejoinsForGood`.

*Schedules.* `WrongWords` is stated on the fields, without fire times, and the theorems say that a text is wrong
for these schedules and for no others. Six fields: a step that does not divide the next larger
unit. Five fields that have words: days that are not open, hours other than those that a
count of the minutes reaches, or a step that is neither a part of an hour (of a day, for hours) nor
whole hours. The texts are compared with the fire times of a whole day and the start of the next.

Only model-checked: the liveness properties `EventuallyFinished`, `EventuallyLed`,
`EveryTaskClaimed`, `CatchesUp`, `RejoinsForGood`, `GoneIsForgotten`, `GoneHoldsNothing`,
`PanelsSettle`, `ComesBack` and `BadgesCatchUp`, since fairness and `ENABLED` are beyond the
prover; and the operators that sort, fold and recurse over data in `Panels` and
`Curriculum`. Every invariant and action property that a run checks is stated by a theorem.

## 5. What is not modelled

- `FlushData`: records never vanish in `LeaseQueue`, so the branches for tasks
  without a record ("orphan", a hydration that finds nothing) are left out.
- `ExtendLease`: nothing calls it. It checks neither owner nor deadline.
- Backpressure in SubmitTask, generated IDs, payloads, types and error texts.
- Times of delays and backoff: a delay may elapse at any moment, a lease may
  expire at any moment. ZPOPMIN's order among equal priorities is left open.
- Metrics, events, telemetry and the read endpoints on the server's side: nothing is
  decided on what they keep.
- Parsing of cron expressions: `Cron` takes a set of fire times, `CronForm` parsed
  fields.
- Of the dashboard: what is typed into the fields of the forms, the automatic scrolling of the log, the
  countdown of delayed tasks, easing and styles, the texts of the chapters and their Markdown, the
  wrappers of the component library, and static landing copy. They hold no state that another part reads.
- A flush that meets a batch of an earlier page: the server forgets tasks that a toast
  has claimed. It needs the flush of the plan below.
- The cache of compiled schedules, which a materializer that starts again may share with its
  former loop (`cron/materializer.go:92`); the rounding of delays to whole seconds
  (`queue/delayed.go:47`); counters that a crash leaves behind their transition (`store/metrics.go:20`).
- What the panels draw before the first answer: a list that never came looks like an empty one
  (`QueuePanel.tsx:69`).
- Configuration, handlers, load generator, scripts, deployment.

## 6. Plan

Done: the core (`LeaseQueue` with its abstraction), `Doorbell`, `Election`,
`Cron`, `Membership` with their first theorems, and the dashboard (`Panels`, `CronPanel`,
`Submission`, `Learn`, `Tutorial`, `Followers`, composed in `Frontend`). Next, in this order:

1. `Flush`: FlushData beside workers, submissions and reapers, with the orphan
   branches, in a module that extends the structures of `LeaseQueue`; that a flush
   leaves no lease behind for good.
2. `DelayedClock`: the delayed set and leases with a clock, `BackoffDelay`, the
   rounding to seconds, `ExtendLease`.
3. `Backpressure`: the depth check against concurrent submissions, how far the
   limit can be passed.
4. `Accounting`: counters beside the transitions they count.
5. A composition of `Election` with the reaper of `LeaseQueue` or with `Cron`:
   two leaders only within the window `StaleBound` allows.
6. `ProcessLife`: what `cmd/server` and `cmd/worker` start, in which order, and
   what a shutdown waits for (HTTP server, node, pool, elector).
7. Proofs: `GoneHoldsNothing` and `GoneIsForgotten` rest on what a pass of the reaper may
   still do to a node that is gone, which is safety; that the pollers of `PanelsSettle`
   never show an endpoint of another panel; the invariants of the modules above as
   they are added.
