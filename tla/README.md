# Sealwire / agent-relay: a TLA+ model

TLA+ specifications of the concurrent core of agent-relay: what they model, what
TLC checks on small instances, what TLAPS proves for all of them, and what is
left out. Every definition is a translation of source lines that `PROJECT.json`
names under `map`; `hazards` lists where the code is exposed and which property
watches each place.

## The system

A **relay** (`crates/relay-server`) runs beside the coding agents on a person's
machine. It drives **providers** (the Claude worker, Codex, ACP agents), keeps
the state of every thread, and serves **local surfaces** (browser tabs, the
desktop shell) over HTTP and event streams. On its own account it runs **jobs** on
those threads: reviews, workflows and the task runs of a team. **Remote surfaces**
(a phone's browser) reach it through a **broker** (`crates/relay-broker`), which
seats the relay and its surfaces in a room and passes sealed frames between them.
A remote surface must first be **paired**; afterwards it sends **actions** that
the relay executes at most once as long as it remembers them.

```
 tab ── SSE / HTTP ──┐                           ┌── Claude worker ── SDK
                     relay (state behind a lock) ┤
 phone ── room ── broker ── session + writer ────┘── Codex, ACP
                     └── jobs: reviews, workflows, task runs
```

### Inventory

| Part | Source | Modules |
|---|---|---|
| Broker rooms and socket tasks | `relay-broker/src/state.rs`, `lib.rs` (`handle_socket`) | `BrokerRoom` |
| The relay's writer to the broker | `relay-server/src/broker/writer.rs` | `BrokerWriter` |
| Remote actions, both ends | `frontend/remote/actions.js`, `broker/remote_actions.rs`, `state/relay.rs` | `RemoteActions` |
| Watch sets of local tabs | `frontend/local/watched-threads.js`, `session/stream.js`, `main.rs`, `state/relay.rs` | `SurfaceWatch` |
| Pairing, device records, revocation, device grants | `state/app/pairing.rs`, `state/relay/device.rs`, `public_control.rs`, `frontend/remote/pairing.js` | `Pairing` |
| Turns: send, stop, answer, watchdog; the Claude worker | `state/app/sessions.rs`, `approvals.rs`, `mod.rs`, `claude.rs`, `claude-worker/worker.mjs` | `TurnControl` |
| Task runs of a team | `state/app/team.rs`, `relay-api/src/team.rs` | `TeamRecord`, `TeamRun`, `TeamPromise` |
| Reviews and workflows | `state/app/review.rs`, `workflow.rs`, `state/review.rs`, `workflow.rs` | `JobThreads`, `ReviewJobs`, `WorkflowRuns`, `CodeJobs` |
| The transcript on a local surface | `state/relay/transcript.rs`, `frontend/shared/transcript-*.js`, `frontend/local/session/` | `TranscriptMerge`, `TranscriptSync` |

`components` in `PROJECT.json` lists all parts, those without a module included.
"Partly" means some of a part's operations are missing, and its note says which.

## The modules

Each `X.tla` with a run has its `MCX.tla`, which TLC runs with the constants of an
`MCX*.cfg`. No cfg replaces a definition. Operators that no action uses and that
carry a bug's name (`NobodySuperseded`, `CommitUnchecked`, `OneRoundMore`, ...) are
the mutated forms listed under `mutants`: put in the place of the definition they
belong to, they make TLC report the property.

### BrokerRoom
State: `rooms` (channel → peer → connection id, 0 for no seat), the socket task
and mailbox of each connection, and the `view` a client has built from what it
read. Actions: `Join` (with eviction of the seats the ticket supersedes),
`JoinRefused`, `SendWelcome`, `Deliver`, `OutboundClosed`, `SocketEnds`,
`LeaveConnection` (checks the connection id), and three forms of publishing. One
join, leave or publish is one step, since the broker holds its lock throughout;
the steps of different socket tasks interleave. Left out: rate limits.

### BrokerWriter
State: three bounded queues, the resident reply ("train") with its deadline, and
`pc`, the next step inside `drive_writer`'s loop; the queues fill between any two
steps. History: `wire`, `abandoned`, `overtaken`. Time is ticks since the last
chunk, saturating at the largest interval.

### RemoteActions
State: the surface's pending actions with deadlines and partial replies, its
claim, the frames in both directions, the relay's session, the handler (reserve,
execute, store, publish), the replay cache with ages, the writer's trains, and
history of executions. Faults: loss of the relay's session, relay restart, loss
of the surface's socket, claim expiry. The room is reduced to what the two ends
see of it: frames in order, lost with a session, and the presence of the relay.
Of `BrokerWriter` it keeps that trains go out one after the other, in the order they
were handed over, with ordinary frames between any two chunks; `Backlog` is how many
are in the writer's channel when `send_train` finds it full or not, the first of them
being resident or about to be. Several pending actions are resent in any order (the
code walks a map in insertion order, which the model does not keep). An execution that
fails goes to `store_remote_action_result` and is answered like one that succeeds; the
model does not tell the two apart.

### SurfaceWatch
State: the tab and its declarer (`lastKey`, the request in flight, `pending`),
declarations and stream requests under way, the `SurfaceWatchGuard` of each
stream, generation and watch set. Connects are numbered in order (the code uses
`Date.now()`): the clock does not step back. `LateRequests` says whether an
aborted or failed request may still be handled later.

### Pairing
State: devices' attempts, tickets, requests, decided results, the approvals in
progress (one step per lock section or broker call), paired devices with their
records, the saved copy of both, revocations whose broker call is outstanding,
and the broker's grants. Time is the set of expired tickets. Faults: a broker call
that fails, whether or not the broker acted on it; an operator's client that hangs up,
which drops the handler at the await it has come to, with no guard to undo anything
(`HangUp`; for a revocation, `BrokerRevokes`, whose local half is done before the
call); and restarts. `leaked` records the grants these leave behind. A hang-up also
loses the request its approval had claimed: `asked` then forgets it, unless the device
has asked again, so that `RequestsAreNotLost` is about everything but that. An approval
that fails puts its request back over a newer one, as the code does.

### TurnControl
State: `relay` (the thread's active turn, working status, liveness flags, pending
requests), `person` (the operation holding the session slot), `watchdog`,
`fallbacks` (`await_stop_or_mark_idle` tasks), the two pipes, the worker's session
`entry` and stop operation, the SDK's queue, and whether worker and reader are at
their end. An operation is cut wherever the code awaits: `SendBegin` reads the
turn revision, `SendWrite` writes the command, `SendFinish` takes the lock again
and seeds the turn if no turn event came between. The reader, the watchdog and
fallbacks are not held up by the slot. The SDK is external: one input queue, one
result per turn, and continuations nobody asked for, as the notes in
`worker.mjs` and `test-fake-sdk.mjs` describe it. Six hundred seconds without
progress are one step, `Silence`. The callers waiting on a stop are answered in any
order. `RequestsAreKept` says which steps may hide a request of the agent: only those
by which a stop gives the turn up.

### TeamRecord, TeamRun and TeamPromise
`TeamRecord` is the durable record of a task run: one operator for each guarded
move of `TeamRun` in `relay-api/src/team.rs`. `TeamRun` is everybody who moves it.
State: the record, the threads as the relay sees them (`view`) and as the provider
runs them (`real`), open questions, the holders of the drive gate and of the
ticket, where each driver and handler is (`pc`, `arg`), and spawned cleanups.
A step is what happens between two awaits: the gate is held across steps, the
relay lock within one only, so a write that takes no gate falls between any two
steps of a gate's holder. The engine that drives (`TeamDriver`) is private and
external: it looks at the boundary before each action and then does whatever
`TeamPort` allows. Faults: lost drivers, clients that hang up, restarts.

`TeamPromise` is the abstract specification: a run is driven, resting, stuck or
over, and somebody or nobody is changing its worktree. One writer at a time, the
team only while the run is driven or stuck, and every change of mode but getting
stuck needs an empty tree. `KeepsThePromise` instantiates it with the refinement
mapping `mode <- Mode`, `writer <- Writer` (the status class; a turn the provider
runs, or a commit).

A start can be given up with its turn on the way: the liveness window closes, the
driver is lost in `start_turn`, or a message to the team lead fails late or its client
hangs up. If nothing was announced by then, `real` is `lost`: the provider runs a turn
nobody in the relay answers for. It may be announced at any later time, which the
drains then see. `Writer` does not count it, so `KeepsThePromise` is about all other
turns and about what the relay does around the lost ones; `OverMeansQuiet` below is the
statement that counts them, and fails. A turn that has yet to begin when it is given up
counts as begun.

Assumed: the agent starts no turn by itself; a restart finds the current record on
disk. A request its first look at the run refuses is left out.

### JobThreads, ReviewJobs, WorkflowRuns and CodeJobs
`JobThreads` has what the two kinds of jobs share: whose turn the provider runs on
each thread (`live`), what the relay has heard of it (`seen`), the session slot,
the locks, and the steps of a turn a job starts (send, uncertain start, wait,
stall, stop). `ReviewJobs` adds the review's task, its lifeguard, Stop, Resolve and
Delete; `WorkflowRuns` the workflow's task, its lifeguard and Resolve with its
recovery guard; `CodeJobs` composes them with the people on the threads and with
restarts. All threads work in one workspace.

The call that asks for a turn may fail, return no id or be dropped with its task or its
client, at any moment, and the turn run all the same. `lost` is the set of threads
where that happened to a turn nothing has been heard of: no action reads it, a turn
leaves it by ending, or by being announced before the job that started it has drained
its threads or is over and, for a person's, before a job has taken the thread over
(`InTime`). The properties below
are about the threads that are not in it.

Assumed: a provider runs one turn per thread; providers' turns end with the relay's
process; one Stop of a review is handled at a time. Approvals and questions are turns to stop. The statuses between a
review's first and last turn are one (`Active`, the stage tells them apart), and
so are Complete and Escalated, which deliver alike.

### TranscriptMerge and TranscriptSync
`TranscriptMerge` has the pure rules: clipping, fitting a chunk at an offset,
choosing between two copies of an entry, placing new entries in the order. A text
is the sequence of its character positions, so a corrupted one shows. `TranscriptSync`
is one conversation and one turn: `relay` (its transcript, revision and turn),
`channel` (the connection's backlog with its lag notice), `wire`, and `tab` (the
hydration window, what is on screen, the paint that is owed, and the page and
repair fetches under way).

Assumed: the fetches succeed (the code reports a failed page or repair and gives it up;
that path is left out), and one page reaches back to the start of the conversation, so
none is followed by an older one.

## The runs

Sizes are distinct states of the instance. Deadlock is not checked: every
instance stops when its bounds are used up, and the program may be idle.

| Run | Question | States |
|---|---|---|
| `broker_room` | Does a ticket or relay hold one seat, is every seat served, do welcome and presence add up, are late teardowns harmless, do orphaned sockets end? | 35,302 |
| `broker_writer` | Are replies contiguous, paced and complete, and heartbeats prompt, whatever fills the queues and however the task ends? | 387,153 |
| `remote_actions` | Through lost sessions and sockets, restarts and expired claims: is an action executed again only if the cache had to forget it, does no reservation outlive its handler, does every action settle, from one result? | 127,414 |
| `surface_watch` | Can a teardown unsubscribe a newer stream, a declaration get lost on an open one, a closed tab be watched for ever? (no late requests) | 348,338 |
| `pairing` | Is a ticket decided once, no request or grant lost, do records agree, also over failures, hang-ups and a restart? | 775,452 |
| `turn_control` | Is a turn neither resurrected nor abandoned, are the agent's requests answerable, do stale turns settle, is the slot freed? | 320,896 |
| `team_run` | Does a run keep its promise about the worktree and have one driver, is it never left adrift, and does a pause take effect, whoever stops, loses, resumes or restarts it? | 177,420 |
| `code_jobs` | Do people, reviews and workflows stay out of each other's way, does a job end over no turn it could have heard of, does every job settle? | 249,582 |
| `transcript_sync` | Whatever order snapshots, chunks, lag notices, pages and repairs come in: does the screen end on the relay's text, never take text back, and do the fetches end? | 791,155 |

Three runs show a disagreement between the code and a comment in it; `findings`
quotes both.

* `remote_actions_stranded`: a claim challenge pending while the relay leaves and
  rejoins is neither asked again nor timed out.
* `surface_watch_back`: switching A → B → A while B's declaration is in flight
  leaves the relay on B.
* `pairing_rollback`: a failed approval of a device that is already paired revokes
  the device's live grant.

### Disagreements no run singles out

The property is kept in its module. A cfg with the constants given here makes TLC
report it.

* `TeardownSparesNewerStreams` (`SurfaceWatch`, `MCSurfaceWatch.cfg` with
  `LateRequests = TRUE`): a stream request overtaken by the tab's next one is given
  the generation in force, and its teardown unsubscribes the live stream. This is
  why `surface_watch` leaves late requests out.
* `RunningIsTracked` (`TurnControl`, `MaxIncidents = 1`): a prompt that races a
  continuation's announcement and result runs to its end while the relay shows the
  thread idle.
* `AsksAreVisible` (`TurnControl`, `MaxSends = 3`, `MaxIncidents = 3`): such a prompt
  asks for something, a person's Stop clears the thread's status as stale and the
  request with it, and the next prompt becomes the active turn while the agent still
  waits on a request nobody sees.
* `StopOutranksFailure` (`TeamRun`, the constants of `MCTeamRun.cfg`): the failure a
  Stop causes becomes the run's verdict when the cleanup of an earlier, dropped Stop
  clears `stopping` while the next one is draining.
* `OverMeansQuiet` (`TeamRun`, the constants of `MCTeamRun.cfg`): a message to the team
  lead of a paused run fails late, its thread reads idle, and somebody who marks the
  run done or cancelled finds nobody working: the run is over with a turn in its tree.
* `EndedRunsAreQuiet` (`CodeJobs`, the constants of `MCCodeJobs.cfg`): a workflow's start
  fails, the drain sees an idle thread, the run goes terminal and the turn runs. The
  same happens to a review after the one look of `fail_after_uncertain_turn_start`, and
  to a person's send whose client hung up when a job then takes the thread.
* `StoppedTurnsDoNotRace` (`CodeJobs`, `Reviews = {r1, r2}`, `MaxRounds = 1`,
  `MaxEvents = 3`, specification `Spec`): a review can start while a turn of a
  cancelled one is still running.
* `ScreenAlwaysCatchesUp` (`TranscriptSync`, the constants of
  `MCTranscriptSync.cfg`): a reader that joins a fetch begun before its snapshot
  records the older page under the newer revision, and the screen stays behind.

The models also reach these states: a second approval of a ticket that revokes the
grant of the first; a request and a grant left behind by an approval whose client hung
up; a newer request overwritten by the one a failed approval restores; an action executed again by a restarted relay, whose replay
cache is in memory; a refused stale declaration that the tab takes for accepted; a
watch set declared after its stream's teardown; a turn seeded on a worker that died
after the prompt was written; a watchdog's cancel that stops the next turn; a late
`session_stopped` that keeps a running turn from being seeded; a review left
running, with its flag set, by a Stop whose client hung up (`JobsSettle` excepts it
until the next Stop; `review.rs` says the exemption "can't strand the job"); a
discarded page that is not fetched again until the relay notifies once more; a cold
window that shows shorter text than the screen did; and for a moment the user's
message below the reply.

### Bounds

* `BrokerRoom`: three connections suffice for a seat, its successor and a late
  teardown, or for two surfaces on one ticket beside the relay; one waiting frame
  is enough for presence and messages to be out of step with the room.
* `BrokerWriter`: queues of one are full after one frame; two trains of up to two
  chunks give a boundary within and between replies; an interval of 0 or 1 gives
  paced and unpaced ones.
* `RemoteActions`: one claimed action with a chunked reply and any two of the four
  faults; a lifetime of two ticks and a timeout of one let a resend meet a live and a
  dead entry. The retry after a refused claim has an id of its own, so a cache of one
  entry is evicted from. The safety properties also hold with two intents and one fault
  (1,181,827 states).
* `SurfaceWatch`: three connects are an old, a current and a next stream.
* `Pairing`: two devices, two tickets, two approvals at a time, one fault; devices,
  tickets and flows are interchangeable (`PairingSymmetry`; the run checks no
  liveness).
* `TurnControl`: two prompts and any two incidents (continuation, request, stop,
  timeout, dying stream or worker). The second prompt is needed for an old stop's
  fallback to meet a newer turn. The safety properties were also checked with three
  prompts and three incidents (22,124,037 states, callers answered in a fixed order).
* `TeamRun`: two handlers and two drivers at a time (one at work, one still cleaning
  up), three events: a fault, and two requests that meet in it. The proofs below
  lift the safety properties to any number.
* `CodeJobs`: two author threads, a review and a workflow, two rounds, three events.
  Four events (1,396,645 states) and, for safety, two reviews (5,282,718) were checked
  too.
* `TranscriptSync`: a reply one letter longer than the clip, chunks of one letter, a
  channel that keeps one, one late notification. Safety also holds with a reply of
  four and chunks of one or two letters (7,219,577 states).

### Fairness

Weak fairness, on steps the runtime owes: a scheduled task runs (`BrokerRoom`:
socket tasks; `BrokerWriter`: the loop; `SurfaceWatch`: spawned teardowns, and the
end of a closed tab's stream; `CodeJobs`: the tasks and handlers of jobs, and the
calls they make return; `TeamRun`: spawned cleanups), timers fire (`Tick`,
`Timeout`, `Silence`), a session reconnects (the relay retries for ever), a reader
reads what has arrived (`TranscriptSync`: connection, paint timer and answers), and
in `TeamRun` a turn that has begun is announced at some time. Strong fairness only of the drivers and
handlers of `TeamRun`: the drive gate is a Tokio mutex, which is handed out in the
order it was asked for, so nobody queues for it forever while others come and go.
`TurnControl` also assumes that an SDK session that was closed drains: if it never
does, every cancel fails and the turn stays active, since the worker answers an
error and no fallback is started. Nothing is assumed of people, of agents (they may
never speak or finish), or of faults.

`EveryActionSettles` leaves out challenges and `StaleTurnsSettle` leaves out dead
workers, for the reasons given above.

## The proofs

TLAPS checks these for every value of the constants allowed by the modules'
assumptions: the kinds of ids are disjoint, `None`, `Nobody` and the like are none of
them, bounds are natural numbers, a run has a driver to start with. Each invariant
was checked by TLC before it was proved.

**BrokerRoomProofs.** `OneSeatPerTicket` and `SeatsAreServed` are not inductive
alone. `RoomInv` is their conjunction with `TypeOK` and with facts about
connections: ids above `next_connection_id` are unused, and a seat's connection is
live and names the seat. `OneSeat`, `NoGhostSeats` and `RoomTypeCorrect` follow, and
`SeatsAreNotStolen` proves the action property from the same invariant. Finiteness of
the evicted seats follows from that of the connection ids.

`PresenceIsExact` proves `PresenceAddsUp`. What a client will know once it has read its
mailbox is stated by the last frame about each peer (`Hears`) and not by a fold, so
appending and reading a frame are facts about indices. It adds that the mailbox of a
connection not yet handed out is empty (`FreshBoxes`). One join may evict several seats
and announces each departure; the lemma on those announcements holds for the order in
which the broker's map yields them, whatever it is.

**StreamProofs** has the writer and the watch sets, two parts that share no variable.

* The writer. `WriterInv` adds to the types that the deadline is armed iff the resident
  train has chunks left, that the time since the last chunk and the time left to the
  deadline make up the interval, and that a queue seen closed is empty for good. It
  gives `DeadlineFollowsTrain`, `ChunksKeepTheirDistance` and, with `DoneInv`,
  `ReturnsDrained`. `PingInv` says that after a frame has overtaken a ping the loop is
  back at the step that writes pings, and gives `PingsOvertakeTheRest`. `ReplyInv` gives
  `RepliesAreWhole`: trains become resident in the order of their ids (`InOrder`), the
  chunks left of the resident one run up to its last (`Unwritten`), and the chunk last
  written is the one before the next, or ended its reply (`LastWritten`). The last is
  what makes contiguity of the whole wire a matter of its end.
* The watch sets. `TeardownIsSafe` and `DeclarationsStick` assume `~LateRequests`,
  without which they fail. `WatchTypeCorrect` does not.

**RemoteActionsProofs.** `ActionsTypeCorrect` comes first. `ReplayInv`: every id has an
entry as old as its last use or a reason to have been forgotten, and a reservation is the
handler's own. It gives `ReservationsAreHeld` and `ReplaysAreRecognised`.

`RepliesNeverMix` proves `ResolvedFromOneResult`. A surface does not compare the chunks it
holds, and it keeps those of a reply that an outage cut off; that a reply is nonetheless
put together from one result rests on the order of everything on its way. `ResultInv`
follows that way:

* what is asked for was sent (`Known`), and what is answered, by the handler, the cache,
  the writer or a frame in the mailbox, is the result of an execution (`Outcomes`);
* only the writer's first train may be under way (`OneResident`);
* chunks are held for a pending action only, and never the last one (`Expecting`), so no
  reply can be completed by an older chunk at its end;
* the chunks of a pending action's reply are in a row (`InARow`): each one in the mailbox,
  and the next one the writer has, is a first chunk, or comes right after the one before
  it in the mailbox, or finds all the ones before it held, of its own version.

A train cut off by the end of a session breaks no row: the next reply to that action
begins with its first chunk and replaces the held ones from there. With trains
interleaved the row would break, which is why the model has the writer's order.

**PairingProofs.** One strengthening for each group of properties:

* `VerdictInv`: a pending ticket has no verdict, and what is recorded or sent is the
  verdict. It gives `TicketsAreDecidedOnce` and `ResultsAreTrue`.
* `RequestInv`: adds to `RequestsAreNotLost` that an approval's ticket was opened,
  and that one that lost its ticket is on its way out. It gives
  `RequestsStayUntilDecided`, save for the request a hang-up drops.
* `GrantInv`: a grant is a paired device's, leaked by a fault, or held by an approval or
  a revocation in progress. It gives `GrantsAreAccountedFor`.
* `RecordInv`: the agreement of records holds of the saved copy too, so it survives
  a restart. It gives `RecordsAlwaysAgree`.

`ExpiryIsFinal` is proved from `TypeOK` alone, step by step.

**CodeJobsProofs.** `JobsInv` says of every job that its turns are on its own threads and
where its task is at one (`Turns`), that it has the threads its stage needs
(`Equipped`), that a workflow is active exactly while its task is there (`Tended`), and
that rounds are left where another may begin (`Counted`); that the relay has heard of
every turn whose start call has returned, but for the lost ones (`Heard`); and that the locks keep people and
other jobs out (`Locks`). A step of one job disturbs only that
job (`OneJobSteps`), so each action is checked once. `JobsTypeCorrect`,
`WritersStayApart`, `WorkflowsEndQuiet` and `ReviewsSettleQuietly` follow.

**TeamRunProofs.** Three layers. `Typed`: where everybody may be, and that the gate is
with whoever is where it is held (`TeamTypeCorrect`). `Ticketed`: besides the drivers
at work only the handler that is resuming the run holds the ticket
(`OneDriverAtATime`). `Work`: whose turn runs, in which mode, and what must be true of
the tree wherever a process is; in particular a driver between turns of a driven run
is alone, and whoever holds the gate and has drained finds nobody at work (`Calm`).
`Frame` shows once that a step of one process that begins and ends no work keeps the
account and is a step of `TeamPromise`; the steps that begin or end a turn or a commit
have lemmas of their own. A turn that is given up stops being a writer (`TurnIsLost`),
and what a lost turn does later changes nothing in the account (`FrameOfLost`).
`TeamKeepsThePromise` is the refinement, for any number of handlers, drivers and events.

**TurnControlProofs** and **TurnControlStopProofs.** Four layers, each for any number of
prompts and incidents.

* `Typed` gives `TypeCorrect`. That minted ids never leave their range needs an account
  of them: each is paid for by a turn of the SDK, and each of those by a prompt the worker
  took or by an incident (`Budget`). It rests on what a session runs (`Session`) and on
  prompts being written in the order of their ids (`Ordered`).
* `Ids` and `Settling` give `NothingIsResurrected`: an id named by a terminal is over for
  good (`Over`), a turn is announced before it ends, and the finishing step of a send
  finds a thread on which no turn has moved, or leaves it alone.
* `Tokens` and `Stopping` give `RunningTurnsAreNotGivenUp`: a caller awaits one answer at
  most, and a stop the worker accepted names a turn that is over, because the cancel was
  written behind the turn's prompt.
* `Held` gives `RequestsAreNotLost`: no terminal on its way would hide a request the worker
  still holds, and an answer that was accepted is to a request it no longer holds.

**Only model-checked**: the liveness properties (`OrphansEnd`,
`QueuedRepliesComplete`, `EveryActionSettles`, `ClosedTabIsForgotten`,
`LatestTargetIsDelivered`, `StaleTurnsSettle`, `SlotIsReleased`, `NobodyIsStranded`,
`PauseTakesEffect`, `JobsSettle`, `FetchesEnd`), since liveness under fairness and
`ENABLED` are outside this prover; and the properties of `TranscriptSync`, whose merge is
defined by folds and selections over sequences, so that a proof would be by induction
over them.

## Not modelled

The map covers about a tenth of the implementation. Most of the rest has no state
that a model would add to: rendering and views, parsing and formatting, git and file
system calls, ciphers, sums of usage, process management of the desktop shell, and
the prompts that jobs and teams are made of. What does have concurrent state and is
missing:

* **Public control of the broker**: rotation of refresh tokens with the grace given
  to superseded ones (authentication and rotation are two lock sections), client
  claims, licences and rate limiters. `Pairing` has device grants only.
* **The broker session loop of the relay**: backoff, heartbeat, snapshot gate and
  catch-up. `RemoteActions` has a session's loss and return as one step each.
* **Several threads in `TurnControl`**: routing, resume and fork against a running
  turn, the controller lease, and the event readers of Codex and ACP.
* **Persistence**: failing saves, and the lock between two processes. Restarts and
  what they keep are in `Pairing`, `CodeJobs` and `TeamRun`.
* **The remote surface's transcript**, older pages, and panes that only view.
* **The engine behind task runs** (`TeamDriver`) is not part of this repository's
  source; `TeamRun` lets it do anything `TeamPort` offers.
* **Orchestration**: proposals and their dispatch. The runs they start are in
  `TeamRun`.
