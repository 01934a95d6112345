# Formal models of whatevr

TLA+ models of the parts of whatevr that carry its own logic, checked with TLC,
and theorems about the store, the outbox, scheduled texts, the supervisor, history
downloads, media and windows checked with TLAPS. Paths below are relative to
`src/`; `I/` stands for `whatevrd/internal/`.

    tlc -workers 2 -config CoreLogSafety.cfg MCCoreLog    # one run
    tlapm CoreLogProofs.tla                               # the proofs of one module

`PROJECT.json` lists the components, the runs with the properties each checks,
the lines every definition stands for, the hazards and the findings.

## 1. The system

`whatevrd` is a daemon that holds one WhatsApp account. What happens is an
*input*, appended to a log; everything a frontend sees is folded from the log
into tables and served as live windows over a local socket. Frontends (terminal,
Qt, Rust) keep a copy of each window they subscribed to.

    frontend ──requests──▶ server ─▶ commands ─▶ whatsapp client ─┐ append
       ▲                     ▲                                    ▼
       └────── updates ──────┤          WhatsApp ─▶ ingest ─▶ core store (log)
                             │                                    │ fold
                             └──── OnChange ◀──── views ◀──── tables (model)

| Component | State it keeps | Operations | Hard behaviour | What makes it correct |
| --- | --- | --- | --- | --- |
| Core store, `I/core` | the log, the tables, `folded_seq`, the in-memory counters `appended` and `folded`, the channel waiters sleep on | `AppendBatch`, `WaitFolded`, fold, `Reset`, `Close`, open, rebuild | one writer goroutine against many callers; two durability levels; a fold that fails or panics; crashes between commit and answer | an answered append is durable and whole; the tables are the fold of a prefix; no waiter sleeps through its wake-up; seqs name one input forever |
| Outbox, `I/whatsapp/send.go`, `I/ingest/outbox.go`, `I/model/outbox.go` | queued sends, tries, backoffs, turns per key, one token that wakes the sender | queue under a key, cancel, send, log what was sent | retry of a request that may have been done; a page read before a cancel; a wake-up during a pass | one send per key; nothing sent or refused is sent again; order kept; every answered send goes out |
| Scheduled texts, `I/whatsapp/schedule.go` | the rows of `scheduled` | schedule, list, cancel, tick | the tick works off rows read earlier; rows outlive rebuilds and logouts | each text goes out once, none is lost, a cancelled one does not |
| Socket server and windows, `I/server` | subscriptions, their flags and what they sent; one queue per connection | hello, subscribe, extend, unsubscribe, wake, pass, merge, overflow | passes race wakes, extends and unsubscribes; slow and lost connections | the frontend's copy equals the window; nothing after an unsubscribe; every extend gets its ready |
| Terminal frontend, `whattui/internal/proto`, `view` | subscriptions and their copies | subscribe, extend, close, apply, reconnect | extends and closes before the subscribe is answered; a copy from the last connection | the first update of a new subscription replaces the copy |
| Connection supervisor, `I/conn` | phase, attempt, published status, channels of events and kicks | connect, online, wait, no network, hold, gone, login, adopt | kicks, deadlines, late events, dead lines and dials race; a logout replaces the client under it | one socket, always watched; a healthy one is kept; it settles |
| Ingest, `I/ingest` | nothing but jobs | decode an event to inputs, append, ack, queue jobs | redelivered events; a crash between append, queue and ack | an event is acked only when its input is durable |
| Job pool and history downloads, `I/ingest/pool.go`, `jobs.go` | queue, known keys, two token channels; the pieces logged of a blob | add, run, retry, requeue what the last run left | tokens sent outside the lock; a key added while it runs; half a blob logged; restarts | each key once; no token lost; every notification downloaded or given up, once for good |
| Folds and readers, `I/model` | the derived tables | one fold per input kind | the same event folded twice or late; a rebuild on tables it does not drop | the result is a function of the log, whatever the order of redelivery |
| Client lifecycle, `I/whatsapp/client.go` | account goroutines, containers, devices | link, wipe, relink | a wipe while requests run | nothing of one account reaches the next |
| Media, `I/whatsapp/media.go`, `stream.go`, `admit.go`, `I/mediastream` | streams and downloads by message, sparse files and their indexes, slots | stream, read, finish, fall back, download, cancel | players, a fetch loop, a finisher, a download and a cancel share a file, an entry and the slots | the row never points to less than the whole file; no slot is lost; everybody is answered |
| Views, `I/views`; commands, `I/commands` | none | render; translate | | |
| Live state, `I/live`; notifications, `I/notify` | timers in memory | typing, presence; announce, clear | expiry racing news | announced once; nothing outlives its expiry |

Components interact through calls (commands to the client, everything to the
store's `AppendBatch` and `WaitFolded`), through the log (who appends and who
reads folds never meet otherwise), through callbacks (`OnChange` wakes windows,
`OnSessions`, event handlers), and through channels of one token (the sender,
the pool, the writer loop of a connection).

The same list, with what is modelled of each part, is in `PROJECT.json`
("components"). Left out for good: payload decoding and rendering (pure
functions of large data), generated code, the Qt and Rust frontends, packaging,
and the mock server.

## 2. The modules

| Module | Models | State ↔ code |
| --- | --- | --- |
| `DurableLog` | what the store promises its users: batches enter whole, acknowledgements are true, readers see the fold of a prefix | abstract |
| `CoreLog` | `I/core`: writer, callers, folds, reset, close, crash, open | `log`, `erased`, `last` are the table `inputs`; `tables` the folded rows and `folded_seq`; `recent` what losing power may leave of them; `appended`, `folded`, `closedWaits` the fields of `DB`; `writer` the place in `writer.run` |
| `CoreLogProofs`, `CoreLogRefines` | theorems about `CoreLog`: what is stored, who waits and is told, the refinement of `DurableLog` | |
| `Outbox` | sends: requests under keys, the sender goroutine, cancels, backoffs, reconnects, restarts | `log`, `folded` the store as `CoreLog` shows it; `queuedT` the clock at the commit of a send, `outbox.queued_t`; `call` the goroutine of each request; `sender`, `page`, `cursor` the place in `sendDue`; `sends` the one-token channel |
| `OutboxProofs` | theorems about `Outbox`: ends, cancels, order, keys | |
| `Scheduler` | scheduled texts: add, cancel, fold, tick, logout, rebuild | `rows` the table `scheduled`; `tick`, `page` the place in `sendDueScheduled`; `user` the frontend's calls |
| `SchedulerProofs` | theorems about `Scheduler`: once, cancels | |
| `Supervisor` | `I/conn/conn.go` and the clients of `I/whatsapp/client.go`: attempts, sockets, logins, wipes | `phase`, `mine`, `status`, `timed`, `dial`, `probe` the place in `Run` and its locals; `arriving`, `kicks` the channels with what is on its way to them; `device`, `session`, `socket`, `dead` the clients; `wipes`, `wiping` the wipe under the lifecycle lock |
| `SupervisorProofs` | theorems about `Supervisor`: sockets, healthy lines, who watches | |
| `Pool` | `I/ingest/pool.go` as operators on a record | `queue`, `known`, `running` its fields; `wake`, `drained` the tokens in its channels |
| `Jobs` | history notifications and downloads, with `Pool` | `log`, `parts`, `folded` the store as `CoreLog` shows it; `handler`, `worker`, `requeue` the goroutines; `owed`, `media` the server |
| `JobsProofs` | theorems about `Jobs` and `Pool`: keys, tokens, notifications, pieces | |
| `Media` | one message's media: requests, players, the fetch loop, `finishStream`, downloads, slots, a cancel | `disk`, `good` the part file, its index and the final file; `current`, `entry` the map `md.streams` and its entries; `stream` a `mediastream.Stream` with its `SparseFile`; `finisher` the goroutine of `finishStream`; `loading`, `fetch` the map `md.downloads` and the calls of `md.fetch`; `slots` the `admission` |
| `MediaProofs` | theorems about `Media`: slots, the file of a row | |
| `Window` | one subscription: passes, queue, handlers, and the frontend's copy | `sub` the fields of `subscription`; `pass` the local variables of `run` and `pass`; `queue` the entries of `queue.go`; `front` the frontend's `Subscription` and `Collection` |
| `WindowProofs` | theorems about `Window`: what follows an unsubscribe, the frontend's copy, its limit | |

Every action is one stretch of code between two points where another goroutine
can see or change shared state: a lock released, a channel operation, a
transaction committed, an atomic stored. `setFolded`, for instance, is the three
actions `StoreFolded`, `WakeWaiters`, `AnnounceChange`, and a pass of a window is
`TakePass` (the flags, under `sub.mu`), `ReadWindow` (the read), `PushPass`
(under the queue's lock).

A page that a query reads in some order (the sender's `Pages`, the tick's
`DueScheduled`, `PendingHistory`) is given as the set of the sequences the query
may answer, and the reader takes one of it: the contents and the order of the rows
are stated, not computed.

### CoreLog

A caller parks at the channel (`AppendBatch`), the writer takes it with others
that are waiting (`Receive`, at most `DrainMax`), commits (`CommitTx`), publishes
the counter (`PublishAppended`), answers (`Answer`); a caller whose context ends
returns an error although its batch may still commit (`AppendCancelled`). Folding
takes up to `FoldMax` inputs in a transaction (`FoldTx`); an input that fails is
rolled back to its savepoint and recorded. A crash takes any state of the tables
since the last commit with an fsync: appends commit with `synchronous=FULL`,
folds with `NORMAL`. `Open` may find that the folds' signature changed and fold
the log again from its start. Tables that no domain owns (`kept`) survive that.

### Outbox

It rests on what `CoreLog` shows and abstracts it: an append commits at one
moment, readers see a prefix, and waiting for what was appended sees every
answered append. Requests under one key take turns (`TakeTurn`, `Busy`), look for
an earlier send (`AnswerEarlier`) and queue (`Queue`, `Commit`, `Queued`). The
sender reads pages (`ReadPage`), asks again before each send (`AskMaySend`,
`MaySend`), gives it to the server (`Taken`) and logs it (`LogSent`).

The outbox is ordered by `(queued_t, seq, id)` and paged by it
(`I/model/outbox.go:167`); `queued_t` is what the daemon's clock read at the commit
(`I/core/writer.go:227`). So `Commit` takes a time of `Times` (`Stamp`), which may be
earlier than one before it if the clock was set back (`Steady`, the disturbance
`clock`), `Before` is that order, and `Unsent` pages by it; a seq is told apart
already, so the id is left out. A pass that can not wait for the fold or read its
page (`PassFails`) sleeps five seconds (`sender` is `"retrying"`) and starts over.

### Scheduler

`ScheduleText` and `CancelScheduled` append; `FoldSchedule` keeps the rows; a
`Tick` reads the due rows and handles them one by one (`SendText`,
`AlreadyQueued` or `QueueText`, `MarkSent`). `SendText` waits for the fold of what
is appended at that moment, which is why two ticks never queue a text twice.

### Window

`Change` commits a change and `Kick` wakes the window. `run` and `pass` are
`TakePass`, `ReadWindow`/`ReadFails` and `PushPass`; `PushUpdate` is the queue's
operator with merging, purging and overflow. An item is a place in the view and
its content a version; sizes in bytes are counts of changes, which keeps both of
the queue's bounds (changes waiting, bytes of one frame). Writing a frame and
taking it is one step: the socket keeps the order, and a frame that waits in it
might as well wait in the queue.

### Supervisor

The machine is one goroutine. `Run`'s phases are `Start`, `NoNetwork`, `Connect`
(with `drain` and the start of the dial), the select of an attempt, the select of
`online`, `hold`, `wait`, `gone` and the login; an alternative of a select is an
action (`DialError`, `Deadline`, `Connected`, `FatalEvent`, `LostEvent`,
`TickClosed`, `TickSilent`, `ManualKick`, `OtherKick`, `Timer`, ...), each with the
`Teardown` its code makes. whatsmeow's clients are external: a dial returns or
fails, a socket opens, is authenticated, dies with or without anybody knowing, and
sends events from goroutines of its own. An event is on its way (`arriving`) from
the moment it happened and is taken in any order, so a `Disconnected` may come
after the socket it tells of was replaced. `quiet` stands for the clock of
`heardAgo`: 0, more than a keepalive's deadline, more than `Silence`. `Logout`,
`RemoteLogout` and the `Wipe...` actions are the lifecycle around it. A user's
`Logout` may or may not tell the server first: only a server that was told closes
the socket and loses the device before the wipe. A wipe disconnects the old client
and deletes its device (`WipeClears`), closes its session store and makes a new
client (`WipeEnds`), which `Attach` reports. It stops before it touched anything if
the preferences can not be read (`WipeAborts`); an id its store fails to delete is
kept, and the wipe goes on (the disturbance `undeleted`, in `WipeClears`); and it may
fail later, before or after the session store was closed (`WipeFails`). A remote
logout of a client already replaced does nothing (`WipeIdle`). `ScanTooLate` is a code scanned as the codes
run out: the pairing succeeds on a client whose login was given up.

### Jobs and Pool

`Deliver`, `HandlerAdds` and `Ack` are `handle` for a history notification: append,
queue, ack. A worker is `WorkerWakes`, `Download`, `Piece`, `Whole` or
`Broken`-`FlushRest`-`Lose`, `Done`, `Drain`. `requeueHistory` is `ReadPage`,
`RequeueAdds`, `RequeueWakes`, `Below` and `BelowWakes`. What `add` and `done` do
under the lock and the token they send after it are separate steps: a worker can
find the queue empty, or `below` can count, in between. The tables are `Outcome`,
`NoteSeq` and `Unfetched` of the folded prefix.

### Media

A request is `StreamTarget` (the row), `StreamLook` (is there a stream to join, or
a slot to take), `Join` or `StartStream`; its player is `Serve`, `PlayerSeeks`
(`WaitFor`, which moves the read head), `PlayerReads`, and one of the ways out with
`Release`. The fetch loop is `NextSpan`, one `Land` per chunk (`WriteChunk`: bytes,
then index), `Report` and `Verify`. However a stream ends, `Finish` releases its
slot and starts a finisher, whose steps between two locks or file operations are
`FinishLook`, `FinishRename`, `FinishIndex`, `FinishComplete`, `FinishLog`, or
`RecoverDrop`, `RecoverClose`, `RecoverAsked` and, once the download that replaces
it is back, `RecoverTell`. A fetch registers or joins (`FetchStart`), waits for a
slot (`FetchTake`) and lands or fails. Files have the number of the stream that
created them, so that a rename, an open handle and a resumed part are told apart.

## 3. The runs

Counters of disturbances (`Left0`, or one of several `Worlds` or `Storms`) bound how
often a crash, a failing call, a change and the like happen; every other bound is named here. Deadlock checking is
off in all runs: a behaviour in which every request was served and every
disturbance used stops.

| Run | Question | Bounds, and why they are enough |
| --- | --- | --- |
| `core_safety` | what `AppendBatch` and `WaitFolded` say is true; tables, seqs and counters survive crashes, power losses, rebuilds and logouts; nobody misses a wake-up; `CoreLog` implements `DurableLog` | two callers, a batch of two (one input of which cannot be folded) and a batch of one, `DrainMax = FoldMax = 2`, each handed over up to twice, three seqs, every disturbance but a failing append once: commits are shared and split, a crash falls between any two steps, a reset between two appends, a rebuild after a lost fold |
| `core_live` | every input is folded in the end, every caller returns | batches of one, folded one at a time, four seqs, two tries, a failing append, a failing fold and a restart |
| `outbox_send` | nothing whose sent copy, refusal or cancel is logged is tried again; order | two sends of their own, one of them cancellable, pages of one send (so that every pass has several), a clock of two readings (`Times`); three worlds, each disturbance once: a crash with a final refusal and an unlogged copy; a crash with a failing step and a clock set back; a failing step with a refusal and an abandoned request |
| `outbox_live` | one id per key reaches the server and all answers name it; answered sends go out without the hourly timer; turns pass | two requests under one key, two crashes that may roll folds back, a dropped socket and a failing try or read, one reading of the clock (order is not asked): the retry races the first request or comes after a restart |
| `outbox_abandon` | *violated*: `OneSendPerKey` with an abandoned request | an abandoned request |
| `scheduler` | a text is queued once per account; a cancel the tick could see stops it; texts go out and leave the table | two texts, the earlier one unsendable, the later one cancellable, a tick that reads both; a crash, a rebuild, a failing call and a logout, once each |
| `sched_logout` | *violated*: `OwnAccountOnly` | a logout and a crash |
| `window` | merging, overflow and resets with a slow frontend; failed reads, lost connections and a panic; the copy replays to what was sent; every subscribe and extend gets its ready and the copy converges | three items, two contents each, a limit of one that grows to two, at most two changes queued or in a frame, so the third change overflows; two worlds: two changes, an extend, an unsubscribe and a lost connection; and failed reads with a change too few to overflow, since overflow together with a failed read breaks convergence (section 5) |
| `window_bare` | *violated*: `NeverDies` | a change, a failed read |
| `supervisor` | a session that is up is watched; one socket; a healthy line is kept; it settles online, in a login, without a route or on hold | three clients, so a wipe can replace each of two; five mixes of up to six disturbances once each: the network (`Weather`), what the server says (`Server`), logouts and a pairing (`Account`), wipes that stop early or late with a kick and a reconnect (`Failing`), and ids that can not be deleted, also when the wipe fails later (`Undeleted`) |
| `jobs` | each key once; no token lost; no notification forgotten; a downloaded blob whole and final; all settle | two workers, three blobs of up to two pieces, pages of one row, so that the gate of `below` closes; batches of two pieces; six worlds: what the last run left while one of it is redelivered, a crash, a failing append with a broken blob, a lost ack, a failing download with a lost connection, a logout |
| `media` | unless the user cancelled, the row never points to less than the whole file; no slot is lost; every request, player and failed stream's listener is answered | two requests with a player each, one ordinary download, a file of two chunks fetched one at a time, one slot (so that everybody waits), two streams (so that a second resumes what the first left); ten worlds: failing ranges, a second download, both, a stream that can not be opened with players leaving, a server that ignores ranges with and without a failure, wrong bytes with a failure or a crash, a cancel with and without a failure |

No symmetry is used: the callers and requests differ in what they hand over.

### Fairness

Weak fairness of each step of a goroutine that has nothing to wait for but the
scheduler: the writer, the sender, the tick, a pass, a handler, the write loop.
The daemon is started again after a crash (it is socket-activated and its service
restarts) and the supervisor reconnects. A frontend is assumed to read what is
written to it (`window` checks its liveness under `FairSpec`), since the daemon
closes a connection whose writes time out; the safety properties do not depend on
it, and a frontend that reads slowly is among the behaviours of both
specifications. Nothing is promised of failures, of cancels, of changes or of
users; and the sender's hourly timer is left without fairness on purpose, so that
`SendsGoOut` shows that no send depends on it. In `core_live` a caller whose
batch was not answered tries again, at most `MaxTries` times.

In `supervisor` the machine's steps (one fairness for all of them, since it is one
goroutine), the timers it waits for, the answers of dials and pings, the delivery
of events and the steps of a wipe are weakly fair; disturbances, kicks, logouts,
scans and frames of a line are not. In `jobs` the handler with the server's
delivery, `requeueHistory`, each worker, the folding writer and the return of a
connection are. In `media` the goroutines run (a request, a loop, a finisher, a
fetch, the cancel), requests to the network return, since both HTTP clients have
timeouts, and a player that opened a stream reads on; failures, cancels, users and
players that leave are not fair.

### What a property says

Each property has a comment that names the behaviour of the code. Those worth
naming here:

* `TablesAreFoldOfLog` covers not only the tables readers see but every state a
  power loss may leave, so it says that folding can always resume.
* `NoLostWakeup` is about the order inside `WaitFolded` (take the channel, then
  read the counter) and inside `setFolded` (store, then close).
* `OldestFirst` is an action property of every hand-over to the server, over
  pages read at different times. The order is the outbox's own, that of the clock at
  the commit, and it speaks of an older send that was queued in step with the log
  (`InStep`: no send logged before it has a later time). A clock set back later does
  not hurt such a one; a send queued out of step may be passed over until the next
  pass, which section 5 tells.
* `ReplayIsSent` relates three copies: what the daemon believes it sent, what
  waits in the queue, and what the frontend has, also before it heard of the
  subscription. It says that the third, once it took every frame of the second, is
  the first, or that a reset is owed.
* `Converges` adds that the copy is the window once nothing moves; without it
  `ReplayIsSent` could hold of a daemon that lost a wake.
* `HealthyKept` quantifies over every way the supervisor leaves `online` and says
  which of them may give up a working line; the keepalive's report is one only while
  no frame came since (`quiet > 0`); `UpIsWatched` is the converse, that no
  line is up that nobody looks at.
* `Settles` counts a machine as settled online with the newest client, or with an
  older one whose id outlived its wipe, which may stay (section 5).
* `NoneForgotten` relates the server, the log, the tables, the pool and two
  goroutines: whoever lets go of a notification has handed it on.
* `NoneAsleep` and `RoomIsHeard` are the pool's two wake-ups, each between a look
  under the lock and a token sent outside it.
* `GotForGood` is about two downloads of one blob: a success is logged behind every
  piece of it, and a failure logged later does not undo it in the tables.
* `RowIsWhole` relates the log, three names on the disk and the hash a stream
  checked long before its file was renamed. It excuses the runs in which the user
  cancelled (`cancel.used`), for the reason section 5 tells; the worlds of `media`
  without a cancel, and the proof, show that nothing else needs an excuse.
* `SlotsKept` counts the slots: free, or with somebody who is still on the way to a
  fetch or in one. `Answered` is about everybody who could wait for ever.

## 4. What is proved

`CoreLogProofs` proves, for every set of callers and inputs and every value of
the bounds that satisfies the assumptions of `CoreLog` (`BatchAssumption`: batches
are non-empty sequences of inputs; `KindAssumption`; `LimitAssumption`: the limits
are naturals, the two batch sizes positive):

* `TypeCorrect == Spec => []TypeOK`. `TypeOK` is inductive by itself. One lemma
  per group of actions, one step per action.
* `FoldSound == Spec => []TablesAreFoldOfLog`. The property is not inductive: a
  fold starts from the counter `folded`, not from `folded_seq` in the tables. The
  strengthening `FoldInv` adds `TypeOK` and `CounterFollowsTables`, which says how
  the counter relates to the tables at every place of the writer (equal, except
  between the commit of a fold and `StoreFolded`). Lemma `FoldOn` is the heart:
  folding the inputs from `folded + 1` to `t` into tables that are the fold up to
  `folded` makes them the fold up to `t`; `GrowingKeepsFold` says that a longer
  log does not disturb a fold of its prefix.
* `AcksAreDurable == Spec => []AckedIsStored`. Between a commit and a caller's
  return its answer lies in a channel, and between `Receive` and the commit the
  batch lies staged, so `AckInv` adds `RepliesStand` (what a channel holds is
  stored), `RequestsStand` (a request the writer holds is at its place among the
  staged inputs, or is stored once they are committed) and `TypeOK`.
* `SeqsAreFinal == Spec => SeqsNeverReused`, an action property. Only a commit and
  a `Reset` change the log or its last seq (`LogStandsStill`); `TypeOK` says that
  the log holds the seqs after `erased` up to `last`, so a commit keeps each of them
  and adds only later ones, and after a `Reset` none is left.

Also there, the invariants about those who wait and those who are told:

* `NobodySleepsOn == Spec => []NoLostWakeup` and `WaitersSee == Spec =>
  []SeenIsFolded`. A caller that sleeps holds a channel, the counter it read is
  behind the one it wants, and the channel is closed only after the counter moved.
  `WaitInv` adds to `FoldInv` that the counter is never ahead of the tables
  (`CounterBehind`), that nobody waits in a daemon that is down
  (`NobodyWaitsDown`) and which channels can still be held (`HeldChannels`).
* `AcksAreCovered == Spec => []ProgressCoversAcks`. `CoverInv` is `AckInv` with
  `AnswersWithin`: what lies in a reply channel is within the published counter,
  which is why `commit` publishes before it answers.
* `WorkIsThere == Spec => []PendingHasWork`. `WorkInv` adds that both counters are
  within the log (`CountersWithin`) and that what was announced is known
  (`NewsKnown`).
* `ViewsHear == Spec => []ViewsTold`, from `WorkInv`: between a fold's commit and
  its announcement the writer is on the way to it.

`CoreLogRefines` proves `StoreKeepsPromise == Spec => Durable!Spec`, the
refinement of `DurableLog` that `core_safety` checks as `ImplementsDurableLog`.
The mapping hides the writer: an append happens in the abstract log when its
transaction commits, and the answer when the caller returns. The step that needs
an invariant is `CommitTx`: `StagedWhole` and `WholeAt` say that the batch of each
request lies staged unbroken, so it arrives unbroken, and `UntoldHoldsNone` that
nobody has been answered for what is not committed.

`OutboxProofs` proves, for every set of requests, whatever their keys, size
of a page and number of disturbances (`KeyAssumption`, `SendAssumption`):

* `OutboxTypeSafe == Spec => []TypeOK`.
* `SendEndsOnce == Spec => []EndedIsEnded`, `AskedCancelStops == Spec =>
  []CancelStops` and `OldestGoesFirst == Spec => OldestFirst`, from one invariant,
  `SenderInv`. None of them is inductive, since a page was read long before its last
  send is tried. `Past` says which places the cursor has passed, by the clock and then
  by place. `PageQueued` and `PageSorted` say that the page is a piece of what is
  past, in that order; `Behind`, that what is past, was queued in step with the log
  and is not on the page was dealt with (what is queued behind the log's latest time
  may land before the cursor, and `Behind` is false of it); `PageFresh`, that no send of the page has
  ended, and `EndsBehind`, that an end that is not folded yet is of a send the cursor
  has passed, so no later page of this pass brings it back. The lemma
  `PageStaysOrMoves` shows all of these for a step that keeps the page or drops its
  head while the log grows, and `StampsKept` that no send's time changes. `QueuedOnce` (a request is queued once) and `EndsMeant`
  (what is logged as sent was taken) tie the log to the server.
* `KeySendsOnce == Spec /\ NeverAbandons => []OneSendPerKey` (no world has an abandoned request) and
  `KeyAnswersAgree`, the same for `AnswersAgree`. `KeyInv` says that one request per
  key has its turn (`OneTurn`), that what is queued under its key is within what it
  waits for, and nothing is once it looked (`Waits`), that the log holds one send per
  key (`OnePerKey`), and that what was answered is there (`AnswerQueued`). The
  hypothesis bounds a disturbance: without it the theorem is false, which is what the
  run `outbox_abandon` shows, and the finding.

`SchedulerProofs` proves, for every set of texts with times told apart and every limit of a read
(`TextAssumption`, `BoundAssumption`):

* `SchedulerTypeSafe == Spec => []TypeOK`.
* `TextQueuedOnce == Spec => []OncePerText`. What is missing is `NoneMeanwhile`:
  while a tick waits for the fold, nobody logs a queued text behind what it waits
  for, so looking finds what any earlier tick queued.
* `SeenCancelHolds == Spec => CancelSeenHolds`, an action property. A text is sent
  from a page, the page came from `rows`, and rows outlive a rebuild and lost folds.
  `RowsLive` says of the tables, also of every state a power loss may leave, that no
  row has a folded cancel; for that a row must come before its cancel (`AddsFirst`,
  `KnownTexts`), or folding the log again would bring it back. `PageLive` takes it on
  to the page.

`SupervisorProofs` proves, for every number of clients and of disturbances
(`ClientAssumption`, `BoundAssumption`):

* `SupervisorTypeSafe == Spec => []TypeOK`.
* `HealthyStays == Spec => HealthyKept`, an action property, from `LineInv`, which
  adds `LoginBare` and `UpIsHeard`: silence beyond `Silence` while a session is up
  means a dead line, which excludes the ping's tick.
* `OneSocketOnly == Spec /\ (left["undeleted"] = 0 \/ left["scan"] = 0) =>
  []OneSocket`: in behaviours in which every id is deleted, or nobody scans a code too
  late. There is an argument for each. Without a late scan no id ever appears beside
  the machine, and a socket is the one the machine works with (`Alone`), whatever
  fails. If every id is deleted (`Deleting`), a socket is the machine's own while it
  works, or the newest client's while that has an id, the one whatsmeow opens by
  itself after a pairing (`Held`). The two cannot be there together because an id is
  only the newest client's (`OnlyNewest`), is gone when a wipe begins
  (`WipedHasNoId`), and nobody has one while the machine works with an older client
  (`OldHasNone`).
* `UpStaysWatched`: `[]UpIsWatched` in behaviours in which no wipe fails and every id
  is deleted, or nobody scans a code too late (`left["error"] = 0 /\
  left["undeleted"] = 0 \/ left["scan"] = 0` at the start, as in each world of the run
  `supervisor`). In the second case it follows from `Alone`. For the first, `WatchInv`
  adds what excludes a session in `gone` or in a login: `GoneBare`, and that a
  `LoggedOut` on its way means no id (`LogoutTakesId`), because its wipe is still to
  come (`WipeFollows`).

  Both hypotheses are needed: with the disturbances they keep apart in one behaviour
  TLC finds the properties violated (section 5).

`JobsProofs` proves, for every finite non-empty set of workers, page and batch
(`SizeAssumption`), blobs with their owners and pieces (`BlobAssumption`), and worlds
in which what the last run left is in the log and what is not in it is owed
(`WorldAssumption`):

* `JobsTypeSafe == Spec => []TypeOK`.
* `KeysOnce == Spec => []EachOnce`. The property counts keys and needs `Shape` (the
  pool's record and the places of who uses it) and `OnlyOnce`: the queue repeats
  nothing, a queued key is with no worker, two workers hold different keys, and
  `known` is exactly what is queued or held. The counts follow from that by
  cardinalities (`KeysCounted`).
* `NobodyOversleeps == Spec => []NoneAsleep` and `RoomHeard == Spec =>
  []RoomIsHeard` are inductive relative to those two. `StepIs` sorts every step
  into those that leave the pool alone, send a token, add, keep a job or look at
  the queue, so each proof has one step per kind.
* `NotesAreKept == Spec => []NoneForgotten`. A notification that is logged,
  undecided and in nobody's hands (`Aside`) must be ahead of `requeueHistory`. What
  makes that hold is that only a crash puts one aside (`AsideBefore`): the handler
  gives its own to the pool, a worker lets go of a key only when it decided it
  (`WorkerHas`), so what is aside was logged before `requeueHistory` started
  (`AsideWanted`), which waits for the fold of that (`Waited`) before it reads; and a
  page read then has it or ends before it (`ReadsAside`). Without the wait the proof
  fails at that step.
* `GotIsWhole == Spec => GotForGood`: a state and an action part. `Streams` says that
  what a worker decoded is in the log or in its batch, also if another download of the
  blob logs its own pieces meanwhile; with it `GotWhole` holds when `Whole` logs the
  success. `GotStays` is the action part: a later failure loses to a success in the
  tables, as long as the account stays.

`MediaProofs` proves, for every set of requests and downloads, size, prefetch,
number of slots and of streams (`LimitAssumption`, `CallAssumption`: finite sets
told apart; `WorldAssumption` is not used):

* `NoSlotLost == Spec => []SlotsKept`. `SlotsKept` counts the set of who has a
  slot, and a release hands the slot to the head of a line, so the strengthening
  `Kept` adds that nobody is in a line twice, in both lines, or in a line with a
  slot (`SlotsOK`, with lemmas about the lines that `take`, `release` and a waiter
  that gives up leave) and that who is in a line waits. It rests on `Born` (only streams that began are looked up,
  closed or held by a finisher) and `Fresh` (the download that replaces a stream
  starts once, after its stream ended), without which a slot could be taken twice
  under one name.
* `RowStaysWhole == Spec => []RowIsWhole`. `WholeInv` is, on top of `Born` and `Fresh`, `Judged` (a
  stream has a verdict only when its loop is over, a finisher works only on a
  verdict, and "ok" means that every chunk of the stream's own file is good),
  `Named` (what the names on the disk can name) and, while nobody cancelled,
  `Alone`: the stream that runs or waits for its rename is the one the map has, and
  the part file is its own or gone. That is what makes the rename by name safe.
  Most steps are shown at once by `GoesOnWhole`: they leave the files but for the
  part file's name, and close a running stream or move a finisher on.

`WindowProofs` proves, for every finite set of items, every cap, limit, size of the
queue and of a frame, and any worlds (`ItemAssumption`, `SizeAssumption`,
`WorldAssumption`):

* `WindowTypeSafe == Spec => []TypeOK` and `ByeIsLast == Spec => []NothingAfterBye`,
  from `TalkInv`, the protocol of the two sides. `Talks` says what each may have
  asked, answered and queued at any place of the other: a connection begins with a
  subscribe whose answer is the first frame, no update is queued unless the
  subscription lives, the answer to an unsubscribe is not queued while it lives, and a
  frontend that is open has only extends on their way. `Hears` says that the
  frontend's limit, once it took what is queued, will be the daemon's (`Told`: one
  more while an extend is answered and not done); that keeps the type of its limit.
* `CopyIsSent == Spec /\ ResetsAreRead => []ReplayIsSent` and `CopyFits`, the same for
  `WithinLimit`. `Course` is what the frontend goes through as it takes the queue,
  frame by frame. `Copies` says that at every frame of it no more is shown than was
  asked for (`Fits`), and that its end has what was sent, or will have it by the
  update the pass is about to push (`InStep`). A difference takes one content to the
  other (`DiffIs`); a merge shows what the two updates show one after the other
  (`Twice`, `MergesIs`); a seal changes nothing (`CourseSealed`); a purge keeps the
  answers, with the limit they lead to (`PurgeIs`), and is followed by a reset.
  `WithinLimit` needs the whole course, since an update that knows of a larger limit
  must lie behind the answer to the extend.
  `ResetsAreRead` says that no read fails in a pass that took a reset upon it, which
  is so in each world of the run `window`. It is needed: with an overflow and a failed read in one behaviour TLC finds both
  properties violated (section 5).

`After` and `Responses` are recursive functions over a queue. The induction they need
is not the library's, whose theorem takes an operator as a parameter: the lemma
`Induct` states it about a set of numbers, from the well-foundedness of finite sets.

TLC agreed before each proof began: the properties and their strengthenings hold on
the instances of the runs (of `Window` with the course computed, where the proof says
that there is one). `RowIsWhole` owes its form to that (with three streams TLC found a
second way for it to fail, after a cancel), and so do the hypotheses of `OneSocketOnly`,
`UpStaysWatched` and `CopyIsSent`. The theorems need no fairness. With them every safety property of the
passing runs is a theorem.

Only model-checked: what is liveness and out of the prover's reach
(`EveryInputFolds`, `CallsReturn`, `SendsGoOut`, `TurnsPass`, `EachTextSettles`,
`Settles`, `Answered`, `ReadyComes`, `Converges`), and the findings. No module
declares a recursive operator.

## 5. Findings

Each of these has a run whose trace shows it.

| Run | What the code does |
| --- | --- |
| `outbox_abandon` | a request whose connection closes while the writer has its append frees its key's turn; a retry under the key sends a second time (`I/whatsapp/send.go:172`) |
| `sched_logout` | a logout's `Reset` leaves the rows of `scheduled`, created outside every domain (`I/core/core.go:224`), and a text scheduled under one account is sent from the next |
| `window_bare` | the ready that answers a failed read has no map of changes; the next change merged into it panics and ends the daemon (`I/server/queue.go:120`) |

The models also contain these, which have no run of their own:

* A stream that ended whole looks its entry up by the message
  (`I/whatsapp/stream.go:235`). If a cancel dropped it and a new request started
  another stream in between, it renames the new stream's part file, which may lack
  chunks, into place and logs it as the message's file (`Media!CancelDrop`,
  `StartStream`, `FinishLook`, `FinishRename`). It may also take a third stream to
  meet it: after the cancel, the finisher of a failed one drops the second's entry, the second ends
  whole, and its rename by name finds the part file of the third
  (`Media!RecoverDrop`).
* A crash after that rename and before the removal of the index
  (`I/whatsapp/stream.go:249`) leaves an index without its part file, and the next
  stream opens an empty file with every chunk marked present
  (`I/mediastream/sparsefile.go:46`): its players get zeroes, against "a partially
  filled file never hands out zeroes" (`I/mediastream/sparsefile.go:243`), until
  the hash fails (`Media!Crash`, `Started`).
* A stream whose hash fails is dropped without a discard
  (`I/whatsapp/stream.go:246`), so the next one resumes the same wrong bytes and
  fails too (`Media!FinishLook`, `RecoverClose`).
* The last progress of a cancelled stream may come after `EndTransfer`
  (`I/whatsapp/media.go:272`), and the transfer is shown until something else of
  the message moves (`Media!Report`, `CancelEnd`).
* A request that found a stream to join takes no slot; if the stream is gone when
  it comes to `ensureStream` it starts one without (`I/whatsapp/stream.go:99`), so
  more than `mediaFetches` run (`Media!StreamLook`, `StartStream`).
* An entry that is complete stays in `md.streams`. If its file is removed later, a
  new request is answered with the old url, which is not found
  (`I/whatsapp/stream.go:180`, `396`; `Media!Join`).
* While a log is folded again after a changed signature, a cancelled text's row is
  back and a tick may send it, since the tick reads `scheduled` without waiting for
  the folds (`I/whatsapp/schedule.go:101`; `Scheduler!Open`, `Tick`).
* A failed read in the pass that owes a reset loses the reset, and items removed
  meanwhile stay in the frontend's copy (`I/server/sub.go:149`;
  `Window!TakePass`, `ReadFails` with an overflow).
* The job pools run under the daemon's context and a logout only moves them to the
  next client: a download in flight, or retried, logs the old account's pieces and
  its success behind the `Reset` (`I/ingest/jobs.go:54`, against "nothing writes
  for an account that is gone", `I/whatsapp/client.go:196`; `Jobs!Logout`, `Piece`).
* Two jobs that fail in every attempt hold both workers of the history pool for
  ever (`I/ingest/pool.go:133`); an error while `requeueHistory` reads leaves the
  pending history until the next start (`I/ingest/jobs.go:99`; `Jobs!ReadFails`).
* Without a route `noNetwork` wakes "as often as the cap" to "try anyway"
  (`I/conn/conn.go:393`), but `Run` looks at the watcher again and goes back
  without an attempt (`I/conn/conn.go:349`; `Supervisor!NoNetwork`).
* During a wipe the tick of `gone`, or a socket it loses, starts a login on the
  client whose session store is about to be closed; the login fails and starts
  over with the newest client (`Supervisor!GoneEnds`, `WipeClears`, `LoginAgain`).
* A `StreamReplaced` in the channel when the tick sees the socket closed is
  drained by the next attempt (`I/conn/conn.go:705`), which takes the session back
  although `Replaced` "stays down until a reconnect is asked for".
* A `Connected` of an older socket of the same client that comes late is taken for
  the attempt's own (`I/conn/conn.go:434`); a dead line then shows at the tick.
* The login does not drain its events: after a failed wipe a stale `LoggedOut`
  or `Connected` can end in `gone` with a socket up. The hypothesis of
  `UpStaysWatched` (section 4) is there for a run like that: the server logs the
  device out, the wipe fails, the same client pairs again, and of the events still
  in the channel the stale `LoggedOut` sends the machine to `gone`, where the
  `Connected` of whatsmeow's own reconnect is not looked at
  (`Supervisor!WipeFails`, `ScanTooLate`, `FatalEvent`).
* `Reset` leaves the rows of every table created outside the domains
  (`I/core/core.go:216`): folders, status mutes, favourites and others besides
  `scheduled`. They are `kept` in `CoreLog`.
* The outbox goes by the clock at the commit, not by the log, against the comment on
  its `seq`, "the queue's place in the log: what was queued first goes first"
  (`I/model/outbox.go:25`, `169`). After the clock was set back a later send goes
  before an earlier one; and one queued during a pass with a time before the last row
  the pass read is passed over until the next pass (`Outbox!Commit`, `Unsent`).
* The wipe only logs an id it fails to delete (`I/whatsapp/client.go:536`). If the
  server was not told of the logout either, the machine may dial the old client while
  the wipe runs on, and stay online with it, the newest client left alone, until the
  line breaks (`Supervisor!Logout`, `WipeClears`, `WipeEnds`; the second case of
  `Settled`). And if the id is of a pairing that came late (`ScanTooLate`), whatsmeow's
  reconnect of the old client and the login of the new one may be open together, with
  nobody watching the first. The hypotheses of `OneSocketOnly` and `UpStaysWatched`
  exclude that.
* A wipe that fails after it closed the session store
  (`I/whatsapp/client.go:564`-`585`) leaves the client without one and the machine
  unattached to a new one: its login shows codes, or fails and starts over, and can
  pair nobody until another logout or a restart (`Supervisor!WipeFails`). `Settles` counts
  that login as settled.
* A cancel logged after the sender's check, while the file is uploaded, is
  answered without an error and has no effect (`I/whatsapp/send.go:787`;
  `Outbox!MaySend`, `Taken`).
* Any token in the sends channel clears every backoff while online, not only a
  reconnect's (`I/whatsapp/send.go:703`; `Outbox!OnSignal`).
* A cancel that lands while a tick works off the rows it read has no effect
  (`I/whatsapp/schedule.go:106`; `Scheduler!SendText`).
* The ready that follows the answer to an extend may come from a pass that read
  the window before it grew (`I/server/conn.go:326`, against `PROTOCOL.md:185`;
  `Window!AnswerExtend`, `Extend`).

## 6. What is abstracted, and what is missing

* Contents. An input, a message id, an item is a name. Marshalling, SQL and
  protobuf are left out; the conversions the properties depend on (which rows a
  fold leaves, which changes two contents differ by) are operators.
* `CoreLog`: the context of a fold, `Backup`, the tables' contents beyond what was
  folded how often. `ErrClosed` and errors are one reply.
* `Outbox`: sends without a message (reactions, edits, revokes) go the same way and
  are not told apart; albums and forwards, which queue several sends under one
  key, and the upload of files are single steps. A send's time is one of `Times`, and
  sends in one batch are commits one after the other, which `CoreLog` justifies. The five-second limit of a wait
  for the fold is a failure that may happen (`GiveUp`).
* `Scheduler`: the outbox behind `SendText` is one step, justified by `Outbox`; the
  list's limit of 200 rows is not modelled; fewer unsendable texts than a tick
  reads (50) are assumed, beyond that later texts starve.
* `Window`: one subscription; the bounds on frames, bytes and requests of a
  connection, the handshake, windows that own their size (anchored messages), ids
  that fold into another. An extend grows the limit by one.

* `Supervisor`: telling the server of a logout is one step, and what whatsmeow deletes
  itself (after a told logout, or one the server started) is deleted: only the wipe's
  own delete may fail. The run's worlds keep a late scan apart from failing wipes and
  undeleted ids. Two equal events or kicks on their way count as one; a person takes
  longer to scan a code than a wipe takes; the server closes a socket without an
  account in the end. Attempts are not counted and backoffs have no length; the
  channels do not overflow; an attempt does not outlive its teardown; `Before` is
  left out. A deadline that comes before the answer, or a dial that fails although
  there is a route, is a bounded disturbance.
* `Jobs`: the pieces of a blob are a set of their own in the log, whose order is
  kept for notifications and outcomes only; a worker that takes a token looks at
  the queue at once; pauses between retries are time, and a job without a
  connection waits for one; `WaitFolded` and the page read after it are one step;
  deleting a blob from the server fails only without a connection; a logout is one
  step, with no event being handled.

* `Media`: a crash is a daemon that dies: what it wrote to a file stays. A power loss,
  which may lose or reorder what was not synced, is not modelled here (it is in
  `CoreLog`), nor are the streams that a shutdown or a logout closes
  (`closeStreams`). One message, whose row is there at once when it is logged (no lag of the
  fold). The error on the row, sticker files, map pictures, the sender's fresh path,
  HTTP details, a failing write of an index or of an append and other messages'
  fetches are left out; the last are why a slot may be waited for at all, which one
  slot and three fetches stand for. The bytes of a download are whole or not there.
  The two steps of closing a stream (end it, close its file) are one.

Of the type invariants only `CoreLog`'s is checked by a run; those of the other
modules say what their variables hold and were checked on the same instances.

## 7. Not modelled, and plan

Done: `DurableLog`, `CoreLog`, `Outbox`, `Scheduler`, `Window`, `Supervisor`, `Pool`
and `Jobs`, `Media`, and the theorems of section 4 about all of them.

Not modelled, and worth it, in this order:

1. `GroupJobs`: `groupLoop`, `fetchGroups` and `fetchGroup` on the same pool, woken
   by the token `groups` of `Jobs`.
2. `Folds`: pure algorithms over short logs (receipts, edits, revokes, folders,
   favourites, status mutes): which folds give the same tables when an input is
   folded twice or the log is folded again on top of them.
3. `ConnectionLimits`: in-flight tokens (32), subscriptions (64), opening ones,
   frames and bytes of the queue and the close behind them.
4. Notifications, live state, and the preferences across a wipe: `wipe` keeps them
   in memory between the `Reset` and the append (`I/whatsapp/client.go:541`), so a
   crash in between loses them.

Left out for good: payload decoding, rendering and translation of requests, which
are wide pure functions of large data; generated code; the Qt and Rust frontends;
packaging; the mock server.
