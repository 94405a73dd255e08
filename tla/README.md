# TacticalMesh in TLA+

TLA+ models of the protocol core of this repository (five Rust crates,
`tacticalmesh-{link,wire,olsr,app,bin}`), the TLC runs that check them on small
instances, and TLAPS proofs of the properties that should hold for every size.
`PROJECT.json` lists components, runs, mutants, theorems, hazards and findings,
and maps every definition to the lines it models.

To reproduce: `tlc -config <name>.cfg MC<Module>` for a run,
`tlapm <Name>Proofs.tla` for the proofs.

## 1. The system

A node is one process on a multi-threaded tokio runtime. Per traffic priority a
blocking reader thread receives radio datagrams and puts them into a bounded
channel. One task, `rx_loop`, empties the four channels: it verifies a frame,
decides whether to send it on, and hands messages to handlers that run as tasks
of their own. Outgoing application frames go through a priority scheduler; the
OLSR loops call `link.send` directly and bypass it.

| component | state | operations | what makes it correct |
|---|---|---|---|
| Frame verification (`wire/frame.rs`) | none | build, parse and verify | every early return leaves the node's state alone |
| Replay cache (`wire/nonce_cache.rs`) | map key -> insertion time | `check_and_insert` | no frame is accepted twice; the cache stays bounded; refused frames leave no trace |
| TX scheduler (`wire/scheduler.rs`) | one queue per priority, a `Notify` | `enqueue`, `run` | no lost wakeup, strict priority, FIFO within a priority |
| OLSR tables (`olsr/state.rs`) | neighbours, two-hop, topology, last TC numbers, routes | `process_hello`, `process_tc`, `recompute_routes` | routes are least-cost paths of what the tables say; old TCs are dropped; dead nodes vanish |
| OLSR loops (`olsr/loops.rs`) | TC counter, dead list | `hello_loop`, `tc_loop`, `aging_loop` | a silent neighbour goes after its timeout and within one tick of it, up to adjustments of the clock |
| Routing decision (`bin/rx.rs`) | none of its own | rebroadcast, forward, dispatch, jam window | floods end, each message is handled once, old TCs and HELLOs of nodes out of range do no harm |
| Target board (`app/crdt.rs`) | target id -> entry | `merge`, `get` | merge is a join; nodes with the same updates agree |
| Message handlers (`bin/handlers.rs`) | run as tasks over the shared tables | one per message kind | read-then-merge sequences do not lose data |
| Image transfer (`app/image_cache.rs`, `app/image_codec.rs`) | buckets, assembled blocks, expected count, done flag | insert shard, assemble, decode, show | the image is completed once, and shown as it was sent |
| Link adapter (`link/lib.rs`) | sockets, stop flags, epoch, channels | `send`, `recv`, readers, `rotate_epoch`, `set_allow_list`, `Drop` | a slow consumer loses frames but blocks nobody; a rotation repeats and reorders nothing and leaves no priority unread; no thread outlives the adapter |
| Jam handling (`bin/rx.rs`, `bin/handlers.rs`) | window of priorities, channel | `JamWindow`, alert, hop | no alarm without cause; nodes that saw the same jam end on the same channel |
| Console (`bin/tui_loop.rs`, `app/state.rs`, `bin/loops.rs`) | `AppState`, outbound channel, on/off switches | keys, text entry, `outbound_loop`, `state_sync_loop` | no message of a key is lost or reordered; what is shown is one moment's state and catches up |
| Start-up (`bin/main.rs`) | pump threads, shared queue | wiring | every received frame reaches `rx_loop` |
| FEC coder, key generation, demo traffic, diagnostics, screen layout | - | - | cryptography, library arithmetic, sample data, I/O |

Interactions: radio -> reader thread -> bounded channel -> `rx_loop` -> (replay
cache) -> rebroadcast through the scheduler, OLSR tables under a write lock, or a
spawned handler; handlers -> target board, image cache and `AppState`, each under
a lock that is released between steps; TUI and handlers -> scheduler -> link.

What is hard here: handlers are spawned, so messages of one sender may be handled
in any order and their lock sections interleave; frames are lost, repeated and
reordered; clocks differ and are set back or ahead; counters wrap; nodes restart with empty
memory while their peers remember them; a full channel drops frames silently; a
flood must end although each node knows only its own duplicates; a radio call fails
half way through a reconfiguration. The 39 places
where this bites are the `hazards` of `PROJECT.json`, each with the properties
that watch it or the reason that none does.

## 2. Modules

| module | models | composed with |
|---|---|---|
| `NonceCache` | `parse_and_verify_frame`, `check_and_insert`, building a frame | |
| `PriorityChannel` | what the scheduler promises (abstract) | |
| `TxScheduler` | `enqueue`, `run`, tokio's `Notify` | implements `PriorityChannel` |
| `TargetBoard` | `merge`, `get`, the detection, BDA and command handlers on several nodes | |
| `OlsrRoutes` | link cost, Dijkstra with predecessor walk, duplicate test (pure) | used by `OlsrState`, `MeshRouting` |
| `OlsrState` | `process_hello`, `process_tc`, `recompute_routes`, aging | over `OlsrRoutes` |
| `MeshRouting` | the routing decision of `rx_loop` on several nodes over lossy bounded channels | shares the duplicate test |
| `ImageTransfer` | request, serving task, shard handlers, reassembly, display | |
| `LinkAdapter` | Tx handles, reader threads, epoch rotation, allow list, `Drop`, the pump threads of `main.rs` | |
| `JamHop` | jam window, alarm, alert and channel hop on several nodes | |
| `Console` | keys, text entry, outbound channel, display copies, log | |
| `NonceCacheProofs`, `TxSchedulerProofs`, `OlsrStateProofs`, `MeshRoutingProofs`, `LinkAdapterProofs`, `JamHopProofs`, `ConsoleProofs` | theorems and proofs | extend their module |
| `AppProofs` | theorems about `TargetBoard` and `ImageTransfer` | extends both |
| `MC*` | constants of the instances | |

Each module has operators whose names say what they get wrong (`PushDropsOldest`,
`IsStaleEarly`, ...). They are used by no specification: each is a plausible bug
that replaces the definition next to it, to show that a property notices it.

### NonceCache

`seen` is the map of `NonceCache`, `clock` the receiver's wall clock, `frames`
the frames that were built and may arrive, any number of times and at any time.
A frame is its header key (sender, timestamp, nonce). Parsing is one action per
return of `parse_and_verify_frame`: truncated, bad signature, outside the window,
replayed, undecryptable, accepted. The order matters: an
undecryptable frame has been entered into the cache before decryption fails.
`StepBack` sets the clock back by at most `MaxStepBack`, `Restart` empties the
cache. `accepted`, `high` (greatest clock value) and `boot` are history. Signature,
cipher and byte layout are abstracted to whether the check succeeds.

### TxScheduler and PriorityChannel

`enqueue` is two steps, `Push` (under the queue lock) and `NotifyOne`, with any
step of another task between. `run` alternates `PopSome` / `PopNone`, `Send` and
`Await`. `Notify` stores at most one permit, as tokio documents. `PriorityChannel`
has only a set of pending frames and the sequence handed over; under the mapping
`pending <- QueuedFrames, out <- handed`, `TxScheduler` implements it, including
its fairness: whatever is queued is handed over.

### TargetBoard

One target on several nodes. A message is handled by a task per node (`task`);
detections merge at once, BDA and command handlers read the position (`ReadInfo`)
and merge in a second step, as in the code. Commands are stamped with the local
clock. Every node reads its own system clock, and nothing keeps the clocks together:
a reading is any of `Readings`. `merged` is history: all entries merged since the node
started.

`PositionKept` is about this two-step handler: once a board has a position, and no
handler is under way that read the board before there was one (`PositionIsSafe`),
no order of messages takes the position away until the node restarts.

### OlsrRoutes and OlsrState

`RoutesFor` is the algorithm of `recompute_routes`: `DijkstraRun` is the sequence of
states of its `while` loop, one `PopHeap` per iteration, and `RouteEntry` follows the
walk along predecessors (`Walk`) as far as `MAX_HOPS`. `PathsTo` and `PathCost` are the
reference: all loop-free paths and the sums of their link costs. `OlsrState` keeps all tables of
one node, its peers being the environment: HELLOs with any listing, TCs that
arrive late, repeated or after the sender's restart, and the aging loop on a
tick. A peer starts its TC counter anywhere in `StartSeqs`, which stands for a node
that has been up for a long time, and at 0 after a restart. `received` is history;
`run` and `nth` of a TC say in which run of its sender and as which one it was sent,
so that `FreshIsTaken` speaks of the real order of the TCs. `NewestTcKept` is about the
numbers the code compares: the TC of the highest number is the one kept.

Ids, RSSI, loss and MCS have the ranges of their types (`OlsrConstants`,
`LinkQuality`). The negation of an RSSI is done in 8 bits, the TC counter is taken
modulo `SeqModulus`; distances are natural numbers, and `CostsNeverSaturate` proves
that the code's `u32` never shows the difference.

There are two times. `clock` is true time, which tokio's interval follows; the aging loop
is assumed to run within its tick, so `Tick` does not pass over a due `AgingTick`. What
the code reads is the system clock (`NowMs`), which `StepBack` and `StepAhead` set back
and ahead. An entry's `last` is such a reading, as in the code; `heard`, `back` and
`ahead` of an entry are history, and let `ExpiryIsTimely` say how long a neighbour has
really been silent.

### MeshRouting

`rx` is the bag of frames in the receive channels of all nodes. `Sent` gives every
node in range a copy unless its channel for that stream is full, and a full
channel drops silently, as `try_send` does. `Receive` is one iteration of
`rx_loop` for a frame that passed verification: rebroadcast with a fresh nonce and
incremented hop count where the code does, which is for every broadcast HELLO and TC
below the hop limit, known or not, then HELLO, TC, Data for here or Data
in transit. A TC that `process_tc` takes for new is sent a second time, with hop count 0
(`RxTcNew`). The kinds Ack and SessionKeyRotation, which no program sends, are left out.
`HasRoute` says for which destinations a node has routes; the tables themselves are `OlsrState`'s subject. `delivered` and `floods` (how often a node took a
TC for new) are history counters that stop at 2, which is enough to tell once from more
than once.

### ImageTransfer

`PressI` broadcasts a request. Each node that has an image runs a task that encodes
it and sends the chunks in order; several nodes may answer one request. Shards may be
repeated and reordered. A handler task has three steps with other tasks in between:
insert under the cache lock, spawn the decode, write the progress; the decoded image
is shown by `ShowImage`. As in the binary, each chunk is one block with k = n = 1.
Content is abstracted to the node it comes from: `ShownIsSent` says that each chunk
shown is the chunk some node sent for that place, and the whole image of one node if
only one answered.

### LinkAdapter

One adapter with its Tx handle and reader thread per priority. A datagram is copied to
every socket bound to the priority's port that has room; a reader drops what is not of
its stream (its epoch), what the node sent itself and what the allow list excludes,
and puts the rest into a channel that drops when full. `rotate_epoch` is a sequence of
steps, `RotateTx` and `RotateRx` per priority, each of which may fail (`GiveUp`) while
readers and peers go on; the old reader is stopped by a thread that sleeps for the
overlap (`timers`, `Overlap`). `attached` tells the binary, whose pump threads share
the adapter, from an owner who calls `recv`, `rotate_epoch` and `Drop` himself.

### JamHop

`window` is `JamWindow`, filled by `RxTraffic` and `RxAlert`, with the eviction loop
that stops at the first young entry. An alarm (`CheckJam`) makes `rx_loop` hop first
(`Tune`, `Show`) and enqueue the alert afterwards (`Announce`, `Transmit`). A receiver
of an alert hops in a task of its own with the same two steps. `Transmit` reaches the
nodes tuned to the sender's channel and may lose the alert on the way. `set_channel`
may fail; the code logs it and goes on. Each node's clock may be set back (`StepBack`)
and ahead (`StepAhead`). `alerts` and `announced` are history: what was raised and what
was sent. A `ChannelHop` message has a handler but no sender, and is left out.

### Console

`Press`-guarded actions are the keys of `tui_loop::run`, in command and in compose
mode. A key that sends a message waits (`waiting`) until the outbound channel has a
place (`Submitted`) and only then logs. `outbound_loop` drops a unicast without a
route. `state_sync_loop` has four steps because it takes four locks one after the other
(tables, `AppState` for the first convergence, board, `AppState` to publish); the tables
are abstracted to a version number and to what the console asks of them. Handlers and the spoofer write the log and the counters in between.

## 3. Runs

Passing runs:

| run | shows |
|---|---|
| `nonce_cache` | with the code's ratio of TTL to window, and lost, repeated, damaged and late frames, a clock set back and a restart: `RepeatNeedsExpiry` (a second acceptance comes a full TTL after the first), `SeenSpan` (live entries are less than a TTL apart), `EntriesAreEarned` (refused frames leave no trace) |
| `scheduler` | `NoLostWakeup`, `HandoverOrder`, and the refinement `ImplementsChannel`, liveness included |
| `board_merge` | `BoardIsJoin`, `AgreeOnState` and `PositionKept` in every handling order, with loss and a restart |
| `olsr` | `TwoHopBacked`, `NewestTcKept`, `FreshIsTaken` under changing listings, old TCs, a TC counter that wraps, a peer restart and aging; `ExpiryIsTimely` while the system clock is set back and ahead (a neighbour goes after its timeout and within one tick of it, give or take what the clock was set meanwhile); `RoutesAreBest` in all of that, and over four nodes with TCs of two of them for every choice of good and weak links, against a definition of least-cost paths by enumeration of paths, with paths one hop longer than the predecessor walk goes back |
| `mesh_flood` | on a line of four: `DataOnce` for broadcast and one-hop unicast, `TcFloodedOnce` (a node takes a TC for new, and starts a flood of its own with hop count 0, at most once) and `FloodsEnd`, with full channels, loss and a restart of the TCs' sender |
| `image_fetch` | `CompletedOnce`, `ShownIsSent`, `EventuallyShown` when three nodes with images of different length answer |
| `link` | `PassedOnceInOrder` while an old and a new reader both receive, `ListensWhereItSends` after rotations that fail half way and readers that die, `AllReadersEnd` after `Drop`, `ChannelIsDrained` for the pump threads |
| `jam_hop` | `AlarmIsReal` with a clock set back and ahead, `SameJamSameChannel` however alerts interleave, `AlarmIsAnnounced` (every alert raised is sent) although `set_channel` fails |
| `console` | `ComposedIsTyped`, `OutboundKeepsKeys` with a full channel, `TablesAreOneSnapshot` and `ConsoleSettles` (the screen catches up and no key press stays unfinished) |

Runs that end in a violation. Each checks one statement taken from a comment or a
document of the repository and shows how the code departs from it; `findings`
quotes both sides.

| run | statement | what happens |
|---|---|---|
| `mesh_unicast` | `DataOnce` | two nodes forward each other's copies; the destination handles the message again |
| `mesh_neighbors` | `NeighborsInRange` | the HELLO of node 1, rebroadcast by node 2, makes node 1 a 1-hop neighbour of node 3, which is out of its range |
| `jam_split` | `MeshMovesTogether` | the node that detects a jam changes channel before its alert is sent, so the others, still on the old one, never hear it |

### Known limits of the code

Seen while modelling, and the reason why some properties above are not stronger.
They follow from the definitions named here and have no run of their own.

* `AgreeOnState` is about state and timestamp only. Positions and assignments may
  differ between nodes that handled the same messages: a handler copies the
  position its own board shows at that moment, commands are stamped with the
  local clock, and of two updates equal in state and time each node keeps the one
  it saw first (`Supersedes`).
* Among Engaged entries the latest wins, although `OVERVIEW.md` says that the first
  one does.
* An entry of the replay cache is evicted when it is exactly one TTL old, and the TTL
  is exactly twice the window: a frame stamped one window ahead of the receiver is
  accepted again one TTL later. `AtMostOnceIfTtlExceedsWindow` is the exact condition.
* A BDA or command handler that read the board before the first detection was merged
  may replace its position by "unknown": the exception in `PositionKept`.
* `aging_loop` forgets a node's links but keeps its last TC number (`AgingTick`
  leaves `last_tc_seq` alone), so the first TCs of the node's next run count as
  old, up to 100 of them; a first TC numbered 0 counts as old too (`IsOldSeq`).
* The duplicate test compares plain numbers: after the 16-bit counter wraps, a TC from
  just before the wrap counts as new; and two TCs of one sender 100 or more numbers
  apart displace each other and start a flood again. `NewestTcKept` and
  `TcsAreFloodedOnce` are stated for TCs closer than that, `FreshIsTaken` for all.
* A TC goes out more often than `TcFloodedOnce` counts: a new one twice at once
  (rebroadcast, and afresh with hop count 0), an old one, or the node's own coming back,
  once per copy below the hop limit (`RxTcOld`). `forward.rs:15` says that the bin crate
  asks `should_forward_tc` before it rebroadcasts a TC; nothing calls it.
* `aging_loop` compares readings of the system clock: set back by a minute, it keeps a
  dead neighbour for a minute longer, set ahead by more than the timeout, it drops every
  neighbour at the next tick. `ExpiryIsTimely` says that it is never worse than that.
* A reading of -128 dBm negated in 8 bits gets no penalty (`NegI8`).
* On a path of more than `MAX_HOPS` + 1 hops the predecessor walk stops before it
  reaches a neighbour, and the next hop named is not one (`RouteEntry`).
* Rebroadcast HELLOs enter nodes out of range as 1-hop neighbours (`mesh_neighbors`);
  the theorem `HellosStayNear` bounds how far.
* After a restart the replay cache is empty and takes frames of the last window again;
  a frame whose copy was damaged behind the signature is refused as a replay when the
  intact copy follows (`RxDecryptFailed`).
* Image blocks are kept by target and block number only. Shards of several answers mix
  and an image may be cut to the shortest: `ShownIsSent` promises a whole image only
  when one node answered. A handler that writes its progress late leaves the panel at
  "receiving", possibly with more blocks than expected (`ShowProgress`).
* Link: a peer that rotates first is not heard until this node rotates; `rotate_epoch`
  failing at `Rx::new` leaves that priority without a reader after the overlap
  (`broken` in `ListensWhereItSends`), as does a reader's radio error; frames of at
  most four bytes pass the allow list. `rotate_epoch` has no caller in the binary.
* Jam: a node that has hopped on a peer's alert before it detects the same jam names the
  new channel in its own alert and hops on from there; only verified frames reach the
  window, so noise is never counted; one alert adds two to `channel_hops`; the epoch is
  not rotated; the display changes although `set_channel` failed, and radio and display
  may differ when hops to different channels interleave; frames in transit skip the
  check.
* Console: the spoofer counts its own frames as bad signatures; a quit loses what is
  still in the outbound channel; the log reports a request as sent that
  `outbound_loop` drops for want of a route.

### Bounds

* Time. The cache compares differences of times only, so the 30 s window and 60 s
  TTL become 1 and 2: equal ratio, and both sides of each comparison are met.
  `MaxClock` lets an entry be inserted, expire and be looked up again.
* Duplicate window (100) and counter modulus (65536) are the code's; a peer's counter
  starts at 0 or at 65534, so that two TCs reach both sides of the wrap. Two TCs per
  sender and a restart are enough for every order of old, new and repeated numbers.
* Hop limits. `olsr` cuts the walk at 2 instead of 8, so that four nodes have
  paths at the limit and beyond. `mesh_flood` allows 1 rebroadcast instead of 2, so that a
  line of four has a node that must not be reached; `mesh_unicast` uses the code's 2.
* Nodes. The key registry of the binary holds ids 1 to 3, so three nodes are the
  real deployment; four are used where a property is about distance.
* Channels of depth 1 or 2 instead of 2048, so that they really are full; 2 in
  `mesh_flood`, where both copies of a TC must get through.
* `link`: two of the four priorities, since the code treats each in turn and shares
  only the queue; two rotations, one failing call, three frames and a peer that may be an
  epoch ahead or behind. When the adapter is not shared, traffic is on one priority
  (`Busy`); the other one is where a rotation that stopped half way shows.
* `olsr`: the instance follows three sets of behaviours (`Followed`), because their product
  is out of reach. `SettingTheClock`: HELLOs only; a timeout of 1 and a tick of 2, so that
  an entry can be at any place between two ticks; the clock is set back by up to 2, more
  than the timeout, so that entries lie in the future, and ahead by 1, as much as the
  timeout. `ChangingTables`: time up to 3, two TCs of node 2 and a restart. `AnyGraph`: one
  TC of each of nodes 2 and 3 over any links, at one instant. A step out of the three is
  not taken.
* `board_merge`: one result and one command, Engage, which give the same state in two ways;
  three messages stamped 0 or 1, so that ties, older and newer stamps all occur.
* `jam_hop`: the alarm needs two Bulk frames within a window of one time unit instead
  of 500 ms and the code's count; four frames in a time of three windows, two alerts, one
  lost, one failing `set_channel`, and node 1's clock set back and ahead by one. That is
  enough for both nodes to raise an alarm on the same channel, for one after the other on
  different ones, and for entries that stay too long or go too early.
* `console`: one key of each kind (message, switch, local, blank as text) besides the
  editing keys, four presses, a log of two lines and a channel of one place.
* Images have at most 255 blocks (`ImageConstants`): the code scales them to at
  most 640 by 480, which keeps the chunk count within its `u8`.
* One target id: entries of different targets never meet in `merge`.
* `SYMMETRY` in `TargetBoard` permutes the receiving nodes only, which are
  interchangeable and do not occur in the messages.
* Deadlock is not checked where the instance really comes to rest (all messages of
  the bound sent and handled); it is where time or retransmission always goes on.

### Fairness

* `TxScheduler`: weak fairness of `run`'s step and of each pending `notify_one`.
  tokio polls a task that is ready, and `enqueue` has no await between push and
  notify. Nothing forces a task to call `enqueue`.
* `MeshRouting`: weak fairness of each node's `rx_loop`, which polls all channels
  without end. Loss and origination are not fair.
* `ImageTransfer`: weak fairness of the handler tasks and of the decode task,
  once they are spawned. Delivery of shards is not fair: `EventuallyShown` says
  what follows once the shards have been received.
* `LinkAdapter`: weak fairness of "some thread takes a step". Each such step uses up a
  datagram, a frame or a thread, so nothing weaker than the operating system's
  scheduling is assumed. Nobody has to send, rotate or drop.
* `JamHop`: weak fairness of the program's own steps; neither traffic nor time is fair.
* `Console`: weak fairness of the waiting send, of `outbound_loop` and of
  `state_sync_loop`. The user and the network need do nothing.

## 4. Proofs

All theorems hold for every value of the constants that satisfies the module's
named `ASSUME`; the bounds on clocks, messages and frames are constants too. Where a
theorem needs more than the `ASSUME`, the condition stands in its statement and is
named below.

**NonceCacheProofs.** `CacheInv` strengthens `RepeatNeedsExpiry`. An acceptance can
be compared with a later one only through the cache, so the invariant adds
`Remembered`: each acceptance of the current run is still in `seen` under its own
time, or the clock has reached that time plus a TTL. `RecordsInWindow` places each
acceptance in its window, `ClockBounds` ties the clock to `high`. From it follow
`TypeCorrect`, `RepeatsAreExpired` and, by arithmetic on the two windows,
`AtMostOnceIfTtlExceedsWindow`, whose hypothesis
`NONCE_CACHE_TTL_MS > 2 * TIME_WINDOW_MS + MaxStepBack` the code's constants miss
by one millisecond even with a perfect clock. `CacheSpanBounded` uses a second
invariant about the entries (`SpanInv`); `RefusalsLeaveNoEntry` (`EntriesAreEarned`)
is inductive with the types.

**TxSchedulerProofs.** `NoLostWakeup` is inductive with `TypeOK`.
`HandoverOrder` compares frames already handed over, so `OrderInv` also says
that queues are sorted by frame number (`QueuesSorted`), that queued frames come
behind those handed over (`QueuedBehindHanded`), and that what was handed over was
issued before (`HandedIssued`). Together with `Numbered` (the frames queued and handed
over are exactly those issued) it gives `SchedulerImplementsChannel`: under the
refinement mapping the initial state is an initial state of `PriorityChannel`, `Push`
is a `Submit`, `PopSome` a `Transmit`, and every other step a stutter. The fairness
of the channel is left to TLC.

**AppProofs**, the target board. `MergeIntoJoins` is the algebra of one merge: the result is
one of the two entries and nothing outranks it. `BoardInv` lifts it to a node;
`AgreeInv` adds that a task belongs to a message and that the merged entries
correspond one to one to the messages handled (`MergedIsDone`), which reduces
agreement of two nodes to equality of what they handled. `PositionsAreKept`
(`PositionKept`) is an action property: a merge keeps a position
(`MergeKeepsPosition`), because a handler under way that read none is excluded.

**AppProofs**, the images (`ImageSpec`). `ImageInv` follows the origin of a chunk from the
serving task through the handlers to the blocks of the cache (`ShardsAreSent`,
`BlocksAreSent`), does the same for the block count announced (`ExpectedIsSent`), and
says that a completed image has all its blocks, each in its place
(`CompleteIsGenuine`). From it follow `ImagesCompleteOnce` (`CompletedOnce`) and
`ShownImagesAreSent` (`ShownIsSent`).

**OlsrStateProofs**, the tables. `TableInv` adds to the types that only TCs that
were sent are received, and that an entry carries what the system clock showed when its
HELLO was heard (`EntriesDated`); without the latter nothing relates the reading the code
compares to how long a neighbour has been silent. `TwoHopIsBacked` is inductive with it.
`NeighborsExpire` (`ExpiryIsTimely`, an action property) needs
`AgingAhead`: the next aging tick is at most one period ahead, and at that tick no
neighbour will be older than the bound. `NewestTcIsKept` rests on `KeptInv`
(`RecordedWasHeard`: the number kept for a sender is that of a TC received from it; as
long as none is kept, only TCs numbered 0 have come, which the code takes for old).
`FreshTcIsTaken` compares numbers across the wrap of the counter, so its invariant
`CountersInStep` ties the number of every TC to the place in its sender's run. Its
condition `MaxTcs + DupWindow <= SeqModulus` says that a run does not go once around
the counter into its own duplicate window: at one TC every 2 seconds, 36 hours.

**OlsrStateProofs**, the routes. `RoutesAreTheBest` (`RoutesAreBest`) is Dijkstra's
algorithm proved for every graph over ids of one byte, and then lifted to the tables.
The library's induction theorems take an operator as parameter, which the provers
cannot instantiate, so the module states them for sets instead: `LeastNatural` (from
well-foundedness of `<`), `Induction` over a subset of `Nat`, and `Recursion`, by which
the recursive functions `DijkstraRun`, `Walk` and `CostsAlong` satisfy their equations.
The argument has five steps.

1. `LoopInv` holds in every iteration (`SkipLoopInv`, `RelaxLoopInv`). A node is
   *closed* when no pair with its distance is on the heap. The invariant says that pairs
   on the heap are not nearer than their node (`HeapOfKnown`), that a node's distance is
   that of its predecessor, which is closed, plus one link (`PrevIsClosed`), that the
   links of closed nodes are relaxed (`ClosedIsRelaxed`) and that closed nodes are no
   farther than anything on the heap (`ClosedIsNear`). The last one is what keeps a closed
   node closed; it needs positive link costs (`LinkCostPositive`).
2. The loop ends: pairs on the heap plus links not relaxed yet (`Work`) drop in every
   iteration (`PopWorks`), from one more than the number of links (`RunEnds`). This is
   also why `RoutesFor` may look at the state after that many iterations.
3. With an empty heap every node found is closed, so no path is cheaper than the
   distance of its end, and every path ends at a node found (`WalksCostMore`).
4. Distances fall along predecessors, so each node has a chain back to the local node
   (`ChainExists`), without repetition (`ChainIsSimple`). It is one of the reference's
   paths (`ChainIsPath`), costs the distance computed (`ChainCost`), and the walk
   meets its nodes in reverse (`WalkIsChain`), which fixes next hop and hop count
   (`EntryOfChain`).
5. `RoutesInv` adds to `TableInv` that the tables are maps of well-typed link
   qualities, so that they make a graph (`TablesAreGraph`). Every action that changes
   a table recomputes; the aging tick that finds nobody stale changes none.

`CostsNeverSaturate` bounds a distance by 255 links of the worst quality (`ChainIsCheap`,
`ChainIsShort`): far below `u32::MAX`, so `saturating_add` is addition and
`unwrap_or(&u32::MAX)` never hides a node.

**MeshRoutingProofs.** Everything rests on what one step may put into
the channels: `SentFrames`, `ReceivedFrames` and `OriginatedFrames` say that a frame
that is new is a copy of a new message or a relayed copy of the frame received, with the
hop count the code gives it; how full the channels are does not matter. With
it `MeshTypeCorrect` is inductive. `HellosStayNear` bounds what the run `mesh_neighbors`
shows: a table names only nodes within `MAX_HOPS` rebroadcasts (`NeighborsReach`),
because a HELLO with hop count h is at most h + 1 transmissions away from its origin
(`HellosNear`). `TcsAreFloodedOnce` (`TcFloodedOnce`) needs that a number stands for one
message (`NumbersAreUnique`), that numbers grow with the messages (`TcsAreCounted`) and
that what was taken for new is not above the number remembered (`FloodedAreOld`); its
condition `MaxMsgs <= DupWindow` keeps two TCs of a sender within the duplicate window,
beyond which the code takes a TC for new again (see the known limits). `DirectDataOnce`
(`DataOnce`) counts copies (`DataFramesAreSingle`) under the condition
`UnicastIsDirect`: nobody in range of the sender of a unicast has a route to its
destination. The run `mesh_unicast` shows what happens without it; the run
`mesh_flood` satisfies it.

**LinkAdapterProofs.** `ListensToItsPeers` needs that the newest reader of a priority
listens where the priority sends and nobody is about to stop it, except while
`rotate_epoch` exchanges it (`NewestListens`), and that readers which a timer will stop,
and those still to be replaced, are older than the current epoch (`OldIsOlder`).
`FramesPassOnceInOrder` needs an order over all the places a frame passes through:
sockets are in order (`SocketsInOrder`), what has passed is older than what is still
in a socket of the same stream (`PassedAreOlder`), the places behind one another are
in order (`PlacesInOrder`), and only the attached binary has pump threads
(`PumpsAttached`). It is this that shows that two readers that share a channel during
the overlap of a rotation never pass the same frame: they read different streams.

**JamHopProofs.** `AlarmsAreReal` is an action property over `WindowInv`: entries are in
order of arrival and stamped by a clock that is behind by at most what it was
set back and in front by at most what it was set ahead (`Timely`), and the last High
frame is in the window or more than a window, less what the clock was set ahead, ago
(`HighIsKnown`). That the eviction loop stops at the first young entry, and
thus what is behind it is young enough too, is `EvictDropsOld`, whose least index exists
by `LeastNatural`. `SameJamSameHop` uses `HopInv`: tasks, queues and channels hold raised
alerts only (`AlertsInv`), and a node that `set_channel` served stays where the one
jam sends it, its radio from `Tune` on and its display from `Show` on (`HopsAgree`).

**ConsoleProofs.** `ConsoleInv` types the histories and the channel as well
(`TrafficTyped`) and bounds the counters by the events (`CountersBounded`).
`ComposedText` and `KeysReachOutbound` (the messages of the keys = those taken by
`outbound_loop`, then those in the channel, then the one waiting) are inductive with
it. `ScreenIsOneSnapshot` needs `ReadIsOneSnapshot`: what `state_sync_loop` carries
from its read to its publication is of one version.

Left to TLC: liveness (`ImplementsChannel`'s fairness, `FloodsEnd`, `EventuallyShown`,
`AllReadersEnd`, `ChannelIsDrained`, `AlarmIsAnnounced`, `ConsoleSettles`): the
prover has no rule for ENABLED.

## 5. Plan

All modules of the plan are written, and every safety property that a run checks is
proved. What is left: a composition of `rx_loop` with the OLSR tables of every node, so
that `HasRoute` becomes a computed table. The state space of two nodes with tables,
channels and aging is beyond a run of a few minutes as the modules stand.

## 6. Not modelled

* Ciphers, signatures, hashes, key generation, byte layout and the encoding of
  messages: a check succeeds or fails. `build_frames` has no caller in the binary.
* The FEC coder and image buckets of several shards: library arithmetic, and the
  binary sends k = n = 1. The JPEG codec.
* `route_and_send`: no caller; its duplicate test is the one modelled.
* Messages that no program sends: Ack and SessionKeyRotation frames, which `rx_loop` would
  rebroadcast and count, and ChannelHop, whose handler is modelled as part of a JamAlert.
* `render.rs`: it draws what `AppState` holds and changes nothing.
* The jammer task of the console, which sends frames other nodes cannot verify; only
  its switch is modelled.
* Radio back ends other than the UDP one, argument parsing, demo traffic, mocks,
  diagnostic programs.
