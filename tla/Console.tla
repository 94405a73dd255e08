------------------------------ MODULE Console ------------------------------
(***************************************************************************)
(* One node's console: AppState (app state.rs), the key loop and the       *)
(* spoofer (bin tui_loop.rs), state_sync_loop and outbound_loop (bin       *)
(* loops.rs) and the handlers that only write the log (bin handlers.rs).   *)
(*                                                                         *)
(* The key loop awaits a place in the bounded outbound channel before it   *)
(* logs a key.  state_sync_loop copies the routing tables, then the        *)
(* target board and the counters, each under its own lock, and publishes   *)
(* them under the lock of AppState.  Tables are abstracted to a version    *)
(* number and to what the console asks of them; a log line to its origin.  *)
(***************************************************************************)
EXTENDS Naturals, Sequences, SequencesExt

CONSTANTS
    Keys,       \* characters on the keyboard
    LogCap,     \* 200
    OutCap,     \* 64
    MaxKeys,    \* bound: key presses
    MaxEvents   \* bound: changes made by the rest of the node

ASSUME ConsoleConstants ==
    /\ LogCap \in Nat \ {0} /\ OutCap \in Nat \ {0}
    /\ MaxKeys \in Nat /\ MaxEvents \in Nat

VARIABLES
    running,        \* tui_loop::run has not returned
    input_mode, input_buf, image, log, converged,  \* fields of AppState
    shown,          \* routing_table, neighbors (with topology_edges), targets, counters
    waiting,        \* the message the key loop waits to send, at most one
    out,            \* the outbound channel
    active,         \* spoofer, jammer and blackout flags
    olsr,           \* OlsrState: its version, is there a route
    board,          \* TargetBoard: its version, who the first target is assigned to
    counters,       \* the shared attack counters
    sync,           \* what state_sync_loop has read in this round
    typed,          \* history: what the user typed since compose mode began
    pressed,        \* history: messages of the keys pressed
    taken,          \* history: messages outbound_loop has taken
    presses, events

app     == <<input_mode, input_buf, image, log, converged, shown>>
sources == <<olsr, board, counters>>
history == <<typed, pressed, taken>>
vars    == <<running, app, waiting, out, active, sources, sync, history, presses, events>>

Flags    == {"s", "j", "b"}              \* spoofer, jammer, blackout
Nothing  == [at |-> "olsr"]
Message(key, dst) == [key |-> key, dst |-> dst]

\* AppState::new
Init ==
    /\ running = TRUE
    /\ input_mode = FALSE /\ input_buf = <<>>
    /\ image = "none" /\ log = <<>> /\ converged = FALSE
    /\ olsr = [ver |-> 0, routes |-> FALSE]
    /\ board = [ver |-> 0, owner |-> "nobody"]
    /\ counters = 0
    /\ shown = [routes |-> olsr, neighbors |-> 0, targets |-> board, counters |-> 0]
    /\ waiting = <<>> /\ out = <<>> /\ active = {}
    /\ sync = Nothing
    /\ typed = <<>> /\ pressed = <<>> /\ taken = <<>>
    /\ presses = 0 /\ events = 0

\* Deviation: the oldest line goes one line late.
PushLogLate(line) ==
    log' = Append(IF Len(log) > LogCap THEN Tail(log) ELSE log, line)

PushLog(line) ==
    log' = Append(IF Len(log) >= LogCap THEN Tail(log) ELSE log, line)

---------------------------------------------------------------------------
(* tui_loop::run: one key at a time, none while a message waits *)

Press ==
    /\ running /\ waiting = <<>>
    /\ presses < MaxKeys
    /\ presses' = presses + 1
    /\ UNCHANGED <<converged, shown, out, sources, sync, taken, events>>

\* out_tx.send(...).await begins.
Submit(m) ==
    /\ waiting' = <<m>>
    /\ pressed' = Append(pressed, m)

\* Compose mode.
TypeChar(c) ==
    /\ Press /\ input_mode
    /\ input_buf' = Append(input_buf, c)
    /\ typed' = Append(typed, c)
    /\ UNCHANGED <<running, input_mode, image, log, waiting, active, pressed>>

Backspace ==
    /\ Press /\ input_mode
    /\ input_buf' = IF input_buf = <<>> THEN <<>> ELSE Front(input_buf)
    /\ typed' = IF typed = <<>> THEN <<>> ELSE Front(typed)
    /\ UNCHANGED <<running, input_mode, image, log, waiting, active, pressed>>

\* Deviation: the text stays in the buffer.
EscapeKeepsText ==
    /\ Press /\ input_mode
    /\ input_mode' = FALSE
    /\ UNCHANGED <<running, input_buf, image, log, waiting, active, typed, pressed>>

Escape ==
    /\ Press /\ input_mode
    /\ input_mode' = FALSE
    /\ input_buf' = <<>>
    /\ UNCHANGED <<running, image, log, waiting, active, typed, pressed>>

\* The buffer is taken; blanks alone are not sent.
Enter ==
    /\ Press /\ input_mode
    /\ input_mode' = FALSE
    /\ input_buf' = <<>>
    /\ IF \E i \in DOMAIN input_buf : input_buf[i] # " "
       THEN Submit(Message(input_buf, "all"))
       ELSE UNCHANGED <<waiting, pressed>>
    /\ UNCHANGED <<running, image, log, active, typed>>

\* Command mode.
Quit ==
    /\ Press /\ ~input_mode
    /\ running' = FALSE
    /\ UNCHANGED <<input_mode, input_buf, image, log, waiting, active, typed, pressed>>

Compose ==
    /\ Press /\ ~input_mode
    /\ input_mode' = TRUE
    /\ typed' = <<>>
    /\ UNCHANGED <<running, input_buf, image, log, waiting, active, pressed>>

\* t, f, 1-9: a detection, a damage report or a state report for everybody.
BroadcastKey(c) ==
    /\ c \in {"t", "f", "1"}
    /\ Press /\ ~input_mode
    /\ Submit(Message(c, "all"))
    /\ UNCHANGED <<running, input_mode, input_buf, image, log, active, typed>>

\* i: the image of the first target, from the node it is assigned to.
ImageKey ==
    /\ Press /\ ~input_mode
    /\ IF board.owner = "self"
       THEN image' = "local" /\ PushLog("key") /\ UNCHANGED <<waiting, pressed>>
       ELSE /\ Submit(Message("i", IF board.owner = "nobody" THEN "all" ELSE "node"))
            /\ UNCHANGED <<image, log>>
    /\ UNCHANGED <<running, input_mode, input_buf, active, typed>>

\* s, j, b
ToggleKey(c) ==
    /\ c \in Flags
    /\ Press /\ ~input_mode
    /\ active' = IF c \in active THEN active \ {c} ELSE active \cup {c}
    /\ PushLog("key")
    /\ UNCHANGED <<running, input_mode, input_buf, image, waiting, typed, pressed>>

\* p shows the local image, o writes the size of the tables to the log.
LocalKey(c) ==
    /\ c \in {"p", "o"}
    /\ Press /\ ~input_mode
    /\ image' = IF c = "p" THEN "local" ELSE image
    /\ PushLog("key")
    /\ UNCHANGED <<running, input_mode, input_buf, waiting, active, typed, pressed>>

\* Deviation: try_send, so that a full channel loses the message.
SubmittedTry ==
    /\ running /\ waiting # <<>>
    /\ out' = IF Len(out) < OutCap THEN out \o waiting ELSE out
    /\ waiting' = <<>>
    /\ PushLog("key")
    /\ UNCHANGED <<running, input_mode, input_buf, image, converged, shown, active,
                   sources, sync, history, presses, events>>

\* The channel has a place: the message goes in and the key is logged.
Submitted ==
    /\ running /\ waiting # <<>>
    /\ Len(out) < OutCap
    /\ out' = out \o waiting
    /\ waiting' = <<>>
    /\ PushLog("key")
    /\ UNCHANGED <<running, input_mode, input_buf, image, converged, shown, active,
                   sources, sync, history, presses, events>>

---------------------------------------------------------------------------
(* outbound_loop *)

\* Deviation: a message without a route is kept until there is one.
OutboundWaits ==
    /\ running /\ out # <<>>
    /\ Head(out).dst = "all" \/ olsr.routes
    /\ taken' = Append(taken, Head(out))
    /\ out' = Tail(out)
    /\ UNCHANGED <<running, app, waiting, active, sources, sync, typed, pressed,
                   presses, events>>

\* A message is enqueued for sending; a unicast without a route is dropped.
Outbound ==
    /\ running /\ out # <<>>
    /\ taken' = Append(taken, Head(out))
    /\ out' = Tail(out)
    /\ UNCHANGED <<running, app, waiting, active, sources, sync, typed, pressed,
                   presses, events>>

---------------------------------------------------------------------------
(* state_sync_loop *)

\* One read lock for routes, neighbours and topology.
ReadOlsr ==
    /\ running /\ sync.at = "olsr"
    /\ sync' = [at |-> "note", routes |-> olsr, neighbors |-> olsr.ver]
    /\ UNCHANGED <<running, app, waiting, out, active, sources, history, presses, events>>

\* The first convergence: the routes just read are not empty.
NoteConvergence ==
    /\ running /\ sync.at = "note"
    /\ sync' = [at |-> "board", routes |-> sync.routes, neighbors |-> sync.neighbors]
    /\ converged' = IF sync.routes.routes THEN TRUE ELSE converged
    /\ UNCHANGED <<running, input_mode, input_buf, image, log, shown, waiting, out,
                   active, sources, history, presses, events>>

\* Deviation: the neighbours are read again, later than the routes.
ReadBoardAndNeighbors ==
    /\ running /\ sync.at = "board"
    /\ sync' = [at |-> "publish", routes |-> sync.routes, neighbors |-> olsr.ver,
                targets |-> board, counters |-> counters]
    /\ UNCHANGED <<running, app, waiting, out, active, sources, history, presses, events>>

\* The targets under the board's lock, then the atomic counters.
ReadBoard ==
    /\ running /\ sync.at = "board"
    /\ sync' = [at |-> "publish", routes |-> sync.routes, neighbors |-> sync.neighbors,
                targets |-> board, counters |-> counters]
    /\ UNCHANGED <<running, app, waiting, out, active, sources, history, presses, events>>

Publish ==
    /\ running /\ sync.at = "publish"
    /\ shown' = [routes |-> sync.routes, neighbors |-> sync.neighbors,
                 targets |-> sync.targets, counters |-> sync.counters]
    /\ sync' = Nothing
    /\ UNCHANGED <<running, input_mode, input_buf, image, log, converged, waiting, out,
                   active, sources, history, presses, events>>
---------------------------------------------------------------------------
(* The rest of the node *)

Event ==
    /\ running
    /\ events < MaxEvents
    /\ events' = events + 1
    /\ UNCHANGED <<running, input_mode, input_buf, image, converged, shown, waiting, out,
                   active, sync, history, presses>>

\* OLSR recomputes its tables; rx_loop merges into the board; rx_loop, or the
\* spoofer for each frame it sends, counts; handle_chat, handle_mayday and
\* handle_state_report write the log.
OlsrChange ==
    /\ Event
    /\ \E r \in BOOLEAN : olsr' = [ver |-> olsr.ver + 1, routes |-> r]
    /\ UNCHANGED <<log, board, counters>>

BoardChange ==
    /\ Event
    /\ \E o \in {"nobody", "self", "other"} : board' = [ver |-> board.ver + 1, owner |-> o]
    /\ UNCHANGED <<log, olsr, counters>>

FrameRejected ==
    /\ Event
    /\ counters' = counters + 1
    /\ UNCHANGED <<log, olsr, board>>

Spoof ==
    /\ "s" \in active
    /\ Event
    /\ counters' = counters + 1
    /\ UNCHANGED <<log, olsr, board>>

LogHandler ==
    /\ Event
    /\ PushLog("net")
    /\ UNCHANGED sources

---------------------------------------------------------------------------
KeyPress ==
    \/ Backspace \/ Escape \/ Enter \/ Quit \/ Compose \/ ImageKey
    \/ \E c \in Keys : TypeChar(c) \/ BroadcastKey(c) \/ ToggleKey(c) \/ LocalKey(c)

SyncStep == ReadOlsr \/ NoteConvergence \/ ReadBoard \/ Publish

Next ==
    \/ KeyPress \/ Submitted \/ Outbound \/ SyncStep
    \/ OlsrChange \/ BoardChange \/ FrameRejected \/ Spoof \/ LogHandler

\* The tasks run; the user and the network need do nothing.
Fairness == WF_vars(Submitted) /\ WF_vars(Outbound) /\ WF_vars(SyncStep)

Spec == Init /\ [][Next]_vars /\ Fairness

---------------------------------------------------------------------------
(* Properties *)

\* The log and the outbound channel stay within their capacities; the rest
\* keeps its shape.
TypeOK ==
    /\ running \in BOOLEAN /\ input_mode \in BOOLEAN /\ converged \in BOOLEAN
    /\ input_buf \in Seq(Keys)
    /\ image \in {"none", "local"}
    /\ log \in Seq({"key", "net"}) /\ Len(log) <= LogCap
    /\ Len(out) <= OutCap /\ Len(waiting) <= 1
    /\ active \subseteq Flags
    /\ counters \in 0 .. MaxEvents
    /\ sync.at \in {"olsr", "note", "board", "publish"}

\* What is composed is what was typed since `/`: nothing of an earlier text,
\* sent or cancelled, is left in the buffer (run, input_mode).
ComposedIsTyped ==
    IF input_mode THEN input_buf = typed ELSE input_buf = <<>>

\* The messages of the keys reach outbound_loop in the order of the keys and
\* none is lost, however often the channel is full.
OutboundKeepsKeys == pressed = taken \o out \o waiting

\* Routes and neighbours on the screen are of one moment, although OLSR goes
\* on between the reads, and routes are never shown before convergence is.
TablesAreOneSnapshot ==
    /\ shown.routes.ver = shown.neighbors
    /\ shown.routes.routes => converged

\* When the node comes to rest the screen shows its tables, board and counters,
\* and every key press is finished: outbound_loop has made room for its message
\* and taken it, also when it had to drop messages for want of a route.
ConsoleSettles ==
    <>[](running => /\ waiting = <<>> /\ out = <<>>
                    /\ shown = [routes |-> olsr, neighbors |-> olsr.ver,
                                targets |-> board, counters |-> counters])
============================================================================
