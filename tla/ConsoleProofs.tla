--------------------------- MODULE ConsoleProofs ---------------------------
(***************************************************************************)
(* Proofs about Console for any keyboard, capacities and number of key     *)
(* presses and events: types, the compose buffer, the way of the keys'     *)
(* messages to outbound_loop, and what the screen shows of the tables.     *)
(***************************************************************************)
EXTENDS Console, SequenceTheorems, TLAPS

Messages == [key : Keys \cup Seq(Keys) \cup {"i"}, dst : {"all", "node"}]

\* The histories and the channel hold typed text and messages of keys.
TrafficTyped ==
    /\ typed \in Seq(Keys)
    /\ pressed \in Seq(Messages) /\ taken \in Seq(Messages)
    /\ out \in Seq(Messages) /\ waiting \in Seq(Messages)

\* Each increment of the counters is one of the bounded events.
CountersBounded == events \in 0 .. MaxEvents /\ counters <= events

ConsoleInv == TypeOK /\ TrafficTyped /\ CountersBounded

---------------------------------------------------------------------------
(* Types *)

\* push_log keeps the log within its capacity.
LEMMA PushLogBounded ==
    ASSUME ConsoleConstants, TypeOK, NEW line \in {"key", "net"}, PushLog(line)
    PROVE  log' \in Seq({"key", "net"}) /\ Len(log') <= LogCap
  <1> DEFINE kept == IF Len(log) >= LogCap THEN Tail(log) ELSE log
  <1>1. /\ log \in Seq({"key", "net"}) /\ Len(log) \in Nat
        /\ Len(log) <= LogCap /\ LogCap \in Nat \ {0}
    BY DEF TypeOK, ConsoleConstants
  <1>2. kept \in Seq({"key", "net"}) /\ Len(kept) + 1 <= LogCap
    <2>1. CASE Len(log) >= LogCap
      <3>1. log # <<>>
        BY <1>1, <2>1
      <3>2. Tail(log) \in Seq({"key", "net"}) /\ Len(Tail(log)) = Len(log) - 1
        BY <1>1, <3>1, HeadTailProperties
      <3> QED
        BY <1>1, <2>1, <3>2
    <2>2. CASE ~(Len(log) >= LogCap)
      BY <1>1, <2>2
    <2> QED
      BY <2>1, <2>2
  <1>3. log' = Append(kept, line)
    BY DEF PushLog
  <1> HIDE DEF kept
  <1> QED
    BY <1>2, <1>3

\* Backspace removes the last character, if any.
LEMMA FrontTyped ==
    ASSUME NEW S, NEW s \in Seq(S)
    PROVE  (IF s = <<>> THEN <<>> ELSE Front(s)) \in Seq(S)
  <1>1. CASE s = <<>>
    BY <1>1
  <1>2. CASE s # <<>>
    <2>1. Front(s) \in Seq(S)
      BY SubSeqProperties DEF Front
    <2> QED
      BY <1>2, <2>1
  <1> QED
    BY <1>1, <1>2

\* A message handed to out_tx.send is one the key loop may wait with.
LEMMA SubmitTyped ==
    ASSUME TrafficTyped, \E m \in Messages : Submit(m)
    PROVE  /\ waiting' \in Seq(Messages) /\ Len(waiting') <= 1
           /\ pressed' \in Seq(Messages)
  BY DEF TrafficTyped, Submit

\* The keys of compose mode.
LEMMA ComposeKeysTyped ==
    ASSUME ConsoleConstants, ConsoleInv,
           (\E c \in Keys : TypeChar(c)) \/ Backspace \/ Escape \/ Enter
    PROVE  ConsoleInv'
  <1> USE DEF ConsoleInv, TypeOK, TrafficTyped, CountersBounded, Press, sources, history
  <1>0. <<>> \in Seq(Keys)
    BY EmptySeq
  <1>1. ASSUME NEW c \in Keys, TypeChar(c) PROVE ConsoleInv'
    BY <1>1 DEF TypeChar
  <1>2. CASE Backspace
    <2>1. input_buf' \in Seq(Keys) /\ typed' \in Seq(Keys)
      BY <1>2, FrontTyped DEF Backspace
    <2> QED
      BY <1>2, <2>1 DEF Backspace
  <1>3. CASE Escape
    BY <1>0, <1>3 DEF Escape
  <1>4. CASE Enter
    <2>1. Message(input_buf, "all") \in Messages
      BY DEF Message, Messages
    <2>2. /\ waiting' \in Seq(Messages) /\ Len(waiting') <= 1
          /\ pressed' \in Seq(Messages)
      <3>1. CASE UNCHANGED <<waiting, pressed>>
        BY <3>1
      <3>2. CASE Submit(Message(input_buf, "all"))
        <4>1. \E m \in Messages : Submit(m)
          BY <2>1, <3>2
        <4> QED
          BY <4>1, SubmitTyped
      <3> QED
        BY <1>4, <3>1, <3>2 DEF Enter
    <2>3. input_buf' \in Seq(Keys)
      BY <1>0, <1>4 DEF Enter
    <2> QED
      BY <1>4, <2>2, <2>3 DEF Enter
  <1> QED
    BY <1>1, <1>2, <1>3, <1>4

\* The keys of command mode.
LEMMA CommandKeysTyped ==
    ASSUME ConsoleConstants, ConsoleInv,
           \/ Quit \/ Compose \/ ImageKey
           \/ \E c \in Keys : BroadcastKey(c) \/ ToggleKey(c) \/ LocalKey(c)
    PROVE  ConsoleInv'
  <1> USE DEF ConsoleInv, TypeOK, TrafficTyped, CountersBounded, Press, sources, history
  <1>1. CASE Quit
    BY <1>1 DEF Quit
  <1>2. CASE Compose
    <2>1. <<>> \in Seq(Keys)
      BY EmptySeq
    <2> QED
      BY <1>2, <2>1 DEF Compose
  <1>3. CASE ImageKey
    <2>1. CASE board.owner = "self"
      <3>1. log' \in Seq({"key", "net"}) /\ Len(log') <= LogCap
        BY <1>3, <2>1, PushLogBounded DEF ImageKey
      <3> QED
        BY <1>3, <2>1, <3>1 DEF ImageKey
    <2>2. CASE board.owner # "self"
      <3>1. \A d \in {"all", "node"} : Message("i", d) \in Messages
        BY DEF Message, Messages
      <3>2. \E m \in Messages : Submit(m)
        BY <1>3, <2>2, <3>1 DEF ImageKey
      <3>3. /\ waiting' \in Seq(Messages) /\ Len(waiting') <= 1
            /\ pressed' \in Seq(Messages)
        BY <3>2, SubmitTyped
      <3> QED
        BY <1>3, <2>2, <3>3 DEF ImageKey
    <2> QED
      BY <2>1, <2>2
  <1>4. ASSUME NEW c \in Keys, BroadcastKey(c) PROVE ConsoleInv'
    <2>1. Message(c, "all") \in Messages
      BY DEF Message, Messages
    <2>2. \E m \in Messages : Submit(m)
      BY <1>4, <2>1 DEF BroadcastKey
    <2>3. /\ waiting' \in Seq(Messages) /\ Len(waiting') <= 1
          /\ pressed' \in Seq(Messages)
      BY <2>2, SubmitTyped
    <2> QED
      BY <1>4, <2>3 DEF BroadcastKey
  <1>5. ASSUME NEW c \in Keys, ToggleKey(c) PROVE ConsoleInv'
    <2>1. log' \in Seq({"key", "net"}) /\ Len(log') <= LogCap
      BY <1>5, PushLogBounded DEF ToggleKey
    <2>2. active' \subseteq Flags
      BY <1>5 DEF ToggleKey
    <2> QED
      BY <1>5, <2>1, <2>2 DEF ToggleKey
  <1>6. ASSUME NEW c \in Keys, LocalKey(c) PROVE ConsoleInv'
    <2>1. log' \in Seq({"key", "net"}) /\ Len(log') <= LogCap
      BY <1>6, PushLogBounded DEF LocalKey
    <2>2. image' \in {"none", "local"}
      BY <1>6 DEF LocalKey
    <2> QED
      BY <1>6, <2>1, <2>2 DEF LocalKey
  <1> QED
    BY <1>1, <1>2, <1>3, <1>4, <1>5, <1>6

\* The steps of the tasks: the send that completes, outbound_loop, state_sync_loop.
LEMMA TasksTyped ==
    ASSUME ConsoleConstants, ConsoleInv, Submitted \/ Outbound \/ SyncStep
    PROVE  ConsoleInv'
  <1> USE DEF ConsoleInv, TypeOK, TrafficTyped, CountersBounded, app, sources, history
  <1>1. CASE Submitted
    <2>1. log' \in Seq({"key", "net"}) /\ Len(log') <= LogCap
      BY <1>1, PushLogBounded DEF Submitted
    <2>2. out' \in Seq(Messages) /\ Len(out') = Len(out) + Len(waiting)
      BY <1>1, ConcatProperties DEF Submitted
    <2>3. Len(out') <= OutCap
      BY <1>1, <2>2 DEF Submitted, ConsoleConstants
    <2>4. waiting' \in Seq(Messages) /\ Len(waiting') <= 1
      BY <1>1 DEF Submitted
    <2> QED
      BY <1>1, <2>1, <2>2, <2>3, <2>4 DEF Submitted
  <1>2. CASE Outbound
    <2>1. /\ Head(out) \in Messages /\ Tail(out) \in Seq(Messages)
          /\ Len(Tail(out)) = Len(out) - 1
      BY <1>2, HeadTailProperties DEF Outbound
    <2>2. Len(out') <= OutCap
      BY <1>2, <2>1 DEF Outbound, ConsoleConstants
    <2>3. out' \in Seq(Messages) /\ taken' \in Seq(Messages)
      BY <1>2, <2>1 DEF Outbound
    <2> QED
      BY <1>2, <2>2, <2>3 DEF Outbound
  <1>3. CASE ReadOlsr \/ NoteConvergence
    <2>1. converged' = TRUE \/ converged' = converged
      BY <1>3 DEF ReadOlsr, NoteConvergence
    <2>2. sync'.at \in {"note", "board"}
      <3>1. CASE ReadOlsr
        <4>1. sync' = [at |-> "note", routes |-> olsr, neighbors |-> olsr.ver]
          BY <3>1 DEF ReadOlsr
        <4> QED
          BY <4>1
      <3>2. CASE NoteConvergence
        <4>1. sync' = [at |-> "board", routes |-> sync.routes,
                       neighbors |-> sync.neighbors]
          BY <3>2 DEF NoteConvergence
        <4> QED
          BY <4>1
      <3> QED
        BY <1>3, <3>1, <3>2
    <2> QED
      BY <1>3, <2>1, <2>2 DEF ReadOlsr, NoteConvergence
  <1>4. CASE ReadBoard
    BY <1>4 DEF ReadBoard
  <1>5. CASE Publish
    BY <1>5 DEF Publish, Nothing
  <1> QED
    BY <1>1, <1>2, <1>3, <1>4, <1>5 DEF SyncStep

\* What the rest of the node does to the console's sources.
LEMMA EventsTyped ==
    ASSUME ConsoleConstants, ConsoleInv,
           OlsrChange \/ BoardChange \/ FrameRejected \/ Spoof \/ LogHandler
    PROVE  ConsoleInv'
  <1> USE DEF ConsoleInv, TypeOK, TrafficTyped, CountersBounded, Event, sources, history
  <1>1. CASE OlsrChange \/ BoardChange
    BY <1>1 DEF OlsrChange, BoardChange, ConsoleConstants
  <1>2. CASE FrameRejected \/ Spoof
    BY <1>2 DEF FrameRejected, Spoof, ConsoleConstants
  <1>3. CASE LogHandler
    <2>1. log' \in Seq({"key", "net"}) /\ Len(log') <= LogCap
      BY <1>3, PushLogBounded DEF LogHandler
    <2> QED
      BY <1>3, <2>1 DEF LogHandler, ConsoleConstants
  <1> QED
    BY <1>1, <1>2, <1>3

\* Types, channel contents and counters are kept by every step.
THEOREM ConsoleInvariant == Spec => []ConsoleInv
  <1>1. Init => ConsoleInv
    <2> SUFFICES ASSUME Init PROVE ConsoleInv
      OBVIOUS
    <2>1. \A S : <<>> \in Seq(S) /\ Len(<<>>) = 0
      BY EmptySeq
    <2>2. TrafficTyped
      BY <2>1 DEF Init, TrafficTyped
    <2>3. input_buf \in Seq(Keys) /\ log \in Seq({"key", "net"})
      BY <2>1 DEF Init
    <2>4. Len(log) <= LogCap /\ Len(out) <= OutCap /\ Len(waiting) <= 1
      BY <2>1, ConsoleConstants DEF Init, ConsoleConstants
    <2>5. counters \in 0 .. MaxEvents /\ CountersBounded
      BY ConsoleConstants DEF Init, CountersBounded, ConsoleConstants
    <2> QED
      BY <2>2, <2>3, <2>4, <2>5 DEF Init, ConsoleInv, TypeOK, Nothing
  <1>2. ConsoleInv /\ [Next]_vars => ConsoleInv'
    <2> SUFFICES ASSUME ConsoleInv, [Next]_vars PROVE ConsoleInv'
      OBVIOUS
    <2> USE ConsoleConstants
    <2>1. CASE KeyPress
      BY <2>1, ComposeKeysTyped, CommandKeysTyped DEF KeyPress
    <2>2. CASE Submitted \/ Outbound \/ SyncStep
      BY <2>2, TasksTyped
    <2>3. CASE OlsrChange \/ BoardChange \/ FrameRejected \/ Spoof \/ LogHandler
      BY <2>3, EventsTyped
    <2>4. CASE UNCHANGED vars
      BY <2>4 DEF vars, ConsoleInv, TypeOK, TrafficTyped, CountersBounded,
                  app, sources, history
    <2> QED
      BY <2>1, <2>2, <2>3, <2>4 DEF Next
  <1> QED
    BY <1>1, <1>2, PTL DEF Spec

\* The log and the outbound channel never exceed their capacities.
THEOREM TypeCorrect == Spec => []TypeOK
  <1>1. ConsoleInv => TypeOK
    BY DEF ConsoleInv
  <1> QED
    BY <1>1, ConsoleInvariant, PTL

---------------------------------------------------------------------------
(* The compose buffer *)

\* The buffer is what was typed since compose mode began, and empty outside it:
\* every way out of compose mode clears it.
THEOREM ComposedText == Spec => []ComposedIsTyped
  <1>1. Init => ComposedIsTyped
    BY DEF Init, ComposedIsTyped
  <1>2. ComposedIsTyped /\ [Next]_vars => ComposedIsTyped'
    <2> SUFFICES ASSUME ComposedIsTyped, [Next]_vars PROVE ComposedIsTyped'
      OBVIOUS
    <2> USE DEF ComposedIsTyped
    <2>1. CASE \E c \in Keys : TypeChar(c)
      BY <2>1 DEF TypeChar
    <2>2. CASE Backspace
      BY <2>2 DEF Backspace
    <2>3. CASE Escape \/ Enter
      BY <2>3 DEF Escape, Enter
    <2>4. CASE Compose
      BY <2>4 DEF Compose
    <2>5. CASE UNCHANGED <<input_mode, input_buf, typed>>
      BY <2>5
    <2> QED
      BY <2>1, <2>2, <2>3, <2>4, <2>5
      DEF Next, KeyPress, SyncStep, Quit, ImageKey, BroadcastKey, ToggleKey, LocalKey,
          Submitted, Outbound, ReadOlsr, NoteConvergence, ReadBoard, Publish, Event,
          OlsrChange, BoardChange, FrameRejected, Spoof, LogHandler, vars, app, history
  <1> QED
    BY <1>1, <1>2, PTL DEF Spec

---------------------------------------------------------------------------
(* The way of the keys' messages *)

\* Moving the head of the second sequence to the end of the first.
LEMMA MoveHead ==
    ASSUME NEW S, NEW s \in Seq(S), NEW t \in Seq(S), t # <<>>
    PROVE  Append(s, Head(t)) \o Tail(t) = s \o t
  <1>1. Head(t) \in S /\ Tail(t) \in Seq(S) /\ <<Head(t)>> \in Seq(S)
    BY HeadTailProperties
  <1>2. t = <<Head(t)>> \o Tail(t)
    OBVIOUS
  <1>3. Append(s, Head(t)) = s \o <<Head(t)>>
    BY <1>1
  <1> QED
    BY <1>1, <1>2, <1>3, ConcatAssociative

\* A message waits, is in the channel or has been taken: none is lost, doubled
\* or overtaken, however full the channel is.
THEOREM KeysReachOutbound == Spec => []OutboundKeepsKeys
  <1>1. Init => OutboundKeepsKeys
    <2>1. <<>> = <<>> \o <<>> \o <<>>
      OBVIOUS
    <2> QED
      BY <2>1 DEF Init, OutboundKeepsKeys
  <1>2. ConsoleInv /\ OutboundKeepsKeys /\ [Next]_vars => OutboundKeepsKeys'
    <2> SUFFICES ASSUME ConsoleInv, OutboundKeepsKeys, [Next]_vars
                 PROVE  OutboundKeepsKeys'
      OBVIOUS
    <2>1. /\ taken \in Seq(Messages) /\ out \in Seq(Messages)
          /\ waiting \in Seq(Messages) /\ taken \o out \in Seq(Messages)
      BY ConcatProperties DEF ConsoleInv, TrafficTyped
    <2>2. ASSUME NEW m, Submit(m), Press PROVE OutboundKeepsKeys'
      <3>1. /\ waiting = <<>> /\ waiting' = <<m>>
            /\ taken' = taken /\ out' = out
            /\ pressed' = Append(pressed, m)
        BY <2>2 DEF Press, Submit
      <3>2. pressed = taken \o out
        BY <2>1, <3>1, ConcatEmptySeq DEF OutboundKeepsKeys
      <3>3. Append(taken \o out, m) = (taken \o out) \o <<m>>
        BY <2>1
      <3> QED
        BY <3>1, <3>2, <3>3 DEF OutboundKeepsKeys
    <2>3. CASE Submitted
      <3>1. /\ out' = out \o waiting /\ waiting' = <<>>
            /\ taken' = taken /\ pressed' = pressed
        BY <2>3 DEF Submitted, history
      <3>2. taken \o (out \o waiting) = taken \o out \o waiting
        BY <2>1, ConcatAssociative
      <3>3. taken \o (out \o waiting) \o <<>> = taken \o (out \o waiting)
        BY <2>1, <3>2, ConcatProperties, ConcatEmptySeq
      <3> QED
        BY <3>1, <3>2, <3>3 DEF OutboundKeepsKeys
    <2>4. CASE Outbound
      <3>1. /\ taken' = Append(taken, Head(out)) /\ out' = Tail(out) /\ out # <<>>
            /\ waiting' = waiting /\ pressed' = pressed
        BY <2>4 DEF Outbound
      <3>2. Append(taken, Head(out)) \o Tail(out) = taken \o out
        BY <2>1, <3>1, MoveHead
      <3> QED
        BY <3>1, <3>2 DEF OutboundKeepsKeys
    <2>5. CASE UNCHANGED <<pressed, taken, out, waiting>>
      BY <2>5 DEF OutboundKeepsKeys
    <2>6. ASSUME NEW c \in Keys, TypeChar(c) \/ BroadcastKey(c) \/ ToggleKey(c) \/ LocalKey(c)
          PROVE  OutboundKeepsKeys'
      <3>1. CASE BroadcastKey(c)
        BY <2>2, <3>1 DEF BroadcastKey
      <3> QED
        BY <2>5, <2>6, <3>1 DEF TypeChar, ToggleKey, LocalKey, Press
    <2>7. CASE Enter \/ ImageKey
      BY <2>2, <2>5, <2>7 DEF Enter, ImageKey, Press
    <2>8. CASE Backspace \/ Escape \/ Quit \/ Compose
      BY <2>5, <2>8 DEF Backspace, Escape, Quit, Compose, Press
    <2>9. CASE SyncStep \/ OlsrChange \/ BoardChange \/ FrameRejected \/ Spoof \/ LogHandler
      BY <2>5, <2>9
      DEF SyncStep, ReadOlsr, NoteConvergence, ReadBoard, Publish, Event, OlsrChange,
          BoardChange, FrameRejected, Spoof, LogHandler, history
    <2>10. CASE UNCHANGED vars
      BY <2>5, <2>10 DEF vars, history
    <2> QED
      BY <2>3, <2>4, <2>6, <2>7, <2>8, <2>9, <2>10 DEF Next, KeyPress
  <1> QED
    BY <1>1, <1>2, ConsoleInvariant, PTL DEF Spec

---------------------------------------------------------------------------
(* What the screen shows *)

\* What state_sync_loop carries from its first read to its publication.
ReadIsOneSnapshot ==
    /\ sync.at \in {"note", "board", "publish"} => sync.routes.ver = sync.neighbors
    /\ sync.at \in {"board", "publish"} /\ sync.routes.routes => converged

\* The screen's routes and neighbours come from one read of the OLSR tables,
\* whatever OLSR does until they are published, and convergence is noted no
\* later than a route is shown.
THEOREM ScreenIsOneSnapshot == Spec => []TablesAreOneSnapshot
  <1>1. Init => TablesAreOneSnapshot /\ ReadIsOneSnapshot
    BY DEF Init, TablesAreOneSnapshot, ReadIsOneSnapshot, Nothing
  <1>2. TablesAreOneSnapshot /\ ReadIsOneSnapshot /\ [Next]_vars
            => TablesAreOneSnapshot' /\ ReadIsOneSnapshot'
    <2> SUFFICES ASSUME TablesAreOneSnapshot, ReadIsOneSnapshot, [Next]_vars
                 PROVE  TablesAreOneSnapshot' /\ ReadIsOneSnapshot'
      OBVIOUS
    <2> USE DEF TablesAreOneSnapshot, ReadIsOneSnapshot
    <2>1. CASE ReadOlsr
      BY <2>1 DEF ReadOlsr, app
    <2>n. CASE NoteConvergence
      BY <2>n DEF NoteConvergence
    <2>2. CASE ReadBoard
      BY <2>2 DEF ReadBoard, app
    <2>3. CASE Publish
      BY <2>3 DEF Publish, Nothing
    <2>4. CASE UNCHANGED <<shown, converged, sync>>
      BY <2>4
    <2> HIDE DEF TablesAreOneSnapshot, ReadIsOneSnapshot
    <2>5. CASE KeyPress
      BY <2>4, <2>5 DEF KeyPress, Backspace, Escape, Enter, Quit, Compose, ImageKey,
          TypeChar, BroadcastKey, ToggleKey, LocalKey, Press
    <2> QED
      BY <2>1, <2>n, <2>2, <2>3, <2>4, <2>5
      DEF Next, SyncStep, Submitted, Outbound, Event, OlsrChange,
          BoardChange, FrameRejected, Spoof, LogHandler, vars, app
  <1> QED
    BY <1>1, <1>2, PTL DEF Spec
============================================================================
