---------------------------- MODULE TargetBoard ----------------------------
(***************************************************************************)
(* The replicated target board (app crdt.rs) and the message handlers that *)
(* update it (bin handlers.rs).  Each node keeps its own copy; a copy only *)
(* changes when the node handles a message, boards are never exchanged.    *)
(* rx_loop spawns one task per Data frame, so the handlers of two frames   *)
(* interleave: handle_bda and handle_command first read the position under *)
(* the read lock and later merge under the write lock.                     *)
(*                                                                         *)
(* Entries of different targets never influence each other, so the module  *)
(* follows one target id.  Kind, latitude and longitude always travel      *)
(* together and are abstracted to one value, `info`.                       *)
(***************************************************************************)
EXTENDS Naturals, Sequences

CONSTANTS
    Nodes,        \* nodes whose boards are followed
    Origins,      \* node ids that originate messages
    Infos,        \* positions and kinds detections may report
    UnknownInfo,  \* (0.0, 0.0, TargetKind::Unknown)
    Results,      \* BdaResult values in use
    Ops,          \* CommandOp values in use
    NoNode,       \* assigned_to = None
    MaxMsgs,      \* bound: messages originated
    MaxClock,     \* bound: largest reading of a clock
    MaxRestarts   \* bound: reboots

BdaState == [Destroyed |-> 4, Damaged |-> 2, Miss |-> 2]

CommandState == [Engage |-> 2, Abort |-> 3, Reassign |-> 1]

ASSUME BoardConstants ==
    /\ UnknownInfo \notin Infos
    /\ NoNode \notin Origins
    /\ Results \subseteq {"Destroyed", "Damaged", "Miss"}
    /\ Ops \subseteq {"Engage", "Abort", "Reassign"}
    /\ MaxMsgs \in Nat /\ MaxClock \in Nat /\ MaxRestarts \in Nat

VARIABLES
    msgs,      \* messages originated so far, in order
    board,     \* board[n]: a sequence of at most one entry
    task,      \* task[n][i]: progress of node n with message i
    noted,     \* noted[n][i]: the info that task has read
    merged,    \* history: entries passed to merge since n started
    restarts   \* reboots so far

vars == <<msgs, board, task, noted, merged, restarts>>

\* TargetState in its derived order, Detected .. Destroyed.
TargetStates == 0 .. 4

Entries == [state : TargetStates, at : Nat,
            info : Infos \cup {UnknownInfo}, assigned : Origins \cup {NoNode}]

Messages ==
    [kind : {"TargetDetection"}, src : Origins, at : Nat, arg : Infos]
    \cup [kind : {"Bda"}, src : Origins, at : Nat, arg : Results]
    \cup [kind : {"Command"}, src : Origins, at : Nat, arg : Ops]

MsgIds == 1 .. MaxMsgs

NoTasks == [i \in MsgIds |-> "absent"]

NothingNoted == [i \in MsgIds |-> UnknownInfo]

Init ==
    /\ msgs = <<>>
    /\ board = [n \in Nodes |-> <<>>]
    /\ task = [n \in Nodes |-> NoTasks]
    /\ noted = [n \in Nodes |-> NothingNoted]
    /\ merged = [n \in Nodes |-> {}]
    /\ restarts = 0

---------------------------------------------------------------------------
(* merge *)

\* Deviation: the latest timestamp wins whatever the state.
SupersedesByTime(new, old) == new.at > old.at

\* A higher state wins; within a state the later timestamp wins.
Supersedes(new, old) ==
    new.state > old.state \/ (new.state = old.state /\ new.at > old.at)

\* Deviation: a superseding entry is added next to the old one.
MergeIntoKeepsBoth(b, u) ==
    IF b = <<>> \/ Supersedes(u, b[1]) THEN <<u>> \o b ELSE b

\* TargetBoard::merge for one target id.
MergeInto(b, u) == IF b = <<>> \/ Supersedes(u, b[1]) THEN <<u>> ELSE b

\* merge(update) on node n, by the task for message i, which then ends.
Merge(n, i, u) ==
    /\ board' = [board EXCEPT ![n] = MergeInto(@, u)]
    /\ merged' = [merged EXCEPT ![n] = @ \cup {u}]
    /\ task' = [task EXCEPT ![n][i] = "done"]

---------------------------------------------------------------------------
(* Messages come into being and reach nodes, or not *)

\* now_ms: every node reads its own system clock.  The clocks do not agree and
\* may be set, so any reading may follow any other.
Readings == 0 .. MaxClock

\* The originator stamps the message and broadcasts it; it does not merge it
\* into its own board.
Originate(m) ==
    /\ Len(msgs) < MaxMsgs
    /\ msgs' = Append(msgs, m)
    /\ UNCHANGED <<board, task, noted, merged, restarts>>

SendTargetDetection ==
    \E s \in Origins, t \in Readings, x \in Infos :
        Originate([kind |-> "TargetDetection", src |-> s, at |-> t, arg |-> x])

SendBda ==
    \E s \in Origins, t \in Readings, r \in Results :
        Originate([kind |-> "Bda", src |-> s, at |-> t, arg |-> r])

SendCommand ==
    \E s \in Origins, t \in Readings, o \in Ops :
        Originate([kind |-> "Command", src |-> s, at |-> t, arg |-> o])

\* rx_loop: a Data frame of another node starts a handler task.
RxData(n, i) ==
    /\ i <= Len(msgs)
    /\ msgs[i].src # n
    /\ task[n][i] = "absent"
    /\ task' = [task EXCEPT ![n][i] = "spawned"]
    /\ UNCHANGED <<msgs, board, noted, merged, restarts>>

---------------------------------------------------------------------------
(* Handlers *)

HandleTargetDetection(n, i) ==
    /\ task[n][i] = "spawned"
    /\ msgs[i].kind = "TargetDetection"
    /\ Merge(n, i, [state |-> 0, at |-> msgs[i].at, info |-> msgs[i].arg,
                    assigned |-> msgs[i].src])
    /\ UNCHANGED <<msgs, noted, restarts>>

\* First half of handle_bda and handle_command: read lock, then released.
ReadInfo(n, i) ==
    /\ task[n][i] = "spawned"
    /\ msgs[i].kind \in {"Bda", "Command"}
    /\ noted' = [noted EXCEPT ![n][i] =
           IF board[n] = <<>> THEN UnknownInfo ELSE board[n][1].info]
    /\ task' = [task EXCEPT ![n][i] = "read"]
    /\ UNCHANGED <<msgs, board, merged, restarts>>

\* Deviation: the assessment is stamped with the time of its handling.
MergeBdaStampsLocally(n, i) ==
    /\ task[n][i] = "read"
    /\ msgs[i].kind = "Bda"
    /\ \E t \in Readings :
           Merge(n, i, [state |-> BdaState[msgs[i].arg], at |-> t,
                        info |-> noted[n][i], assigned |-> NoNode])
    /\ UNCHANGED <<msgs, noted, restarts>>

\* Deviation: an assessment carries no position and none is kept.
MergeBdaWithoutInfo(n, i) ==
    /\ task[n][i] = "read"
    /\ msgs[i].kind = "Bda"
    /\ Merge(n, i, [state |-> BdaState[msgs[i].arg], at |-> msgs[i].at,
                    info |-> UnknownInfo, assigned |-> NoNode])
    /\ UNCHANGED <<msgs, noted, restarts>>

\* Second half of handle_bda: merge under the write lock.
MergeBda(n, i) ==
    /\ task[n][i] = "read"
    /\ msgs[i].kind = "Bda"
    /\ Merge(n, i, [state |-> BdaState[msgs[i].arg], at |-> msgs[i].at,
                    info |-> noted[n][i], assigned |-> NoNode])
    /\ UNCHANGED <<msgs, noted, restarts>>

\* Second half of handle_command: stamped with the handling node's clock.
MergeCommand(n, i) ==
    /\ task[n][i] = "read"
    /\ msgs[i].kind = "Command"
    /\ \E t \in Readings :
           Merge(n, i, [state |-> CommandState[msgs[i].arg], at |-> t,
                        info |-> noted[n][i],
                        assigned |-> IF msgs[i].arg = "Reassign"
                                     THEN msgs[i].src ELSE NoNode])
    /\ UNCHANGED <<msgs, noted, restarts>>

\* The board and the running tasks live in memory only.
Restart(n) ==
    /\ restarts < MaxRestarts
    /\ restarts' = restarts + 1
    /\ board' = [board EXCEPT ![n] = <<>>]
    /\ merged' = [merged EXCEPT ![n] = {}]
    /\ task' = [task EXCEPT ![n] = NoTasks]
    /\ noted' = [noted EXCEPT ![n] = NothingNoted]
    /\ UNCHANGED msgs

NodeStep(n) ==
    \/ Restart(n)
    \/ \E i \in MsgIds :
           \/ RxData(n, i)
           \/ HandleTargetDetection(n, i)
           \/ ReadInfo(n, i)
           \/ MergeBda(n, i)
           \/ MergeCommand(n, i)

Next ==
    \/ SendTargetDetection
    \/ SendBda
    \/ SendCommand
    \/ \E n \in Nodes : NodeStep(n)

Spec == Init /\ [][Next]_vars

---------------------------------------------------------------------------
(* Properties *)

\* Every variable keeps the shape of the code's data; the map holds at most
\* one entry per target id.
TypeOK ==
    /\ msgs \in Seq(Messages)
    /\ board \in [Nodes -> Seq(Entries)]
    /\ \A n \in Nodes : Len(board[n]) <= 1
    /\ task \in [Nodes -> [MsgIds -> {"absent", "spawned", "read", "done"}]]
    /\ noted \in [Nodes -> [MsgIds -> Infos \cup {UnknownInfo}]]
    /\ merged \in [Nodes -> SUBSET Entries]
    /\ restarts \in Nat

\* merge computes a join: in whatever order handlers ran, the board shows one
\* of the updates merged since the node started, and none of them has a higher
\* state, or the same state and a later timestamp.
BoardIsJoin ==
    \A n \in Nodes :
        /\ board[n] = <<>> <=> merged[n] = {}
        /\ \A k \in 1 .. Len(board[n]) : board[n][k] \in merged[n]
        /\ \A u \in merged[n] :
               \/ u.state < board[n][1].state
               \/ u.state = board[n][1].state /\ u.at <= board[n][1].at

Done(n) == {i \in MsgIds : task[n][i] = "done"}

NoCommand(n) == \A i \in Done(n) : msgs[i].kind # "Command"

\* What the merge rule does guarantee: two nodes that have handled the same
\* messages, in any order, show the same state, and the same timestamp too
\* when no Command (stamped on arrival) is among them.
AgreeOnState ==
    \A n1, n2 \in Nodes :
        Done(n1) = Done(n2) /\ Done(n1) # {} =>
            /\ board[n1] # <<>> /\ board[n2] # <<>>
            /\ board[n1][1].state = board[n2][1].state
            /\ NoCommand(n1) => board[n1][1].at = board[n2][1].at

\* n shows a position, and no handler that read the board before there was one
\* is about to merge.
PositionIsSafe(n) ==
    /\ board[n] # <<>> /\ board[n][1].info # UnknownInfo
    /\ \A i \in MsgIds : task[n][i] = "read" => noted[n][i] # UnknownInfo

\* "Preserve existing lat/lon since BDA doesn't include them": handle_bda and
\* handle_command keep the position a node shows.  The one exception is a
\* handler whose read came before the first detection and whose merge comes
\* after it; once no such handler is left the position stays, until a restart.
PositionKept ==
    [][\A n \in Nodes :
           PositionIsSafe(n) /\ board'[n] # <<>> => PositionIsSafe(n)']_vars
============================================================================
