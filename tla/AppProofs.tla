----------------------------- MODULE AppProofs -----------------------------
(***************************************************************************)
(* Proofs about the application's replicated data.  First TargetBoard, for *)
(* any nodes, messages and interleaving of handler tasks: types, and that  *)
(* every board is the join of the updates merged into it.  Then            *)
(* ImageTransfer, for any set of nodes with images of any size, any number *)
(* of requests, and any loss, repetition and reordering of the shards: an  *)
(* image is completed once, and what is displayed is put together from     *)
(* shards that were sent.                                                  *)
(***************************************************************************)
EXTENDS TargetBoard, ImageTransfer, SequenceTheorems, FiniteSetTheorems, TLAPS

BoardInv == TypeOK /\ BoardIsJoin

\* A task exists only for a message that was originated.
TasksHaveMessages ==
    \A n \in Nodes : \A i \in MsgIds :
        task[n][i] # "absent" => i \in 1 .. Len(msgs)

\* The state a message asks for.
StateOf(m) ==
    IF m.kind = "TargetDetection" THEN 0
    ELSE IF m.kind = "Bda" THEN BdaState[m.arg]
    ELSE CommandState[m.arg]

\* Entry u is what some handler makes of message m.
Reflects(u, m) ==
    /\ u.state = StateOf(m)
    /\ m.kind # "Command" => u.at = m.at

\* The merged entries are those of the messages handled, no more, no fewer.
MergedIsDone ==
    \A n \in Nodes :
        /\ \A u \in merged[n] : \E i \in Done(n) : Reflects(u, msgs[i])
        /\ \A i \in Done(n) : \E u \in merged[n] : Reflects(u, msgs[i])

AgreeInv == BoardInv /\ TasksHaveMessages /\ MergedIsDone

\* What one merge does to one board: the result holds exactly one entry, it
\* was there before or is the new one, and nothing merged outranks it.
LEMMA MergeIntoJoins ==
    ASSUME NEW b \in Seq(Entries), Len(b) <= 1, NEW u \in Entries,
           NEW M \in SUBSET Entries,
           b = <<>> <=> M = {},
           \A k \in 1 .. Len(b) : b[k] \in M,
           \A v \in M : \/ v.state < b[1].state
                        \/ v.state = b[1].state /\ v.at <= b[1].at
    PROVE  /\ MergeInto(b, u) \in Seq(Entries)
           /\ Len(MergeInto(b, u)) = 1
           /\ MergeInto(b, u) # <<>>
           /\ MergeInto(b, u)[1] \in M \cup {u}
           /\ \A v \in M \cup {u} :
                 \/ v.state < MergeInto(b, u)[1].state
                 \/ /\ v.state = MergeInto(b, u)[1].state
                    /\ v.at <= MergeInto(b, u)[1].at
  <1>1. \A v \in Entries : v.state \in 0 .. 4 /\ v.at \in Nat
    BY DEF Entries, TargetStates
  <1>2. CASE b = <<>>
    <2>1. MergeInto(b, u) = <<u>> /\ M = {}
      BY <1>2 DEF MergeInto
    <2>2. <<u>> \in Seq(Entries) /\ Len(<<u>>) = 1 /\ <<u>>[1] = u /\ <<u>> # <<>>
      OBVIOUS
    <2> QED
      BY <1>1, <2>1, <2>2
  <1>3. CASE b # <<>>
    <2>1. Len(b) = 1 /\ b[1] \in M /\ b[1] \in Entries
      <3>1. Len(b) \in Nat /\ Len(b) # 0
        BY <1>3
      <3> DEFINE l == Len(b)
      <3>2. l \in Nat /\ l # 0 /\ l <= 1
        BY <3>1
      <3> HIDE DEF l
      <3>3. l = 1
        BY <3>2
      <3> QED
        BY <3>3 DEF l
    <2>2. CASE Supersedes(u, b[1])
      <3>1. MergeInto(b, u) = <<u>>
        BY <2>2 DEF MergeInto
      <3>2. /\ <<u>> \in Seq(Entries) /\ Len(<<u>>) = 1
            /\ <<u>>[1] = u /\ <<u>> # <<>>
        OBVIOUS
      <3>3. \A v \in M : \/ v.state < u.state
                         \/ v.state = u.state /\ v.at <= u.at
        BY <1>1, <2>1, <2>2 DEF Supersedes
      <3> QED
        BY <1>1, <3>1, <3>2, <3>3
    <2>3. CASE ~Supersedes(u, b[1])
      <3>1. MergeInto(b, u) = b
        BY <1>3, <2>3 DEF MergeInto
      <3>2. \/ u.state < b[1].state
            \/ u.state = b[1].state /\ u.at <= b[1].at
        BY <1>1, <2>1, <2>3 DEF Supersedes
      <3> QED
        BY <1>3, <2>1, <3>1, <3>2
    <2> QED
      BY <2>2, <2>3
  <1> QED
    BY <1>2, <1>3

\* A message has an originator, a timestamp and an argument of its kind.
LEMMA MessageTypes ==
    ASSUME TypeOK, NEW i \in 1 .. Len(msgs)
    PROVE  /\ msgs[i] \in Messages
           /\ msgs[i].src \in Origins
           /\ msgs[i].at \in Nat
           /\ msgs[i].kind = "TargetDetection" => msgs[i].arg \in Infos
           /\ msgs[i].kind = "Bda" => msgs[i].arg \in Results
           /\ msgs[i].kind = "Command" => msgs[i].arg \in Ops
  <1>1. msgs[i] \in Messages
    BY DEF TypeOK
  <1>2. \A m \in Messages :
            /\ m.src \in Origins
            /\ m.at \in Nat
            /\ m.kind = "TargetDetection" => m.arg \in Infos
            /\ m.kind = "Bda" => m.arg \in Results
            /\ m.kind = "Command" => m.arg \in Ops
    BY DEF Messages
  <1> QED
    BY <1>1, <1>2

\* A merge of a well-formed entry preserves types and the join.
LEMMA MergeKeepsBoard ==
    ASSUME BoardInv, NEW n \in Nodes, NEW i \in MsgIds, NEW u \in Entries,
           Merge(n, i, u), UNCHANGED <<msgs, noted, restarts>>
    PROVE  BoardInv'
  <1>1. /\ board[n] \in Seq(Entries) /\ Len(board[n]) <= 1
        /\ merged[n] \in SUBSET Entries
        /\ board[n] = <<>> <=> merged[n] = {}
        /\ \A k \in 1 .. Len(board[n]) : board[n][k] \in merged[n]
        /\ \A v \in merged[n] :
               \/ v.state < board[n][1].state
               \/ v.state = board[n][1].state /\ v.at <= board[n][1].at
    BY DEF BoardInv, TypeOK, BoardIsJoin
  <1>2. /\ board'[n] = MergeInto(board[n], u)
        /\ merged'[n] = merged[n] \cup {u}
        /\ \A m \in Nodes : m # n => board'[m] = board[m] /\ merged'[m] = merged[m]
    BY DEF Merge, BoardInv, TypeOK
  <1>3. /\ board'[n] \in Seq(Entries)
        /\ Len(board'[n]) = 1
        /\ board'[n] # <<>>
        /\ board'[n][1] \in merged'[n]
        /\ \A v \in merged'[n] :
              \/ v.state < board'[n][1].state
              \/ v.state = board'[n][1].state /\ v.at <= board'[n][1].at
    <2> DEFINE b == board[n]
               M == merged[n]
    <2>1. /\ b \in Seq(Entries) /\ Len(b) <= 1 /\ M \in SUBSET Entries
          /\ b = <<>> <=> M = {}
          /\ \A k \in 1 .. Len(b) : b[k] \in M
          /\ \A v \in M : \/ v.state < b[1].state
                          \/ v.state = b[1].state /\ v.at <= b[1].at
      BY <1>1
    <2> HIDE DEF b, M
    <2>2. /\ MergeInto(b, u) \in Seq(Entries)
          /\ Len(MergeInto(b, u)) = 1
          /\ MergeInto(b, u) # <<>>
          /\ MergeInto(b, u)[1] \in M \cup {u}
          /\ \A v \in M \cup {u} :
                \/ v.state < MergeInto(b, u)[1].state
                \/ /\ v.state = MergeInto(b, u)[1].state
                   /\ v.at <= MergeInto(b, u)[1].at
      BY <2>1, MergeIntoJoins
    <2>3. board'[n] = MergeInto(b, u) /\ merged'[n] = M \cup {u}
      BY <1>2 DEF b, M
    <2> QED
      BY <2>2, <2>3
  <1>4. board' \in [Nodes -> Seq(Entries)]
    BY <1>2, <1>3 DEF Merge, BoardInv, TypeOK
  <1>5. task' \in [Nodes -> [MsgIds -> {"absent", "spawned", "read", "done"}]]
    BY DEF Merge, BoardInv, TypeOK
  <1>6. merged' \in [Nodes -> SUBSET Entries]
    BY DEF Merge, BoardInv, TypeOK
  <1>7. TypeOK'
    <2>1. \A m \in Nodes : Len(board'[m]) <= 1
      <3>1. \A m \in Nodes : Len(board[m]) <= 1
        BY DEF BoardInv, TypeOK
      <3>2. Len(board'[n]) <= 1
        BY <1>3
      <3> QED
        BY <1>2, <3>1, <3>2
    <2> QED
      BY <1>4, <1>5, <1>6, <2>1 DEF BoardInv, TypeOK
  <1>8. BoardIsJoin'
    BY <1>2, <1>3 DEF BoardInv, BoardIsJoin
  <1> QED
    BY <1>7, <1>8 DEF BoardInv

\* A merge by the task of message i keeps tasks, messages and entries matched.
LEMMA MergeKeepsMatch ==
    ASSUME AgreeInv, NEW n \in Nodes, NEW i \in MsgIds, NEW u \in Entries,
           i \in 1 .. Len(msgs), Reflects(u, msgs[i]),
           Merge(n, i, u), UNCHANGED <<msgs, noted, restarts>>
    PROVE  AgreeInv'
  <1>1. BoardInv'
    BY MergeKeepsBoard DEF AgreeInv
  <1>2. /\ merged'[n] = merged[n] \cup {u}
        /\ \A m \in Nodes : m # n => merged'[m] = merged[m]
        /\ task'[n][i] = "done"
        /\ \A j \in MsgIds : j # i => task'[n][j] = task[n][j]
        /\ \A m \in Nodes : m # n => task'[m] = task[m]
        /\ msgs' = msgs
    BY DEF Merge, AgreeInv, BoardInv, TypeOK
  <1>3. TasksHaveMessages'
    BY <1>2 DEF AgreeInv, TasksHaveMessages
  <1>4. /\ Done(n)' = Done(n) \cup {i}
        /\ \A m \in Nodes : m # n => Done(m)' = Done(m)
    BY <1>2 DEF Done
  <1>5. MergedIsDone'
    <2> SUFFICES ASSUME NEW m \in Nodes
                 PROVE  /\ \A v \in merged'[m] :
                               \E j \in Done(m)' : Reflects(v, msgs[j])
                        /\ \A j \in Done(m)' :
                               \E v \in merged'[m] : Reflects(v, msgs[j])
      BY <1>2 DEF MergedIsDone, Reflects, StateOf
    <2>1. /\ \A v \in merged[m] : \E j \in Done(m) : Reflects(v, msgs[j])
          /\ \A j \in Done(m) : \E v \in merged[m] : Reflects(v, msgs[j])
      BY DEF AgreeInv, MergedIsDone
    <2>2. CASE m = n
      BY <1>2, <1>4, <2>1, <2>2
    <2>3. CASE m # n
      BY <1>2, <1>4, <2>1, <2>3
    <2> QED
      BY <2>2, <2>3
  <1> QED
    BY <1>1, <1>3, <1>5 DEF AgreeInv

\* Nothing is merged and no task is done at the start.
LEMMA InitAgreeInv == ASSUME BoardConstants, Init PROVE AgreeInv
  <1>1. /\ board \in [Nodes -> Seq(Entries)]
        /\ \A n \in Nodes : board[n] = <<>> /\ Len(board[n]) = 0
        /\ merged \in [Nodes -> SUBSET Entries]
        /\ \A n \in Nodes : merged[n] = {}
    BY DEF Init
  <1>2. /\ task \in [Nodes -> [MsgIds -> {"absent", "spawned", "read", "done"}]]
        /\ noted \in [Nodes -> [MsgIds -> Infos \cup {UnknownInfo}]]
    BY DEF Init, NoTasks, NothingNoted
  <1>3. msgs \in Seq(Messages) /\ restarts \in Nat
    BY DEF Init
  <1>4. TypeOK /\ BoardIsJoin
    BY <1>1, <1>2, <1>3 DEF TypeOK, BoardIsJoin
  <1>5. \A n \in Nodes : \A i \in MsgIds : task[n][i] = "absent"
    BY DEF Init, NoTasks
  <1> QED
    BY <1>1, <1>4, <1>5
       DEF AgreeInv, BoardInv, TasksHaveMessages, MergedIsDone, Done

\* Originating a message only extends the list of messages.
LEMMA OriginateKeepsMatch ==
    ASSUME AgreeInv, NEW m \in Messages, Originate(m)
    PROVE  AgreeInv'
  <1>1. /\ UNCHANGED <<board, task, noted, merged, restarts>>
        /\ msgs' = Append(msgs, m)
        /\ msgs \in Seq(Messages) /\ Len(msgs) \in Nat
    BY DEF Originate, AgreeInv, BoardInv, TypeOK
  <1>2. /\ msgs' \in Seq(Messages)
        /\ Len(msgs') = Len(msgs) + 1
        /\ \A i \in 1 .. Len(msgs) : msgs'[i] = msgs[i]
    BY <1>1
  <1>3. BoardInv'
    BY <1>1, <1>2 DEF AgreeInv, BoardInv, TypeOK, BoardIsJoin
  <1>4. TasksHaveMessages'
    BY <1>1, <1>2 DEF AgreeInv, TasksHaveMessages
  <1>5. \A n \in Nodes : Done(n)' = Done(n) /\ Done(n) \subseteq 1 .. Len(msgs)
    BY <1>1 DEF Done, AgreeInv, TasksHaveMessages
  <1>6. MergedIsDone'
    <2> SUFFICES ASSUME NEW n \in Nodes
                 PROVE  /\ \A v \in merged'[n] :
                               \E j \in Done(n)' : Reflects(v, msgs'[j])
                        /\ \A j \in Done(n)' :
                               \E v \in merged'[n] : Reflects(v, msgs'[j])
      BY DEF MergedIsDone, Reflects, StateOf
    <2>1. merged'[n] = merged[n] /\ Done(n)' = Done(n)
      BY <1>1, <1>5
    <2>2. \A j \in Done(n) : msgs'[j] = msgs[j]
      BY <1>2, <1>5
    <2>3. /\ \A v \in merged[n] : \E j \in Done(n) : Reflects(v, msgs[j])
          /\ \A j \in Done(n) : \E v \in merged[n] : Reflects(v, msgs[j])
      BY DEF AgreeInv, MergedIsDone
    <2> QED
      BY <2>1, <2>2, <2>3
  <1> QED
    BY <1>3, <1>4, <1>6 DEF AgreeInv

\* One step of an originator or a node preserves AgreeInv.
LEMMA NextAgreeInv ==
    ASSUME BoardConstants, AgreeInv, [Next]_vars
    PROVE  AgreeInv'
  <1>1. CASE UNCHANGED vars
    BY <1>1 DEF AgreeInv, BoardInv, TypeOK, BoardIsJoin, TasksHaveMessages,
                MergedIsDone, Done, Reflects, StateOf, vars
  <1>2. CASE SendTargetDetection \/ SendBda \/ SendCommand
    <2>1. Readings \subseteq Nat
      BY DEF Readings, BoardConstants
    <2>2. PICK m \in Messages : Originate(m)
      BY <1>2, <2>1 DEF SendTargetDetection, SendBda, SendCommand, Messages
    <2> QED
      BY <2>2, OriginateKeepsMatch
  <1>3. ASSUME NEW n \in Nodes, Restart(n) PROVE AgreeInv'
    <2>1. /\ board'[n] = <<>> /\ merged'[n] = {} /\ task'[n] = NoTasks
          /\ \A m \in Nodes : m # n => /\ board'[m] = board[m]
                                      /\ merged'[m] = merged[m]
                                      /\ task'[m] = task[m]
          /\ msgs' = msgs
      BY <1>3 DEF Restart, AgreeInv, BoardInv, TypeOK
    <2>2. /\ task' \in [Nodes -> [MsgIds -> {"absent", "spawned", "read", "done"}]]
          /\ noted' \in [Nodes -> [MsgIds -> Infos \cup {UnknownInfo}]]
      BY <1>3 DEF Restart, NoTasks, NothingNoted, AgreeInv, BoardInv, TypeOK
    <2>3. /\ board' \in [Nodes -> Seq(Entries)]
          /\ merged' \in [Nodes -> SUBSET Entries]
          /\ restarts' \in Nat
      BY <1>3 DEF Restart, AgreeInv, BoardInv, TypeOK
    <2>4. \A m \in Nodes : Len(board'[m]) <= 1
      <3>1. \A m \in Nodes : Len(board[m]) <= 1
        BY DEF AgreeInv, BoardInv, TypeOK
      <3>2. Len(board'[n]) <= 1
        BY <2>1
      <3> QED
        BY <2>1, <3>1, <3>2
    <2>5. TypeOK'
      BY <2>1, <2>2, <2>3, <2>4 DEF AgreeInv, BoardInv, TypeOK
    <2>6. BoardIsJoin'
      <3> SUFFICES ASSUME NEW m \in Nodes
                   PROVE  /\ board'[m] = <<>> <=> merged'[m] = {}
                          /\ \A k \in 1 .. Len(board'[m]) :
                                 board'[m][k] \in merged'[m]
                          /\ \A u \in merged'[m] :
                                 \/ u.state < board'[m][1].state
                                 \/ /\ u.state = board'[m][1].state
                                    /\ u.at <= board'[m][1].at
        BY DEF BoardIsJoin
      <3>1. CASE m = n
        <4>1. Len(board'[n]) = 0
          BY <2>1
        <4> QED
          BY <2>1, <3>1, <4>1
      <3>2. CASE m # n
        BY <2>1, <3>2 DEF AgreeInv, BoardInv, BoardIsJoin
      <3> QED
        BY <3>1, <3>2
    <2>7. TasksHaveMessages'
      BY <2>1 DEF AgreeInv, TasksHaveMessages, NoTasks
    <2>8. Done(n)' = {} /\ \A m \in Nodes : m # n => Done(m)' = Done(m)
      BY <2>1 DEF Done, NoTasks
    <2>9. MergedIsDone'
      BY <2>1, <2>8 DEF AgreeInv, MergedIsDone, Reflects, StateOf
    <2> QED
      BY <2>5, <2>6, <2>7, <2>9 DEF AgreeInv, BoardInv
  <1>4. ASSUME NEW n \in Nodes, NEW i \in MsgIds,
               RxData(n, i) \/ ReadInfo(n, i)
        PROVE  AgreeInv'
    <2>1. /\ UNCHANGED <<msgs, board, merged, restarts>>
          /\ i \in 1 .. Len(msgs)
          /\ task[n][i] # "done"
      BY <1>4 DEF RxData, ReadInfo, AgreeInv, TasksHaveMessages, MsgIds,
                  BoardInv, TypeOK
    <2>t. PICK pc \in {"spawned", "read"} : task' = [task EXCEPT ![n][i] = pc]
      BY <1>4 DEF RxData, ReadInfo
    <2>u. /\ task'[n][i] = pc
          /\ \A j \in MsgIds : j # i => task'[n][j] = task[n][j]
          /\ \A m \in Nodes : m # n => task'[m] = task[m]
      BY <2>t DEF AgreeInv, BoardInv, TypeOK
    <2>2. \A m \in Nodes : Done(m)' = Done(m)
      <3>1. Done(n)' = Done(n)
        BY <2>1, <2>u DEF Done
      <3>2. \A m \in Nodes : m # n => Done(m)' = Done(m)
        BY <2>u DEF Done
      <3> QED
        BY <3>1, <3>2
    <2>3. noted' \in [Nodes -> [MsgIds -> Infos \cup {UnknownInfo}]]
      <3>1. CASE RxData(n, i)
        BY <3>1 DEF RxData, AgreeInv, BoardInv, TypeOK
      <3>2. CASE ReadInfo(n, i)
        <4>1. board[n] # <<>> => board[n][1] \in Entries
          BY DEF AgreeInv, BoardInv, TypeOK
        <4>2. board[n] # <<>> => board[n][1].info \in Infos \cup {UnknownInfo}
          BY <4>1 DEF Entries
        <4> QED
          BY <3>2, <4>2 DEF ReadInfo, AgreeInv, BoardInv, TypeOK
      <3> QED
        BY <1>4, <3>1, <3>2
    <2>4. task' \in [Nodes -> [MsgIds -> {"absent", "spawned", "read", "done"}]]
      BY <2>t DEF AgreeInv, BoardInv, TypeOK
    <2>5. BoardInv'
      BY <2>1, <2>3, <2>4 DEF AgreeInv, BoardInv, TypeOK, BoardIsJoin
    <2>6. TasksHaveMessages'
      BY <2>1, <2>u DEF AgreeInv, TasksHaveMessages
    <2>7. MergedIsDone'
      BY <2>1, <2>2 DEF AgreeInv, MergedIsDone, Reflects, StateOf
    <2> QED
      BY <2>5, <2>6, <2>7 DEF AgreeInv
  <1>5. ASSUME NEW n \in Nodes, NEW i \in MsgIds,
               HandleTargetDetection(n, i) \/ MergeBda(n, i) \/ MergeCommand(n, i)
        PROVE  AgreeInv'
    <2>1. i \in 1 .. Len(msgs)
      BY <1>5 DEF HandleTargetDetection, MergeBda, MergeCommand,
                  AgreeInv, TasksHaveMessages
    <2>2. /\ msgs[i].src \in Origins
          /\ msgs[i].at \in Nat
          /\ Readings \subseteq Nat
          /\ noted[n][i] \in Infos \cup {UnknownInfo}
          /\ msgs[i].kind = "TargetDetection" => msgs[i].arg \in Infos
          /\ msgs[i].kind = "Bda" => msgs[i].arg \in Results
          /\ msgs[i].kind = "Command" => msgs[i].arg \in Ops
      BY <2>1, MessageTypes DEF AgreeInv, BoardInv, TypeOK, Readings, BoardConstants
    <2>3. /\ \A r \in Results : BdaState[r] \in TargetStates
          /\ \A o \in Ops : CommandState[o] \in TargetStates
      BY DEF BdaState, CommandState, TargetStates, BoardConstants
    <2>4. CASE HandleTargetDetection(n, i)
      <3> DEFINE u == [state |-> 0, at |-> msgs[i].at, info |-> msgs[i].arg,
                       assigned |-> msgs[i].src]
      <3>1. u \in Entries /\ Reflects(u, msgs[i])
        BY <2>2, <2>4 DEF HandleTargetDetection, Entries, TargetStates,
                          Reflects, StateOf
      <3>2. Merge(n, i, u) /\ UNCHANGED <<msgs, noted, restarts>>
        BY <2>4 DEF HandleTargetDetection
      <3> HIDE DEF u
      <3> QED
        BY <2>1, <3>1, <3>2, MergeKeepsMatch
    <2>5. CASE MergeBda(n, i)
      <3> DEFINE u == [state |-> BdaState[msgs[i].arg], at |-> msgs[i].at,
                       info |-> noted[n][i], assigned |-> NoNode]
      <3>1. u \in Entries /\ Reflects(u, msgs[i])
        BY <2>2, <2>3, <2>5 DEF MergeBda, Entries, Reflects, StateOf
      <3>2. Merge(n, i, u) /\ UNCHANGED <<msgs, noted, restarts>>
        BY <2>5 DEF MergeBda
      <3> HIDE DEF u
      <3> QED
        BY <2>1, <3>1, <3>2, MergeKeepsMatch
    <2>6. CASE MergeCommand(n, i)
      <3> DEFINE u(t) == [state |-> CommandState[msgs[i].arg], at |-> t,
                          info |-> noted[n][i],
                          assigned |-> IF msgs[i].arg = "Reassign"
                                       THEN msgs[i].src ELSE NoNode]
      <3>1. PICK t \in Readings : Merge(n, i, u(t)) /\ UNCHANGED <<msgs, noted, restarts>>
        BY <2>6 DEF MergeCommand
      <3>2. u(t) \in Entries /\ Reflects(u(t), msgs[i])
        BY <2>2, <2>3, <2>6 DEF MergeCommand, Entries, Reflects, StateOf
      <3> HIDE DEF u
      <3> QED
        BY <2>1, <3>1, <3>2, MergeKeepsMatch
    <2> QED
      BY <1>5, <2>4, <2>5, <2>6
  <1>6. CASE UNCHANGED vars
    BY <1>1, <1>6 DEF vars, AgreeInv, BoardInv, TypeOK
  <1> QED
    BY <1>1, <1>2, <1>3, <1>4, <1>5, <1>6 DEF Next, NodeStep

---------------------------------------------------------------------------
\* AgreeInv holds in every reachable state.
THEOREM AgreeInvariant == Spec => []AgreeInv
  <1>1. Init => AgreeInv
    BY BoardConstants, InitAgreeInv
  <1>2. AgreeInv /\ [Next]_vars => AgreeInv'
    BY BoardConstants, NextAgreeInv
  <1> QED
    BY <1>1, <1>2, PTL DEF Spec

\* Every variable of the replicated board keeps its type.
THEOREM TypeCorrect == Spec => []TypeOK
  <1>1. AgreeInv => TypeOK
    BY DEF AgreeInv, BoardInv
  <1> QED
    BY <1>1, AgreeInvariant, PTL

\* Whatever the interleaving of handler tasks, a board is the join of the
\* updates merged into it.
THEOREM BoardsAreJoins == Spec => []BoardIsJoin
  <1>1. AgreeInv => BoardIsJoin
    BY DEF AgreeInv, BoardInv
  <1> QED
    BY <1>1, AgreeInvariant, PTL

\* Nodes that handled the same messages show the same target state, and the
\* same timestamp when none of the messages is a Command.
THEOREM NodesAgreeOnState == Spec => []AgreeOnState
  <1>1. AgreeInv => AgreeOnState
    <2> SUFFICES ASSUME AgreeInv, NEW n1 \in Nodes, NEW n2 \in Nodes,
                        Done(n1) = Done(n2), Done(n1) # {}
                 PROVE  /\ board[n1] # <<>> /\ board[n2] # <<>>
                        /\ board[n1][1].state = board[n2][1].state
                        /\ NoCommand(n1) => board[n1][1].at = board[n2][1].at
      BY DEF AgreeOnState
    <2>1. ASSUME NEW n \in Nodes, Done(n) # {}
          PROVE  /\ board[n] # <<>>
                 /\ board[n][1] \in merged[n]
                 /\ board[n][1].state \in Nat /\ board[n][1].at \in Nat
      <3>1. merged[n] # {}
        BY <2>1 DEF AgreeInv, MergedIsDone
      <3>2. board[n] # <<>> /\ board[n] \in Seq(Entries)
        BY <3>1 DEF AgreeInv, BoardInv, BoardIsJoin, TypeOK
      <3>3. 1 \in 1 .. Len(board[n])
        BY <3>2
      <3>4. board[n][1] \in merged[n] /\ board[n][1] \in Entries
        BY <3>2, <3>3 DEF AgreeInv, BoardInv, BoardIsJoin
      <3> QED
        BY <3>2, <3>4 DEF Entries, TargetStates
    <2>2. ASSUME NEW a \in Nodes, NEW b \in Nodes,
                 Done(a) = Done(b), Done(a) # {}
          PROVE  /\ board[a][1].state <= board[b][1].state
                 /\ NoCommand(a) /\ board[a][1].state = board[b][1].state
                    => board[a][1].at <= board[b][1].at
      <3>1. PICK i \in Done(a) : Reflects(board[a][1], msgs[i])
        BY <2>1, <2>2 DEF AgreeInv, MergedIsDone
      <3>2. PICK u \in merged[b] : Reflects(u, msgs[i])
        BY <2>2, <3>1 DEF AgreeInv, MergedIsDone
      <3>3. \/ u.state < board[b][1].state
            \/ u.state = board[b][1].state /\ u.at <= board[b][1].at
        BY <3>2 DEF AgreeInv, BoardInv, BoardIsJoin
      <3>4. u.state = board[a][1].state
        BY <3>1, <3>2 DEF Reflects
      <3>5. NoCommand(a) => u.at = board[a][1].at
        BY <3>1, <3>2 DEF Reflects, NoCommand
      <3> QED
        BY <2>1, <2>2, <3>3, <3>4, <3>5
    <2>3. NoCommand(n1) => NoCommand(n2)
      BY DEF NoCommand
    <2> QED
      BY <2>1, <2>2, <2>3
  <1> QED
    BY <1>1, AgreeInvariant, PTL
---------------------------------------------------------------------------
(* Positions *)

\* A merge of an entry with a position into a safe board leaves it safe.
LEMMA MergeKeepsPosition ==
    ASSUME TypeOK, NEW n \in Nodes, NEW i \in MsgIds, NEW u \in Entries,
           PositionIsSafe(n), u.info # UnknownInfo,
           Merge(n, i, u), noted' = noted
    PROVE  PositionIsSafe(n)'
  <1>1. /\ board'[n] = MergeInto(board[n], u)
        /\ board[n] # <<>> /\ board[n][1].info # UnknownInfo
        /\ task'[n][i] = "done"
        /\ \A j \in MsgIds : j # i => task'[n][j] = task[n][j]
    BY DEF Merge, TypeOK, PositionIsSafe
  <1>2. board'[n] = <<u>> \/ board'[n] = board[n]
    BY <1>1 DEF MergeInto
  <1>3. board'[n] # <<>> /\ board'[n][1].info # UnknownInfo
    BY <1>1, <1>2
  <1>4. \A j \in MsgIds : task'[n][j] = "read" => noted'[n][j] # UnknownInfo
    BY <1>1 DEF PositionIsSafe
  <1> QED
    BY <1>3, <1>4 DEF PositionIsSafe

\* handle_bda and handle_command, however they interleave with the handlers of
\* other messages, keep the position a node shows: it is lost only to a handler
\* that had read the board before there was one, or to a restart.
THEOREM PositionsAreKept == Spec => PositionKept
  <1>1. ASSUME AgreeInv, [Next]_vars, NEW n \in Nodes,
               PositionIsSafe(n), board'[n] # <<>>
        PROVE  PositionIsSafe(n)'
    <2>1. CASE UNCHANGED <<board, task, noted>>
      BY <1>1, <2>1 DEF PositionIsSafe
    <2>2. ASSUME NEW m \in Nodes, m # n, NodeStep(m)
          PROVE  PositionIsSafe(n)'
      <3>1. board'[n] = board[n] /\ task'[n] = task[n] /\ noted'[n] = noted[n]
        BY <1>1, <2>2
           DEF AgreeInv, BoardInv, TypeOK, NodeStep, Restart, RxData, ReadInfo,
               HandleTargetDetection, MergeBda, MergeCommand, Merge
      <3> QED
        BY <1>1, <3>1 DEF PositionIsSafe
    <2>3. CASE Restart(n)
      BY <1>1, <2>3 DEF Restart, AgreeInv, BoardInv, TypeOK
    <2>4. ASSUME NEW i \in MsgIds, RxData(n, i)
          PROVE  PositionIsSafe(n)'
      <3>1. /\ board' = board /\ noted' = noted
            /\ task'[n][i] = "spawned"
            /\ \A j \in MsgIds : j # i => task'[n][j] = task[n][j]
        BY <1>1, <2>4 DEF RxData, AgreeInv, BoardInv, TypeOK
      <3> QED
        BY <1>1, <3>1 DEF PositionIsSafe
    <2>5. ASSUME NEW i \in MsgIds, ReadInfo(n, i)
          PROVE  PositionIsSafe(n)'
      <3>1. /\ board' = board
            /\ noted'[n][i] = board[n][1].info
            /\ \A j \in MsgIds : j # i => /\ noted'[n][j] = noted[n][j]
                                         /\ task'[n][j] = task[n][j]
        BY <1>1, <2>5 DEF ReadInfo, AgreeInv, BoardInv, TypeOK, PositionIsSafe
      <3> QED
        BY <1>1, <3>1 DEF PositionIsSafe
    <2>6. ASSUME NEW i \in MsgIds,
                 HandleTargetDetection(n, i) \/ MergeBda(n, i) \/ MergeCommand(n, i)
          PROVE  PositionIsSafe(n)'
      <3>1. PICK u \in Entries : /\ u.info # UnknownInfo
                                 /\ Merge(n, i, u) /\ noted' = noted
        <4>1. i \in 1 .. Len(msgs)
          BY <1>1, <2>6 DEF HandleTargetDetection, MergeBda, MergeCommand,
                            AgreeInv, TasksHaveMessages
        <4>2. /\ msgs[i].src \in Origins
              /\ msgs[i].at \in Nat
              /\ Readings \subseteq Nat
              /\ noted[n][i] \in Infos \cup {UnknownInfo}
              /\ msgs[i].kind = "TargetDetection" => msgs[i].arg \in Infos
              /\ msgs[i].kind = "Bda" => msgs[i].arg \in Results
              /\ msgs[i].kind = "Command" => msgs[i].arg \in Ops
          BY <1>1, <4>1, MessageTypes, BoardConstants
             DEF AgreeInv, BoardInv, TypeOK, Readings, BoardConstants
        <4>3. /\ \A r \in Results : BdaState[r] \in TargetStates
              /\ \A o \in Ops : CommandState[o] \in TargetStates
          BY BoardConstants DEF BdaState, CommandState, TargetStates, BoardConstants
        <4>4. CASE HandleTargetDetection(n, i)
          <5> DEFINE u == [state |-> 0, at |-> msgs[i].at, info |-> msgs[i].arg,
                           assigned |-> msgs[i].src]
          <5>1. u \in Entries /\ u.info # UnknownInfo
            BY <4>2, <4>4, BoardConstants
               DEF HandleTargetDetection, Entries, TargetStates, BoardConstants
          <5> QED
            BY <4>4, <5>1 DEF HandleTargetDetection
        <4>5. CASE MergeBda(n, i)
          <5> DEFINE u == [state |-> BdaState[msgs[i].arg], at |-> msgs[i].at,
                           info |-> noted[n][i], assigned |-> NoNode]
          <5>1. u \in Entries /\ u.info # UnknownInfo
            BY <1>1, <4>2, <4>3, <4>5 DEF MergeBda, Entries, PositionIsSafe
          <5> QED
            BY <4>5, <5>1 DEF MergeBda
        <4>6. CASE MergeCommand(n, i)
          <5> DEFINE u(t) == [state |-> CommandState[msgs[i].arg], at |-> t,
                              info |-> noted[n][i],
                              assigned |-> IF msgs[i].arg = "Reassign"
                                           THEN msgs[i].src ELSE NoNode]
          <5>1. PICK t \in Readings : Merge(n, i, u(t)) /\ noted' = noted
            BY <4>6 DEF MergeCommand
          <5>2. u(t) \in Entries /\ u(t).info # UnknownInfo
            BY <1>1, <4>2, <4>3, <4>6 DEF MergeCommand, Entries, PositionIsSafe
          <5> QED
            BY <5>1, <5>2
        <4> QED
          BY <2>6, <4>4, <4>5, <4>6
      <3> QED
        BY <1>1, <3>1, MergeKeepsPosition DEF AgreeInv, BoardInv
    <2>7. CASE NodeStep(n)
      BY <2>3, <2>4, <2>5, <2>6, <2>7 DEF NodeStep
    <2> QED
      BY <1>1, <2>1, <2>2, <2>7
         DEF Next, vars, SendTargetDetection, SendBda, SendCommand, Originate
  <1>2. AgreeInv /\ [Next]_vars =>
            [\A n \in Nodes :
                 PositionIsSafe(n) /\ board'[n] # <<>> => PositionIsSafe(n)']_vars
    BY <1>1
  <1> QED
    BY <1>2, AgreeInvariant, PTL DEF Spec, PositionKept

---------------------------------------------------------------------------
(***************************************************************************)
(* The images of targets: module ImageTransfer.                            *)
(***************************************************************************)

(* The inductive invariant of ImageTransfer, in named parts. *)

\* What handle_request_image puts on the air.
Shards ==
    {s \in [from : Responders, total_blocks : 1 .. 255, block_id : 0 .. 254] :
        s.total_blocks = Blocks[s.from] /\ s.block_id < s.total_blocks}

Tasks == [shard : Shards, at : {"spawned", "inserted"},
          completed : BOOLEAN, blocks_done : Nat]

ShardsAreSent == air \subseteq Shards /\ tasks \in Seq(Tasks)

\* The number of blocks expected was named by a shard of an image of several.
ExpectedIsSent ==
    \/ total_blocks_expected = 0
    \/ total_blocks_expected > 1 /\ \E r \in sources : total_blocks_expected = Blocks[r]

\* Every block kept came from a node whose shards were inserted.
BlocksAreSent ==
    /\ sources \subseteq Responders
    /\ \A b \in DOMAIN assembled_blocks : assembled_blocks[b] \in sources

\* As long as one of the images sent, with every chunk in its place.
Genuine(m) ==
    \E r \in sources :
        /\ m = [i \in 1 .. Blocks[r] |-> m[i]]
        /\ \A i \in 1 .. Blocks[r] : m[i] \in sources \X {i - 1}

CompleteIsGenuine ==
    /\ complete = <<>> \/ Genuine(complete)
    /\ image = <<>> \/ image = complete
    /\ completions = IF complete = <<>> THEN 0 ELSE 1

ImageInv ==
    /\ ShardsAreSent
    /\ total_blocks_expected \in Nat
    /\ ExpectedIsSent
    /\ BlocksAreSent
    /\ CompleteIsGenuine

---------------------------------------------------------------------------

\* A shard, its sender and its place.
LEMMA ShardFacts ==
    ASSUME ImageConstants, NEW s \in Shards
    PROVE  /\ s.from \in Responders /\ s.total_blocks \in Nat /\ s.total_blocks >= 1
           /\ s.total_blocks = Blocks[s.from]
           /\ s.block_id \in Nat /\ s.block_id < s.total_blocks
  BY DEF Shards

\* Images have at least one chunk, and so are not empty.
LEMMA BlocksPositive ==
    ASSUME ImageConstants, NEW r \in Responders
    PROVE  Blocks[r] \in Nat /\ Blocks[r] >= 1 /\ 1 \in 1 .. Blocks[r]
  BY DEF ImageConstants

\* Removing a task leaves tasks.
LEMMA RemovedTasks ==
    ASSUME NEW s \in Seq(Tasks), NEW i \in 1 .. Len(s)
    PROVE  RemoveAt(s, i) \in Seq(Tasks)
  <1>1. Len(s) \in Nat /\ \A j \in 1 .. Len(s) : s[j] \in Tasks
    BY LenProperties, ElementOfSeq
  <1>2. i - 1 \in Int /\ i + 1 \in Int /\ 1 .. i - 1 \subseteq 1 .. Len(s)
        /\ i + 1 .. Len(s) \subseteq 1 .. Len(s)
    BY <1>1
  <1>3. SubSeq(s, 1, i - 1) \in Seq(Tasks)
    BY <1>1, <1>2, SubSeqProperties
  <1>4. SubSeq(s, i + 1, Len(s)) \in Seq(Tasks)
    BY <1>1, <1>2, SubSeqProperties
  <1> QED
    BY <1>3, <1>4, ConcatProperties DEF RemoveAt

\* Nodes that are added to the sources change nothing for what is genuine.
LEMMA GenuineStays ==
    ASSUME NEW m, Genuine(m), sources \subseteq sources'
    PROVE  Genuine(m)'
  BY DEF Genuine

\* The image put together by a shard that completes it.
LEMMA CompletionIsGenuine ==
    ASSUME ImageConstants, ImageInv, NEW s \in Shards,
           sources' = sources \cup {s.from}, Completes(s), NEW m, m = PutTogether(s)
    PROVE  m # <<>> /\ Genuine(m)'
  <1>1. /\ s.from \in Responders /\ s.total_blocks \in Nat /\ s.total_blocks >= 1
        /\ s.total_blocks = Blocks[s.from]
        /\ s.block_id \in Nat /\ s.block_id < s.total_blocks
    BY ShardFacts
  <1>2. /\ s.block_id \in DOMAIN AssembledAfter(s)
        /\ \A b \in DOMAIN AssembledAfter(s) : AssembledAfter(s)[b] \in sources'
    BY DEF AssembledAfter, ImageInv, BlocksAreSent
  <1>3. CASE ExpectedAfter(s) <= 1
    <2>1. s.total_blocks = 1 /\ s.block_id = 0
      <3>1. ~(total_blocks_expected > 1) => total_blocks_expected = 0
        BY DEF ImageInv, ExpectedIsSent
      <3>2. total_blocks_expected \in Nat
        BY DEF ImageInv
      <3>3. s.total_blocks = 1
        BY <1>1, <1>3, <3>1, <3>2 DEF ExpectedAfter
      <3> QED
        BY <1>1, <3>3
    <2>2. m = <<<<AssembledAfter(s)[0], 0>>>>
      BY <1>3, <2>1 DEF PutTogether
    <2>3. m[1] \in sources' \X {1 - 1} /\ m # <<>> /\ m = [i \in 1 .. 1 |-> m[i]]
      BY <1>2, <2>1, <2>2
    <2>4. s.from \in sources' /\ Blocks[s.from] = 1
      BY <1>1, <2>1
    <2>5. Genuine(m)'
      BY <2>3, <2>4 DEF Genuine
    <2> QED
      BY <2>3, <2>5
  <1>4. CASE ~(ExpectedAfter(s) <= 1)
    <2>1. PICK r \in sources' : ExpectedAfter(s) = Blocks[r]
      BY <1>1, <1>4 DEF ExpectedAfter, ImageInv, ExpectedIsSent
    <2>2. r \in Responders /\ Blocks[r] \in Nat /\ Blocks[r] >= 1 /\ 1 \in 1 .. Blocks[r]
      BY <1>1, <2>1, BlocksPositive DEF ImageInv, BlocksAreSent
    <2>3. \A b \in 0 .. Blocks[r] - 1 : b \in DOMAIN AssembledAfter(s)
      BY <1>4, <2>1 DEF Completes, AllDone
    <2>4. \A i \in 1 .. Blocks[r] : i - 1 \in 0 .. Blocks[r] - 1
      BY <2>2
    <2>5. m = [i \in 1 .. Blocks[r] |-> <<AssembledAfter(s)[i - 1], i - 1>>]
      BY <1>4, <2>1, <2>3, <2>4 DEF PutTogether
    <2>6. \A i \in 1 .. Blocks[r] : m[i] \in sources' \X {i - 1}
      BY <1>2, <2>3, <2>4, <2>5
    <2>7. m = [i \in 1 .. Blocks[r] |-> m[i]] /\ m # <<>>
      BY <2>2, <2>5
    <2>8. Genuine(m)'
      BY <2>1, <2>6, <2>7 DEF Genuine
    <2> QED
      BY <2>7, <2>8
  <1> QED
    BY <1>3, <1>4

\* insert_shard, whatever the cache holds.
LEMMA InsertKeepsImage ==
    ASSUME ImageConstants, ImageInv, NEW i \in 1 .. Len(tasks), InsertShard(i)
    PROVE  ImageInv'
  <1>1. tasks \in Seq(Tasks) /\ tasks[i] \in Tasks
    BY ElementOfSeq DEF ImageInv, ShardsAreSent
  <1>s. PICK s \in Shards : s = tasks[i].shard
    BY <1>1 DEF Tasks
  <1>2. /\ s.from \in Responders /\ s.total_blocks \in Nat /\ s.total_blocks >= 1
        /\ s.total_blocks = Blocks[s.from]
        /\ s.block_id \in Nat /\ s.block_id < s.total_blocks
    BY ShardFacts
  <1>3. /\ total_blocks_expected' = ExpectedAfter(s)
        /\ assembled_blocks' = AssembledAfter(s)
        /\ complete' = IF Completes(s) THEN PutTogether(s) ELSE complete
        /\ sources' = sources \cup {s.from}
        /\ completions' = completions + (IF Completes(s) THEN 1 ELSE 0)
        /\ UNCHANGED <<air, image>>
    BY <1>s DEF InsertShard
  <1>4. tasks' = [tasks EXCEPT ![i].at = "inserted",
                               ![i].completed = Completes(s),
                               ![i].blocks_done = BlocksAssembled(s)]
    BY <1>s DEF InsertShard
  <1>5. total_blocks_expected' \in Nat /\ ExpectedIsSent'
    BY <1>2, <1>3 DEF ExpectedAfter, ImageInv, ExpectedIsSent
  <1>6. BlocksAreSent'
    BY <1>2, <1>3 DEF AssembledAfter, ImageInv, BlocksAreSent
  <1>7. BlocksAssembled(s) \in Nat
    <2> DEFINE n == IF ExpectedAfter(s) = 0 THEN 1 ELSE ExpectedAfter(s)
               B == {b \in 0 .. n - 1 : b \in DOMAIN AssembledAfter(s)}
    <2>1. n \in Nat
      BY <1>3, <1>5
    <2>2. IsFiniteSet(0 .. n - 1)
      <3>1. 0 \in Int /\ n - 1 \in Int
        BY <2>1
      <3> QED
        BY <3>1, FS_Interval
    <2>3. B \in SUBSET (0 .. n - 1)
      OBVIOUS
    <2>4. Cardinality(B) \in Nat
      BY <2>2, <2>3, FS_Subset, FS_CardinalityType
    <2> QED
      BY <2>4 DEF BlocksAssembled
  <1>8. ShardsAreSent'
    <2>1. Completes(s) \in BOOLEAN
      BY DEF Completes
    <2> DEFINE t == [tasks[i] EXCEPT !.at = "inserted", !.completed = Completes(s),
                                     !.blocks_done = BlocksAssembled(s)]
    <2>2. t \in Tasks
      BY <1>1, <1>7, <2>1 DEF Tasks
    <2>3. tasks' = [tasks EXCEPT ![i] = t]
      BY <1>4
    <2> HIDE DEF t
    <2>4. tasks' \in Seq(Tasks)
      BY <1>1, <2>2, <2>3
    <2> QED
      BY <1>3, <2>4 DEF ImageInv, ShardsAreSent
  <1>9. CompleteIsGenuine'
    <2>1. CASE Completes(s)
      <3>1. PICK m : m = PutTogether(s)
        OBVIOUS
      <3>2. m # <<>> /\ Genuine(m)'
        BY <1>3, <2>1, <3>1, CompletionIsGenuine
      <3>3. complete' = m /\ complete = <<>> /\ completions' = completions + 1
        BY <1>3, <2>1, <3>1 DEF Completes
      <3>4. completions = 0 /\ image = <<>>
        BY <3>3 DEF ImageInv, CompleteIsGenuine
      <3>5. Genuine(complete)'
        BY <3>2, <3>3 DEF Genuine
      <3> QED
        BY <1>3, <3>2, <3>3, <3>4, <3>5 DEF CompleteIsGenuine
    <2>2. CASE ~Completes(s)
      <3>1. complete' = complete /\ completions' = completions + 0
        BY <1>3, <2>2
      <3>2. Genuine(complete) => Genuine(complete)'
        BY <1>3, <3>1 DEF Genuine
      <3>3. completions' = completions
        BY <3>1 DEF ImageInv, CompleteIsGenuine
      <3> QED
        BY <1>3, <3>1, <3>2, <3>3 DEF ImageInv, CompleteIsGenuine
    <2> QED
      BY <2>1, <2>2
  <1> QED
    BY <1>5, <1>6, <1>8, <1>9 DEF ImageInv

\* A step that leaves the cache alone and displays nothing new.
LEMMA CacheUntouched ==
    ASSUME ImageInv, ShardsAreSent', UNCHANGED <<cacheVars, sources, completions>>,
           image' = image \/ image' = complete
    PROVE  ImageInv'
  BY DEF ImageInv, ExpectedIsSent, BlocksAreSent, CompleteIsGenuine, Genuine,
         cacheVars

\* The strengthening holds in every reachable state.
LEMMA ImageInvariant == ImageSpec => []ImageInv
  <1>1. ImageInit => ImageInv
    <2>1. <<>> \in Seq(Tasks)
      BY EmptySeq
    <2> QED
      BY <2>1 DEF ImageInit, ImageInv, ShardsAreSent, ExpectedIsSent, BlocksAreSent,
                  CompleteIsGenuine
  <1>2. ImageInv /\ [ImageNext]_imageVars => ImageInv'
    <2> SUFFICES ASSUME ImageInv, [ImageNext]_imageVars PROVE ImageInv'
      OBVIOUS
    <2>1. tasks \in Seq(Tasks) /\ air \subseteq Shards
      BY DEF ImageInv, ShardsAreSent
    <2>2. ASSUME UNCHANGED <<air, tasks, cacheVars, sources, completions>>,
                 image' = image \/ image' = complete
          PROVE  ImageInv'
      BY <2>2, CacheUntouched DEF ImageInv, ShardsAreSent
    <2>3. ASSUME NEW r \in Responders, NEW q \in Requests, SendShard(r, q)
          PROVE  ImageInv'
      <3>1. Shard(r, serving[r][q]) \in Shards
        BY <2>3, ImageConstants DEF SendShard, Shard, Shards, ImageConstants
      <3>2. ShardsAreSent'
        BY <2>1, <2>3, <3>1 DEF SendShard, ShardsAreSent
      <3> QED
        BY <2>3, <3>2, CacheUntouched DEF SendShard, histVars
    <2>4. CASE RxShard
      <3>1. PICK s \in air : tasks' = Append(tasks, [shard |-> s, at |-> "spawned",
                                  completed |-> FALSE, blocks_done |-> 0])
        BY <2>4 DEF RxShard
      <3> DEFINE t == [shard |-> s, at |-> "spawned", completed |-> FALSE, blocks_done |-> 0]
      <3>2. t \in Tasks
        BY <2>1, <3>1 DEF Tasks
      <3>3. tasks' = Append(tasks, t)
        BY <3>1
      <3> HIDE DEF t
      <3>4. ShardsAreSent'
        BY <2>1, <2>4, <3>2, <3>3, AppendProperties DEF RxShard, ShardsAreSent
      <3> QED
        BY <2>4, <3>4, CacheUntouched DEF RxShard
    <2>5. ASSUME NEW i \in 1 .. Len(tasks), InsertShard(i) PROVE ImageInv'
      BY <2>5, ImageConstants, InsertKeepsImage
    <2>6. ASSUME NEW i \in 1 .. Len(tasks), SpawnDecode(i) \/ ShowProgress(i)
          PROVE  ImageInv'
      <3>1. tasks' \in Seq(Tasks)
        BY <2>1, <2>6, RemovedTasks DEF SpawnDecode, ShowProgress
      <3>2. ShardsAreSent'
        BY <2>1, <2>6, <3>1 DEF SpawnDecode, ShowProgress, ShardsAreSent
      <3> QED
        BY <2>6, <3>2, CacheUntouched
        DEF SpawnDecode, ShowProgress, histVars
    <2> QED
      BY <2>2, <2>3, <2>4, <2>5, <2>6
      DEF ImageNext, HandleImageShard, PressI, DeclineRequest,
          EncodeImage, ShowImage, histVars, imageVars
  <1> QED
    BY <1>1, <1>2, PTL DEF ImageSpec

\* insert_shard reports an image complete at most once, whatever is repeated or
\* late, so it is decoded at most once.
THEOREM ImagesCompleteOnce == ImageSpec => []CompletedOnce
  <1>1. ImageInv => CompletedOnce
    BY DEF ImageInv, CompleteIsGenuine, CompletedOnce
  <1> QED
    BY <1>1, ImageInvariant, PTL

\* The image displayed is as long as one that was sent and has every chunk in its
\* place; if one node answered, it is that node's image.
THEOREM ShownImagesAreSent == ImageSpec => []ShownIsSent
  <1>1. ImageInv => ShownIsSent
    <2> SUFFICES ASSUME ImageInv, image # <<>>
                 PROVE  /\ \E r \in Responders : Len(image) = Blocks[r]
                        /\ \A i \in 1 .. Len(image) : image[i] \in sources \X {i - 1}
                        /\ \A r \in Responders : sources = {r} => image = ImageOf(r)
      BY DEF ShownIsSent
    <2>1. sources \subseteq Responders /\ image = complete /\ Genuine(image)
      BY DEF ImageInv, CompleteIsGenuine, BlocksAreSent
    <2>2. PICK r \in sources :
              /\ image = [i \in 1 .. Blocks[r] |-> image[i]]
              /\ \A i \in 1 .. Blocks[r] : image[i] \in sources \X {i - 1}
      BY <2>1 DEF Genuine
    <2>3. r \in Responders /\ Blocks[r] \in Nat
      BY <2>1, ImageConstants, BlocksPositive
    <2>4. Len(image) = Blocks[r]
      BY <2>2, <2>3
    <2>5. ASSUME NEW q \in Responders, sources = {q} PROVE image = ImageOf(q)
      <3>1. r = q /\ \A i \in 1 .. Blocks[r] : image[i] = <<q, i - 1>>
        <4>1. r = q
          BY <2>5
        <4>2. ASSUME NEW i \in 1 .. Blocks[r] PROVE image[i] = <<q, i - 1>>
          <5>1. image[i] \in {q} \X {i - 1}
            BY <2>2, <2>5
          <5>2. PICK x \in {q}, y \in {i - 1} : image[i] = <<x, y>>
            BY <5>1
          <5> QED
            BY <5>2
        <4> QED
          BY <4>1, <4>2
      <3> QED
        BY <2>2, <3>1 DEF ImageOf
    <2> QED
      BY <2>2, <2>3, <2>4, <2>5
  <1> QED
    BY <1>1, ImageInvariant, PTL
============================================================================
