------------------------- MODULE TxSchedulerProofs -------------------------
(***************************************************************************)
(* Proofs about TxScheduler for any number of priorities, producers and    *)
(* frames: types, no lost wakeup, and the order in which frames reach the  *)
(* radio.                                                                  *)
(***************************************************************************)
EXTENDS TxScheduler, TLAPS

(* The inductive strengthening of HandoverOrder, in named parts. *)

\* A queue holds frames of its own priority, numbered in push order.
QueuesSorted ==
    \A p \in Priorities : \A k \in 1 .. Len(queues[p]) :
        /\ queues[p][k].prio = p
        /\ queues[p][k].id <= issued
        /\ queues[p][k].after <= Len(handed)
        /\ \A l \in 1 .. Len(queues[p]) :
               k < l => queues[p][k].id < queues[p][l].id

\* A queued frame that could have gone before handed[i] came too late for it.
QueuedBehindHanded ==
    \A i \in 1 .. Len(handed) : \A p \in Priorities :
        \A k \in 1 .. Len(queues[p]) :
            /\ handed[i].prio = p => handed[i].id < queues[p][k].id
            /\ p < handed[i].prio => queues[p][k].after >= i

HandedIssued == \A i \in 1 .. Len(handed) : handed[i].id <= issued

OrderInv ==
    /\ TypeOK
    /\ QueuesSorted
    /\ QueuedBehindHanded
    /\ HandedIssued
    /\ HandoverOrder

---------------------------------------------------------------------------
\* The fields of queued and handed frames are numbers and priorities.
LEMMA FrameTypes ==
    ASSUME TypeOK
    PROVE  /\ \A p \in Priorities : \A k \in 1 .. Len(queues[p]) :
                  /\ queues[p][k] \in Frames
                  /\ queues[p][k].id \in Nat
                  /\ queues[p][k].after \in Nat
           /\ \A i \in 1 .. Len(handed) :
                  /\ handed[i].id \in Nat
                  /\ handed[i].prio \in Priorities
                  /\ handed[i].after \in Nat
  <1>1. \A f \in Frames :
            f.id \in Nat /\ f.prio \in Priorities /\ f.after \in Nat
    BY DEF Frames
  <1>2. \A p \in Priorities : \A k \in 1 .. Len(queues[p]) :
            queues[p][k] \in Frames
    BY DEF TypeOK
  <1>3. \A i \in 1 .. Len(handed) : handed[i] \in Frames
    BY DEF TypeOK
  <1> QED
    BY <1>1, <1>2, <1>3

\* The types of the variables are preserved by every step.
LEMMA NextTypeOK ==
    ASSUME SchedulerConstants, TypeOK, [Next]_vars
    PROVE  TypeOK'
  <1> USE DEF TypeOK
  <1>1. ASSUME NEW c \in Producers, Push(c) PROVE TypeOK'
    <2>1. PICK p \in Priorities :
              queues' = [queues EXCEPT ![p] = Append(@,
                  [id |-> issued + 1, prio |-> p, after |-> Len(handed)])]
      BY <1>1 DEF Push
    <2>2. [id |-> issued + 1, prio |-> p, after |-> Len(handed)] \in Frames
      BY <1>1 DEF Push, Frames, SchedulerConstants
    <2>3. queues' \in [Priorities -> Seq(Frames)]
      BY <2>1, <2>2
    <2>4. issued' \in 0 .. MaxFrames
      BY <1>1 DEF Push, SchedulerConstants
    <2> QED
      BY <1>1, <2>3, <2>4 DEF Push
  <1>2. ASSUME NEW c \in Producers, NotifyOne(c) PROVE TypeOK'
    BY <1>2 DEF NotifyOne
  <1>3. CASE PopSome
    <2>1. PICK p \in Priorities :
              /\ MostUrgent(p)
              /\ current' = <<Head(queues[p])>>
              /\ handed' = Append(handed, Head(queues[p]))
              /\ queues' = [queues EXCEPT ![p] = Tail(@)]
      BY <1>3 DEF PopSome
    <2>2. queues[p] \in Seq(Frames) /\ queues[p] # <<>>
      BY <2>1 DEF MostUrgent, NonEmpty
    <2>3. Head(queues[p]) \in Frames /\ Tail(queues[p]) \in Seq(Frames)
      BY <2>2
    <2>4. queues' \in [Priorities -> Seq(Frames)]
      BY <2>1, <2>3
    <2>5. /\ handed' \in Seq(Frames)
          /\ current' \in Seq(Frames)
          /\ current' # <<>>
      BY <2>1, <2>3
    <2> QED
      BY <1>3, <2>4, <2>5 DEF PopSome
  <1>4. CASE PopNone
    BY <1>4 DEF PopNone
  <1>5. CASE Send
    BY <1>5 DEF Send
  <1>6. CASE Await
    BY <1>6 DEF Await
  <1>7. CASE UNCHANGED vars
    BY <1>7 DEF vars
  <1> QED
    BY <1>1, <1>2, <1>3, <1>4, <1>5, <1>6, <1>7 DEF Next, RunStep

\* Types hold initially: empty queues, nothing issued.
LEMMA InitTypeOK == ASSUME SchedulerConstants, Init PROVE TypeOK
  <1>1. <<>> \in Seq(Frames)
    OBVIOUS
  <1>2. /\ queues \in [Priorities -> Seq(Frames)]
        /\ current \in Seq(Frames)
        /\ handed \in Seq(Frames)
    BY <1>1 DEF Init
  <1>3. producer \in [Producers -> {"idle", "notify"}]
    BY DEF Init
  <1>4. issued \in 0 .. MaxFrames
    BY DEF Init, SchedulerConstants
  <1> QED
    BY <1>2, <1>3, <1>4 DEF Init, TypeOK

\* Every variable of the scheduler keeps its type.
THEOREM TypeCorrect == Spec => []TypeOK
  <1>1. Init => TypeOK
    BY SchedulerConstants, InitTypeOK
  <1>2. TypeOK /\ [Next]_vars => TypeOK'
    BY SchedulerConstants, NextTypeOK
  <1> QED
    BY <1>1, <1>2, PTL DEF Spec

\* The push-then-notify order of enqueue and the permit of Notify together
\* exclude that run sleeps on a non-empty queue with nobody left to wake it.
THEOREM WakeupsNotLost == Spec => []NoLostWakeup
  <1>1. Init => NoLostWakeup
    BY DEF Init, NoLostWakeup
  <1>2. TypeOK /\ NoLostWakeup /\ [Next]_vars => NoLostWakeup'
    <2> SUFFICES ASSUME TypeOK, NoLostWakeup, [Next]_vars
                 PROVE  NoLostWakeup'
      OBVIOUS
    <2>1. ASSUME NEW c \in Producers, Push(c) PROVE NoLostWakeup'
      <3>1. producer'[c] = "notify"
        BY <2>1 DEF Push, TypeOK
      <3> QED
        BY <3>1 DEF NoLostWakeup
    <2>2. ASSUME NEW c \in Producers, NotifyOne(c) PROVE NoLostWakeup'
      <3>1. CASE runner = "parked"
        BY <2>2, <3>1 DEF NotifyOne, NoLostWakeup
      <3>2. CASE runner # "parked"
        BY <2>2, <3>2 DEF NotifyOne, NoLostWakeup
      <3> QED
        BY <3>1, <3>2
    <2>3. CASE PopSome
      BY <2>3 DEF PopSome, NoLostWakeup
    <2>4. CASE PopNone
      BY <2>4 DEF PopNone, NoLostWakeup, NonEmpty
    <2>5. CASE Send
      BY <2>5 DEF Send, NoLostWakeup
    <2>6. CASE Await
      BY <2>6 DEF Await, NoLostWakeup, NonEmpty
    <2>7. CASE UNCHANGED vars
      BY <2>7 DEF vars, NoLostWakeup, NonEmpty
    <2> QED
      BY <2>1, <2>2, <2>3, <2>4, <2>5, <2>6, <2>7 DEF Next, RunStep
  <1> QED
    BY <1>1, <1>2, TypeCorrect, PTL DEF Spec

---------------------------------------------------------------------------
(* The order of hand-over *)

\* enqueue appends a frame with a fresh number to the queue of its priority.
LEMMA PushKeepsOrder ==
    ASSUME SchedulerConstants, OrderInv, TypeOK', NEW c \in Producers, Push(c)
    PROVE  OrderInv'
  <1>1. PICK p \in Priorities :
            queues' = [queues EXCEPT ![p] = Append(@,
                [id |-> issued + 1, prio |-> p, after |-> Len(handed)])]
    BY DEF Push
  <1> DEFINE new == [id |-> issued + 1, prio |-> p, after |-> Len(handed)]
  <1>2. /\ queues[p] \in Seq(Frames) /\ new \in Frames
        /\ Len(handed) \in Nat /\ issued \in Nat
    <2>1. /\ issued \in 0 .. MaxFrames /\ issued < MaxFrames
          /\ queues[p] \in Seq(Frames) /\ handed \in Seq(Frames)
      BY DEF OrderInv, TypeOK, Push
    <2>2. issued \in Nat /\ issued + 1 \in 1 .. MaxFrames /\ Len(handed) \in Nat
      BY <2>1 DEF SchedulerConstants
    <2> QED
      BY <2>1, <2>2 DEF Frames
  <1>3. /\ handed' = handed /\ issued' = issued + 1
        /\ \A q \in Priorities : q # p => queues'[q] = queues[q]
        /\ Len(queues'[p]) = Len(queues[p]) + 1
        /\ queues'[p][Len(queues[p]) + 1] = new
        /\ \A k \in 1 .. Len(queues[p]) : queues'[p][k] = queues[p][k]
    BY <1>1, <1>2 DEF Push, OrderInv, TypeOK
  <1>4. new.id = issued + 1 /\ new.prio = p /\ new.after = Len(handed)
    OBVIOUS
  <1> HIDE DEF new
  <1>5. \A q \in Priorities : \A k \in 1 .. Len(queues'[q]) :
            \/ k \in 1 .. Len(queues[q]) /\ queues'[q][k] = queues[q][k]
            \/ q = p /\ k = Len(queues[p]) + 1 /\ queues'[q][k] = new
    <2> TAKE q \in Priorities
    <2>1. CASE q = p
      <3>1. Len(queues[p]) \in Nat
        BY <1>2
      <3> QED
        BY <1>3, <2>1, <3>1
    <2>2. CASE q # p
      BY <1>3, <2>2
    <2> QED
      BY <2>1, <2>2
  <1>6. QueuesSorted'
    <2> SUFFICES ASSUME NEW q \in Priorities, NEW k \in 1 .. Len(queues'[q])
                 PROVE  /\ queues'[q][k].prio = q
                        /\ queues'[q][k].id <= issued + 1
                        /\ queues'[q][k].after <= Len(handed)
                        /\ \A l \in 1 .. Len(queues'[q]) :
                               k < l => queues'[q][k].id < queues'[q][l].id
      BY <1>3 DEF QueuesSorted
    <2>1. CASE k \in 1 .. Len(queues[q]) /\ queues'[q][k] = queues[q][k]
      <3>1. /\ queues[q][k].prio = q
            /\ queues[q][k].id <= issued
            /\ queues[q][k].id \in Nat
            /\ queues[q][k].after <= Len(handed)
        BY <2>1, FrameTypes DEF OrderInv, QueuesSorted
      <3>2. ASSUME NEW l \in 1 .. Len(queues'[q]), k < l
            PROVE  queues'[q][k].id < queues'[q][l].id
        <4>1. CASE l \in 1 .. Len(queues[q]) /\ queues'[q][l] = queues[q][l]
          BY <2>1, <3>2, <4>1 DEF OrderInv, QueuesSorted
        <4>2. CASE queues'[q][l] = new
          BY <1>2, <1>4, <2>1, <3>1, <4>2
        <4> QED
          BY <1>5, <4>1, <4>2
      <3> QED
        BY <1>2, <2>1, <3>1, <3>2
    <2>2. CASE q = p /\ k = Len(queues[p]) + 1 /\ queues'[q][k] = new
      BY <1>2, <1>3, <1>4, <2>2
    <2> QED
      BY <1>5, <2>1, <2>2
  <1>7. QueuedBehindHanded'
    <2> SUFFICES ASSUME NEW i \in 1 .. Len(handed), NEW q \in Priorities,
                        NEW k \in 1 .. Len(queues'[q])
                 PROVE  /\ handed[i].prio = q =>
                               handed[i].id < queues'[q][k].id
                        /\ q < handed[i].prio => queues'[q][k].after >= i
      BY <1>3 DEF QueuedBehindHanded
    <2>1. handed[i].id <= issued /\ handed[i].id \in Nat
      BY FrameTypes DEF OrderInv, HandedIssued
    <2>2. CASE k \in 1 .. Len(queues[q]) /\ queues'[q][k] = queues[q][k]
      BY <2>2 DEF OrderInv, QueuedBehindHanded
    <2>3. CASE queues'[q][k] = new
      BY <1>2, <1>4, <2>1, <2>3
    <2> QED
      BY <1>5, <2>2, <2>3
  <1>8. HandedIssued'
    <2>1. \A i \in 1 .. Len(handed) : handed[i].id \in Nat
      BY FrameTypes DEF OrderInv
    <2> QED
      BY <1>2, <1>3, <2>1 DEF OrderInv, HandedIssued
  <1>9. HandoverOrder'
    BY <1>3 DEF OrderInv, HandoverOrder
  <1> QED
    BY <1>6, <1>7, <1>8, <1>9 DEF OrderInv

\* run takes the head of the most urgent non-empty queue.
LEMMA PopKeepsOrder ==
    ASSUME SchedulerConstants, OrderInv, TypeOK', PopSome
    PROVE  OrderInv'
  <1>1. PICK p \in Priorities :
            /\ MostUrgent(p)
            /\ handed' = Append(handed, Head(queues[p]))
            /\ queues' = [queues EXCEPT ![p] = Tail(@)]
    BY DEF PopSome
  <1> DEFINE n == Len(handed)
             top == queues[p][1]
  <1>2. /\ queues[p] \in Seq(Frames) /\ queues[p] # <<>>
        /\ Len(queues[p]) \in Nat /\ Len(queues[p]) > 0
        /\ n \in Nat /\ handed \in Seq(Frames)
    BY <1>1 DEF MostUrgent, NonEmpty, OrderInv, TypeOK
  <1>3. /\ issued' = issued
        /\ \A q \in Priorities : q # p => queues'[q] = queues[q]
        /\ Len(queues'[p]) = Len(queues[p]) - 1
        /\ \A k \in 1 .. Len(queues'[p]) : queues'[p][k] = queues[p][k + 1]
    BY <1>1, <1>2 DEF PopSome, OrderInv, TypeOK
  <1>4. top \in Frames /\ Head(queues[p]) = top
    BY <1>2
  <1>5. /\ Len(handed') = n + 1
        /\ handed'[n + 1] = top
        /\ \A i \in 1 .. n : handed'[i] = handed[i]
    BY <1>1, <1>2, <1>4
  <1>6. /\ top.prio = p /\ top.id <= issued /\ top.id \in Nat
        /\ \A l \in 2 .. Len(queues[p]) : top.id < queues[p][l].id
    BY <1>2, FrameTypes DEF OrderInv, QueuesSorted
  <1> HIDE DEF n, top
  <1>7. \A q \in Priorities : \A k \in 1 .. Len(queues'[q]) :
            \E m \in 1 .. Len(queues[q]) :
                /\ queues'[q][k] = queues[q][m]
                /\ m = IF q = p THEN k + 1 ELSE k
    BY <1>2, <1>3
  <1>8. QueuesSorted'
    <2> SUFFICES ASSUME NEW q \in Priorities, NEW k \in 1 .. Len(queues'[q])
                 PROVE  /\ queues'[q][k].prio = q
                        /\ queues'[q][k].id <= issued
                        /\ queues'[q][k].after <= n + 1
                        /\ \A l \in 1 .. Len(queues'[q]) :
                               k < l => queues'[q][k].id < queues'[q][l].id
      BY <1>3, <1>5 DEF QueuesSorted
    <2>1. PICK m \in 1 .. Len(queues[q]) :
              queues'[q][k] = queues[q][m] /\ m = IF q = p THEN k + 1 ELSE k
      BY <1>7
    <2>2. /\ queues[q][m].prio = q /\ queues[q][m].id <= issued
          /\ queues[q][m].after <= n /\ queues[q][m].after \in Nat
      BY FrameTypes DEF OrderInv, QueuesSorted, n
    <2>3. ASSUME NEW l \in 1 .. Len(queues'[q]), k < l
          PROVE  queues'[q][k].id < queues'[q][l].id
      <3>1. PICK o \in 1 .. Len(queues[q]) :
                queues'[q][l] = queues[q][o] /\ o = IF q = p THEN l + 1 ELSE l
        BY <1>7
      <3>2. m < o
        BY <2>1, <2>3, <3>1
      <3> QED
        BY <2>1, <3>1, <3>2 DEF OrderInv, QueuesSorted
    <2> QED
      BY <1>2, <2>1, <2>2, <2>3
  <1>9. QueuedBehindHanded'
    <2> SUFFICES ASSUME NEW i \in 1 .. (n + 1), NEW q \in Priorities,
                        NEW k \in 1 .. Len(queues'[q])
                 PROVE  /\ handed'[i].prio = q =>
                               handed'[i].id < queues'[q][k].id
                        /\ q < handed'[i].prio => queues'[q][k].after >= i
      BY <1>5 DEF QueuedBehindHanded
    <2>1. PICK m \in 1 .. Len(queues[q]) :
              queues'[q][k] = queues[q][m] /\ m = IF q = p THEN k + 1 ELSE k
      BY <1>7
    <2>2. CASE i \in 1 .. n
      BY <1>5, <2>1, <2>2 DEF OrderInv, QueuedBehindHanded, n
    <2>3. CASE i = n + 1
      <3>1. handed'[i] = top
        BY <1>5, <2>3
      <3>2. CASE q = p
        <4>1. m \in 2 .. Len(queues[p])
          BY <1>2, <2>1, <3>2
        <4> QED
          <5>1. top.id < queues'[q][k].id /\ ~(q < top.prio)
            <6>1. p \in Nat
              BY DEF SchedulerConstants
            <6> QED
              BY <1>6, <2>1, <3>2, <4>1, <6>1
          <5> QED
            BY <3>1, <5>1
      <3>3. CASE q # p
        <4>1. ~(q < p)
          <5>1. queues[q] # <<>>
            BY <2>1 DEF OrderInv, TypeOK
          <5> QED
            BY <1>1, <5>1 DEF MostUrgent, NonEmpty
        <4> QED
          BY <1>6, <3>1, <3>3, <4>1
      <3> QED
        BY <3>2, <3>3
    <2> QED
      BY <1>2, <2>2, <2>3
  <1>10. HandedIssued'
    BY <1>2, <1>3, <1>5, <1>6 DEF OrderInv, HandedIssued, n
  <1>11. HandoverOrder'
    <2> SUFFICES ASSUME NEW i \in 1 .. (n + 1), NEW j \in 1 .. (n + 1), i < j
                 PROVE  \/ handed'[i].prio < handed'[j].prio
                        \/ /\ handed'[i].prio = handed'[j].prio
                           /\ handed'[i].id < handed'[j].id
                        \/ /\ handed'[j].prio < handed'[i].prio
                           /\ handed'[j].after >= i
      BY <1>5 DEF HandoverOrder
    <2>1. i \in 1 .. n /\ handed'[i] = handed[i]
      BY <1>2, <1>5
    <2>2. CASE j \in 1 .. n
      BY <1>5, <2>1, <2>2 DEF OrderInv, HandoverOrder, n
    <2>3. CASE j = n + 1
      <3>1. /\ handed[i].prio = p => handed[i].id < top.id
            /\ p < handed[i].prio => top.after >= i
        BY <1>2, <2>1 DEF OrderInv, QueuedBehindHanded, n, top
      <3>2. handed[i].prio \in Nat /\ p \in Nat
        BY <2>1, FrameTypes DEF OrderInv, SchedulerConstants, n
      <3> QED
        BY <1>5, <1>6, <2>1, <2>3, <3>1, <3>2
    <2> QED
      BY <1>2, <2>2, <2>3
  <1> QED
    BY <1>8, <1>9, <1>10, <1>11 DEF OrderInv

\* The strengthened order invariant holds in every reachable state.
THEOREM OrderInvariant == Spec => []OrderInv
  <1>1. Init => OrderInv
    <2> SUFFICES ASSUME Init PROVE OrderInv
      OBVIOUS
    <2>1. TypeOK
      BY SchedulerConstants, InitTypeOK
    <2>2. Len(handed) = 0 /\ \A p \in Priorities : Len(queues[p]) = 0
      BY DEF Init
    <2> QED
      BY <2>1, <2>2 DEF OrderInv, QueuesSorted, QueuedBehindHanded,
                        HandedIssued, HandoverOrder
  <1>2. OrderInv /\ [Next]_vars => OrderInv'
    <2> SUFFICES ASSUME OrderInv, [Next]_vars PROVE OrderInv'
      OBVIOUS
    <2>1. TypeOK'
      BY SchedulerConstants, NextTypeOK DEF OrderInv
    <2>2. ASSUME NEW c \in Producers, Push(c) PROVE OrderInv'
      BY <2>1, <2>2, SchedulerConstants, PushKeepsOrder
    <2>3. CASE PopSome
      BY <2>1, <2>3, SchedulerConstants, PopKeepsOrder
    <2>4. CASE UNCHANGED <<queues, issued, handed>>
      BY <2>1, <2>4 DEF OrderInv, QueuesSorted, QueuedBehindHanded,
                        HandedIssued, HandoverOrder
    <2> QED
      BY <2>2, <2>3, <2>4 DEF Next, RunStep, NotifyOne, PopNone, Send, Await, vars
  <1> QED
    BY <1>1, <1>2, PTL DEF Spec

\* Frames reach the radio in priority order, first-in first-out within a
\* priority, and only a frame pushed too late is overtaken by a less urgent one.
THEOREM HandoverIsOrdered == Spec => []HandoverOrder
  <1>1. OrderInv => HandoverOrder
    BY DEF OrderInv
  <1> QED
    BY <1>1, OrderInvariant, PTL

---------------------------------------------------------------------------
(* The scheduler implements PriorityChannel *)

\* The frames numbered so far are exactly the queued and the handed ones: no
\* frame is lost before the radio.
Numbered ==
    \A m \in 1 .. MaxFrames : m <= issued <=> m \in Channel!Known

\* The set of queued frames, frame by frame.
LEMMA QueuedFramesAre ==
    ASSUME NEW f
    PROVE  f \in QueuedFrames <=>
               \E p \in Priorities : \E k \in 1 .. Len(queues[p]) : f = queues[p][k]
  BY DEF QueuedFrames

\* enqueue is the channel's Submit: it accepts one frame, with the next number.
LEMMA PushSubmits ==
    ASSUME SchedulerConstants, OrderInv, Numbered, NEW c \in Producers, Push(c)
    PROVE  Channel!Submit /\ Numbered'
  <1>1. PICK p \in Priorities :
            queues' = [queues EXCEPT ![p] = Append(@,
                [id |-> issued + 1, prio |-> p, after |-> Len(handed)])]
    BY DEF Push
  <1> DEFINE new == [id |-> issued + 1, prio |-> p, after |-> Len(handed)]
  <1>2. /\ issued \in Nat /\ issued + 1 \in 1 .. MaxFrames
        /\ issued' = issued + 1 /\ handed' = handed
        /\ queues[p] \in Seq(Frames) /\ Len(queues[p]) \in Nat
    BY DEF Push, OrderInv, TypeOK, SchedulerConstants
  <1>3. /\ \A q \in Priorities : q # p => queues'[q] = queues[q]
        /\ Len(queues'[p]) = Len(queues[p]) + 1
        /\ queues'[p][Len(queues[p]) + 1] = new
        /\ \A k \in 1 .. Len(queues[p]) : queues'[p][k] = queues[p][k]
    <2>1. queues'[p] = Append(queues[p], new)
      BY <1>1 DEF OrderInv, TypeOK
    <2>2. \A q \in Priorities : q # p => queues'[q] = queues[q]
      BY <1>1 DEF OrderInv, TypeOK
    <2> HIDE DEF new
    <2> QED
      BY <1>2, <2>1, <2>2
  <1>4. new.id = issued + 1
    OBVIOUS
  <1>5. QueuedFrames' = QueuedFrames \cup {new}
    <2> HIDE DEF new
    <2>1. ASSUME NEW f \in QueuedFrames' PROVE f \in QueuedFrames \cup {new}
      <3>1. PICK q \in Priorities : \E k \in 1 .. Len(queues'[q]) : f = queues'[q][k]
        BY <2>1 DEF QueuedFrames
      <3>2. PICK k \in 1 .. Len(queues'[q]) : f = queues'[q][k]
        BY <3>1
      <3>3. CASE q = p /\ k = Len(queues[p]) + 1
        BY <1>3, <3>2, <3>3
      <3>4. CASE ~(q = p /\ k = Len(queues[p]) + 1)
        <4>1. k \in 1 .. Len(queues[q]) /\ queues'[q][k] = queues[q][k]
          <5>1. CASE q = p
            BY <1>2, <1>3, <3>4, <5>1
          <5>2. CASE q # p
            BY <1>3, <5>2
          <5> QED
            BY <5>1, <5>2
        <4> QED
          BY <3>2, <4>1, QueuedFramesAre
      <3> QED
        BY <3>3, <3>4
    <2>2. ASSUME NEW f \in QueuedFrames PROVE f \in QueuedFrames'
      <3>1. PICK q \in Priorities : \E k \in 1 .. Len(queues[q]) : f = queues[q][k]
        BY <2>2, QueuedFramesAre
      <3>2. PICK k \in 1 .. Len(queues[q]) : f = queues[q][k]
        BY <3>1
      <3>3. k \in 1 .. Len(queues'[q]) /\ f = queues'[q][k]
        <4>1. CASE q = p
          <5>1. k \in 1 .. Len(queues[p]) + 1 /\ k \in 1 .. Len(queues[p])
            BY <1>2, <4>1
          <5>2. queues'[p][k] = queues[p][k] /\ Len(queues'[p]) = Len(queues[p]) + 1
            BY <1>3, <5>1
          <5> QED
            BY <3>2, <4>1, <5>1, <5>2
        <4>2. CASE q # p
          <5>1. queues'[q] = queues[q]
            BY <1>3, <4>2
          <5> QED
            BY <3>2, <5>1
        <4> QED
          BY <4>1, <4>2
      <3> QED
        BY <3>3 DEF QueuedFrames
    <2>3. new \in QueuedFrames'
      <3>1. Len(queues[p]) + 1 \in 1 .. Len(queues'[p])
        BY <1>2, <1>3
      <3>2. \E k \in 1 .. Len(queues'[p]) : new = queues'[p][k]
        BY <1>3, <3>1
      <3>3. \A f : (\E q \in Priorities : \E k \in 1 .. Len(queues'[q]) :
                        f = queues'[q][k]) => f \in QueuedFrames'
        BY DEF QueuedFrames
      <3> QED
        BY <3>2, <3>3
    <2> QED
      BY <2>1, <2>2, <2>3
  <1>6. \A m \in 1 .. MaxFrames : m < issued + 1 <=> m \in Channel!Known
    BY <1>2 DEF Numbered, SchedulerConstants
  <1>7. Channel!Submit
    BY <1>2, <1>5, <1>6 DEF Channel!Submit
  <1>8. Numbered'
    <2>1. (Channel!Known)' = Channel!Known \cup {issued + 1}
      <3> HIDE DEF new
      <3>1. {f.id : f \in QueuedFrames \cup {new}}
                = {f.id : f \in QueuedFrames} \cup {issued + 1}
        BY <1>4
      <3> QED
        BY <1>2, <1>5, <3>1 DEF Channel!Known
    <2> QED
      BY <1>2, <2>1 DEF Numbered, SchedulerConstants
  <1> QED
    BY <1>7, <1>8

\* run's pop is the channel's Transmit: the frame at the head of the most urgent
\* queue precedes every other pending frame, and leaves the pending set.
LEMMA PopTransmits ==
    ASSUME SchedulerConstants, OrderInv, Numbered, PopSome
    PROVE  Channel!Transmit /\ Numbered'
  <1>1. PICK p \in Priorities :
            /\ MostUrgent(p)
            /\ handed' = Append(handed, Head(queues[p]))
            /\ queues' = [queues EXCEPT ![p] = Tail(@)]
    BY DEF PopSome
  <1> DEFINE top == queues[p][1]
  <1>2. /\ queues[p] \in Seq(Frames) /\ queues[p] # <<>>
        /\ Len(queues[p]) \in Nat /\ Len(queues[p]) > 0
        /\ handed \in Seq(Frames) /\ Len(handed) \in Nat
    BY <1>1 DEF MostUrgent, NonEmpty, OrderInv, TypeOK
  <1>3. /\ issued' = issued
        /\ \A q \in Priorities : q # p => queues'[q] = queues[q]
        /\ Len(queues'[p]) = Len(queues[p]) - 1
        /\ \A k \in 1 .. Len(queues'[p]) : queues'[p][k] = queues[p][k + 1]
    BY <1>1, <1>2 DEF PopSome, OrderInv, TypeOK
  <1>4. top \in Frames /\ Head(queues[p]) = top
    BY <1>2
  <1>5. handed' = Append(handed, top)
    BY <1>1, <1>4
  <1>6. 1 \in 1 .. Len(queues[p]) /\ top \in QueuedFrames
    <2>1. 1 \in 1 .. Len(queues[p])
      BY <1>2
    <2> QED
      BY <2>1, QueuedFramesAre
  <1>7. \A q \in Priorities : \A k \in 1 .. Len(queues[q]) :
            (q = p /\ k = 1) \/ Channel!Precedes(top, queues[q][k])
    <2> SUFFICES ASSUME NEW q \in Priorities, NEW k \in 1 .. Len(queues[q]),
                        ~(q = p /\ k = 1)
                 PROVE  Channel!Precedes(top, queues[q][k])
      OBVIOUS
    <2>1. top.prio = p /\ queues[q][k].prio = q
      BY <1>6 DEF OrderInv, QueuesSorted
    <2>2. CASE q = p
      <3>1. k \in 1 .. Len(queues[p]) /\ 1 < k
        BY <2>2
      <3>2. top.id < queues[p][k].id
        BY <1>6, <3>1 DEF OrderInv, QueuesSorted
      <3> QED
        BY <2>1, <2>2, <3>2 DEF Channel!Precedes
    <2>3. CASE q # p
      <3>1. queues[q] # <<>>
        BY DEF OrderInv, TypeOK
      <3>2. ~(q < p)
        BY <1>1, <3>1 DEF MostUrgent, NonEmpty
      <3>3. p < q
        BY <2>3, <3>2 DEF SchedulerConstants
      <3> QED
        BY <2>1, <3>3 DEF Channel!Precedes
    <2> QED
      BY <2>2, <2>3
  <1>8. ~Channel!Precedes(top, top)
    <2>1. top.prio \in Nat /\ top.id \in Nat
      BY <1>6, FrameTypes DEF OrderInv, QueuesSorted, SchedulerConstants
    <2> QED
      BY <2>1 DEF Channel!Precedes
  <1> HIDE DEF top
  <1>9. QueuedFrames' = QueuedFrames \ {top}
    <2>1. ASSUME NEW f \in QueuedFrames' PROVE f \in QueuedFrames \ {top}
      <3>1. PICK q \in Priorities : \E k \in 1 .. Len(queues'[q]) : f = queues'[q][k]
        BY <2>1 DEF QueuedFrames
      <3>2. PICK k \in 1 .. Len(queues'[q]) : f = queues'[q][k]
        BY <3>1
      <3>3. PICK m \in 1 .. Len(queues[q]) :
                queues'[q][k] = queues[q][m] /\ ~(q = p /\ m = 1)
        <4>1. CASE q = p
          <5>1. k + 1 \in 1 .. Len(queues[p]) /\ k + 1 # 1
            BY <1>2, <1>3, <4>1
          <5> QED
            BY <1>3, <4>1, <5>1
        <4>2. CASE q # p
          BY <1>3, <4>2
        <4> QED
          BY <4>1, <4>2
      <3>4. f # top
        BY <1>7, <1>8, <3>2, <3>3
      <3> QED
        BY <3>2, <3>3, <3>4, QueuedFramesAre
    <2>2. ASSUME NEW f \in QueuedFrames, f # top PROVE f \in QueuedFrames'
      <3>1. PICK q \in Priorities : \E k \in 1 .. Len(queues[q]) : f = queues[q][k]
        BY <2>2, QueuedFramesAre
      <3>2. PICK k \in 1 .. Len(queues[q]) : f = queues[q][k]
        BY <3>1
      <3>3. \E m \in 1 .. Len(queues'[q]) : f = queues'[q][m]
        <4>1. CASE q = p
          <5>1. k # 1
            BY <2>2, <3>2, <4>1 DEF top
          <5>2. /\ k - 1 \in 1 .. Len(queues'[p]) /\ (k - 1) + 1 = k
            BY <1>2, <1>3, <4>1, <5>1
          <5> QED
            BY <1>3, <3>2, <4>1, <5>2
        <4>2. CASE q # p
          BY <1>3, <3>2, <4>2
        <4> QED
          BY <4>1, <4>2
      <3> QED
        BY <3>3 DEF QueuedFrames
    <2> QED
      BY <2>1, <2>2
  <1>10. \A g \in QueuedFrames \ {top} : Channel!Precedes(top, g)
    <2> TAKE g \in QueuedFrames \ {top}
    <2>1. PICK q \in Priorities : \E k \in 1 .. Len(queues[q]) : g = queues[q][k]
      BY QueuedFramesAre
    <2>2. PICK k \in 1 .. Len(queues[q]) : g = queues[q][k]
      BY <2>1
    <2>3. ~(q = p /\ k = 1)
      BY <2>2 DEF top
    <2> QED
      BY <1>7, <2>2, <2>3
  <1>11. Channel!Transmit
    BY <1>5, <1>6, <1>9, <1>10 DEF Channel!Transmit
  <1>12. Numbered'
    <2>1. {handed'[i].id : i \in DOMAIN handed'}
              = {handed[i].id : i \in DOMAIN handed} \cup {top.id}
      <3>1. /\ DOMAIN handed = 1 .. Len(handed)
            /\ DOMAIN handed' = 1 .. (Len(handed) + 1)
            /\ handed'[Len(handed) + 1] = top
            /\ \A i \in 1 .. Len(handed) : handed'[i] = handed[i]
        BY <1>2, <1>4, <1>5
      <3>2. 1 .. (Len(handed) + 1) = 1 .. Len(handed) \cup {Len(handed) + 1}
        BY <1>2
      <3> QED
        BY <3>1, <3>2
    <2>2. {f.id : f \in QueuedFrames} = {f.id : f \in QueuedFrames \ {top}} \cup {top.id}
      BY <1>6
    <2>3. (Channel!Known)' = Channel!Known
      BY <1>9, <2>1, <2>2 DEF Channel!Known
    <2> QED
      BY <1>3, <2>3 DEF Numbered
  <1> QED
    BY <1>11, <1>12

\* Every step of the scheduler is a step of the priority channel or leaves it
\* unchanged: frames are accepted in order, none is lost, duplicated or invented
\* on the way to the radio, and each hand-over is of the most urgent, oldest
\* pending frame.  (The channel's liveness conjunct is left to TLC.)
THEOREM SchedulerImplementsChannel ==
    Spec => Channel!Init /\ [][Channel!Next]_(Channel!vars)
  <1>1. Init => Channel!Init /\ Numbered
    <2> SUFFICES ASSUME Init PROVE Channel!Init /\ Numbered
      OBVIOUS
    <2>1. handed = <<>> /\ \A p \in Priorities : Len(queues[p]) = 0
      BY DEF Init
    <2>2. QueuedFrames = {}
      BY <2>1, QueuedFramesAre
    <2>3. Channel!Known = {}
      BY <2>1, <2>2 DEF Channel!Known
    <2> QED
      BY <2>1, <2>2, <2>3, SchedulerConstants DEF Channel!Init, Numbered, Init, SchedulerConstants
  <1>2. OrderInv /\ Numbered /\ [Next]_vars
            => Numbered' /\ [Channel!Next]_(Channel!vars)
    <2> SUFFICES ASSUME OrderInv, Numbered, [Next]_vars
                 PROVE  Numbered' /\ [Channel!Next]_(Channel!vars)
      OBVIOUS
    <2>1. ASSUME NEW c \in Producers, Push(c)
          PROVE  Numbered' /\ Channel!Submit
      BY <2>1, SchedulerConstants, PushSubmits
    <2>2. CASE PopSome
      BY <2>2, SchedulerConstants, PopTransmits DEF Channel!Next
    <2>3. CASE UNCHANGED <<queues, issued, handed>>
      BY <2>3 DEF Numbered, Channel!Known, Channel!vars, QueuedFrames
    <2> QED
      BY <2>1, <2>2, <2>3
      DEF Next, RunStep, NotifyOne, PopNone, Send, Await, vars, Channel!Next
  <1> QED
    BY <1>1, <1>2, OrderInvariant, PTL DEF Spec
============================================================================
