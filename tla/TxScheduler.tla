---------------------------- MODULE TxScheduler ----------------------------
(***************************************************************************)
(* The strict-priority TX scheduler (wire scheduler.rs): tasks call        *)
(* enqueue, which pushes under the mutex and then, outside it, calls       *)
(* notify_one; one task executes run, which drains the queues and waits    *)
(* for the notification.  tokio's Notify holds at most one permit.         *)
(***************************************************************************)
EXTENDS Naturals, Sequences

CONSTANTS
    Priorities,  \* 0 (Emergency) .. 3 (Bulk) in the code
    Producers,   \* tasks that call enqueue
    MaxFrames    \* bound: frames enqueued

ASSUME SchedulerConstants ==
    /\ Priorities \subseteq Nat
    /\ MaxFrames \in Nat

VARIABLES
    queues,    \* Queues.inner: one FIFO per priority
    permit,    \* Notify: a notification is stored
    runner,    \* where run is
    current,   \* the frame run holds, a sequence of at most one
    producer,  \* where each enqueue call is
    issued,    \* frames enqueued so far
    handed     \* history: frames taken from the queues, in order

vars == <<queues, permit, runner, current, producer, issued, handed>>

\* `after` records how many frames had been taken when this one was pushed.
Frames == [id : 1 .. MaxFrames, prio : Priorities, after : Nat]

NonEmpty(p) == queues[p] # <<>>

Init ==
    /\ queues = [p \in Priorities |-> <<>>]
    /\ permit = FALSE
    /\ runner = "popping"
    /\ current = <<>>
    /\ producer = [c \in Producers |-> "idle"]
    /\ issued = 0
    /\ handed = <<>>

---------------------------------------------------------------------------
(* enqueue *)

\* Deviation: a queue holds one frame and drops the older one.
PushDropsOldest(c) ==
    /\ producer[c] = "idle"
    /\ issued < MaxFrames
    /\ \E p \in Priorities :
           queues' = [queues EXCEPT ![p] =
               <<[id |-> issued + 1, prio |-> p, after |-> Len(handed)]>>]
    /\ issued' = issued + 1
    /\ producer' = [producer EXCEPT ![c] = "notify"]
    /\ UNCHANGED <<permit, runner, current, handed>>

\* queues.lock().push(frame, prio)
Push(c) ==
    /\ producer[c] = "idle"
    /\ issued < MaxFrames
    /\ \E p \in Priorities :
           queues' = [queues EXCEPT ![p] = Append(@,
               [id |-> issued + 1, prio |-> p, after |-> Len(handed)])]
    /\ issued' = issued + 1
    /\ producer' = [producer EXCEPT ![c] = "notify"]
    /\ UNCHANGED <<permit, runner, current, handed>>

\* Deviation: notify_waiters, which stores no permit.
NotifyWaiters(c) ==
    /\ producer[c] = "notify"
    /\ producer' = [producer EXCEPT ![c] = "idle"]
    /\ runner' = IF runner = "parked" THEN "popping" ELSE runner
    /\ UNCHANGED <<queues, permit, current, issued, handed>>

\* notify_one wakes the waiting task, or stores the permit if none waits.
NotifyOne(c) ==
    /\ producer[c] = "notify"
    /\ producer' = [producer EXCEPT ![c] = "idle"]
    /\ \/ runner = "parked" /\ runner' = "popping" /\ UNCHANGED permit
       \/ runner # "parked" /\ permit' = TRUE /\ UNCHANGED runner
    /\ UNCHANGED <<queues, current, issued, handed>>

---------------------------------------------------------------------------
(* run *)

\* Deviation: the queues are scanned from the least urgent one.
MostUrgentReversed(p) ==
    NonEmpty(p) /\ \A q \in Priorities : q > p => ~NonEmpty(q)

\* pop_next takes the first non-empty queue, P0 to P3.
MostUrgent(p) == NonEmpty(p) /\ \A q \in Priorities : q < p => ~NonEmpty(q)

PopSome ==
    /\ runner = "popping"
    /\ \E p \in Priorities :
           /\ MostUrgent(p)
           /\ current' = <<Head(queues[p])>>
           /\ handed' = Append(handed, Head(queues[p]))
           /\ queues' = [queues EXCEPT ![p] = Tail(@)]
    /\ runner' = "sending"
    /\ UNCHANGED <<permit, producer, issued>>

PopNone ==
    /\ runner = "popping"
    /\ \A p \in Priorities : ~NonEmpty(p)
    /\ runner' = "parking"
    /\ UNCHANGED <<queues, permit, current, producer, issued, handed>>

\* Deviation: the frame is kept after the send.
SendKeeps ==
    /\ runner = "sending"
    /\ runner' = "popping"
    /\ UNCHANGED <<queues, permit, current, producer, issued, handed>>

\* link.send; a failure is only logged and the frame is gone either way.
Send ==
    /\ runner = "sending"
    /\ current' = <<>>
    /\ runner' = "popping"
    /\ UNCHANGED <<queues, permit, producer, issued, handed>>

\* notified().await: a stored permit is consumed at once, otherwise wait.
Await ==
    /\ runner = "parking"
    /\ \/ permit /\ permit' = FALSE /\ runner' = "popping"
       \/ ~permit /\ runner' = "parked" /\ UNCHANGED permit
    /\ UNCHANGED <<queues, current, producer, issued, handed>>

RunStep == PopSome \/ PopNone \/ Send \/ Await

Next ==
    \/ \E c \in Producers : Push(c) \/ NotifyOne(c)
    \/ RunStep

\* The runtime keeps polling a ready task, and enqueue does not suspend
\* between the push and the notification.
Fairness ==
    /\ WF_vars(RunStep)
    /\ \A c \in Producers : WF_vars(NotifyOne(c))

Spec == Init /\ [][Next]_vars /\ Fairness

---------------------------------------------------------------------------
(* Properties *)

\* Every variable keeps the shape of the code's data, and run holds a frame
\* exactly while it sends.
TypeOK ==
    /\ queues \in [Priorities -> Seq(Frames)]
    /\ permit \in BOOLEAN
    /\ runner \in {"popping", "sending", "parking", "parked"}
    /\ current \in Seq(Frames)
    /\ current # <<>> <=> runner = "sending"
    /\ producer \in [Producers -> {"idle", "notify"}]
    /\ issued \in 0 .. MaxFrames
    /\ handed \in Seq(Frames)

\* No wakeup is lost between a push and the notification that follows it: when
\* run is about to wait, or waits, while frames are queued, a permit is stored
\* or an enqueue call is still going to notify.
NoLostWakeup ==
    runner \in {"parking", "parked"} /\ (\E p \in Priorities : NonEmpty(p)) =>
        \/ runner = "parking" /\ permit
        \/ \E c \in Producers : producer[c] = "notify"

\* "Emergency frames are always dequeued before Bulk, regardless of arrival
\* order": of two frames, the one taken later is less urgent, or equally
\* urgent and enqueued later, or it was enqueued only after the other one had
\* been taken.
HandoverOrder ==
    \A i, j \in 1 .. Len(handed) : i < j =>
        \/ handed[i].prio < handed[j].prio
        \/ handed[i].prio = handed[j].prio /\ handed[i].id < handed[j].id
        \/ handed[j].prio < handed[i].prio /\ handed[j].after >= i

\* The scheduler implements the priority channel: same order, no frame lost
\* before the radio, duplicated or held back.
QueuedFrames ==
    UNION {{queues[p][i] : i \in 1 .. Len(queues[p])} : p \in Priorities}

Channel == INSTANCE PriorityChannel WITH pending <- QueuedFrames, out <- handed

ImplementsChannel == Channel!Spec
============================================================================
