------------------------------- MODULE JamHop -------------------------------
(***************************************************************************)
(* Jam detection and channel hopping (bin rx.rs, handlers.rs).  Each       *)
(* node's rx_loop keeps a window of the priorities of the frames it        *)
(* verified; when it holds many Bulk frames and no High one, the node      *)
(* moves its radio to the other fallback channel and then broadcasts a     *)
(* JamAlert, whose receivers move in tasks of their own.  A broadcast is   *)
(* heard on the channel it is sent on.  Frames that fail verification      *)
(* never get as far as the window and are left out, and so is the          *)
(* ChannelHop message, which has a handler but no sender in the program.   *)
(***************************************************************************)
EXTENDS Naturals, Sequences, SequencesExt, FiniteSets

CONSTANTS
    Nodes,
    Window,      \* 500 ms, in ticks of the clock
    BulkLimit,   \* 150: more Bulk frames than this in the window are a jam
    MaxTime,     \* bound: ticks
    MaxBack,     \* bound: how far a node's clock is set back
    MaxAhead,    \* bound: how far a node's clock is set ahead
    Adjusted,    \* bound: the nodes whose clock is set
    MaxTraffic,  \* bound: frames of other traffic
    MaxAlerts,   \* bound: alarms raised
    MaxLoss,     \* bound: receptions lost
    MaxFails     \* bound: calls of `iw` that fail

ASSUME JamConstants ==
    {Window, BulkLimit, MaxTime, MaxBack, MaxAhead, MaxTraffic, MaxAlerts, MaxLoss,
     MaxFails} \subseteq Nat

VARIABLES
    now,           \* true time
    back, ahead,   \* how far each node's clock has been set back, set ahead
    window,        \* JamWindow.entries, with the true time of each frame
    jam_detected,  \* the flag of rx_loop
    rx_loop,       \* where rx_loop is: it waits for its own hop
    tasks,         \* calls of handle_jam_alert in progress
    channel,       \* AppState.channel, what the console shows
    radio,         \* channel the interface is tuned to
    outbox,        \* alerts in the TX scheduler
    inbox,         \* alerts received and not yet handled
    channel_hops, stream_rots,  \* the shared counters
    alerts,        \* history: alerts raised
    announced,     \* history: alerts sent
    lastHigh,      \* history: true time of the last High frame, 0 if none
    handledBy,     \* history: nodes that have handled an alert
    failedOn,      \* history: nodes on which set_channel has failed
    traffic, losses, fails

local   == <<window, jam_detected, rx_loop, lastHigh>>
tuning  == <<tasks, channel, radio, channel_hops, stream_rots, handledBy, failedOn, fails>>
network == <<outbox, inbox, losses, announced>>
clocks  == <<now, back, ahead>>
vars    == <<clocks, local, tuning, network, alerts, traffic>>

\* Every node starts on the same channel; AppState::new shows 0.
Init ==
    /\ now = 1
    /\ back = [n \in Nodes |-> 0] /\ ahead = [n \in Nodes |-> 0]
    /\ window = [n \in Nodes |-> <<>>]
    /\ jam_detected = [n \in Nodes |-> FALSE]
    /\ rx_loop = [n \in Nodes |-> "recv"]
    /\ tasks = [n \in Nodes |-> {}]
    /\ channel = [n \in Nodes |-> 0]
    /\ radio = [n \in Nodes |-> 0]
    /\ outbox = [n \in Nodes |-> <<>>]
    /\ inbox = [n \in Nodes |-> <<>>]
    /\ channel_hops = [n \in Nodes |-> 0]
    /\ stream_rots = [n \in Nodes |-> 0]
    /\ alerts = {} /\ announced = {}
    /\ lastHigh = [n \in Nodes |-> 0]
    /\ handledBy = {}
    /\ failedOn = {}
    /\ traffic = 0 /\ losses = 0 /\ fails = 0

---------------------------------------------------------------------------
(* JamWindow *)

\* now_ms: the system clock, which an administrator or NTP may set.
Clock(n) == IF now + ahead[n] > back[n] THEN now + ahead[n] - back[n] ELSE 0

\* now_ms.saturating_sub(ts) > 500
Old(e, t) == t > e.at /\ t - e.at > Window

\* Deviation: entries are never evicted.
KeepAll(w, t) == w

\* Pops from the front while the front is old; a younger front keeps the rest.
Evict(w, t) ==
    LET kept == {i \in DOMAIN w : ~Old(w[i], t)}
        from == IF kept = {} THEN Len(w) + 1 ELSE CHOOSE i \in kept : \A j \in kept : i <= j
    IN  SubSeq(w, from, Len(w))

Record(n, prio) ==
    Evict(Append(window[n], [at |-> Clock(n), prio |-> prio, arrived |-> now]), Clock(n))

Count(w, prio) == Cardinality({i \in DOMAIN w : w[i].prio = prio})

IsJammed(w) == Count(w, "High") = 0 /\ Count(w, "Bulk") > BulkLimit

---------------------------------------------------------------------------
(* rx_loop *)

\* hop_ch of handle_jam_alert
HopChannel(c) == IF c = 36 THEN 40 ELSE 36

\* Deviation: the hop is computed from the receiver's own channel.
HopFromOwn(n, a) == HopChannel(channel[n])

HopOf(n, a) == HopChannel(a.channel)

\* handle_jam_alert logs, counts and calls handle_channel_hop.
StartTasks(n, as) ==
    /\ tasks' = [tasks EXCEPT ![n] = @ \cup {[alert |-> a, step |-> "tune"] : a \in as}]
    /\ channel_hops' = [channel_hops EXCEPT ![n] = @ + Cardinality(as)]
    /\ UNCHANGED <<channel, radio, stream_rots, handledBy, failedOn, fails>>

\* The alert names the channel its sender shows; the id tells alerts apart.
JamAlert(n) ==
    [id |-> Cardinality(alerts) + 1, detected_by |-> n, channel |-> channel[n]]

\* The check after a frame was delivered locally, with the new window w; `as`
\* is the alert the frame carried, if it did.
CheckJam(n, w, as) ==
    \/ /\ ~jam_detected[n] /\ IsJammed(w)
       /\ Cardinality(alerts) < MaxAlerts
       /\ alerts' = alerts \cup {JamAlert(n)}
       /\ StartTasks(n, as \cup {JamAlert(n)})
       /\ jam_detected' = [jam_detected EXCEPT ![n] = TRUE]
       /\ rx_loop' = [rx_loop EXCEPT ![n] = "hopping"]
    \/ /\ jam_detected[n] \/ ~IsJammed(w)
       /\ jam_detected' = [jam_detected EXCEPT ![n] = @ /\ IsJammed(w)]
       /\ StartTasks(n, as)
       /\ UNCHANGED <<rx_loop, alerts>>

\* A verified frame of other traffic.  A unicast frame on its way to another
\* node is recorded, and the loop continues before the check.
RxTraffic(n) ==
    /\ rx_loop[n] = "recv"
    /\ traffic < MaxTraffic
    /\ traffic' = traffic + 1
    /\ \E prio \in {"High", "Bulk"} :
       LET w == Record(n, prio) IN
       /\ window' = [window EXCEPT ![n] = w]
       /\ lastHigh' = [lastHigh EXCEPT ![n] = IF prio = "High" THEN now ELSE @]
       /\ \/ CheckJam(n, w, {})
          \/ UNCHANGED <<jam_detected, rx_loop, alerts, tuning>>
    /\ UNCHANGED <<clocks, network>>

\* A JamAlert arrives: an Emergency frame whose handler is spawned.
RxAlert(n) ==
    /\ rx_loop[n] = "recv"
    /\ inbox[n] # <<>>
    /\ LET w == Record(n, "Emergency") IN
       /\ window' = [window EXCEPT ![n] = w]
       /\ CheckJam(n, w, {Head(inbox[n])})
    /\ inbox' = [inbox EXCEPT ![n] = Tail(@)]
    /\ UNCHANGED <<clocks, lastHigh, outbox, losses, announced, traffic>>

\* The latest alert of n.
Latest(n) ==
    LET mine == {a \in alerts : a.detected_by = n}
    IN  CHOOSE a \in mine : \A b \in mine : b.id <= a.id

\* Deviation: the error of set_channel is passed on, and nothing is enqueued.
AnnounceIfTuned(n) ==
    /\ rx_loop[n] = "announcing"
    /\ rx_loop' = [rx_loop EXCEPT ![n] = "recv"]
    /\ outbox' = IF n \in failedOn THEN outbox
                 ELSE [outbox EXCEPT ![n] = Append(@, Latest(n))]
    /\ UNCHANGED <<clocks, window, jam_detected, lastHigh, tuning, inbox, losses,
                   announced, alerts, traffic>>

\* After its own hop, whatever came of it, rx_loop enqueues the alert.
Announce(n) ==
    /\ rx_loop[n] = "announcing"
    /\ rx_loop' = [rx_loop EXCEPT ![n] = "recv"]
    /\ outbox' = [outbox EXCEPT ![n] = Append(@, Latest(n))]
    /\ UNCHANGED <<clocks, window, jam_detected, lastHigh, tuning, inbox, losses,
                   announced, alerts, traffic>>

---------------------------------------------------------------------------
(* handle_channel_hop, in the tasks of the receivers and inside rx_loop *)

\* set_channel, whose failure is only logged; then the counters.
Tune(n, t) ==
    /\ t \in tasks[n] /\ t.step = "tune"
    /\ \/ /\ radio' = [radio EXCEPT ![n] = HopOf(n, t.alert)]
          /\ UNCHANGED <<fails, failedOn>>
       \/ /\ fails < MaxFails
          /\ fails' = fails + 1
          /\ failedOn' = failedOn \cup {n}
          /\ UNCHANGED radio
    /\ tasks' = [tasks EXCEPT ![n] = (@ \ {t}) \cup {[t EXCEPT !.step = "show"]}]
    /\ channel_hops' = [channel_hops EXCEPT ![n] = @ + 1]
    /\ stream_rots' = [stream_rots EXCEPT ![n] = @ + 1]
    /\ UNCHANGED <<clocks, local, channel, handledBy, network, alerts, traffic>>

\* app.channel = new_channel, whatever set_channel returned.
Show(n, t) ==
    /\ t \in tasks[n] /\ t.step = "show"
    /\ channel' = [channel EXCEPT ![n] = HopOf(n, t.alert)]
    /\ tasks' = [tasks EXCEPT ![n] = @ \ {t}]
    /\ handledBy' = handledBy \cup {n}
    /\ rx_loop' = [rx_loop EXCEPT ![n] =
           IF t.alert.detected_by = n THEN "announcing" ELSE @]
    /\ UNCHANGED <<clocks, window, jam_detected, lastHigh, radio, channel_hops,
                   stream_rots, failedOn, fails, network, alerts, traffic>>

---------------------------------------------------------------------------
(* External: the radio channel and the clocks *)

\* The scheduler sends an alert to the nodes tuned to the sender's channel.
Transmit(n) ==
    /\ outbox[n] # <<>>
    /\ LET inRange == {m \in Nodes \ {n} : radio[m] = radio[n]} IN
       \E heard \in SUBSET inRange :
           /\ losses + Cardinality(inRange \ heard) <= MaxLoss
           /\ losses' = losses + Cardinality(inRange \ heard)
           /\ inbox' = [m \in Nodes |->
                  IF m \in heard THEN Append(inbox[m], Head(outbox[n])) ELSE inbox[m]]
    /\ outbox' = [outbox EXCEPT ![n] = Tail(@)]
    /\ announced' = announced \cup {Head(outbox[n])}
    /\ UNCHANGED <<clocks, local, tuning, alerts, traffic>>

Tick ==
    /\ now < MaxTime
    /\ now' = now + 1
    /\ UNCHANGED <<back, ahead, local, tuning, network, alerts, traffic>>

StepBack(n) ==
    /\ n \in Adjusted
    /\ back[n] < MaxBack
    /\ back' = [back EXCEPT ![n] = @ + 1]
    /\ UNCHANGED <<now, ahead, local, tuning, network, alerts, traffic>>

StepAhead(n) ==
    /\ n \in Adjusted
    /\ ahead[n] < MaxAhead
    /\ ahead' = [ahead EXCEPT ![n] = @ + 1]
    /\ UNCHANGED <<now, back, local, tuning, network, alerts, traffic>>

---------------------------------------------------------------------------
\* What the program does of its own accord: handlers, rx_loop, scheduler.
ProgramStep ==
    \E n \in Nodes :
        \/ RxAlert(n) \/ Announce(n) \/ Transmit(n)
        \/ \E t \in tasks[n] : Tune(n, t) \/ Show(n, t)

Next == ProgramStep \/ Tick \/ \E n \in Nodes : RxTraffic(n) \/ StepBack(n) \/ StepAhead(n)

\* The program goes on while it has something to do (each such step uses up an
\* alert or a step of a task, so no part of it waits forever).  Traffic need
\* not come, nor need time pass.
Fairness == WF_vars(ProgramStep)

Spec == Init /\ [][Next]_vars /\ Fairness

---------------------------------------------------------------------------
(* Properties *)

\* When rx_loop raises the alarm, more than BulkLimit Bulk frames have really
\* arrived within the window, stretched by as much as the clock was set back,
\* and no High frame has within the window, shortened by as much as the clock
\* was set ahead, transit frames included (JamWindow).
AlarmIsReal ==
    [][\A n \in Nodes : ~jam_detected[n] /\ jam_detected'[n] =>
        /\ BulkLimit < Cardinality({i \in DOMAIN window'[n] :
               /\ window'[n][i].prio = "Bulk"
               /\ now - window'[n][i].arrived <= Window + back[n]})
        /\ lastHigh'[n] = 0 \/ now + ahead[n] - lastHigh'[n] > Window]_vars

\* Nodes that saw the same jam end up together: when all alerts name the same
\* channel, a node that has handled any number of them, in any order and
\* interleaved, its own included, is tuned to the one fallback channel and
\* shows it, unless set_channel failed there (handle_channel_hop).
SameJamSameChannel ==
    (\A a, b \in alerts : a.channel = b.channel) =>
        \A n \in handledBy \ failedOn : tasks[n] = {} =>
            \A a \in alerts : radio[n] = HopChannel(a.channel) /\ channel[n] = radio[n]

\* "broadcasting JamAlert": every alert raised is sent, also when set_channel
\* fails, other alerts are being handled meanwhile or a second alarm follows
\* (rx_loop, which waits for its own hop before it enqueues the alert).
AlarmIsAnnounced ==
    \A i \in 1 .. MaxAlerts :
        (\E a \in alerts : a.id = i) ~> (\E a \in announced : a.id = i)

\* OVERVIEW.md, demo step 4: after the hop the mesh converges on the new
\* channel.  The detecting node leaves before its alert is sent (rx.rs).
MeshMovesTogether == <>[](\A m, n \in Nodes : radio[m] = radio[n])
============================================================================
