---------------------------- MODULE JamHopProofs ----------------------------
(***************************************************************************)
(* Proofs about JamHop for any set of nodes, any window and limit, any     *)
(* traffic, and clocks set back and ahead by any amount: the alarm of the  *)
(* window is real, and nodes that handled alerts of the same jam are       *)
(* together.                                                               *)
(***************************************************************************)
EXTENDS JamHop, SequenceTheorems, FiniteSetTheorems, WellFoundedInduction, TLAPS

(* The inductive strengthening of AlarmIsReal, in named parts. *)

Priorities == {"High", "Bulk", "Emergency"}
Entries    == [at : Nat, prio : Priorities, arrived : Nat]

\* Entries are in the order of arrival, stamped by a clock that, at time t, was
\* at most b behind and at most d ahead.
Timely(w, t, b, d) ==
    \A i \in 1 .. Len(w) :
        /\ w[i].at <= w[i].arrived + d /\ w[i].arrived <= t
        /\ w[i].arrived <= w[i].at + b
        /\ \A j \in 1 .. Len(w) : i <= j => w[i].arrived <= w[j].arrived

\* What a clock set b back and d ahead may show at time t.
Shows(c, t, b, d) == c <= t + d /\ t + d <= c + b /\ (c = 0 \/ t + d = c + b)

\* An entry for a frame that arrives at time t, by such a clock.
Stamped(e, t, b, d) == e.arrived = t /\ e.at <= t + d /\ t <= e.at + b

\* The last High frame, of time h, is in the window unless that is long ago by
\* a clock that shows at most m.
HighIsKnown(w, m, h) ==
    \/ h = 0 \/ h + Window < m
    \/ \E i \in 1 .. Len(w) : w[i].prio = "High" /\ w[i].arrived = h

\* Nothing is in the window for longer than the set-back clock explains.
Recent(w, t, b) == \A i \in 1 .. Len(w) : t <= w[i].arrived + Window + b

WindowInv ==
    /\ now \in Nat /\ back \in [Nodes -> Nat] /\ ahead \in [Nodes -> Nat]
    /\ window \in [Nodes -> Seq(Entries)] /\ lastHigh \in [Nodes -> Nat]
    /\ jam_detected \in [Nodes -> BOOLEAN]
    /\ \A n \in Nodes : /\ Timely(window[n], now, back[n], ahead[n])
                        /\ HighIsKnown(window[n], now + ahead[n], lastHigh[n])

---------------------------------------------------------------------------
(* JamWindow *)

\* A nonempty set of natural numbers has a least element.
LEMMA LeastNatural ==
    ASSUME NEW T \in SUBSET Nat, T # {}
    PROVE  \E x \in T : \A y \in T : x <= y
  <1>1. \E R : IsWellFoundedOn(R, Nat) /\ \A x, y \in Nat : <<y, x>> \in R <=> y < x
    <2>1. \A x, y \in Nat : <<y, x>> \in OpToRel(<, Nat) <=> y < x
      BY Zenon DEF OpToRel
    <2> QED
      BY <2>1, NatLessThanWellFounded, Zenon
  <1>2. PICK R : IsWellFoundedOn(R, Nat) /\ \A x, y \in Nat : <<y, x>> \in R <=> y < x
    BY <1>1
  <1>3. \E x \in T : \A y \in T : ~(<<y, x>> \in R)
    BY <1>2, WFMin
  <1>4. \A x, y \in Nat : ~(y < x) => x <= y
    OBVIOUS
  <1> QED
    BY <1>2, <1>3, <1>4

\* u is v without the old entries before the first one that is not old.
Evicted(v, u, t) ==
    \E k \in 0 .. Len(v) :
        /\ \A i \in 1 .. k : Old(v[i], t)
        /\ k < Len(v) => ~Old(v[k + 1], t)
        /\ Len(u) = Len(v) - k
        /\ \A i \in 1 .. Len(v) - k : u[i] = v[k + i]

\* The eviction loop of JamWindow removes old entries from the front only.
LEMMA EvictDropsOld ==
    ASSUME NEW w \in Seq(Entries), NEW t \in Nat
    PROVE  Evict(w, t) \in Seq(Entries) /\ Evicted(w, Evict(w, t), t)
  <1> DEFINE kept == {i \in DOMAIN w : ~Old(w[i], t)}
             from == IF kept = {} THEN Len(w) + 1 ELSE CHOOSE i \in kept : \A j \in kept : i <= j
  <1>1. Len(w) \in Nat /\ DOMAIN w = 1 .. Len(w) /\ \A i \in 1 .. Len(w) : w[i] \in Entries
    BY LenProperties, ElementOfSeq
  <1>2. /\ from \in 1 .. Len(w) + 1
        /\ \A i \in 1 .. from - 1 : Old(w[i], t)
        /\ from <= Len(w) => ~Old(w[from], t)
    <2>1. CASE kept = {}
      BY <1>1, <2>1
    <2>2. CASE kept # {}
      <3>1. kept \in SUBSET Nat
        BY <1>1
      <3>2. \E i \in kept : \A j \in kept : i <= j
        BY <2>2, <3>1, LeastNatural
      <3>3. from \in kept /\ \A j \in kept : from <= j
        BY <2>2, <3>2
      <3> HIDE DEF from
      <3>4. from \in 1 .. Len(w) /\ ~Old(w[from], t)
        BY <1>1, <3>3
      <3>5. \A i \in 1 .. from - 1 : i \in 1 .. Len(w) /\ ~(from <= i)
        BY <1>1, <3>4
      <3> QED
        BY <1>1, <3>3, <3>4, <3>5
    <2> QED
      BY <2>1, <2>2
  <1>3. Evict(w, t) = SubSeq(w, from, Len(w))
    BY DEF Evict
  <1> HIDE DEF from
  <1>k. PICK k \in 0 .. Len(w) : k = from - 1
    BY <1>1, <1>2
  <1>4. k + 1 = from /\ from \in Int /\ Len(w) \in Int
    BY <1>1, <1>2, <1>k
  <1>5. \A i \in from .. Len(w) : w[i] \in Entries
    BY <1>1, <1>2
  <1>6. /\ Evict(w, t) \in Seq(Entries)
        /\ Len(Evict(w, t)) = IF from <= Len(w) THEN Len(w) - from + 1 ELSE 0
        /\ \A i \in 1 .. Len(w) - from + 1 : Evict(w, t)[i] = w[from + i - 1]
    BY <1>3, <1>4, <1>5, SubSeqProperties
  <1>7. Len(Evict(w, t)) = Len(w) - k /\ Len(w) - from + 1 = Len(w) - k
    BY <1>1, <1>2, <1>4, <1>6, <1>k
  <1>8. \A i \in 1 .. Len(w) - k : from + i - 1 = k + i
    BY <1>1, <1>4, <1>k
  <1>9. k < Len(w) => from <= Len(w)
    BY <1>1, <1>4
  <1>10. \A i \in 1 .. k : Old(w[i], t)
    BY <1>2, <1>k
  <1>11. k < Len(w) => ~Old(w[k + 1], t)
    BY <1>2, <1>4, <1>9
  <1>12. \A i \in 1 .. Len(w) - k : Evict(w, t)[i] = w[k + i]
    BY <1>6, <1>7, <1>8
  <1> QED
    BY <1>6, <1>7, <1>10, <1>11, <1>12 DEF Evicted

\* The entries of a window have natural times.
LEMMA EntryTimes ==
    ASSUME NEW w \in Seq(Entries)
    PROVE  /\ Len(w) \in Nat /\ DOMAIN w = 1 .. Len(w)
           /\ \A i \in 1 .. Len(w) : /\ w[i] \in Entries
                                     /\ w[i].at \in Nat /\ w[i].arrived \in Nat
  <1>1. Len(w) \in Nat /\ DOMAIN w = 1 .. Len(w) /\ \A i \in 1 .. Len(w) : w[i] \in Entries
    BY LenProperties, ElementOfSeq
  <1>2. \A e \in Entries : e.at \in Nat /\ e.arrived \in Nat
    BY DEF Entries
  <1> QED
    BY <1>1, <1>2

\* An entry that is not old arrived lately, give or take the set-back clock ...
LEMMA YoungIsRecent ==
    ASSUME NEW t \in Nat, NEW b \in Nat, NEW d \in Nat, NEW c \in Nat, NEW at \in Nat,
           NEW arrived \in Nat, NEW later \in Nat, NEW W \in Nat,
           t + d <= c + b, ~(c > at /\ c - at > W), at <= arrived + d, arrived <= later
    PROVE  t <= later + W + b
  OBVIOUS

\* ... and one that is old arrived more than a window ago, by the clock set ahead.
LEMMA OldIsPast ==
    ASSUME NEW m \in Nat, NEW b \in Nat, NEW c \in Nat, NEW at \in Nat, NEW arrived \in Nat,
           NEW W \in Nat,
           c = 0 \/ m = c + b, c > at, c - at > W, arrived <= at + b
    PROVE  arrived + W < m
  OBVIOUS

\* A window without its first entries, which are old.
LEMMA SuffixWindow ==
    ASSUME Window \in Nat, NEW v \in Seq(Entries), NEW w \in Seq(Entries),
           NEW t \in Nat, NEW b \in Nat, NEW d \in Nat, NEW c \in Nat,
           Shows(c, t, b, d), Timely(v, t, b, d),
           Evicted(v, w, c)
    PROVE  /\ Timely(w, t, b, d) /\ Recent(w, t, b)
           /\ \A i \in 1 .. Len(v) : v[i].prio = "High" => HighIsKnown(w, t + d, v[i].arrived)
  <1>1. /\ Len(v) \in Nat
        /\ \A i \in 1 .. Len(v) : v[i].at \in Nat /\ v[i].arrived \in Nat
    BY EntryTimes
  <1>k. PICK k \in 0 .. Len(v) :
            /\ \A i \in 1 .. k : Old(v[i], c)
            /\ k < Len(v) => ~Old(v[k + 1], c)
            /\ Len(w) = Len(v) - k
            /\ \A i \in 1 .. Len(v) - k : w[i] = v[k + i]
    BY DEF Evicted
  <1>2. \A i \in 1 .. Len(w) : k + i \in 1 .. Len(v) /\ k + 1 <= k + i
    BY <1>1, <1>k
  <1>3. \A i \in 1 .. Len(w) : w[i] = v[k + i]
    BY <1>k
  <1>4. \A i, j \in 1 .. Len(w) : i <= j => k + i <= k + j
    BY <1>1, <1>k
  <1>5. Timely(w, t, b, d)
    BY <1>2, <1>3, <1>4 DEF Timely
  <1>6. Recent(w, t, b)
    <2> SUFFICES ASSUME NEW i \in 1 .. Len(w) PROVE t <= w[i].arrived + Window + b
      BY DEF Recent
    <2>1. k + 1 \in 1 .. Len(v) /\ k < Len(v)
      BY <1>1, <1>k
    <2>2. v[k + 1].arrived <= w[i].arrived /\ v[k + 1].at <= v[k + 1].arrived + d
      BY <1>2, <1>3, <2>1 DEF Timely
    <2>3. ~(c > v[k + 1].at /\ c - v[k + 1].at > Window)
      BY <1>k, <2>1 DEF Old
    <2>4. PICK at \in Nat, arrived \in Nat, later \in Nat :
              at = v[k + 1].at /\ arrived = v[k + 1].arrived /\ later = w[i].arrived
      BY <1>1, <1>2, <1>3, <2>1
    <2>5. t <= later + Window + b
      <3>1. arrived <= later /\ at <= arrived + d /\ ~(c > at /\ c - at > Window)
        BY <2>2, <2>3, <2>4
      <3> QED
        BY <3>1, YoungIsRecent DEF Shows
    <2> QED
      BY <2>4, <2>5
  <1>7. ASSUME NEW i \in 1 .. Len(v), v[i].prio = "High"
        PROVE  HighIsKnown(w, t + d, v[i].arrived)
    <2>1. CASE k < i
      <3>1. i - k \in 1 .. Len(w) /\ k + (i - k) = i
        BY <1>1, <1>k, <2>1
      <3>2. w[i - k] = v[i]
        BY <1>3, <3>1
      <3> QED
        BY <1>7, <3>1, <3>2 DEF HighIsKnown
    <2>2. CASE ~(k < i)
      <3>1. i \in 1 .. k
        BY <1>1, <2>2
      <3>2. c > v[i].at /\ c - v[i].at > Window
        BY <1>k, <3>1 DEF Old
      <3>3. v[i].arrived <= v[i].at + b /\ v[i].at \in Nat /\ v[i].arrived \in Nat
        BY <1>1 DEF Timely
      <3>4. t + d \in Nat
        OBVIOUS
      <3>5. v[i].arrived + Window < t + d
        BY <3>2, <3>3, <3>4, OldIsPast DEF Shows
      <3> QED
        BY <3>5 DEF HighIsKnown
    <2> QED
      BY <2>1, <2>2
  <1> QED
    BY <1>5, <1>6, <1>7

\* A window that gets a new last entry.
LEMMA LongerWindow ==
    ASSUME NEW w0 \in Seq(Entries), NEW t \in Nat, NEW b \in Nat, NEW d \in Nat,
           NEW e \in Entries, Stamped(e, t, b, d), Timely(w0, t, b, d)
    PROVE  /\ Append(w0, e) \in Seq(Entries) /\ Timely(Append(w0, e), t, b, d)
           /\ \A i \in 1 .. Len(w0) : i \in 1 .. Len(Append(w0, e)) /\ Append(w0, e)[i] = w0[i]
           /\ Len(w0) + 1 \in 1 .. Len(Append(w0, e)) /\ Append(w0, e)[Len(w0) + 1] = e
  <1>1. PICK v : v = Append(w0, e)
    OBVIOUS
  <1>2. /\ v \in Seq(Entries) /\ Len(w0) \in Nat /\ Len(v) = Len(w0) + 1
        /\ \A i \in 1 .. Len(w0) : v[i] = w0[i]
        /\ v[Len(w0) + 1] = e
    BY <1>1, AppendProperties, LenProperties
  <1>3. \A i \in 1 .. Len(v) : i \in 1 .. Len(w0) \/ i = Len(w0) + 1
    BY <1>2
  <1>4. \A j \in 1 .. Len(v) : Len(w0) + 1 <= j => j = Len(w0) + 1
    BY <1>2
  <1>5. e.arrived = t /\ e.at <= t + d /\ t <= e.at + b /\ t <= t
    BY DEF Stamped
  <1>6. ASSUME NEW i \in 1 .. Len(v)
        PROVE  /\ v[i].at <= v[i].arrived + d /\ v[i].arrived <= t
               /\ v[i].arrived <= v[i].at + b
               /\ \A j \in 1 .. Len(v) : i <= j => v[i].arrived <= v[j].arrived
    <2>1. CASE i = Len(w0) + 1
      BY <1>2, <1>4, <1>5, <2>1
    <2>2. CASE i \in 1 .. Len(w0)
      <3>1. /\ v[i].at <= v[i].arrived + d /\ v[i].arrived <= t
            /\ v[i].arrived <= v[i].at + b
            /\ \A j \in 1 .. Len(w0) : i <= j => v[i].arrived <= v[j].arrived
        BY <1>2, <2>2 DEF Timely
      <3> QED
        BY <1>2, <1>3, <1>5, <3>1
    <2> QED
      BY <1>3, <2>1, <2>2
  <1>7. Timely(v, t, b, d)
    BY <1>6 DEF Timely
  <1>8. \A i \in 1 .. Len(w0) : i \in 1 .. Len(v)
    BY <1>2
  <1>9. Len(w0) + 1 \in 1 .. Len(v)
    BY <1>2
  <1> QED
    BY <1>1, <1>2, <1>7, <1>8, <1>9

\* A window that holds no High frame and is jammed.
LEMMA JammedWindow ==
    ASSUME JamConstants, NEW w \in Seq(Entries), NEW t \in Nat, NEW b \in Nat, NEW d \in Nat,
           NEW h \in Nat, Recent(w, t, b), HighIsKnown(w, t + d, h), IsJammed(w)
    PROVE  /\ BulkLimit < Cardinality({i \in DOMAIN w :
                  w[i].prio = "Bulk" /\ t - w[i].arrived <= Window + b})
           /\ h = 0 \/ t + d - h > Window
  <1>1. /\ Len(w) \in Nat /\ DOMAIN w = 1 .. Len(w)
        /\ \A i \in 1 .. Len(w) : w[i].arrived \in Nat
        /\ Window \in Nat /\ BulkLimit \in Nat
    BY EntryTimes DEF JamConstants
  <1>2. \A i \in DOMAIN w : w[i].prio # "High"
    <2> DEFINE H == {i \in DOMAIN w : w[i].prio = "High"}
    <2>1. Cardinality(H) = 0
      BY DEF IsJammed, Count
    <2>2. H \in SUBSET (1 .. Len(w)) /\ IsFiniteSet(1 .. Len(w))
      <3>1. 1 \in Int /\ Len(w) \in Int
        BY <1>1
      <3> QED
        BY <1>1, <3>1, FS_Interval
    <2>3. IsFiniteSet(H)
      BY <2>2, FS_Subset
    <2>4. H = {}
      BY <2>1, <2>3, FS_EmptySet
    <2> QED
      BY <2>4
  <1>3. ASSUME NEW i \in DOMAIN w PROVE t - w[i].arrived <= Window + b
    <2>1. PICK a \in Nat : a = w[i].arrived
      BY <1>1
    <2>2. t <= a + Window + b
      BY <1>1, <2>1 DEF Recent
    <2>3. t - a <= Window + b
      BY <1>1, <2>2
    <2> QED
      BY <2>1, <2>3
  <1>4. {i \in DOMAIN w : w[i].prio = "Bulk"} =
            {i \in DOMAIN w : w[i].prio = "Bulk" /\ t - w[i].arrived <= Window + b}
    BY <1>3
  <1>5. BulkLimit < Cardinality({i \in DOMAIN w : w[i].prio = "Bulk"})
    BY DEF IsJammed, Count
  <1>6. h = 0 \/ t + d - h > Window
    <2>1. h = 0 \/ h + Window < t + d
      BY <1>1, <1>2 DEF HighIsKnown
    <2> QED
      BY <1>1, <2>1
  <1> QED
    BY <1>4, <1>5, <1>6

\* Record, on a node's own window and clock.
LEMMA RecordStep ==
    ASSUME JamConstants, WindowInv, NEW n \in Nodes, NEW prio \in Priorities,
           NEW w, w = Record(n, prio)
    PROVE  /\ w \in Seq(Entries)
           /\ Timely(w, now, back[n], ahead[n]) /\ Recent(w, now, back[n])
           /\ HighIsKnown(w, now + ahead[n], lastHigh[n])
           /\ prio = "High" => HighIsKnown(w, now + ahead[n], now)
  <1>1. /\ now \in Nat /\ back[n] \in Nat /\ ahead[n] \in Nat
        /\ window[n] \in Seq(Entries) /\ lastHigh[n] \in Nat
        /\ Timely(window[n], now, back[n], ahead[n])
        /\ HighIsKnown(window[n], now + ahead[n], lastHigh[n])
    BY DEF WindowInv
  <1>2. Window \in Nat
    BY DEF JamConstants
  <1>3. PICK t \in Nat, b \in Nat, d \in Nat, h \in Nat, w0 \in Seq(Entries) :
            t = now /\ b = back[n] /\ d = ahead[n] /\ h = lastHigh[n] /\ w0 = window[n]
    BY <1>1
  <1> DEFINE c == Clock(n)
  <1>4. c \in Nat /\ Shows(c, t, b, d)
    <2>1. c = IF t + d > b THEN t + d - b ELSE 0
      BY <1>3 DEF Clock
    <2> HIDE DEF c
    <2>2. CASE t + d > b
      <3>1. c = t + d - b
        BY <2>1, <2>2
      <3> QED
        BY <2>2, <3>1 DEF Shows
    <2>3. CASE ~(t + d > b)
      <3>1. c = 0
        BY <2>1, <2>3
      <3> QED
        BY <2>3, <3>1 DEF Shows
    <2> QED
      BY <2>2, <2>3
  <1> DEFINE e == [at |-> c, prio |-> prio, arrived |-> t]
             v == Append(w0, e)
  <1>5. w = Evict(v, c)
    BY <1>3 DEF Record
  <1> HIDE DEF c
  <1>6. e \in Entries /\ Stamped(e, t, b, d) /\ e.prio = prio /\ e.arrived = t
    BY <1>4 DEF Entries, Shows, Stamped
  <1>7. Timely(w0, t, b, d) /\ HighIsKnown(w0, t + d, h)
    BY <1>1, <1>3
  <1> HIDE DEF e
  <1>8. /\ v \in Seq(Entries) /\ Timely(v, t, b, d)
        /\ \A i \in 1 .. Len(w0) : i \in 1 .. Len(v) /\ v[i] = w0[i]
        /\ Len(w0) + 1 \in 1 .. Len(v) /\ v[Len(w0) + 1] = e
    BY <1>6, <1>7, LongerWindow
  <1> HIDE DEF v
  <1>9. w \in Seq(Entries) /\ Evicted(v, w, c)
    BY <1>4, <1>5, <1>8, EvictDropsOld
  <1>10. /\ Timely(w, t, b, d) /\ Recent(w, t, b)
         /\ \A i \in 1 .. Len(v) : v[i].prio = "High" => HighIsKnown(w, t + d, v[i].arrived)
    BY <1>2, <1>4, <1>8, <1>9, SuffixWindow
  <1>11. HighIsKnown(w, t + d, h)
    <2>1. CASE h = 0 \/ h + Window < t + d
      BY <2>1 DEF HighIsKnown
    <2>2. CASE \E i \in 1 .. Len(w0) : w0[i].prio = "High" /\ w0[i].arrived = h
      BY <1>8, <1>10, <2>2
    <2> QED
      BY <1>7, <2>1, <2>2 DEF HighIsKnown
  <1>12. prio = "High" => HighIsKnown(w, t + d, t)
    BY <1>6, <1>8, <1>10
  <1> QED
    BY <1>3, <1>9, <1>10, <1>11, <1>12

\* What rx_loop does to the window and to the history of High frames.
LEMMA RxKeepsWindow ==
    ASSUME JamConstants, WindowInv, NEW n \in Nodes, RxTraffic(n) \/ RxAlert(n)
    PROVE  /\ WindowInv'
           /\ UNCHANGED clocks
           /\ Recent(window'[n], now, back[n])
           /\ \A m \in Nodes : ~jam_detected[m] /\ jam_detected'[m] =>
                  jam_detected' = [jam_detected EXCEPT ![n] = TRUE] /\ IsJammed(window'[n])
  <1>1. /\ now \in Nat /\ back \in [Nodes -> Nat] /\ ahead \in [Nodes -> Nat]
        /\ window \in [Nodes -> Seq(Entries)] /\ lastHigh \in [Nodes -> Nat]
    BY DEF WindowInv
  <1>2. \E prio \in Priorities :
            /\ window' = [window EXCEPT ![n] = Record(n, prio)]
            /\ lastHigh' = [lastHigh EXCEPT ![n] = IF prio = "High" THEN now ELSE lastHigh[n]]
            /\ UNCHANGED clocks
            /\ \/ UNCHANGED jam_detected
               \/ \E as : CheckJam(n, Record(n, prio), as)
    <2>1. CASE RxTraffic(n)
      BY <2>1 DEF RxTraffic, Priorities
    <2>2. CASE RxAlert(n)
      <3>1. "Emergency" \in Priorities /\ "Emergency" # "High"
        BY DEF Priorities
      <3>2. lastHigh' = [lastHigh EXCEPT ![n] = lastHigh[n]]
        BY <1>1, <2>2 DEF RxAlert
      <3> QED
        BY <2>2, <3>1, <3>2 DEF RxAlert
    <2> QED
      BY <2>1, <2>2
  <1>3. PICK prio \in Priorities :
            /\ window' = [window EXCEPT ![n] = Record(n, prio)]
            /\ lastHigh' = [lastHigh EXCEPT ![n] = IF prio = "High" THEN now ELSE lastHigh[n]]
            /\ UNCHANGED clocks
            /\ \/ UNCHANGED jam_detected
               \/ \E as : CheckJam(n, Record(n, prio), as)
    BY <1>2
  <1>w. PICK w : w = Record(n, prio)
    OBVIOUS
  <1>4. /\ w \in Seq(Entries)
        /\ Timely(w, now, back[n], ahead[n]) /\ Recent(w, now, back[n])
        /\ HighIsKnown(w, now + ahead[n], lastHigh[n])
        /\ prio = "High" => HighIsKnown(w, now + ahead[n], now)
    BY <1>w, RecordStep
  <1>5. /\ window'[n] = w /\ \A m \in Nodes : m # n => window'[m] = window[m]
        /\ lastHigh'[n] = IF prio = "High" THEN now ELSE lastHigh[n]
        /\ \A m \in Nodes : m # n => lastHigh'[m] = lastHigh[m]
        /\ window' \in [Nodes -> Seq(Entries)] /\ lastHigh' \in [Nodes -> Nat]
    BY <1>1, <1>3, <1>4, <1>w
  <1>6. ASSUME NEW m \in Nodes
        PROVE  /\ Timely(window'[m], now, back[m], ahead[m])
               /\ HighIsKnown(window'[m], now + ahead[m], lastHigh'[m])
    <2>1. CASE m = n
      BY <1>4, <1>5, <2>1
    <2>2. CASE m # n
      BY <1>5, <2>2 DEF WindowInv
    <2> QED
      BY <2>1, <2>2
  <1>7. WindowInv'
    <2>1. jam_detected \in [Nodes -> BOOLEAN]
      BY DEF WindowInv
    <2>2. CASE UNCHANGED jam_detected
      BY <1>1, <1>3, <1>5, <1>6, <2>2 DEF WindowInv, clocks
    <2>3. CASE \E as : CheckJam(n, Record(n, prio), as)
      <3>1. PICK v \in BOOLEAN : jam_detected' = [jam_detected EXCEPT ![n] = v]
        BY <2>3, Zenon DEF CheckJam
      <3>2. jam_detected' \in [Nodes -> BOOLEAN]
        BY <2>1, <3>1
      <3> QED
        BY <1>1, <1>3, <1>5, <1>6, <3>2 DEF WindowInv, clocks
    <2> QED
      BY <1>3, <2>2, <2>3
  <1>8. ASSUME NEW m \in Nodes, ~jam_detected[m], jam_detected'[m]
        PROVE  jam_detected' = [jam_detected EXCEPT ![n] = TRUE] /\ IsJammed(window'[n])
    <2>1. PICK as : CheckJam(n, w, as)
      BY <1>3, <1>8, <1>w
    <2>2. CASE jam_detected' = [jam_detected EXCEPT ![n] = TRUE] /\ IsJammed(w)
      BY <1>5, <2>2
    <2>3. CASE jam_detected' = [jam_detected EXCEPT ![n] = jam_detected[n] /\ IsJammed(w)]
      <3>1. jam_detected \in [Nodes -> BOOLEAN]
        BY DEF WindowInv
      <3>2. jam_detected'[n] => jam_detected[n]
        BY <2>3, <3>1, Zenon
      <3>3. m # n => jam_detected'[m] = jam_detected[m]
        BY <2>3, <3>1, Zenon
      <3> QED
        BY <1>8, <3>2, <3>3, Zenon
    <2> QED
      BY <2>1, <2>2, <2>3 DEF CheckJam
  <1> QED
    BY <1>3, <1>4, <1>5, <1>7, <1>8

\* Bounds that are raised.
LEMMA RaisedBounds ==
    ASSUME NEW t \in Nat, NEW u \in Nat, NEW b \in Nat, NEW c \in Nat,
           NEW d \in Nat, NEW e \in Nat, NEW W \in Nat,
           t <= u, b <= c, d <= e
    PROVE  \A x, y \in Nat : /\ x <= t => x <= u
                             /\ x <= y + b => x <= y + c
                             /\ x <= y + d => x <= y + e
                             /\ x + W < t + d => x + W < u + e
  OBVIOUS

\* Time passes, and clocks are set back or ahead further.
LEMMA TimeKeepsWindow ==
    ASSUME JamConstants, WindowInv, UNCHANGED <<window, lastHigh, jam_detected>>,
           \/ now' = now + 1 /\ UNCHANGED <<back, ahead>>
           \/ /\ UNCHANGED <<now, ahead>>
              /\ \E n \in Nodes : back' = [back EXCEPT ![n] = back[n] + 1]
           \/ /\ UNCHANGED <<now, back>>
              /\ \E n \in Nodes : ahead' = [ahead EXCEPT ![n] = ahead[n] + 1]
    PROVE  WindowInv'
  <1>1. /\ now \in Nat /\ back \in [Nodes -> Nat] /\ ahead \in [Nodes -> Nat]
        /\ window \in [Nodes -> Seq(Entries)] /\ lastHigh \in [Nodes -> Nat]
        /\ Window \in Nat
    BY DEF WindowInv, JamConstants
  <1>2. /\ now' \in Nat /\ now <= now' /\ back' \in [Nodes -> Nat] /\ ahead' \in [Nodes -> Nat]
        /\ \A m \in Nodes : back[m] <= back'[m] /\ ahead[m] <= ahead'[m]
    <2>1. CASE now' = now + 1 /\ UNCHANGED <<back, ahead>>
      BY <1>1, <2>1
    <2>2. CASE /\ UNCHANGED <<now, ahead>>
               /\ \E n \in Nodes : back' = [back EXCEPT ![n] = back[n] + 1]
      <3>1. PICK n \in Nodes : back' = [back EXCEPT ![n] = back[n] + 1]
        BY <2>2
      <3>2. back' \in [Nodes -> Nat]
        BY <1>1, <3>1
      <3>3. \A m \in Nodes : back[m] <= back'[m]
        BY <1>1, <3>1
      <3>4. now <= now' /\ \A m \in Nodes : ahead[m] <= ahead'[m]
        BY <1>1, <2>2
      <3> QED
        BY <1>1, <2>2, <3>2, <3>3, <3>4
    <2>3. CASE /\ UNCHANGED <<now, back>>
               /\ \E n \in Nodes : ahead' = [ahead EXCEPT ![n] = ahead[n] + 1]
      <3>1. PICK n \in Nodes : ahead' = [ahead EXCEPT ![n] = ahead[n] + 1]
        BY <2>3
      <3>2. ahead' \in [Nodes -> Nat]
        BY <1>1, <3>1
      <3>3. \A m \in Nodes : ahead[m] <= ahead'[m]
        BY <1>1, <3>1
      <3>4. now <= now' /\ \A m \in Nodes : back[m] <= back'[m]
        BY <1>1, <2>3
      <3> QED
        BY <1>1, <2>3, <3>2, <3>3, <3>4
    <2> QED
      BY <2>1, <2>2, <2>3
  <1>3. ASSUME NEW m \in Nodes
        PROVE  /\ Timely(window[m], now', back'[m], ahead'[m])
               /\ HighIsKnown(window[m], now' + ahead'[m], lastHigh[m])
    <2>1. /\ Timely(window[m], now, back[m], ahead[m])
          /\ HighIsKnown(window[m], now + ahead[m], lastHigh[m])
          /\ \A i \in 1 .. Len(window[m]) :
                 window[m][i].at \in Nat /\ window[m][i].arrived \in Nat
          /\ lastHigh[m] \in Nat
      BY <1>1, EntryTimes DEF WindowInv
    <2>2. PICK t \in Nat, u \in Nat, b \in Nat, c \in Nat, d \in Nat, e \in Nat :
              /\ t = now /\ u = now' /\ t <= u
              /\ b = back[m] /\ c = back'[m] /\ b <= c
              /\ d = ahead[m] /\ e = ahead'[m] /\ d <= e
      BY <1>1, <1>2
    <2>3. \A x, y \in Nat : /\ x <= t => x <= u
                            /\ x <= y + b => x <= y + c
                            /\ x <= y + d => x <= y + e
                            /\ x + Window < t + d => x + Window < u + e
      <3>1. t <= u /\ b <= c /\ d <= e /\ Window \in Nat
        BY <1>1, <2>2
      <3> QED
        BY <3>1, RaisedBounds, SMT
    <2>4. Timely(window[m], u, c, e)
      BY <2>1, <2>2, <2>3 DEF Timely
    <2>5. HighIsKnown(window[m], u + e, lastHigh[m])
      BY <2>1, <2>2, <2>3 DEF HighIsKnown
    <2> QED
      BY <2>2, <2>4, <2>5
  <1> QED
    BY <1>1, <1>2, <1>3 DEF WindowInv

\* The windows are timely and know the last High frame in every reachable state.
LEMMA WindowInvariant == Spec => []WindowInv
  <1>1. Init => WindowInv
    <2>1. <<>> \in Seq(Entries)
      BY EmptySeq
    <2> QED
      BY <2>1 DEF Init, WindowInv, Timely, HighIsKnown
  <1>2. WindowInv /\ [Next]_vars => WindowInv'
    <2> SUFFICES ASSUME WindowInv, [Next]_vars PROVE WindowInv'
      OBVIOUS
    <2>1. ASSUME NEW n \in Nodes, RxTraffic(n) \/ RxAlert(n) PROVE WindowInv'
      BY <2>1, JamConstants, RxKeepsWindow
    <2>2. CASE Tick
      BY <2>2, JamConstants, TimeKeepsWindow DEF Tick, local
    <2>3. ASSUME NEW n \in Nodes, StepBack(n) PROVE WindowInv'
      BY <2>3, JamConstants, TimeKeepsWindow DEF StepBack, local
    <2>4. ASSUME NEW n \in Nodes, StepAhead(n) PROVE WindowInv'
      BY <2>4, JamConstants, TimeKeepsWindow DEF StepAhead, local
    <2>5. CASE UNCHANGED <<now, back, ahead, window, lastHigh, jam_detected>>
      BY <2>5 DEF WindowInv
    <2> QED
      BY <2>1, <2>2, <2>3, <2>4, <2>5
      DEF Next, ProgramStep, Announce, Transmit, Tune, Show, vars, clocks, local
  <1> QED
    BY <1>1, <1>2, PTL DEF Spec

\* However many frames of whatever priority arrive, transit frames included, and
\* however far the clock is set back or ahead in between: an alarm means more than
\* BulkLimit Bulk frames in the window, stretched by the one, and no High frame in
\* the window, shortened by the other.
THEOREM AlarmsAreReal == Spec => AlarmIsReal
  <1>1. WindowInv /\ [Next]_vars =>
            [\A n \in Nodes : ~jam_detected[n] /\ jam_detected'[n] =>
                /\ BulkLimit < Cardinality({i \in DOMAIN window'[n] :
                       /\ window'[n][i].prio = "Bulk"
                       /\ now - window'[n][i].arrived <= Window + back[n]})
                /\ lastHigh'[n] = 0 \/ now + ahead[n] - lastHigh'[n] > Window]_vars
    <2> SUFFICES ASSUME WindowInv, Next, NEW n \in Nodes, ~jam_detected[n], jam_detected'[n]
                 PROVE  /\ BulkLimit < Cardinality({i \in DOMAIN window'[n] :
                               /\ window'[n][i].prio = "Bulk"
                               /\ now - window'[n][i].arrived <= Window + back[n]})
                        /\ lastHigh'[n] = 0 \/ now + ahead[n] - lastHigh'[n] > Window
      OBVIOUS
    <2>1. PICK m \in Nodes : RxTraffic(m) \/ RxAlert(m)
      BY DEF Next, ProgramStep, Announce, Transmit, Tune, Show, Tick, StepBack, StepAhead,
             local
    <2>2. /\ WindowInv' /\ UNCHANGED clocks /\ Recent(window'[m], now, back[m])
          /\ jam_detected' = [jam_detected EXCEPT ![m] = TRUE] /\ IsJammed(window'[m])
      BY <2>1, JamConstants, RxKeepsWindow
    <2>3. m = n
      BY <2>2
    <2>4. /\ window'[n] \in Seq(Entries) /\ now \in Nat /\ back[n] \in Nat
          /\ ahead[n] \in Nat /\ lastHigh'[n] \in Nat
          /\ HighIsKnown(window'[n], now + ahead[n], lastHigh'[n])
      BY <2>2 DEF WindowInv, clocks
    <2> QED
      BY <2>2, <2>3, <2>4, JamConstants, JammedWindow
  <1> QED
    BY <1>1, WindowInvariant, PTL DEF Spec, AlarmIsReal
---------------------------------------------------------------------------
(* handle_channel_hop: the inductive strengthening of SameJamSameChannel *)

\* An alert's id is at most the number of alerts, so the next id is new.
IdsAreBounded ==
    /\ IsFiniteSet(alerts)
    /\ \A a \in alerts : a.id \in Nat /\ a.id <= Cardinality(alerts)

\* Of the alerts of one node, one is the newest.
NewestExists ==
    \A n \in Nodes : (\E a \in alerts : a.detected_by = n) =>
        \E a \in alerts : /\ a.detected_by = n
                          /\ \A b \in alerts : b.detected_by = n => b.id <= a.id

\* rx_loop hops and announces only after an alarm of its own.
AlarmIsOwn ==
    \A n \in Nodes : rx_loop[n] # "recv" => \E a \in alerts : a.detected_by = n

\* What is handled, queued and sent are alerts that were raised.
AlertsAreRaised ==
    /\ tasks \in [Nodes -> SUBSET [alert : alerts, step : {"tune", "show"}]]
    /\ inbox \in [Nodes -> Seq(alerts)] /\ outbox \in [Nodes -> Seq(alerts)]
    /\ rx_loop \in [Nodes -> {"recv", "hopping", "announcing"}]
    /\ radio \in [Nodes -> Nat] /\ channel \in [Nodes -> Nat]
    /\ handledBy \subseteq Nodes /\ (handledBy # {} => alerts # {})

AlertsInv == IdsAreBounded /\ NewestExists /\ AlarmIsOwn /\ AlertsAreRaised

\* A node that set_channel served is where the one jam's alerts send it: its
\* radio from Tune on, its console from Show on, and no later step undoes it.
HopsAgree ==
    (\A a, b \in alerts : a.channel = b.channel) =>
        \A n \in Nodes \ failedOn, a \in alerts :
            /\ n \in handledBy \/ (\E t \in tasks[n] : t.step = "show") =>
                   radio[n] = HopChannel(a.channel)
            /\ n \in handledBy => channel[n] = HopChannel(a.channel)

HopInv == AlertsInv /\ HopsAgree

\* The alarm adds an alert newer than all others.
LEMMA NewAlertIsNewest ==
    ASSUME IdsAreBounded, NewestExists, NEW n \in Nodes, alerts' = alerts \cup {JamAlert(n)}
    PROVE  IdsAreBounded' /\ NewestExists'
  <1> DEFINE new == JamAlert(n)
  <1>1. /\ IsFiniteSet(alerts) /\ Cardinality(alerts) \in Nat
        /\ \A a \in alerts : a.id \in Nat /\ a.id <= Cardinality(alerts)
    BY FS_CardinalityType DEF IdsAreBounded
  <1>2. new.id = Cardinality(alerts) + 1 /\ new.detected_by = n
    BY DEF JamAlert
  <1> HIDE DEF new
  <1>3. new \notin alerts
    BY <1>1, <1>2
  <1>4. alerts' = alerts \cup {new}
    BY DEF new
  <1>5. IsFiniteSet(alerts') /\ Cardinality(alerts') = Cardinality(alerts) + 1
    BY <1>1, <1>3, <1>4, FS_AddElement
  <1>6. \A a \in alerts' : a.id \in Nat /\ a.id <= new.id
    BY <1>1, <1>2, <1>4
  <1>7. IdsAreBounded'
    BY <1>2, <1>5, <1>6 DEF IdsAreBounded
  <1>8. ASSUME NEW m \in Nodes, NEW c \in alerts', c.detected_by = m
        PROVE  \E a \in alerts' : /\ a.detected_by = m
                                  /\ \A b \in alerts' : b.detected_by = m => b.id <= a.id
    <2>1. CASE m = n
      BY <1>2, <1>4, <1>6, <2>1
    <2>2. CASE m # n
      <3>1. \A b \in alerts' : b.detected_by = m => b \in alerts
        BY <1>2, <1>4, <2>2
      <3>2. PICK a \in alerts : /\ a.detected_by = m
                                /\ \A b \in alerts : b.detected_by = m => b.id <= a.id
        BY <1>8, <3>1 DEF NewestExists
      <3> QED
        BY <1>4, <3>1, <3>2
    <2> QED
      BY <2>1, <2>2
  <1> QED
    BY <1>7, <1>8 DEF NewestExists

\* Handlers that start are in front of set_channel.
LEMMA TasksStart ==
    ASSUME AlertsAreRaised, NEW n \in Nodes, NEW as \in SUBSET alerts', alerts \subseteq alerts',
           StartTasks(n, as)
    PROVE  /\ tasks' \in [Nodes -> SUBSET [alert : alerts', step : {"tune", "show"}]]
           /\ \A m \in Nodes : \A t \in tasks'[m] : t.step = "show" => t \in tasks[m]
           /\ UNCHANGED <<radio, channel, handledBy, failedOn>>
  <1> DEFINE started == {[alert |-> a, step |-> "tune"] : a \in as}
             T == [alert : alerts', step : {"tune", "show"}]
  <1>1. tasks \in [Nodes -> SUBSET T]
    <2>1. [alert : alerts, step : {"tune", "show"}] \subseteq T
      OBVIOUS
    <2> QED
      BY <2>1 DEF AlertsAreRaised
  <1>2. started \subseteq T /\ \A t \in started : t.step # "show"
    <2> SUFFICES ASSUME NEW t \in started PROVE t \in T /\ t.step # "show"
      OBVIOUS
    <2>1. PICK a \in as : t = [alert |-> a, step |-> "tune"]
      OBVIOUS
    <2>2. t.step = "tune" /\ a \in alerts'
      BY <2>1
    <2> QED
      BY <2>1, <2>2
  <1>3. tasks' = [tasks EXCEPT ![n] = tasks[n] \cup started]
    BY DEF StartTasks
  <1> HIDE DEF started, T
  <1>4. tasks' \in [Nodes -> SUBSET T]
    BY <1>1, <1>2, <1>3
  <1>5. \A m \in Nodes : \A t \in tasks'[m] : t.step = "show" => t \in tasks[m]
    BY <1>1, <1>2, <1>3
  <1> QED
    BY <1>4, <1>5 DEF T, StartTasks

\* What a frame may do to the alerts: `as` are alerts that it carried.
LEMMA CheckKeepsAlerts ==
    ASSUME AlertsInv, NEW n \in Nodes, NEW w, NEW as \in SUBSET alerts, CheckJam(n, w, as)
    PROVE  /\ alerts \subseteq alerts' /\ IdsAreBounded' /\ NewestExists' /\ AlarmIsOwn'
           /\ tasks' \in [Nodes -> SUBSET [alert : alerts', step : {"tune", "show"}]]
           /\ rx_loop' \in [Nodes -> {"recv", "hopping", "announcing"}]
           /\ \A m \in Nodes : \A t \in tasks'[m] : t.step = "show" => t \in tasks[m]
           /\ UNCHANGED <<radio, channel, handledBy, failedOn>>
  <1>1. IdsAreBounded /\ NewestExists /\ AlarmIsOwn /\ AlertsAreRaised
    BY DEF AlertsInv
  <1>2. rx_loop \in [Nodes -> {"recv", "hopping", "announcing"}]
    BY <1>1 DEF AlertsAreRaised
  <1>3. CASE /\ alerts' = alerts \cup {JamAlert(n)}
             /\ StartTasks(n, as \cup {JamAlert(n)})
             /\ rx_loop' = [rx_loop EXCEPT ![n] = "hopping"]
    <2>1. alerts \subseteq alerts' /\ as \cup {JamAlert(n)} \in SUBSET alerts'
      BY <1>3
    <2>2. IdsAreBounded' /\ NewestExists'
      BY <1>1, <1>3, NewAlertIsNewest
    <2>3. JamAlert(n) \in alerts' /\ JamAlert(n).detected_by = n
      BY <1>3 DEF JamAlert
    <2>4. AlarmIsOwn'
      BY <1>1, <1>2, <1>3, <2>1, <2>3 DEF AlarmIsOwn
    <2>5. /\ tasks' \in [Nodes -> SUBSET [alert : alerts', step : {"tune", "show"}]]
          /\ \A m \in Nodes : \A t \in tasks'[m] : t.step = "show" => t \in tasks[m]
          /\ UNCHANGED <<radio, channel, handledBy, failedOn>>
      BY <1>1, <1>3, <2>1, TasksStart
    <2>6. rx_loop' \in [Nodes -> {"recv", "hopping", "announcing"}]
      BY <1>2, <1>3
    <2> QED
      BY <2>1, <2>2, <2>4, <2>5, <2>6
  <1>4. CASE StartTasks(n, as) /\ UNCHANGED <<rx_loop, alerts>>
    <2>1. IdsAreBounded' /\ NewestExists' /\ AlarmIsOwn'
      BY <1>1, <1>4 DEF IdsAreBounded, NewestExists, AlarmIsOwn
    <2>2. as \in SUBSET alerts' /\ alerts \subseteq alerts'
      BY <1>4
    <2>3. /\ tasks' \in [Nodes -> SUBSET [alert : alerts', step : {"tune", "show"}]]
          /\ \A m \in Nodes : \A t \in tasks'[m] : t.step = "show" => t \in tasks[m]
          /\ UNCHANGED <<radio, channel, handledBy, failedOn>>
      BY <1>1, <1>4, <2>2, TasksStart
    <2> QED
      BY <1>2, <1>4, <2>1, <2>2, <2>3
  <1> QED
    BY <1>3, <1>4 DEF CheckJam

\* Alerts that are added do not disturb the nodes that have hopped.
LEMMA NewAlertsAgree ==
    ASSUME AlertsInv, HopsAgree, alerts \subseteq alerts',
           \A m \in Nodes : \A t \in tasks'[m] : t.step = "show" => t \in tasks[m],
           UNCHANGED <<radio, channel, handledBy, failedOn>>
    PROVE  HopsAgree'
  <1> SUFFICES ASSUME \A a, b \in alerts' : a.channel = b.channel,
                      NEW n \in Nodes \ failedOn, NEW a \in alerts'
               PROVE  /\ n \in handledBy \/ (\E t \in tasks'[n] : t.step = "show") =>
                             radio[n] = HopChannel(a.channel)
                      /\ n \in handledBy => channel[n] = HopChannel(a.channel)
    BY DEF HopsAgree
  <1>1. \A c, d \in alerts : c.channel = d.channel
    OBVIOUS
  <1>2. ASSUME n \in handledBy \/ \E t \in tasks'[n] : t.step = "show"
        PROVE  alerts # {} /\ (n \in handledBy \/ \E t \in tasks[n] : t.step = "show")
    <2>1. CASE n \in handledBy
      BY <2>1 DEF AlertsInv, AlertsAreRaised
    <2>2. CASE \E t \in tasks'[n] : t.step = "show"
      <3>1. PICK t \in tasks[n] : t.step = "show"
        BY <2>2
      <3>2. t.alert \in alerts
        BY DEF AlertsInv, AlertsAreRaised
      <3> QED
        BY <3>1, <3>2
    <2> QED
      BY <1>2, <2>1, <2>2
  <1>3. \A c \in alerts : a.channel = c.channel
    OBVIOUS
  <1> QED
    BY <1>1, <1>2, <1>3 DEF HopsAgree

\* RxTraffic and RxAlert
LEMMA RxKeepsHops ==
    ASSUME HopInv, NEW n \in Nodes, RxTraffic(n) \/ RxAlert(n)
    PROVE  HopInv'
  <1>1. AlertsInv /\ HopsAgree /\ AlertsAreRaised
    BY DEF HopInv, AlertsInv
  <1>2. /\ \/ UNCHANGED <<rx_loop, alerts, tuning>>
           \/ \E w : \E as \in SUBSET alerts : CheckJam(n, w, as)
        /\ inbox' \in [Nodes -> Seq(alerts)] /\ outbox' = outbox
    <2>1. CASE RxTraffic(n)
      <3>1. {} \in SUBSET alerts
        OBVIOUS
      <3> QED
        BY <1>1, <2>1, <3>1 DEF RxTraffic, network, AlertsAreRaised
    <2>2. CASE RxAlert(n)
      <3>1. inbox \in [Nodes -> Seq(alerts)] /\ inbox[n] # <<>>
        BY <1>1, <2>2 DEF RxAlert, AlertsAreRaised
      <3>2. Head(inbox[n]) \in alerts /\ Tail(inbox[n]) \in Seq(alerts)
        BY <3>1, HeadTailProperties
      <3>3. {Head(inbox[n])} \in SUBSET alerts
        BY <3>2
      <3>4. inbox' \in [Nodes -> Seq(alerts)]
        BY <2>2, <3>1, <3>2 DEF RxAlert
      <3> QED
        BY <2>2, <3>3, <3>4 DEF RxAlert
    <2> QED
      BY <2>1, <2>2
  <1>3. /\ alerts \subseteq alerts' /\ IdsAreBounded' /\ NewestExists' /\ AlarmIsOwn'
        /\ tasks' \in [Nodes -> SUBSET [alert : alerts', step : {"tune", "show"}]]
        /\ rx_loop' \in [Nodes -> {"recv", "hopping", "announcing"}]
        /\ \A m \in Nodes : \A t \in tasks'[m] : t.step = "show" => t \in tasks[m]
        /\ UNCHANGED <<radio, channel, handledBy, failedOn>>
    <2>1. CASE UNCHANGED <<rx_loop, alerts, tuning>>
      BY <1>1, <2>1 DEF tuning, AlertsInv, IdsAreBounded, NewestExists, AlarmIsOwn,
                        AlertsAreRaised
    <2>2. CASE \E w : \E as \in SUBSET alerts : CheckJam(n, w, as)
      BY <1>1, <2>2, CheckKeepsAlerts
    <2> QED
      BY <1>2, <2>1, <2>2
  <1>4. Seq(alerts) \subseteq Seq(alerts')
    BY <1>3, SeqMonotonic
  <1>5. inbox' \in [Nodes -> Seq(alerts')] /\ outbox' \in [Nodes -> Seq(alerts')]
    BY <1>1, <1>2, <1>4 DEF AlertsAreRaised
  <1>6. AlertsAreRaised'
    BY <1>1, <1>3, <1>5 DEF AlertsAreRaised
  <1>7. HopsAgree'
    BY <1>1, <1>3, NewAlertsAgree
  <1> QED
    BY <1>3, <1>6, <1>7 DEF HopInv, AlertsInv

\* rx_loop enqueues its own newest alert.
LEMMA AnnounceKeepsHops ==
    ASSUME HopInv, NEW n \in Nodes, Announce(n)
    PROVE  HopInv'
  <1>1. AlertsInv /\ HopsAgree /\ NewestExists /\ AlarmIsOwn /\ AlertsAreRaised
    BY DEF HopInv, AlertsInv
  <1> DEFINE mine == {a \in alerts : a.detected_by = n}
  <1>2. \E a \in mine : \A b \in mine : b.id <= a.id
    BY <1>1 DEF NewestExists, AlarmIsOwn, Announce
  <1>3. PICK a \in alerts : outbox' = [outbox EXCEPT ![n] = Append(outbox[n], a)]
    BY <1>2 DEF Announce, Latest
  <1>4. outbox' \in [Nodes -> Seq(alerts)]
    BY <1>1, <1>3, AppendProperties DEF AlertsAreRaised
  <1>5. rx_loop' \in [Nodes -> {"recv", "hopping", "announcing"}] /\ AlarmIsOwn'
    BY <1>1 DEF Announce, AlertsAreRaised, AlarmIsOwn
  <1>6. UNCHANGED <<tuning, inbox, alerts>>
    BY DEF Announce
  <1>7. AlertsAreRaised'
    BY <1>1, <1>4, <1>5, <1>6 DEF AlertsAreRaised, tuning
  <1>8. IdsAreBounded' /\ NewestExists' /\ HopsAgree'
    BY <1>1, <1>6 DEF tuning, AlertsInv, IdsAreBounded, NewestExists, HopsAgree
  <1> QED
    BY <1>5, <1>7, <1>8 DEF HopInv, AlertsInv

\* An alert is on the air.
LEMMA TransmitKeepsHops ==
    ASSUME HopInv, NEW n \in Nodes, Transmit(n)
    PROVE  HopInv'
  <1>1. AlertsInv /\ HopsAgree /\ AlertsAreRaised
    BY DEF HopInv, AlertsInv
  <1>2. inbox \in [Nodes -> Seq(alerts)] /\ outbox \in [Nodes -> Seq(alerts)]
    BY <1>1 DEF AlertsAreRaised
  <1>3. outbox[n] \in Seq(alerts) /\ outbox[n] # <<>>
    BY <1>2 DEF Transmit
  <1>4. Head(outbox[n]) \in alerts /\ Tail(outbox[n]) \in Seq(alerts)
    BY <1>3, HeadTailProperties
  <1>5. outbox' \in [Nodes -> Seq(alerts)]
    BY <1>2, <1>4 DEF Transmit
  <1>6. PICK heard : inbox' = [m \in Nodes |-> IF m \in heard
                                   THEN Append(inbox[m], Head(outbox[n])) ELSE inbox[m]]
    BY DEF Transmit
  <1>7. \A m \in Nodes : Append(inbox[m], Head(outbox[n])) \in Seq(alerts)
    BY <1>2, <1>4, AppendProperties
  <1>8. inbox' \in [Nodes -> Seq(alerts)]
    BY <1>2, <1>6, <1>7
  <1>9. UNCHANGED <<rx_loop, tuning, alerts>>
    BY DEF Transmit, local
  <1>10. AlertsAreRaised'
    BY <1>1, <1>5, <1>8, <1>9 DEF AlertsAreRaised, tuning
  <1>11. IdsAreBounded' /\ NewestExists' /\ AlarmIsOwn' /\ HopsAgree'
    BY <1>1, <1>9
    DEF tuning, AlertsInv, IdsAreBounded, NewestExists, AlarmIsOwn, HopsAgree
  <1> QED
    BY <1>10, <1>11 DEF HopInv, AlertsInv

\* set_channel, which may fail
LEMMA TuneKeepsHops ==
    ASSUME HopInv, NEW n \in Nodes, NEW t \in tasks[n], Tune(n, t)
    PROVE  HopInv'
  <1>1. AlertsInv /\ HopsAgree /\ AlertsAreRaised
    BY DEF HopInv, AlertsInv
  <1> DEFINE T == [alert : alerts, step : {"tune", "show"}]
             done == [t EXCEPT !.step = "show"]
  <1>2. tasks \in [Nodes -> SUBSET T] /\ radio \in [Nodes -> Nat]
    BY <1>1 DEF AlertsAreRaised
  <1>3. t \in T /\ t.alert \in alerts
    BY <1>2
  <1>4. done \in T
    BY <1>3
  <1>5. tasks' = [tasks EXCEPT ![n] = (tasks[n] \ {t}) \cup {done}]
    BY DEF Tune
  <1> HIDE DEF T, done
  <1>6. /\ tasks' \in [Nodes -> SUBSET T]
        /\ \A m \in Nodes : m # n => tasks'[m] = tasks[m]
    BY <1>2, <1>4, <1>5
  <1>7. UNCHANGED <<rx_loop, inbox, outbox, alerts, channel, handledBy>>
    BY DEF Tune, local, network
  <1>8. \/ radio' = [radio EXCEPT ![n] = HopChannel(t.alert.channel)] /\ UNCHANGED failedOn
        \/ UNCHANGED radio /\ failedOn' = failedOn \cup {n}
    BY DEF Tune, HopOf
  <1>9. radio' \in [Nodes -> Nat] /\ \A m \in Nodes : m # n => radio'[m] = radio[m]
    BY <1>2, <1>8 DEF HopChannel
  <1>10. AlertsAreRaised'
    BY <1>1, <1>6, <1>7, <1>9 DEF AlertsAreRaised, T
  <1>11. IdsAreBounded' /\ NewestExists' /\ AlarmIsOwn'
    BY <1>1, <1>7 DEF AlertsInv, IdsAreBounded, NewestExists, AlarmIsOwn
  <1>12. HopsAgree'
    <2> SUFFICES ASSUME \A a, b \in alerts : a.channel = b.channel,
                        NEW m \in Nodes \ failedOn', NEW a \in alerts
                 PROVE  /\ m \in handledBy \/ (\E s \in tasks'[m] : s.step = "show") =>
                               radio'[m] = HopChannel(a.channel)
                        /\ m \in handledBy => channel[m] = HopChannel(a.channel)
      BY <1>7 DEF HopsAgree
    <2>1. m \in Nodes \ failedOn
      BY <1>8
    <2>2. CASE m # n
      BY <1>1, <1>6, <1>9, <2>1, <2>2 DEF HopsAgree
    <2>3. CASE m = n
      <3>1. radio'[n] = HopChannel(t.alert.channel)
        BY <1>2, <1>8, <2>3
      <3>2. t.alert.channel = a.channel
        BY <1>3
      <3>3. m \in handledBy => channel[m] = HopChannel(a.channel)
        BY <1>1, <2>1 DEF HopsAgree
      <3> QED
        BY <2>3, <3>1, <3>2, <3>3
    <2> QED
      BY <2>2, <2>3
  <1> QED
    BY <1>10, <1>11, <1>12 DEF HopInv, AlertsInv

\* The console shows the channel of the alert.
LEMMA ShowKeepsHops ==
    ASSUME HopInv, NEW n \in Nodes, NEW t \in tasks[n], Show(n, t)
    PROVE  HopInv'
  <1>1. AlertsInv /\ HopsAgree /\ AlertsAreRaised /\ AlarmIsOwn
    BY DEF HopInv, AlertsInv
  <1> DEFINE T == [alert : alerts, step : {"tune", "show"}]
  <1>2. /\ tasks \in [Nodes -> SUBSET T] /\ channel \in [Nodes -> Nat]
        /\ rx_loop \in [Nodes -> {"recv", "hopping", "announcing"}]
    BY <1>1 DEF AlertsAreRaised
  <1>3. t.alert \in alerts /\ t.step = "show"
    BY <1>2 DEF Show
  <1> HIDE DEF T
  <1>4. tasks' \in [Nodes -> SUBSET T] /\ \A m \in Nodes : tasks'[m] \subseteq tasks[m]
    BY <1>2 DEF Show
  <1>5. UNCHANGED <<inbox, outbox, alerts, radio, failedOn>>
    BY DEF Show, network
  <1>6. /\ channel' = [channel EXCEPT ![n] = HopChannel(t.alert.channel)]
        /\ handledBy' = handledBy \cup {n}
    BY DEF Show, HopOf
  <1>7. /\ channel' \in [Nodes -> Nat] /\ channel'[n] = HopChannel(t.alert.channel)
        /\ \A m \in Nodes : m # n => channel'[m] = channel[m]
    BY <1>2, <1>6 DEF HopChannel
  <1>8. rx_loop' \in [Nodes -> {"recv", "hopping", "announcing"}] /\ AlarmIsOwn'
    <2>1. CASE t.alert.detected_by = n
      <3>1. rx_loop' = [rx_loop EXCEPT ![n] = "announcing"]
        BY <2>1 DEF Show
      <3> QED
        BY <1>1, <1>2, <1>3, <1>5, <2>1, <3>1 DEF AlarmIsOwn
    <2>2. CASE t.alert.detected_by # n
      <3>1. rx_loop' = rx_loop
        BY <1>2, <2>2 DEF Show
      <3> QED
        BY <1>1, <1>2, <1>5, <3>1 DEF AlarmIsOwn
    <2> QED
      BY <2>1, <2>2
  <1>9. AlertsAreRaised'
    BY <1>1, <1>3, <1>4, <1>5, <1>6, <1>7, <1>8 DEF AlertsAreRaised, T
  <1>10. IdsAreBounded' /\ NewestExists'
    BY <1>1, <1>5 DEF AlertsInv, IdsAreBounded, NewestExists
  <1>11. HopsAgree'
    <2> SUFFICES ASSUME \A a, b \in alerts : a.channel = b.channel,
                        NEW m \in Nodes \ failedOn, NEW a \in alerts
                 PROVE  /\ m \in handledBy' \/ (\E s \in tasks'[m] : s.step = "show") =>
                               radio[m] = HopChannel(a.channel)
                        /\ m \in handledBy' => channel'[m] = HopChannel(a.channel)
      BY <1>5 DEF HopsAgree
    <2>1. CASE m # n
      BY <1>1, <1>4, <1>6, <1>7, <2>1 DEF HopsAgree
    <2>2. CASE m = n
      <3>1. radio[n] = HopChannel(a.channel)
        BY <1>1, <1>3, <2>2 DEF HopsAgree
      <3>2. t.alert.channel = a.channel
        BY <1>3
      <3> QED
        BY <1>7, <2>2, <3>1, <3>2
    <2> QED
      BY <2>1, <2>2
  <1> QED
    BY <1>8, <1>9, <1>10, <1>11 DEF HopInv, AlertsInv

\* Any number of nodes that raise, hear and handle any number of alerts of the
\* same jam, in any order and interleaved, with losses and failing calls of
\* set_channel elsewhere, end on one channel and show it.
THEOREM SameJamSameHop == Spec => []SameJamSameChannel
  <1>1. Init => HopInv
    <2>1. <<>> \in Seq({}) /\ IsFiniteSet({})
      BY EmptySeq, FS_EmptySet
    <2> QED
      BY <2>1 DEF Init, HopInv, AlertsInv, IdsAreBounded, NewestExists, AlarmIsOwn,
                  AlertsAreRaised, HopsAgree
  <1>2. HopInv /\ [Next]_vars => HopInv'
    <2> SUFFICES ASSUME HopInv, [Next]_vars PROVE HopInv'
      OBVIOUS
    <2>1. ASSUME NEW n \in Nodes, RxTraffic(n) \/ RxAlert(n) PROVE HopInv'
      BY <2>1, RxKeepsHops
    <2>2. ASSUME NEW n \in Nodes, Announce(n) PROVE HopInv'
      BY <2>2, AnnounceKeepsHops
    <2>3. ASSUME NEW n \in Nodes, Transmit(n) PROVE HopInv'
      BY <2>3, TransmitKeepsHops
    <2>4. ASSUME NEW n \in Nodes, NEW t \in tasks[n], Tune(n, t) PROVE HopInv'
      BY <2>4, TuneKeepsHops
    <2>5. ASSUME NEW n \in Nodes, NEW t \in tasks[n], Show(n, t) PROVE HopInv'
      BY <2>5, ShowKeepsHops
    <2>6. CASE UNCHANGED <<rx_loop, tuning, network, alerts>>
      BY <2>6 DEF HopInv, AlertsInv, IdsAreBounded, NewestExists, AlarmIsOwn,
                  AlertsAreRaised, HopsAgree, tuning, network
    <2>7. ASSUME \/ Tick \/ UNCHANGED vars
                 \/ \E n \in Nodes : StepBack(n) \/ StepAhead(n)
          PROVE  UNCHANGED <<rx_loop, tuning, network, alerts>>
      BY <2>7 DEF Tick, StepBack, StepAhead, vars, local
    <2> QED
      BY <2>1, <2>2, <2>3, <2>4, <2>5, <2>6, <2>7 DEF Next, ProgramStep
  <1>3. HopInv => SameJamSameChannel
    <2> SUFFICES ASSUME HopInv, \A a, b \in alerts : a.channel = b.channel,
                        NEW n \in handledBy \ failedOn, tasks[n] = {}, NEW a \in alerts
                 PROVE  radio[n] = HopChannel(a.channel) /\ channel[n] = radio[n]
      BY DEF SameJamSameChannel
    <2> QED
      BY DEF HopInv, HopsAgree, AlertsInv, AlertsAreRaised
  <1> QED
    BY <1>1, <1>2, <1>3, PTL DEF Spec
=============================================================================
