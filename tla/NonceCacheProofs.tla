------------------------- MODULE NonceCacheProofs -------------------------
(***************************************************************************)
(* Proofs about NonceCache for every value of its constants: the type      *)
(* invariant, RepeatNeedsExpiry, the memory bound SeenSpan, and that the   *)
(* cache delivers at most once as soon as its TTL exceeds twice the window *)
(* by more than the clock can be set back.                                 *)
(***************************************************************************)
EXTENDS NonceCache, TLAPS

(* The inductive invariant, in named parts. *)

ClockBounds == clock <= high /\ high - clock <= MaxStepBack

\* What an acceptance recorded about the clock is still true of it.
RecordsInWindow ==
    \A i \in 1 .. Len(accepted) :
        /\ accepted[i].at <= accepted[i].high
        /\ accepted[i].high - accepted[i].at <= MaxStepBack
        /\ accepted[i].at <= accepted[i].key.ts + TIME_WINDOW_MS
        /\ accepted[i].key.ts <= accepted[i].at + TIME_WINDOW_MS
        /\ accepted[i].boot <= boot

\* An accepted frame is remembered until a whole TTL has passed.
Remembered ==
    \A i \in 1 .. Len(accepted) :
        accepted[i].boot = boot =>
            \/ /\ accepted[i].key \in DOMAIN seen
               /\ seen[accepted[i].key] = accepted[i].at
            \/ high >= accepted[i].at + NONCE_CACHE_TTL_MS

CacheInv ==
    /\ TypeOK
    /\ ClockBounds
    /\ RecordsInWindow
    /\ Remembered
    /\ RepeatNeedsExpiry

---------------------------------------------------------------------------
\* What InsertedCache(f) does to the map: f is stored with the current time,
\* every other entry that is left keeps its time, and an entry that is gone is
\* at least one TTL old.
LEMMA InsertedCacheFacts ==
    ASSUME CacheConstants, TypeOK, NEW f \in Keys, seen' = InsertedCache(f)
    PROVE  /\ DOMAIN seen' = Retained \cup {f}
           /\ DOMAIN seen' \subseteq Keys
           /\ seen'[f] = clock
           /\ \A k \in Retained : k # f => seen'[k] = seen[k]
           /\ \A k \in DOMAIN seen' : seen'[k] \in Nat
           /\ seen' = [k \in DOMAIN seen' |-> seen'[k]]
           /\ \A k \in DOMAIN seen : k \notin Retained =>
                  clock >= seen[k] + NONCE_CACHE_TTL_MS
           /\ \A k \in Retained :
                  clock - seen[k] < NONCE_CACHE_TTL_MS \/ clock < seen[k]
  <1>1. /\ DOMAIN seen' = Retained \cup {f}
        /\ Retained \subseteq DOMAIN seen
        /\ \A k \in Retained \cup {f} :
               seen'[k] = IF k = f THEN clock ELSE seen[k]
        /\ seen' = [k \in DOMAIN seen' |-> seen'[k]]
    BY DEF InsertedCache, Retained
  <1>2. \A k \in DOMAIN seen : k \notin Retained =>
            clock >= seen[k] + NONCE_CACHE_TTL_MS
    <2> TAKE k \in DOMAIN seen
    <2> HAVE k \notin Retained
    <2>1. SaturatingSub(clock, seen[k]) >= NONCE_CACHE_TTL_MS
      BY DEF Retained, IsStale
    <2> QED
      BY <2>1 DEF SaturatingSub, TypeOK, CacheConstants
  <1>3. \A k \in Retained :
            clock - seen[k] < NONCE_CACHE_TTL_MS \/ clock < seen[k]
    BY DEF Retained, IsStale, SaturatingSub, TypeOK, CacheConstants
  <1> QED
    BY <1>1, <1>2, <1>3 DEF TypeOK

\* The fields of a history record are numbers and a key.
LEMMA RecordTypes ==
    ASSUME TypeOK, NEW i \in 1 .. Len(accepted)
    PROVE  /\ accepted[i].at \in Nat
           /\ accepted[i].high \in Nat
           /\ accepted[i].boot \in Nat
           /\ accepted[i].key \in Keys
           /\ accepted[i].key.ts \in Nat
  <1>1. accepted[i] \in Acceptances
    BY DEF TypeOK
  <1>2. \A r \in Acceptances :
            r.at \in Nat /\ r.high \in Nat /\ r.boot \in Nat /\ r.key \in Keys
    BY DEF Acceptances
  <1>3. \A k \in Keys : k.ts \in Nat
    BY DEF Keys
  <1> QED
    BY <1>1, <1>2, <1>3

\* The initial state: empty cache, empty history, clock at its origin.
LEMMA InitCacheInv == ASSUME CacheConstants, Init PROVE CacheInv
  BY DEF Init, CacheInv, TypeOK, ClockBounds, RecordsInWindow, Remembered,
         RepeatNeedsExpiry, SameFrame, EmptyCache, Results, CacheConstants

\* A step that leaves the cache, the boot and the history alone and never
\* lowers the high-water mark keeps the parts about them.
LEMMA HistoryFrame ==
    ASSUME CacheConstants, CacheInv,
           high' \in Nat, high' >= high,
           UNCHANGED <<seen, boot, accepted>>
    PROVE  RecordsInWindow' /\ Remembered' /\ RepeatNeedsExpiry'
  <1>1. high \in Nat /\ \A i \in 1 .. Len(accepted) : accepted[i].at \in Nat
    BY RecordTypes DEF CacheInv, TypeOK
  <1>2. RecordsInWindow' /\ RepeatNeedsExpiry'
    BY DEF CacheInv, RecordsInWindow, RepeatNeedsExpiry, SameFrame
  <1>3. Remembered'
    BY <1>1 DEF CacheInv, Remembered, CacheConstants
  <1> QED
    BY <1>2, <1>3

\* Both ways of passing check_and_insert keep every acceptance remembered.
LEMMA InsertKeepsRemembered ==
    ASSUME CacheConstants, CacheInv, NEW f \in Keys,
           f \notin DOMAIN seen, seen' = InsertedCache(f),
           NEW i \in 1 .. Len(accepted), accepted[i].boot = boot
    PROVE  \/ /\ accepted[i].key \in DOMAIN seen'
              /\ seen'[accepted[i].key] = accepted[i].at
           \/ high >= accepted[i].at + NONCE_CACHE_TTL_MS
  <1>1. /\ accepted[i].at \in Nat
        /\ accepted[i].key \in Keys
        /\ clock \in Nat /\ high \in Nat /\ clock <= high
    BY RecordTypes DEF CacheInv, TypeOK, ClockBounds
  <1>2. CASE high >= accepted[i].at + NONCE_CACHE_TTL_MS
    BY <1>2
  <1>3. CASE /\ accepted[i].key \in DOMAIN seen
             /\ seen[accepted[i].key] = accepted[i].at
    <2>1. accepted[i].key # f
      BY <1>3
    <2>2. CASE accepted[i].key \in Retained
      BY <1>3, <2>1, <2>2, InsertedCacheFacts DEF CacheInv
    <2>3. CASE accepted[i].key \notin Retained
      <3>1. clock >= accepted[i].at + NONCE_CACHE_TTL_MS
        BY <1>3, <2>3, InsertedCacheFacts DEF CacheInv
      <3> QED
        BY <1>1, <3>1 DEF CacheConstants
    <2> QED
      BY <2>2, <2>3
  <1> QED
    BY <1>2, <1>3 DEF CacheInv, Remembered

\* One step of the receiver, the senders or the clock preserves CacheInv.
LEMMA NextCacheInv ==
    ASSUME CacheConstants, CacheInv, [Next]_vars
    PROVE  CacheInv'
  <1> USE DEF CacheInv
  <1>1. CASE Tick
    <2>1. TypeOK' /\ ClockBounds' /\ high' >= high
      BY <1>1 DEF Tick, TypeOK, ClockBounds, CacheConstants
    <2> QED
      BY <1>1, <2>1, HistoryFrame DEF Tick, TypeOK
  <1>2. CASE StepBack
    <2>1. TypeOK' /\ ClockBounds' /\ high' >= high
      BY <1>2 DEF StepBack, TypeOK, ClockBounds, CacheConstants
    <2> QED
      BY <1>2, <2>1, HistoryFrame DEF StepBack, TypeOK
  <1>3. ASSUME NEW s \in Senders, Build(s) PROVE CacheInv'
    <2>1. PICK n \in Nonces, ts \in 0 .. (MaxClock + MaxSkew) :
              /\ air' = air \cup {[src |-> s, ts |-> ts, nonce |-> n]}
              /\ UNCHANGED <<clock, high, seen, result, boot, accepted, burned>>
      BY <1>3 DEF Build
    <2>2. [src |-> s, ts |-> ts, nonce |-> n] \in Keys
      BY <2>1 DEF Keys, CacheConstants
    <2>3. TypeOK' /\ ClockBounds' /\ high' >= high
      BY <2>1, <2>2 DEF TypeOK, ClockBounds
    <2> QED
      BY <2>1, <2>3, HistoryFrame DEF TypeOK
  <1>4. CASE RxTruncatedFrame
    <2>1. TypeOK' /\ ClockBounds' /\ high' >= high
      BY <1>4 DEF RxTruncatedFrame, TypeOK, ClockBounds, Results
    <2> QED
      BY <1>4, <2>1, HistoryFrame DEF RxTruncatedFrame, TypeOK
  <1>5. CASE RxBadSignature
    <2>1. TypeOK' /\ ClockBounds' /\ high' >= high
      BY <1>5 DEF RxBadSignature, TypeOK, ClockBounds, Results
    <2> QED
      BY <1>5, <2>1, HistoryFrame DEF RxBadSignature, TypeOK
  <1>6. CASE RxTimeWindowExpired
    <2>1. TypeOK' /\ ClockBounds' /\ high' >= high
      BY <1>6 DEF RxTimeWindowExpired, TypeOK, ClockBounds, Results
    <2> QED
      BY <1>6, <2>1, HistoryFrame DEF RxTimeWindowExpired, TypeOK
  <1>7. CASE RxReplayedNonce
    <2>1. TypeOK' /\ ClockBounds' /\ high' >= high
      BY <1>7 DEF RxReplayedNonce, TypeOK, ClockBounds, Results
    <2> QED
      BY <1>7, <2>1, HistoryFrame DEF RxReplayedNonce, TypeOK
  <1>8. CASE RxDecryptFailed
    <2>1. PICK f \in air :
              /\ f \notin DOMAIN seen
              /\ result' = "DecryptFailed"
              /\ seen' = InsertedCache(f)
              /\ burned' = burned \cup {f}
              /\ UNCHANGED <<clock, high, air, boot, accepted>>
      BY <1>8 DEF RxDecryptFailed
    <2>2. f \in Keys
      BY DEF TypeOK
    <2>3. TypeOK'
      BY <2>1, <2>2, InsertedCacheFacts DEF TypeOK, Results
    <2>4. ClockBounds' /\ RecordsInWindow' /\ RepeatNeedsExpiry'
      BY <2>1 DEF ClockBounds, RecordsInWindow, RepeatNeedsExpiry, SameFrame
    <2>5. Remembered'
      BY <2>1, <2>2, InsertKeepsRemembered DEF Remembered
    <2> QED
      BY <2>3, <2>4, <2>5
  <1>9. CASE RxOk
    <2>1. PICK f \in air :
              /\ InWindow(f)
              /\ f \notin DOMAIN seen
              /\ result' = "Ok"
              /\ seen' = InsertedCache(f)
              /\ accepted' = Append(accepted,
                     [key |-> f, at |-> clock, high |-> high, boot |-> boot])
              /\ UNCHANGED <<clock, high, air, boot, burned>>
      BY <1>9 DEF RxOk
    <2> DEFINE rec == [key |-> f, at |-> clock, high |-> high, boot |-> boot]
    <2>2. f \in Keys /\ f.ts \in Nat /\ rec \in Acceptances
      BY DEF TypeOK, Keys, Acceptances
    <2>3. /\ Len(accepted') = Len(accepted) + 1
          /\ Len(accepted) \in Nat
          /\ accepted'[Len(accepted) + 1] = rec
          /\ \A i \in 1 .. Len(accepted) : accepted'[i] = accepted[i]
          /\ accepted' \in Seq(Acceptances)
      BY <2>1, <2>2 DEF TypeOK
    <2> HIDE DEF rec
    <2>r. /\ rec.key = f /\ rec.at = clock
          /\ rec.high = high /\ rec.boot = boot
      BY DEF rec
    <2>4. TypeOK'
      BY <2>1, <2>2, <2>3, InsertedCacheFacts DEF TypeOK, Results
    <2>5. ClockBounds'
      BY <2>1 DEF ClockBounds
    <2>6. RecordsInWindow'
      <3>1. /\ clock <= f.ts + TIME_WINDOW_MS
            /\ f.ts <= clock + TIME_WINDOW_MS
        <4> clock \in Nat /\ TIME_WINDOW_MS \in Nat
          BY DEF TypeOK, CacheConstants
        <4> QED
          BY <2>1, <2>2 DEF InWindow, AbsDiff
      <3>2. /\ rec.at <= rec.high
            /\ rec.high - rec.at <= MaxStepBack
            /\ rec.at <= rec.key.ts + TIME_WINDOW_MS
            /\ rec.key.ts <= rec.at + TIME_WINDOW_MS
            /\ rec.boot <= boot
        BY <2>r, <3>1 DEF ClockBounds, TypeOK
      <3> QED
        BY <2>1, <2>3, <3>2 DEF RecordsInWindow
    <2>7. Remembered'
      <3>1. ASSUME NEW i \in 1 .. Len(accepted), accepted[i].boot = boot
            PROVE  \/ /\ accepted[i].key \in DOMAIN seen'
                      /\ seen'[accepted[i].key] = accepted[i].at
                   \/ high >= accepted[i].at + NONCE_CACHE_TTL_MS
        BY <2>1, <2>2, <3>1, InsertKeepsRemembered
      <3>2. rec.key \in DOMAIN seen' /\ seen'[rec.key] = rec.at
        BY <2>1, <2>2, <2>r, InsertedCacheFacts
      <3> QED
        BY <2>1, <2>3, <3>1, <3>2 DEF Remembered
    <2>8. RepeatNeedsExpiry'
      <3>1. SUFFICES ASSUME NEW i \in 1 .. Len(accepted'),
                            NEW j \in 1 .. Len(accepted'),
                            i < j, SameFrame(i, j)'
                     PROVE  accepted'[j].high
                                >= accepted'[i].at + NONCE_CACHE_TTL_MS
        BY DEF RepeatNeedsExpiry
      <3>2. i \in 1 .. Len(accepted) /\ accepted'[i] = accepted[i]
        BY <2>3, <3>1
      <3>3. CASE j \in 1 .. Len(accepted)
        BY <2>3, <3>1, <3>2, <3>3 DEF RepeatNeedsExpiry, SameFrame
      <3>4. CASE j = Len(accepted) + 1
        <4>1. accepted[i].key = f /\ accepted[i].boot = boot
          BY <2>3, <2>r, <3>1, <3>2, <3>4 DEF SameFrame
        <4>2. high >= accepted[i].at + NONCE_CACHE_TTL_MS
          BY <2>1, <3>2, <4>1 DEF Remembered
        <4> QED
          BY <2>3, <2>r, <3>2, <3>4, <4>2
      <3> QED
        BY <2>3, <3>3, <3>4
    <2> QED
      BY <2>4, <2>5, <2>6, <2>7, <2>8
  <1>10. CASE Restart
    <2>1. TypeOK' /\ ClockBounds'
      BY <1>10 DEF Restart, TypeOK, ClockBounds, EmptyCache, Results
    <2>2. \A i \in 1 .. Len(accepted) :
              accepted[i].boot \in Nat /\ accepted[i].boot <= boot
      BY RecordTypes DEF RecordsInWindow
    <2>3. RecordsInWindow'
      BY <1>10, <2>2 DEF Restart, RecordsInWindow, TypeOK
    <2>4. Remembered'
      BY <1>10, <2>2 DEF Restart, Remembered, TypeOK
    <2>5. RepeatNeedsExpiry'
      BY <1>10 DEF Restart, RepeatNeedsExpiry, SameFrame
    <2> QED
      BY <2>1, <2>3, <2>4, <2>5
  <1>11. CASE UNCHANGED vars
    BY <1>11 DEF vars, TypeOK, ClockBounds, RecordsInWindow, Remembered,
                 RepeatNeedsExpiry, SameFrame
  <1> QED
    BY <1>1, <1>2, <1>3, <1>4, <1>5, <1>6, <1>7, <1>8, <1>9, <1>10, <1>11
       DEF Next

---------------------------------------------------------------------------
\* CacheInv holds in every reachable state of the receiver.
THEOREM CacheInvariant == Spec => []CacheInv
  <1>1. Init => CacheInv
    BY CacheConstants, InitCacheInv
  <1>2. CacheInv /\ [Next]_vars => CacheInv'
    BY CacheConstants, NextCacheInv
  <1> QED
    BY <1>1, <1>2, PTL DEF Spec

\* Every variable of the receiver keeps its type.
THEOREM TypeCorrect == Spec => []TypeOK
  <1>1. CacheInv => TypeOK
    BY DEF CacheInv
  <1> QED
    BY <1>1, CacheInvariant, PTL

\* A frame is accepted again only after its cache entry could have expired.
THEOREM RepeatsAreExpired == Spec => []RepeatNeedsExpiry
  <1>1. CacheInv => RepeatNeedsExpiry
    BY DEF CacheInv
  <1> QED
    BY <1>1, CacheInvariant, PTL

\* The cache delivers at most once whenever the TTL exceeds the full width of
\* the window by more than the clock can be set back.  The code's constants
\* (60 000 and twice 30 000) miss the condition by one millisecond.
THEOREM AtMostOnceIfTtlExceedsWindow ==
    ASSUME NONCE_CACHE_TTL_MS > 2 * TIME_WINDOW_MS + MaxStepBack
    PROVE  Spec => []AtMostOnce
  <1>1. CacheInv => AtMostOnce
    <2> SUFFICES ASSUME CacheInv,
                        NEW i \in 1 .. Len(accepted),
                        NEW j \in 1 .. Len(accepted),
                        i < j, SameFrame(i, j)
                 PROVE  FALSE
      BY DEF AtMostOnce
    <2>1. /\ accepted[i].at \in Nat /\ accepted[j].at \in Nat
          /\ accepted[j].high \in Nat /\ accepted[i].key.ts \in Nat
      BY RecordTypes DEF CacheInv
    <2>2. accepted[j].high >= accepted[i].at + NONCE_CACHE_TTL_MS
      BY DEF CacheInv, RepeatNeedsExpiry
    <2>3. /\ accepted[i].key.ts <= accepted[i].at + TIME_WINDOW_MS
          /\ accepted[j].at <= accepted[i].key.ts + TIME_WINDOW_MS
          /\ accepted[j].high - accepted[j].at <= MaxStepBack
      BY DEF CacheInv, RecordsInWindow, SameFrame
    <2>5. /\ TIME_WINDOW_MS \in Nat
          /\ MaxStepBack \in Nat
          /\ NONCE_CACHE_TTL_MS \in Nat
      BY CacheConstants DEF CacheConstants
    <2>6. NONCE_CACHE_TTL_MS <= 2 * TIME_WINDOW_MS + MaxStepBack
      <3> DEFINE a == accepted[i].at
                 b == accepted[j].at
                 h == accepted[j].high
                 t == accepted[i].key.ts
      <3>1. /\ a \in Nat /\ b \in Nat /\ h \in Nat /\ t \in Nat
            /\ h >= a + NONCE_CACHE_TTL_MS /\ t <= a + TIME_WINDOW_MS
            /\ b <= t + TIME_WINDOW_MS /\ h - b <= MaxStepBack
        BY <2>1, <2>2, <2>3
      <3> HIDE DEF a, b, h, t
      <3> QED
        BY <2>5, <3>1
    <2> QED
      BY <2>5, <2>6
  <1> QED
    BY <1>1, CacheInvariant, PTL

---------------------------------------------------------------------------
(* The memory bound *)

SpanInv == SeenSpan /\ \A k \in DOMAIN seen : seen[k] <= high

\* Insertion keeps the live entries within one TTL (or one clock adjustment):
\* the new entry is compared with the retained ones, the rest is unchanged.
LEMMA InsertKeepsSpan ==
    ASSUME CacheConstants, CacheInv, SpanInv, NEW f \in Keys,
           f \notin DOMAIN seen, seen' = InsertedCache(f), high' = high
    PROVE  SpanInv'
  <1>1. /\ clock \in Nat /\ high \in Nat /\ clock <= high
        /\ high - clock <= MaxStepBack
        /\ MaxStepBack \in Nat /\ NONCE_CACHE_TTL_MS \in Nat \ {0}
    BY DEF CacheInv, TypeOK, ClockBounds, CacheConstants
  <1>2. /\ DOMAIN seen' = Retained \cup {f}
        /\ seen'[f] = clock
        /\ f \notin Retained
        /\ Retained \subseteq DOMAIN seen
        /\ \A k \in Retained : seen'[k] = seen[k]
        /\ \A k \in Retained :
               clock - seen[k] < NONCE_CACHE_TTL_MS \/ clock < seen[k]
    BY InsertedCacheFacts DEF CacheInv, Retained
  <1>3. \A k \in Retained : seen[k] \in Nat /\ seen[k] <= high
    BY <1>2 DEF CacheInv, TypeOK, SpanInv
  <1>4. ASSUME NEW k1 \in DOMAIN seen', NEW k2 \in DOMAIN seen'
        PROVE  \/ seen'[k1] - seen'[k2] < NONCE_CACHE_TTL_MS
               \/ seen'[k1] - seen'[k2] <= MaxStepBack
    <2>1. CASE k1 \in Retained /\ k2 \in Retained
      BY <1>2, <2>1 DEF SpanInv, SeenSpan
    <2>2. CASE k1 = f /\ k2 = f
      BY <1>1, <1>2, <2>2
    <2>3. CASE k1 = f /\ k2 \in Retained
      BY <1>1, <1>2, <1>3, <2>3
    <2>4. CASE k1 \in Retained /\ k2 = f
      BY <1>1, <1>2, <1>3, <2>4
    <2> QED
      BY <1>2, <2>1, <2>2, <2>3, <2>4
  <1>5. \A k \in DOMAIN seen' : seen'[k] <= high'
    BY <1>1, <1>2, <1>3
  <1> QED
    BY <1>4, <1>5 DEF SpanInv, SeenSpan

\* Eviction bounds the cache: live entries lie within one TTL of each other,
\* or within what the clock was set back.
THEOREM CacheSpanBounded == Spec => []SeenSpan
  <1>1. Init => SpanInv
    BY DEF Init, SpanInv, SeenSpan, EmptyCache
  <1>2. CacheInv /\ SpanInv /\ [Next]_vars => SpanInv'
    <2> SUFFICES ASSUME CacheInv, SpanInv, [Next]_vars PROVE SpanInv'
      OBVIOUS
    <2>1. CASE Tick
      <3>1. high' \in Nat /\ high' >= high /\ high \in Nat
        BY <2>1 DEF Tick, CacheInv, TypeOK
      <3>2. \A k \in DOMAIN seen : seen[k] \in Nat
        BY DEF CacheInv, TypeOK
      <3>3. seen' = seen
        BY <2>1 DEF Tick
      <3> QED
        BY <3>1, <3>2, <3>3 DEF SpanInv, SeenSpan
    <2>2. CASE RxDecryptFailed \/ RxOk
      <3>1. PICK f \in air :
                /\ f \notin DOMAIN seen
                /\ seen' = InsertedCache(f)
                /\ high' = high
        BY <2>2 DEF RxDecryptFailed, RxOk
      <3>2. f \in Keys
        BY DEF CacheInv, TypeOK
      <3> QED
        BY <3>1, <3>2, CacheConstants, InsertKeepsSpan
    <2>3. CASE Restart
      BY <2>3 DEF Restart, SpanInv, SeenSpan, EmptyCache
    <2>4. CASE UNCHANGED <<seen, high>>
      BY <2>4 DEF SpanInv, SeenSpan
    <2> QED
      BY <2>1, <2>2, <2>3, <2>4
         DEF Next, vars, StepBack, Build, RxTruncatedFrame, RxBadSignature,
             RxTimeWindowExpired, RxReplayedNonce
  <1>3. SpanInv => SeenSpan
    BY DEF SpanInv
  <1> QED
    BY <1>1, <1>2, <1>3, CacheInvariant, PTL DEF Spec
---------------------------------------------------------------------------
(* What occupies the cache *)

\* A frame that check_and_insert refused left no entry behind: each entry is
\* owed to a frame this run accepted or could not decrypt.
THEOREM RefusalsLeaveNoEntry == Spec => []EntriesAreEarned
  <1>1. Init => EntriesAreEarned
    BY DEF Init, EntriesAreEarned, EmptyCache
  <1>2. CacheInv /\ EntriesAreEarned /\ [Next]_vars => EntriesAreEarned'
    <2> SUFFICES ASSUME CacheInv, EntriesAreEarned, [Next]_vars
                 PROVE  EntriesAreEarned'
      OBVIOUS
    <2>1. CASE RxDecryptFailed
      <3>1. PICK f \in air :
                /\ seen' = InsertedCache(f)
                /\ burned' = burned \cup {f}
                /\ UNCHANGED <<boot, accepted>>
        BY <2>1 DEF RxDecryptFailed
      <3>2. DOMAIN seen' \subseteq DOMAIN seen \cup {f}
        BY <3>1 DEF InsertedCache, Retained
      <3> QED
        BY <3>1, <3>2 DEF EntriesAreEarned
    <2>2. CASE RxOk
      <3>1. PICK f \in air :
                /\ seen' = InsertedCache(f)
                /\ accepted' = Append(accepted,
                       [key |-> f, at |-> clock, high |-> high, boot |-> boot])
                /\ UNCHANGED <<boot, burned>>
        BY <2>2 DEF RxOk
      <3>2. DOMAIN seen' \subseteq DOMAIN seen \cup {f}
        BY <3>1 DEF InsertedCache, Retained
      <3>3. /\ Len(accepted) \in Nat
            /\ Len(accepted') = Len(accepted) + 1
            /\ \A i \in 1 .. Len(accepted) : accepted'[i] = accepted[i]
            /\ accepted'[Len(accepted) + 1].key = f
            /\ accepted'[Len(accepted) + 1].boot = boot
        BY <3>1 DEF CacheInv, TypeOK
      <3>4. /\ Len(accepted) + 1 \in 1 .. Len(accepted')
            /\ 1 .. Len(accepted) \subseteq 1 .. Len(accepted')
        BY <3>3
      <3> QED
        BY <3>1, <3>2, <3>3, <3>4 DEF EntriesAreEarned
    <2>3. CASE Restart
      BY <2>3 DEF Restart, EntriesAreEarned, EmptyCache
    <2>4. CASE UNCHANGED <<seen, boot, accepted, burned>>
      BY <2>4 DEF EntriesAreEarned
    <2> QED
      BY <2>1, <2>2, <2>3, <2>4
         DEF Next, vars, Tick, StepBack, Build, RxTruncatedFrame, RxBadSignature,
             RxTimeWindowExpired, RxReplayedNonce
  <1> QED
    BY <1>1, <1>2, CacheInvariant, PTL DEF Spec
===========================================================================
