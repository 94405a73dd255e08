---------------------------- MODULE NonceCache ----------------------------
(***************************************************************************)
(* One receiver's frame verification: parse_and_verify_frame (wire         *)
(* frame.rs) and the replay cache it consults, NonceCache (wire            *)
(* nonce_cache.rs).                                                        *)
(*                                                                         *)
(* Frames are identified by the triple the cache keys on: source node,     *)
(* sender timestamp and the random part of the nonce.  The medium keeps    *)
(* every frame ever built, so a frame may be lost, delayed, duplicated,    *)
(* reordered or damaged at will.  The receiver reads SystemTime, which may *)
(* be stepped back; `high` remembers the largest value it ever showed.     *)
(***************************************************************************)
EXTENDS Integers, Sequences, FiniteSets

CONSTANTS
    Senders,             \* node ids frames may carry as src_node
    Known,               \* the ids present in the PubkeyStore
    Nonces,              \* values of the five random nonce bytes
    TIME_WINDOW_MS,      \* half width of the acceptance window
    NONCE_CACHE_TTL_MS,  \* age at which a cache entry may be evicted
    MaxSkew,             \* bound: sender clock minus receiver clock
    MaxStepBack,         \* bound: how far the local clock may be set back
    MaxClock,            \* bound: last instant modelled
    MaxFrames,           \* bound: frames on the air
    MaxBoots             \* bound: process starts

ASSUME CacheConstants ==
    /\ Known \subseteq Senders
    /\ TIME_WINDOW_MS \in Nat
    /\ NONCE_CACHE_TTL_MS \in Nat \ {0}
    /\ MaxSkew \in Nat
    /\ MaxStepBack \in Nat
    /\ MaxClock \in Nat
    /\ MaxFrames \in Nat
    /\ MaxBoots \in Nat

VARIABLES
    clock,     \* SystemTime of the receiver, in ms
    high,      \* history: the largest clock value so far
    air,       \* header keys of the frames sent so far
    seen,      \* NonceCache.seen: key -> inserted_at
    result,    \* what the last parse_and_verify_frame returned
    boot,      \* which start of the process this is
    accepted,  \* history: the Ok results in order
    burned     \* history: keys inserted by a frame that then failed to decrypt

vars == <<clock, high, air, seen, result, boot, accepted, burned>>

Keys == [src : Senders, ts : Nat, nonce : Nonces]

Results == {"None", "Ok", "TruncatedFrame", "BadSignature",
            "TimeWindowExpired", "ReplayedNonce", "DecryptFailed"}

Acceptances == [key : Keys, at : Nat, high : Nat, boot : Nat]

EmptyCache == [k \in {} |-> 0]

Init ==
    /\ clock = 0
    /\ high = 0
    /\ air = {}
    /\ seen = EmptyCache
    /\ result = "None"
    /\ boot = 0
    /\ accepted = <<>>
    /\ burned = {}

---------------------------------------------------------------------------
(* The local clock and the senders *)

Tick ==
    /\ clock < MaxClock
    /\ clock' = clock + 1
    /\ high' = IF clock + 1 > high THEN clock + 1 ELSE high
    /\ UNCHANGED <<air, seen, result, boot, accepted, burned>>

\* SystemTime is not monotone: an adjustment may set it back.
StepBack ==
    \E t \in 0 .. MaxClock :
        /\ t < clock
        /\ high - t <= MaxStepBack
        /\ clock' = t
        /\ UNCHANGED <<high, air, seen, result, boot, accepted, burned>>

\* A sender stamps the frame with its own clock and a random nonce and signs it.
Build(s) ==
    \E n \in Nonces, ts \in 0 .. (MaxClock + MaxSkew) :
        /\ Cardinality(air) < MaxFrames
        /\ ts <= clock + MaxSkew
        /\ clock <= ts + MaxSkew
        /\ air' = air \cup {[src |-> s, ts |-> ts, nonce |-> n]}
        /\ UNCHANGED <<clock, high, seen, result, boot, accepted, burned>>

---------------------------------------------------------------------------
(* check_and_insert *)

AbsDiff(a, b) == IF a < b THEN b - a ELSE a - b

InWindow(k) == AbsDiff(clock, k.ts) <= TIME_WINDOW_MS

SaturatingSub(a, b) == IF a < b THEN 0 ELSE a - b

\* Deviation: the eviction comparison is off by one millisecond.
IsStaleEarly(k) == SaturatingSub(clock, seen[k]) + 1 >= NONCE_CACHE_TTL_MS

\* Deviation: nothing is ever evicted.
IsStaleNever(k) == FALSE

IsStale(k) == SaturatingSub(clock, seen[k]) >= NONCE_CACHE_TTL_MS

Retained == {k \in DOMAIN seen : ~IsStale(k)}

\* Deviation: entries are backdated by the window, with signed arithmetic.
InsertedCacheBackdated(key) ==
    [k \in Retained \cup {key} |->
        IF k = key THEN clock - TIME_WINDOW_MS ELSE seen[k]]

InsertedCache(key) ==
    [k \in Retained \cup {key} |-> IF k = key THEN clock ELSE seen[k]]

---------------------------------------------------------------------------
(* parse_and_verify_frame, one action per way it can return *)

Verified(f) == f.src \in Known

\* Shorter than the two headers and the signature, or an unknown kind or
\* priority byte: nothing else is looked at.
RxTruncatedFrame ==
    \E f \in air :
        /\ result' = "TruncatedFrame"
        /\ UNCHANGED <<clock, high, air, seen, boot, accepted, burned>>

\* A sender without a registered key, or a damaged header or signature.
RxBadSignature ==
    \E f \in air, damaged \in BOOLEAN :
        /\ ~Verified(f) \/ damaged
        /\ result' = "BadSignature"
        /\ UNCHANGED <<clock, high, air, seen, boot, accepted, burned>>

\* Deviation: the key is recorded before the timestamp is judged.
RxTimeWindowExpiredRemembers ==
    \E f \in air :
        /\ Verified(f)
        /\ ~InWindow(f)
        /\ result' = "TimeWindowExpired"
        /\ seen' = InsertedCache(f)
        /\ UNCHANGED <<clock, high, air, boot, accepted, burned>>

RxTimeWindowExpired ==
    \E f \in air :
        /\ Verified(f)
        /\ ~InWindow(f)
        /\ result' = "TimeWindowExpired"
        /\ UNCHANGED <<clock, high, air, seen, boot, accepted, burned>>

RxReplayedNonce ==
    \E f \in air :
        /\ Verified(f)
        /\ InWindow(f)
        /\ f \in DOMAIN seen
        /\ result' = "ReplayedNonce"
        /\ UNCHANGED <<clock, high, air, seen, boot, accepted, burned>>

\* The signature covers the header only: a damaged payload is found out by
\* its hash, after the nonce has been recorded.
RxDecryptFailed ==
    \E f \in air :
        /\ Verified(f)
        /\ InWindow(f)
        /\ f \notin DOMAIN seen
        /\ result' = "DecryptFailed"
        /\ seen' = InsertedCache(f)
        /\ burned' = burned \cup {f}
        /\ UNCHANGED <<clock, high, air, boot, accepted>>

RxOk ==
    \E f \in air :
        /\ Verified(f)
        /\ InWindow(f)
        /\ f \notin DOMAIN seen
        /\ result' = "Ok"
        /\ seen' = InsertedCache(f)
        /\ accepted' = Append(accepted,
               [key |-> f, at |-> clock, high |-> high, boot |-> boot])
        /\ UNCHANGED <<clock, high, air, boot, burned>>

\* A drone may reboot at any time; the cache is in memory only.
Restart ==
    /\ boot < MaxBoots
    /\ boot' = boot + 1
    /\ seen' = EmptyCache
    /\ result' = "None"
    /\ burned' = {}
    /\ UNCHANGED <<clock, high, air, accepted>>

Next ==
    \/ Tick
    \/ StepBack
    \/ \E s \in Senders : Build(s)
    \/ RxTruncatedFrame
    \/ RxBadSignature
    \/ RxTimeWindowExpired
    \/ RxReplayedNonce
    \/ RxDecryptFailed
    \/ RxOk
    \/ Restart

Spec == Init /\ [][Next]_vars

---------------------------------------------------------------------------
(* Properties *)

\* Every variable keeps the shape of the code's data.
TypeOK ==
    /\ clock \in Nat
    /\ high \in Nat
    /\ air \subseteq Keys
    /\ DOMAIN seen \subseteq Keys
    /\ \A k \in DOMAIN seen : seen[k] \in Nat
    /\ seen = [k \in DOMAIN seen |-> seen[k]]
    /\ result \in Results
    /\ boot \in Nat
    /\ accepted \in Seq(Acceptances)
    /\ burned \subseteq Keys

SameFrame(i, j) ==
    /\ accepted[i].key = accepted[j].key
    /\ accepted[i].boot = accepted[j].boot

\* check_and_insert: when one run of the process accepts a frame a second
\* time, the entry of the first time has been evicted, so the local clock has
\* meanwhile shown a value at least NONCE_CACHE_TTL_MS later.
RepeatNeedsExpiry ==
    \A i, j \in 1 .. Len(accepted) :
        i < j /\ SameFrame(i, j) =>
            accepted[j].high >= accepted[i].at + NONCE_CACHE_TTL_MS

\* check_and_insert "rejects if the (src, ts, nonce) tuple was already seen":
\* one run of the process accepts a frame at most once.
AtMostOnce ==
    \A i, j \in 1 .. Len(accepted) : i < j => ~SameFrame(i, j)

\* "Evict before inserting to keep memory bounded": two live entries were
\* inserted less than one TTL apart, or the clock was set back in between.
SeenSpan ==
    \A k1, k2 \in DOMAIN seen :
        \/ seen[k1] - seen[k2] < NONCE_CACHE_TTL_MS
        \/ seen[k1] - seen[k2] <= MaxStepBack

\* Only a frame that this run accepted or failed to decrypt occupies the
\* cache: one refused for its timestamp or signature is still acceptable
\* when a later copy arrives in the window.
EntriesAreEarned ==
    \A k \in DOMAIN seen :
        \/ k \in burned
        \/ \E i \in 1 .. Len(accepted) :
               accepted[i].key = k /\ accepted[i].boot = boot
===========================================================================
