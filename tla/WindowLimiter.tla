--------------------------- MODULE WindowLimiter ---------------------------
(***************************************************************************)
(* The three in-memory limiters: Tier2Limiter (announcements per IP,       *)
(* src/storage/tier2_limiter.rs), RelayBandwidthAccount (bytes per peer,   *)
(* src/node/relay.rs) and check_rate_limit (gateway requests per key or    *)
(* IP, src/api/gateway_keys.rs).  They are one algorithm: a bucket per     *)
(* client with what it used and the instant at which its window ends.      *)
(* Every method holds one mutex throughout, so a method is an action.      *)
(*                                                                         *)
(* The first two read a monotonic clock (Instant), the gateway the wall    *)
(* clock, which can be set back.  Only the time left of a window matters,  *)
(* so the clock itself needs no bound.                                     *)
(***************************************************************************)
EXTENDS Naturals, FiniteSets, FiniteSetsExt

CONSTANTS
    Kinds,     \* the limiters of a run, of {"announce", "relay", "gateway"}
    Id,        \* IPs, keys or peer ids
    Limit,     \* max_requests, limit_bytes_per_window or rate_limit_per_min
    Window,    \* window, in ticks
    Bytes,     \* the sizes relay accounts are charged with
    MaxUsed,   \* bound of what record() adds up to, and of the requests counted
    MaxBack,   \* how many ticks the wall clock is set back by at most
    MaxJumps   \* bound of how often it is

ASSUME IdAssumption    == IsFiniteSet(Id) /\ Kinds \subseteq {"announce", "relay", "gateway"}
ASSUME LimitAssumption ==
    /\ Limit \in Nat /\ Window \in Nat \ {0} /\ MaxUsed \in Nat /\ MaxUsed > Limit
    /\ Bytes \subseteq Nat /\ MaxBack \in Nat /\ MaxJumps \in Nat

VARIABLES
    kind,      \* which of the limiters this is; never changes
    tracked,   \* ids that have a bucket
    used,      \* count or bytes_used of each bucket
    left,      \* ticks until its window ends, 0 when it has; more than Window
               \* when the clock is before the start of the window
    jumps,     \* how often the clock was set back
    steady,    \* history: ticks since it last was, capped at Settled
    recent     \* history: recent[i][a] units were allowed to i, a ticks ago

buckets     == <<tracked, used, left>>
clock       == <<jumps, steady>>
limiterVars == <<kind, buckets, clock, recent>>

Past    == 0..(Window - 1)
Settled == MaxJumps * MaxBack + Window

\* A request costs one announcement, one gateway request or some bytes.
Costs == IF kind = "relay" THEN Bytes ELSE {1}

LimiterTypeOK ==
    /\ kind \in Kinds
    /\ tracked \subseteq Id
    /\ used \in [Id -> 0..MaxUsed]
    /\ left \in [Id -> 0..(Window + jumps * MaxBack)]
    /\ jumps \in 0..MaxJumps /\ steady \in 0..Settled
    /\ recent \in [Id -> [Past -> Nat]]

LimiterInit ==
    /\ kind \in Kinds
    /\ tracked = {}
    /\ used = [i \in Id |-> 0]
    /\ left = [i \in Id |-> 0]
    /\ jumps = 0 /\ steady = Settled
    /\ recent = [i \in Id |-> [a \in Past |-> 0]]

\* No bucket, or one whose window has elapsed: a new window starts.  In a
\* release build the gateway's now - window_start wraps around to a huge number
\* when the clock was set back behind the start of the window.
Fresh(i) == i \notin tracked \/ left[i] = 0 \/ left[i] > Window

Used(i) == IF Fresh(i) THEN 0 ELSE used[i]

\* Plausible bug: the limit is compared with what was used before the request.
AdmitsBefore(i, n) == Used(i) < Limit

Admits(i, n) == Used(i) + n <= Limit

\* The bucket of i after a request that adds n.
Charge(i, n) ==
    /\ tracked' = tracked \cup {i}
    /\ used' = [used EXCEPT ![i] = Used(i) + n]
    /\ left' = [left EXCEPT ![i] = IF Fresh(i) THEN Window ELSE left[i]]

Allowed(i, n) ==
    /\ Charge(i, n)
    /\ recent' = [recent EXCEPT ![i][0] = @ + n]
    /\ UNCHANGED <<kind, clock>>

Refused(i, n) ==
    /\ Charge(i, n)
    /\ UNCHANGED <<kind, clock, recent>>

\* allow of the first two: the request is counted only if it fits.
Allow(i, n) ==
    /\ kind # "gateway"
    /\ \/ Admits(i, n) /\ Allowed(i, n)
       \/ ~Admits(i, n) /\ Refused(i, 0)

\* Plausible bug: everybody is limited by everybody's requests.
CheckRateLimitShared(i) ==
    /\ kind = "gateway"
    /\ LET all == MapThenSumSet(Used, Id) IN
       \/ all + 1 <= Limit /\ Allowed(i, 1)
       \/ all + 1 > Limit /\ Refused(i, IF Used(i) + 1 > MaxUsed THEN 0 ELSE 1)

\* check_rate_limit counts every request, also those it refuses.
CheckRateLimit(i) ==
    /\ kind = "gateway"
    /\ \/ Admits(i, 1) /\ Allowed(i, 1)
       \/ ~Admits(i, 1) /\ Refused(i, IF Used(i) + 1 > MaxUsed THEN 0 ELSE 1)

\* RelayBandwidthAccount::record counts bytes without a check.
Record(i, n) ==
    /\ kind = "relay"
    /\ Used(i) + n <= MaxUsed
    /\ Charge(i, n)
    /\ UNCHANGED <<kind, clock, recent>>

\* remaining saturates at 0.
Remaining(i) ==
    IF Fresh(i) THEN Limit
    ELSE IF used[i] >= Limit THEN 0 ELSE Limit - used[i]

\* Plausible bug: every bucket goes.
PruneAll ==
    /\ kind # "gateway"
    /\ tracked' = {}
    /\ used' = [i \in Id |-> 0]
    /\ left' = [i \in Id |-> 0]
    /\ UNCHANGED <<kind, clock, recent>>

\* prune_expired retains the buckets with now < reset_at.
Prune ==
    LET gone == {i \in tracked : left[i] = 0} IN
    /\ kind # "gateway"
    /\ tracked' = tracked \ gone
    /\ used' = [i \in Id |-> IF i \in gone THEN 0 ELSE used[i]]
    /\ UNCHANGED <<kind, left, clock, recent>>

Tick ==
    /\ left' = [i \in Id |-> IF left[i] = 0 THEN 0 ELSE left[i] - 1]
    /\ recent' = [i \in Id |-> [a \in Past |-> IF a = 0 THEN 0 ELSE recent[i][a - 1]]]
    /\ steady' = IF steady = Settled THEN Settled ELSE steady + 1
    /\ UNCHANGED <<kind, tracked, used, jumps>>

\* The wall clock is set back by k ticks.  A window that elapsed any time ago
\* may be running again.
SetBack(k) ==
    /\ kind = "gateway"
    /\ jumps < MaxJumps
    /\ jumps' = jumps + 1
    /\ steady' = 0
    /\ \E again \in [Id -> 0..k] :
          left' = [i \in Id |-> IF i \notin tracked THEN 0
                               ELSE IF left[i] = 0 THEN again[i] ELSE left[i] + k]
    /\ UNCHANGED <<kind, tracked, used, recent>>

LimiterNext ==
    \/ \E i \in Id, n \in Costs : Allow(i, n) \/ Record(i, n)
    \/ \E i \in Id : CheckRateLimit(i)
    \/ Prune
    \/ Tick
    \/ \E k \in 1..MaxBack : SetBack(k)

LimiterSpec == LimiterInit /\ [][LimiterNext]_limiterVars
-----------------------------------------------------------------------------
(* Properties. *)

\* The units of f at the ages A, as pairs of an age and a number: a sum is the
\* number of such pairs.
Units(f, A) == UNION {{a} \X (1..f[a]) : a \in A}

\* What was allowed to i during the last Window ticks.
LastWindow(i) == Cardinality(Units(recent[i], Past))

\* The windows are fixed, not rolling, and start with the first request after
\* the previous one has elapsed: any interval of that length meets two of them
\* at most, and one more for every time the clock is set back, so no more than
\* that many limits' worth is let through, whatever record adds and
\* prune_expired removes.
TwoWindowBound == \A i \in Id : LastWindow(i) <= (2 + jumps) * Limit

RemainingExact ==
    kind # "gateway" => \A i \in Id, n \in Costs \ {0} : n <= Remaining(i) <=> Admits(i, n)

PruneInvisible ==
    [][Prune => \A i \in Id : Remaining(i)' = Remaining(i) /\ (Fresh(i) \/ left'[i] = left[i])]_limiterVars

\* remaining and allow, two separate readings of the bucket, agree on whether
\* the next request is let through, also after record went past the limit and
\* after the window has elapsed, and prune_expired changes the answer to no
\* later request.  (A request of zero bytes, the one handle_storage_cache
\* makes, is refused past the limit, where remaining is 0.)
AnswersAgree == []RemainingExact /\ PruneInvisible

\* "Rate limit ... tracked per key, not globally, so one busy client can't
\* starve everyone else": a request is refused only if the client itself had a
\* whole limit's worth allowed during the last window, and the trouble a clock
\* makes that was set back is over a window after it has caught up with the
\* furthest it was before.
LimitedByOwnUse ==
    kind # "relay" =>
        \A i \in Id : ~Admits(i, 1) => LastWindow(i) >= Limit \/ steady < Settled
=============================================================================
