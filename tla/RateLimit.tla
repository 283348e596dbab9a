------------------------------ MODULE RateLimit ------------------------------
(***************************************************************************)
(* The token bucket behind localRateLimit: Ratelimiter with its lock-free  *)
(* refill, try_wait_n and amend_tokens, called by many requests at once.   *)
(*                                                                         *)
(* Each step of a caller is one atomic access that others can observe.  A  *)
(* load followed by a compare_exchange that fails starts over with nothing *)
(* changed, so the pair is one step here; the load of `available' and the  *)
(* fetch_add that uses it are two.  Counters are unsigned and wrap at      *)
(* TokenSpan, as u64 does in a release build.                              *)
(***************************************************************************)
EXTENDS Integers, FiniteSets

CONSTANTS
    Caller,        \* the requests that use the bucket
    Capacity, RefillAmount, Interval,   \* Parameters
    TokenSpan,     \* 2^w of the counters
    EndOfTime      \* the clock of the instance stops here

ASSUME BucketAssumption ==
    /\ Capacity \in Nat /\ RefillAmount \in Nat /\ Interval \in Nat \ {0}
    /\ RefillAmount <= Capacity     \* Builder::build refuses anything else
    /\ TokenSpan \in Nat /\ TokenSpan > 2 * Capacity
    /\ EndOfTime \in Nat

VARIABLES
    bucketTime,    \* Instant::now()
    available, refillAt,
    waiter,        \* per caller: where its try_wait_n is
    granted,       \* tokens acquired by all callers so far
    refills        \* tokens all refills have put into the bucket

bucketVars == <<bucketTime, available, refillAt, waiter, granted, refills>>

Idle == [at |-> "idle", n |-> 0, time |-> 0, intervals |-> 0, seen |-> 0, refilled |-> FALSE]

\* Builder::build with initial_available(max_tokens).
BucketInit ==
    /\ bucketTime = 0 /\ available = Capacity /\ refillAt = Interval
    /\ waiter = [c \in Caller |-> Idle]
    /\ granted = 0 /\ refills = 0

Tick ==
    /\ bucketTime < EndOfTime
    /\ bucketTime' = bucketTime + 1
    /\ UNCHANGED <<available, refillAt, waiter, granted, refills>>

ClaimRefillShort(c) ==
    LET w == waiter[c]
        intervals == (w.time - refillAt) \div Interval + 1
    IN
    /\ w.at = "refill"
    /\ IF w.time < refillAt
       THEN /\ waiter' = [waiter EXCEPT ![c].at = "take", ![c].refilled = FALSE]
            /\ UNCHANGED refillAt
       ELSE /\ refillAt' = refillAt + (intervals - 1) * Interval
            /\ waiter' = [waiter EXCEPT ![c].at = "load", ![c].intervals = intervals]
    /\ UNCHANGED <<bucketTime, available, granted, refills>>

\* refill(Instant::now()): not yet due, or the caller moves refill_at past
\* the time it read and owns the tokens of the intervals between.
ClaimRefill(c) ==
    LET w == waiter[c]
        intervals == (w.time - refillAt) \div Interval + 1
    IN
    /\ w.at = "refill"
    /\ \/ /\ w.time < refillAt
          /\ waiter' = [waiter EXCEPT ![c].at = "take", ![c].refilled = FALSE]
          /\ UNCHANGED refillAt
       \/ /\ w.time >= refillAt
          /\ refillAt' = refillAt + intervals * Interval
          /\ waiter' = [waiter EXCEPT ![c].at = "load", ![c].intervals = intervals]
    /\ UNCHANGED <<bucketTime, available, granted, refills>>

LoadAvailable(c) ==
    /\ waiter[c].at = "load"
    /\ waiter' = [waiter EXCEPT ![c].at = "add", ![c].seen = available]
    /\ UNCHANGED <<bucketTime, available, refillAt, granted, refills>>

\* What fetch_add adds: up to the capacity, as far as the caller knows.
ToAdd(w) ==
    LET amount == w.intervals * RefillAmount
    IN  IF (w.seen + amount) % TokenSpan >= Capacity
        THEN (Capacity - w.seen) % TokenSpan
        ELSE amount

AddStores(c) ==
    /\ waiter[c].at = "add"
    /\ available' = waiter[c].seen + ToAdd(waiter[c])
    /\ refills' = refills + ToAdd(waiter[c])
    /\ waiter' = [waiter EXCEPT ![c].at = "take", ![c].refilled = TRUE]
    /\ UNCHANGED <<bucketTime, refillAt, granted>>

AddTokens(c) ==
    /\ waiter[c].at = "add"
    /\ available' = (available + ToAdd(waiter[c])) % TokenSpan
    /\ refills' = refills + ToAdd(waiter[c])
    /\ waiter' = [waiter EXCEPT ![c].at = "take", ![c].refilled = TRUE]
    /\ UNCHANGED <<bucketTime, refillAt, granted>>

\* The caller leaves try_wait_n; the next call starts afresh.
Leaves(c, how) == [Idle EXCEPT !.at = how, !.n = waiter[c].n]

\* The inner loop: take all n tokens, or give up, or refill once more because
\* another caller took the tokens this one added.
Take(c) ==
    LET w == waiter[c] IN
    /\ w.at = "take"
    /\ IF available >= w.n
       THEN /\ available' = available - w.n /\ granted' = granted + w.n
            /\ waiter' = [waiter EXCEPT ![c] = Leaves(c, "granted")]
       ELSE /\ waiter' = [waiter EXCEPT ![c] =
                 IF w.refilled THEN [w EXCEPT !.at = "refill", !.time = bucketTime]
                               ELSE Leaves(c, "denied")]
            /\ UNCHANGED <<available, granted>>
    /\ UNCHANGED <<bucketTime, refillAt, refills>>

\* try_wait_n(n) begins (try_wait is n = 1).
TryWait(c, n) ==
    /\ waiter' = [waiter EXCEPT ![c] =
         IF n = 0 \/ n > Capacity
         THEN [Idle EXCEPT !.at = "denied", !.n = n]
         ELSE [Idle EXCEPT !.at = "refill", !.n = n, !.time = bucketTime]]
    /\ UNCHANGED <<bucketTime, available, refillAt, granted, refills>>

Waits(c) == waiter[c].at \in {"refill", "load", "add", "take"}

WaitStep(c) == ClaimRefill(c) \/ LoadAvailable(c) \/ AddTokens(c) \/ Take(c)

\* The bucket after amend_tokens(remove): saturating at both ends of u64.
Amended(tokens, remove) ==
    LET left == tokens - remove
    IN  IF left < 0 THEN 0 ELSE IF left >= TokenSpan THEN TokenSpan - 1 ELSE left

-----------------------------------------------------------------------------
(* A limit on requests: one token each.                                    *)

CheckRequest(c) == ~Waits(c) /\ TryWait(c, 1)

RequestsNext == Tick \/ \E c \in Caller : CheckRequest(c) \/ WaitStep(c)

RequestsSpec == BucketInit /\ [][RequestsNext]_bucketVars

\* Ratelimiter::builder "adds the specified `amount` of tokens to the token
\* bucket after each `interval` has elapsed", and max_tokens places "an upper
\* bound on the number of tokens available for immediate use": no more tokens
\* are granted than the full bucket and one refill_amount for every interval
\* that has passed.
RequestRate == granted <= Capacity + RefillAmount * (bucketTime \div Interval)
=============================================================================
