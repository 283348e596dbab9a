----------------------------- MODULE LlmProofs ------------------------------
(***************************************************************************)
(* The tokens of the LLM calls.  What a refill adds may wrap, so the balance *)
(* of the bucket is kept modulo the word size, as an equation with a       *)
(* multiple of it.                                                         *)
(***************************************************************************)
EXTENDS LlmBackend, TLAPS

(* The remainder by a word size. *)
LEMMA RemainderIs ==
    ASSUME NEW x \in Int, NEW t \in Nat \ {0}
    PROVE  /\ x % t \in Int /\ 0 <= x % t /\ x % t < t
           /\ \E q \in Int : x = (q * t) + (x % t)
<1>1. x \div t \in Int /\ x % t \in Int /\ 0 <= x % t /\ x % t < t
  OBVIOUS
<1>2. x = t * (x \div t) + (x % t)
  OBVIOUS
<1>3. t * (x \div t) = (x \div t) * t
  BY <1>1
<1>4. PICK q \in Int : q = x \div t
  BY <1>1
<1>5. x = (q * t) + (x % t)
  BY <1>2, <1>3, <1>4
<1> QED  BY Zenon, <1>1, <1>5

(* A multiple of the word size wraps to zero. *)
LEMMA MultipleHasNoRest ==
    ASSUME NEW k \in Int, NEW t \in Nat \ {0}
    PROVE  (k * t) % t = 0
<1>1. PICK x \in Int : x = k * t
  OBVIOUS
<1>2. PICK q \in Int : x = (q * t) + (x % t)
  BY Zenon, RemainderIs
<1>3. x % t \in Int /\ 0 <= x % t /\ x % t < t
  BY RemainderIs
<1>4. PICK d \in Int : d = k - q
  OBVIOUS
<1>5. d * t = k * t - q * t
  BY <1>4
<1>6. d * t = x % t
  <2>1. PICK r \in Int : r = x % t
    BY <1>3
  <2>2. x = (q * t) + r
    BY <1>2, <2>1
  <2>3. d * t = r
    BY <1>1, <1>5, <2>2
  <2> QED  BY <2>1, <2>3, Zenon
<1>7. d >= 1 => d * t >= t
  OBVIOUS
<1>8. d <= -1 => d * t <= -t
  OBVIOUS
<1>9. d = 0
  BY <1>3, <1>6, <1>7, <1>8
<1>10. d * t = 0
  BY <1>9
<1> QED  BY <1>1, <1>6, <1>10

-----------------------------------------------------------------------------
Place == {"new", "webhook", "regex", "count", "limit", "upstream", "stream",
          "done", "failed", "rejected"}

Waiter ==
    [at : {"idle", "refill", "load", "add", "take", "granted", "denied"},
     n : Int, time : Int, intervals : Int, seen : Int, refilled : BOOLEAN]

BucketTypes ==
    /\ bucketTime \in Int /\ available \in Int /\ refillAt \in Int
    /\ granted \in Int /\ refills \in Int
    /\ waiter \in [Caller -> Waiter]

\* What was put into the bucket and what left it differ by a multiple of the
\* span of the counters.
Balanced ==
    \E k \in Int : available + granted + amended = Capacity + refills + (k * TokenSpan)

\* A record of a call.
IsCall(k) ==
    /\ DOMAIN k = {"at", "provider", "streaming", "messages", "est", "charged",
                   "floored", "reports", "usage"}
    /\ k.at \in Place /\ k.streaming \in BOOLEAN /\ k.floored \in BOOLEAN
    /\ k.provider \in DefaultProvider \cup {"anthropic", "bedrock", "none"}
    /\ k.est \in Int /\ k.charged \in Int /\ k.reports \in Nat
    /\ k.usage.in \in Int /\ k.usage.out \in Int

\* What a call was charged when it has reported its usage once.
OnceCharged(k) ==
    IF k.streaming /\ k.provider = "anthropic" THEN k.est ELSE k.usage.in + k.usage.out

\* A call is charged its estimate until it reports its usage, and a report
\* comes only after the charge.
Charged(k) ==
    /\ k.at \in {"new", "webhook", "regex", "count", "limit", "upstream"} => k.reports = 0
    /\ k.at = "new" => ~k.floored
    /\ k.at \in {"webhook", "regex", "count", "limit", "upstream", "stream"}
         => k.provider # "none"
    /\ k.at \in {"upstream", "stream"} /\ k.reports = 0 => k.charged = k.est
    /\ k.reports = 1 => k.charged = OnceCharged(k)
    /\ k.at = "stream" => k.streaming /\ k.provider # "bedrock"

\* Messages are records, and in mode `reject' no rule matches the ones that have
\* passed the guard.
Guarded(k) ==
    /\ \A i \in DOMAIN k.messages : DOMAIN k.messages[i] = {"role", "text"}
    /\ Action = "reject" /\ k.at \in {"count", "limit", "upstream", "stream", "done"} =>
         \A i \in DOMAIN k.messages : Matching(k.messages[i]) = {}

CallOK(k) == IsCall(k) /\ Charged(k) /\ Guarded(k)

LlmInv ==
    /\ BucketTypes /\ amended \in Int
    /\ (\A c \in Caller : ~call[c].floored) => Balanced
    /\ DOMAIN call = Caller
    /\ \A c \in Caller : CallOK(call[c])

(* A caller without a call. *)
LEMMA NoCallOK == CallOK(NoCall) /\ NoCall.floored = FALSE
<1>1. IsCall(NoCall) /\ Charged(NoCall) /\ NoCall.floored = FALSE
  BY DEF IsCall, Charged, OnceCharged, NoCall, NoUsage, Place, DefaultProvider
<1>2. DOMAIN NoCall.messages = {} /\ NoCall.at = "new"
  BY DEF NoCall
<1>3. Guarded(NoCall)
  BY <1>2 DEF Guarded
<1> QED  BY <1>1, <1>3 DEF CallOK

(* The full bucket is balanced. *)
LEMMA LlmInitInv == LlmInit => LlmInv
<1> SUFFICES ASSUME LlmInit PROVE LlmInv
  OBVIOUS
<1> USE BucketAssumption
<1>1. Idle \in Waiter
  BY DEF Idle, Waiter
<1>2. BucketTypes /\ amended \in Int
  BY <1>1 DEF LlmInit, BucketInit, BucketTypes
<1>3. Balanced
  <2>1. available + granted + amended = Capacity + refills + (0 * TokenSpan)
    BY DEF LlmInit, BucketInit
  <2> QED  BY <2>1 DEF Balanced
<1>4. DOMAIN call = Caller /\ \A c \in Caller : CallOK(call[c])
  BY NoCallOK DEF LlmInit
<1> QED  BY <1>2, <1>3, <1>4 DEF LlmInv

(* What a refill adds is a number, whatever it has seen. *)
LEMMA ToAddIsInt ==
    ASSUME NEW w \in Waiter
    PROVE  ToAdd(w) \in Int
<1> USE BucketAssumption
<1>1. w.intervals * RefillAmount \in Int /\ Capacity - w.seen \in Int
  BY DEF Waiter
<1>2. TokenSpan \in Nat \ {0}
  OBVIOUS
<1>3. (Capacity - w.seen) % TokenSpan \in Int
  BY Zenon, <1>1, <1>2, RemainderIs
<1> QED  BY <1>1, <1>3 DEF ToAdd

(* The arithmetic of a balance after a fetch_add that wraps. *)
LEMMA AddedAndWrapped ==
    ASSUME NEW b \in Int, NEW b1 \in Int, NEW g \in Int, NEW m \in Int, NEW p \in Int,
           NEW r \in Int, NEW a \in Int, NEW kt \in Int, NEW qt \in Int,
           b + g + m = p + r + kt, b + a = qt + b1
    PROVE  b1 + g + m = p + (r + a) + (kt - qt)
  OBVIOUS

\* A step of the bucket keeps what it holds in balance.
LEMMA BucketKeeps ==
    ASSUME BucketTypes, amended \in Int, UNCHANGED amended, NEW c \in Caller, NEW n \in Int,
           Tick \/ WaitStep(c) \/ TryWait(c, n)
    PROVE  BucketTypes' /\ (Balanced => Balanced')
<1> USE BucketAssumption
<1>1. ASSUME UNCHANGED <<available, granted, refills>> PROVE Balanced => Balanced'
  BY <1>1 DEF Balanced
<1>2. PICK w \in Waiter : w = waiter[c]
  BY DEF BucketTypes
<1>3. Idle \in Waiter
  BY DEF Idle, Waiter
<1>4. CASE Tick
  BY <1>1, <1>4 DEF Tick, BucketTypes
<1>5. CASE TryWait(c, n)
  <2>1. [Idle EXCEPT !.at = "denied", !.n = n] \in Waiter
    BY Zenon, <1>3 DEF Waiter
  <2>2. [Idle EXCEPT !.at = "refill", !.n = n, !.time = bucketTime] \in Waiter
    BY Zenon, <1>3 DEF Waiter, BucketTypes
  <2>3. waiter' \in [Caller -> Waiter]
    BY <1>5, <2>1, <2>2 DEF TryWait, BucketTypes
  <2> QED  BY <1>1, <1>5, <2>3 DEF TryWait, BucketTypes
<1>6. CASE ClaimRefill(c)
  <2> DEFINE i == (w.time - refillAt) \div Interval + 1
  <2>1. i \in Int /\ refillAt + i * Interval \in Int
    BY DEF BucketTypes, Waiter
  <2>2. [w EXCEPT !.at = "take", !.refilled = FALSE] \in Waiter
    BY Zenon DEF Waiter
  <2>3. [w EXCEPT !.at = "load", !.intervals = i] \in Waiter
    <3> HIDE DEF i
    <3> QED  BY Zenon, <2>1 DEF Waiter
  <2>4. \/ waiter' = [waiter EXCEPT ![c] = [w EXCEPT !.at = "take", !.refilled = FALSE]]
        \/ waiter' = [waiter EXCEPT ![c] = [w EXCEPT !.at = "load", !.intervals = i]]
    BY Zenon, <1>2, <1>6 DEF ClaimRefill
  <2>5. refillAt' = refillAt \/ refillAt' = refillAt + i * Interval
    BY <1>2, <1>6 DEF ClaimRefill
  <2>6. waiter' \in [Caller -> Waiter]
    <3> HIDE DEF i
    <3> QED  BY <2>2, <2>3, <2>4 DEF BucketTypes
  <2>7. refillAt' \in Int
    <3> HIDE DEF i
    <3> QED  BY <2>1, <2>5 DEF BucketTypes
  <2> QED  BY <1>1, <1>6, <2>6, <2>7 DEF ClaimRefill, BucketTypes
<1>7. CASE LoadAvailable(c)
  <2>1. [w EXCEPT !.at = "add", !.seen = available] \in Waiter
    BY Zenon DEF Waiter, BucketTypes
  <2>2. waiter' = [waiter EXCEPT ![c] = [w EXCEPT !.at = "add", !.seen = available]]
    BY Zenon, <1>2, <1>7 DEF LoadAvailable
  <2>3. waiter' \in [Caller -> Waiter]
    BY <2>1, <2>2 DEF BucketTypes
  <2> QED  BY <1>1, <1>7, <2>3 DEF LoadAvailable, BucketTypes
<1>8. CASE AddTokens(c)
  <2>1. PICK a \in Int : a = ToAdd(w)
    BY ToAddIsInt
  <2>2. available' = (available + a) % TokenSpan /\ refills' = refills + a
    BY <1>2, <1>8, <2>1 DEF AddTokens
  <2>3. PICK s \in Int : s = available + a
    BY DEF BucketTypes
  <2>4. TokenSpan \in Nat \ {0}
    OBVIOUS
  <2>5. PICK q \in Int : s = (q * TokenSpan) + (s % TokenSpan)
    BY Zenon, <2>4, RemainderIs
  <2>6. s % TokenSpan \in Int
    BY <2>4, RemainderIs
  <2>7. available' \in Int /\ s = (q * TokenSpan) + available'
    BY <2>2, <2>3, <2>5, <2>6
  <2>8. [w EXCEPT !.at = "take", !.refilled = TRUE] \in Waiter
    BY Zenon DEF Waiter
  <2>9. waiter' = [waiter EXCEPT ![c] = [w EXCEPT !.at = "take", !.refilled = TRUE]]
    BY Zenon, <1>2, <1>8 DEF AddTokens
  <2>10. waiter' \in [Caller -> Waiter]
    BY <2>8, <2>9 DEF BucketTypes
  <2>11. BucketTypes'
    BY <1>8, <2>1, <2>2, <2>7, <2>10 DEF AddTokens, BucketTypes
  <2>12. ASSUME Balanced PROVE Balanced'
    <3>1. PICK k \in Int :
             available + granted + amended = Capacity + refills + (k * TokenSpan)
      BY <2>12 DEF Balanced
    <3>2. PICK m \in Int : m = k - q
      OBVIOUS
    <3>3. m * TokenSpan = (k * TokenSpan) - (q * TokenSpan)
      BY <3>2, <2>4
    <3>4. PICK kt \in Int, qt \in Int : kt = k * TokenSpan /\ qt = q * TokenSpan
      BY <2>4
    <3>5. available' + granted + amended = Capacity + refills' + (m * TokenSpan)
      <4>1. m * TokenSpan = kt - qt
        BY <3>3, <3>4
      <4>2. available + granted + amended = Capacity + refills + kt
        BY <3>1, <3>4
      <4>3. available + a = qt + available'
        BY Zenon, <2>3, <2>7, <3>4
      <4>4. available' + granted + amended = Capacity + refills' + (kt - qt)
        <5>1. refills' = refills + a /\ available' \in Int
          BY <2>2, <2>7
        <5>2. available \in Int /\ granted \in Int /\ refills \in Int /\ Capacity \in Int
          BY DEF BucketTypes
        <5>3. PICK b \in Int, b1 \in Int, g \in Int, r \in Int, p \in Int, am \in Int :
                b = available /\ b1 = available' /\ g = granted /\ r = refills
                /\ p = Capacity /\ am = amended
          BY <5>1, <5>2
        <5>4. b + g + am = p + r + kt
          BY <4>2, <5>3
        <5>5. b + a = qt + b1
          BY Zenon, <4>3, <5>3
        <5>6. b1 + g + am = p + (r + a) + (kt - qt)
          BY <5>4, <5>5, AddedAndWrapped
        <5> QED  BY Zenon, <5>1, <5>3, <5>6
      <4> QED  BY <4>1, <4>4
    <3> QED  BY <1>8, <3>5 DEF AddTokens, Balanced
  <2> QED  BY <2>11, <2>12
<1>9. CASE Take(c)
  <2>1. PICK l \in Waiter : l = Leaves(c, "granted")
    BY Zenon, <1>2, <1>3 DEF Leaves, Waiter
  <2>2. PICK m \in Waiter : m = Leaves(c, "denied")
    BY Zenon, <1>2, <1>3 DEF Leaves, Waiter
  <2>3. PICK r \in Waiter : r = [w EXCEPT !.at = "refill", !.time = bucketTime]
    BY Zenon DEF Waiter, BucketTypes
  <2>4. CASE available >= w.n
    <3>1. available' = available - w.n /\ granted' = granted + w.n /\ refills' = refills
      BY <1>2, <1>9, <2>4 DEF Take
    <3>2. waiter' = [waiter EXCEPT ![c] = l]
      BY <1>2, <1>9, <2>1, <2>4 DEF Take
    <3>3. w.n \in Int
      BY DEF Waiter
    <3>4. waiter' \in [Caller -> Waiter]
      BY <3>2 DEF BucketTypes
    <3>5. BucketTypes'
      BY <1>9, <3>1, <3>3, <3>4 DEF Take, BucketTypes
    <3>6. available' + granted' + amended' = available + granted + amended
      BY <3>1, <3>3 DEF BucketTypes
    <3> QED  BY Zenon, <3>1, <3>5, <3>6 DEF Balanced
  <2>5. CASE ~(available >= w.n)
    <3>1. UNCHANGED <<available, granted, refills, bucketTime, refillAt>>
      BY <1>2, <1>9, <2>5 DEF Take
    <3>2. waiter' = [waiter EXCEPT ![c] = r] \/ waiter' = [waiter EXCEPT ![c] = m]
      BY <1>2, <1>9, <2>2, <2>3, <2>5 DEF Take
    <3>3. waiter' \in [Caller -> Waiter]
      BY <3>2 DEF BucketTypes
    <3> QED  BY <1>1, <3>1, <3>3 DEF BucketTypes
  <2> QED  BY <2>4, <2>5
<1> QED  BY <1>4, <1>5, <1>6, <1>7, <1>8, <1>9 DEF WaitStep

-----------------------------------------------------------------------------
\* One call goes on, in a legal way, and the books stay balanced.
LEMMA OneCallKeeps ==
    ASSUME LlmInv, NEW c \in Caller, NEW k, CallOK(k), BucketTypes', amended' \in Int,
           DOMAIN call' = Caller, call'[c] = k,
           \A d \in Caller : d # c => call'[d] = call[d],
           ~k.floored => ~call[c].floored,
           ~k.floored /\ Balanced => Balanced'
    PROVE  LlmInv'
<1>1. \A d \in Caller : CallOK(call'[d])
  BY DEF LlmInv
<1>2. (\A d \in Caller : CallOK(call[d]))'
  BY <1>1
<1>3. ASSUME \A d \in Caller : ~call'[d].floored PROVE Balanced'
  <2>1. \A d \in Caller : ~call[d].floored
    BY <1>3
  <2> QED  BY <1>3, <2>1 DEF LlmInv
<1> QED  BY <1>2, <1>3 DEF LlmInv

(* Steps that do not touch the bucket. *)
LEMMA SameBucket ==
    ASSUME BucketTypes, UNCHANGED <<bucketVars, amended>>
    PROVE  BucketTypes' /\ (Balanced => Balanced')
  BY DEF bucketVars, BucketTypes, Balanced

(* A call moves on without an amendment. *)
LEMMA GoesKeeps ==
    ASSUME LlmInv, NEW c \in Caller, NEW to \in Place \ {"new"}, Goes(c, to),
           BucketTypes', amended' \in Int, Balanced => Balanced',
           to \in {"limit", "upstream", "webhook", "regex", "count"} =>
             call[c].reports = 0 /\ call[c].provider # "none",
           to = "upstream" => call[c].charged = call[c].est,
           to = "stream" => /\ call[c].at = "upstream" /\ call[c].streaming
                            /\ call[c].provider # "bedrock",
           to \in {"count", "limit", "upstream", "stream", "done"} =>
             call[c].at \in {"count", "limit", "upstream", "stream", "done"}
    PROVE  LlmInv'
<1>1. CallOK(call[c]) /\ DOMAIN call = Caller
  BY DEF LlmInv
<1>2. PICK k0 : k0 = call[c]
  OBVIOUS
<1>3. PICK k : k = [k0 EXCEPT !.at = to]
  BY Zenon
<1>4. CallOK(k) /\ k.floored = k0.floored
  <2>1. IsCall(k) /\ k.floored = k0.floored /\ k.at = to /\ k.messages = k0.messages
    BY <1>1, <1>2, <1>3 DEF CallOK, IsCall
  <2>2. Charged(k)
    BY <1>1, <1>2, <1>3 DEF CallOK, IsCall, Charged, OnceCharged
  <2>3. Guarded(k)
    BY <1>1, <1>2, <2>1 DEF CallOK, Guarded
  <2> QED  BY <2>1, <2>2, <2>3 DEF CallOK
<1>5. DOMAIN call' = Caller /\ call'[c] = k /\ \A d \in Caller : d # c => call'[d] = call[d]
  BY <1>1, <1>2, <1>3 DEF Goes
<1> QED  BY <1>2, <1>4, <1>5, OneCallKeeps

(* amend_tokens: the difference between what was charged and the usage the
   provider reported goes into the bucket and into the record of the call. *)
LEMMA AmendKeeps ==
    ASSUME LlmInv, NEW c \in Caller, NEW u, NEW to \in {"done", "stream"},
           u.in \in Int, u.out \in Int, Amend(c, u, to),
           call[c].at \in {"upstream", "stream"},
           call[c].streaming => call[c].provider # "anthropic",
           to = "stream" => call[c].at = "stream"
    PROVE  LlmInv'
<1>1. CallOK(call[c]) /\ DOMAIN call = Caller /\ BucketTypes /\ amended \in Int
  BY DEF LlmInv
<1>2. PICK k0 : k0 = call[c]
  OBVIOUS
<1>3. PICK remove \in Int : remove = TokensToRemove(k0, u)
  BY <1>1, <1>2 DEF TokensToRemove, CallOK, IsCall
<1>4. available' \in Int /\ amended' = amended + remove
  BY <1>1, <1>2, <1>3, BucketAssumption DEF Amend, Amended, BucketTypes
<1>5. PICK fl \in BOOLEAN : fl = (k0.floored \/ available' # available - remove)
  BY Zenon
<1>6. PICK k : k = [k0 EXCEPT !.at = to, !.charged = k0.charged + remove, !.floored = fl,
                              !.reports = k0.reports + 1, !.usage = u]
  OBVIOUS
<1>7. CallOK(k)
  <2>1. IsCall(k)
    BY <1>1, <1>2, <1>3, <1>6 DEF CallOK, IsCall, Place
  <2>2. k.at = to /\ k.charged = k0.charged + remove /\ k.reports = k0.reports + 1
        /\ k.usage = u /\ k.streaming = k0.streaming /\ k.provider = k0.provider
        /\ k.est = k0.est
    BY <1>1, <1>2, <1>6 DEF CallOK, IsCall
  <2>3. k.reports = 1 => k.charged = k.usage.in + k.usage.out
    <3>1. k0.reports \in Nat /\ k0.est \in Int /\ k0.charged \in Int
      BY <1>1, <1>2 DEF CallOK, IsCall
    <3>2. k0.reports = 0 => k0.charged = k0.est
      BY <1>1, <1>2 DEF CallOK, Charged
    <3>3. PICK e \in Int, i \in Int, o \in Int : e = k0.est /\ i = u.in /\ o = u.out
      BY <3>1
    <3>4. remove = (i - e) + o
      BY <1>3, <3>3 DEF TokensToRemove
    <3>5. e + remove = i + o
      BY <3>4
    <3>6. k.reports = 1 => k.charged = e + remove
      <4>1. PICK n \in Nat : n = k0.reports
        BY <3>1
      <4>2. n + 1 = 1 => n = 0
        OBVIOUS
      <4>3. k.reports = 1 => k0.charged = e
        BY Zenon, <2>2, <3>2, <3>3, <4>1, <4>2
      <4> QED  BY <2>2, <4>3
    <3> QED  BY <2>2, <3>3, <3>5, <3>6
  <2>4. (k0.at = "stream" => k0.streaming /\ k0.provider # "bedrock") /\ k0.provider # "none"
    BY <1>1, <1>2 DEF CallOK, Charged
  <2>5. k0.reports \in Nat
    BY <1>1, <1>2 DEF CallOK, IsCall
  <2>6. Charged(k)
    BY <1>2, <2>2, <2>3, <2>4, <2>5 DEF Charged, OnceCharged
  <2>7. k.messages = k0.messages
    BY <1>1, <1>2, <1>6 DEF CallOK, IsCall
  <2>8. Guarded(k)
    BY Zenon, <1>1, <1>2, <2>2, <2>7 DEF CallOK, Guarded
  <2> QED  BY <2>1, <2>6, <2>8 DEF CallOK
<1>8. DOMAIN call' = Caller /\ call'[c] = k /\ \A d \in Caller : d # c => call'[d] = call[d]
  BY <1>1, <1>2, <1>3, <1>5, <1>6 DEF Amend
<1>9. k.floored = fl
  BY <1>1, <1>2, <1>6 DEF CallOK, IsCall
<1>10. UNCHANGED <<bucketTime, refillAt, waiter, granted, refills>>
  BY DEF Amend
<1>11. BucketTypes' /\ amended' \in Int
  BY <1>1, <1>4, <1>10 DEF BucketTypes
<1>12. ASSUME ~k.floored, Balanced PROVE Balanced'
  <2>1. available' = available - remove
    BY Zenon, <1>5, <1>9, <1>12
  <2>2. available' + granted' + amended' = available + granted + amended
    BY <1>1, <1>4, <1>10, <2>1 DEF BucketTypes
  <2> QED  BY <1>10, <1>12, <2>2 DEF Balanced
<1> QED  BY Zenon, <1>2, <1>5, <1>7, <1>8, <1>9, <1>11, <1>12, OneCallKeeps

(* Every step of the limiter and of a call keeps the balance. *)
LEMMA LlmInvStep == LlmInv /\ [LlmNext]_llmVars => LlmInv'
<1> SUFFICES ASSUME LlmInv, [LlmNext]_llmVars PROVE LlmInv'
  OBVIOUS
<1>1. BucketTypes /\ amended \in Int /\ DOMAIN call = Caller
      /\ \A c \in Caller : CallOK(call[c])
  BY DEF LlmInv
<1>2. ASSUME UNCHANGED call, BucketTypes', amended' \in Int, Balanced => Balanced'
      PROVE  LlmInv'
  BY <1>2 DEF LlmInv
<1>3. CASE UNCHANGED llmVars
  <2>1. UNCHANGED <<bucketVars, amended>> /\ UNCHANGED call
    BY <1>3 DEF llmVars
  <2> QED  BY <1>1, <1>2, <2>1, SameBucket
<1>4. CASE Tick /\ UNCHANGED <<call, amended>>
  <2>1. BucketTypes' /\ (Balanced => Balanced')
    <3>1. UNCHANGED <<available, granted, refills>>
      BY <1>4 DEF Tick
    <3> QED  BY <1>1, <1>4, <3>1 DEF Tick, BucketTypes, Balanced
  <2> QED  BY <1>1, <1>2, <1>4, <2>1
<1>5. ASSUME NEW c \in Caller, LlmStep(c) PROVE LlmInv'
  <2>1. CallOK(call[c])
    BY <1>1
  <2>2. call[c].at = "new" \/ call[c].at \in Place \ {"new"}
    BY <2>1 DEF CallOK, IsCall
  <2>3. ASSUME UNCHANGED <<bucketVars, amended>>
        PROVE  BucketTypes' /\ amended' \in Int /\ (Balanced => Balanced')
    BY <1>1, <2>3, SameBucket
  <2>4. ASSUME NEW to \in {"failed", "rejected", "done"}, Goes(c, to), BucketTypes',
               amended' \in Int, Balanced => Balanced',
               to = "done" => call[c].at \in {"upstream", "stream"}
        PROVE  LlmInv'
    BY <2>4, GoesKeeps DEF Place
  <2>5. CASE ReceiveRequest(c)
    <3>1. BucketTypes' /\ amended' \in Int /\ (Balanced => Balanced')
      BY Zenon, <2>3, <2>5 DEF ReceiveRequest
    <3>2. CASE Goes(c, "failed")
      BY <2>4, <3>1, <3>2
    <3>3. ASSUME NEW p \in Provider, NEW s \in BOOLEAN, NEW msgs \in Prompt,
                 call' = [call EXCEPT ![c] = [NoCall EXCEPT
                       !.at = IF Webhook THEN "webhook" ELSE "regex",
                       !.provider = p, !.streaming = s, !.messages = msgs]]
          PROVE  LlmInv'
      <4>1. PICK k : k = [NoCall EXCEPT
                       !.at = IF Webhook THEN "webhook" ELSE "regex",
                       !.provider = p, !.streaming = s, !.messages = msgs]
        OBVIOUS
      <4>2. CallOK(k) /\ ~k.floored
        <5>1. p \in DefaultProvider \cup {"anthropic", "bedrock"} /\ p # "none"
          BY LlmAssumption DEF DefaultProvider
        <5>2. IsCall(k) /\ Charged(k) /\ ~k.floored
          BY <4>1, <5>1, NoCallOK
          DEF CallOK, IsCall, Charged, OnceCharged, NoCall, NoUsage, Place
        <5>3. k.messages = msgs /\ k.at \in {"webhook", "regex"}
          BY <4>1 DEF NoCall
        <5>4. Guarded(k)
          BY <5>3, LlmAssumption DEF Guarded
        <5> QED  BY <5>2, <5>4 DEF CallOK
      <4>3. DOMAIN call' = Caller /\ call'[c] = k
            /\ \A d \in Caller : d # c => call'[d] = call[d]
        BY <1>1, <3>3, <4>1
      <4>4. ~call[c].floored
        BY Zenon, <2>1, <2>5 DEF ReceiveRequest, CallOK, Charged
      <4> QED  BY <3>1, <4>2, <4>3, <4>4, OneCallKeeps
    <3> QED  BY Zenon, <2>5, <3>2, <3>3 DEF ReceiveRequest
  <2>6. CASE CallWebhook(c)
    <3>1. BucketTypes' /\ amended' \in Int /\ (Balanced => Balanced')
      BY <2>3, <2>6 DEF CallWebhook
    <3>2. call[c].reports = 0 /\ call[c].at = "webhook" /\ call[c].provider # "none"
      BY <2>1, <2>6 DEF CallWebhook, CallOK, Charged
    <3>3. CASE Goes(c, "failed") \/ Goes(c, "rejected")
      BY Zenon, <2>4, <3>1, <3>3
    <3>4. CASE Goes(c, "regex")
      BY <3>1, <3>2, <3>4, GoesKeeps DEF Place
    <3>5. ASSUME NEW msgs \in Prompt,
                 call' = [call EXCEPT ![c].at = "regex", ![c].messages = msgs]
          PROVE  LlmInv'
      <4>1. PICK k0 : k0 = call[c]
        OBVIOUS
      <4>2. PICK k : k = [k0 EXCEPT !.at = "regex", !.messages = msgs]
        OBVIOUS
      <4>3. CallOK(k) /\ k.floored = k0.floored
        <5>1. IsCall(k) /\ Charged(k) /\ k.floored = k0.floored
          BY <2>1, <3>2, <4>1, <4>2 DEF CallOK, IsCall, Charged, OnceCharged, Place
        <5>2. k.messages = msgs /\ k.at = "regex"
          BY <2>1, <4>1, <4>2 DEF CallOK, IsCall
        <5>3. Guarded(k)
          BY <5>2, LlmAssumption DEF Guarded
        <5> QED  BY <5>1, <5>3 DEF CallOK
      <4>4. DOMAIN call' = Caller /\ call'[c] = k
            /\ \A d \in Caller : d # c => call'[d] = call[d]
        BY <1>1, <3>5, <4>1, <4>2
      <4> QED  BY <3>1, <4>1, <4>3, <4>4, OneCallKeeps
    <3> QED  BY <2>6, <3>3, <3>4, <3>5 DEF CallWebhook
  <2>7. CASE ApplyRegex(c)
    <3>1. BucketTypes' /\ amended' \in Int /\ (Balanced => Balanced')
      BY <2>3, <2>7 DEF ApplyRegex
    <3>2. call[c].reports = 0 /\ call[c].at = "regex"
      BY <2>1, <2>7 DEF ApplyRegex, CallOK, Charged
    <3>3. CASE Goes(c, "rejected")
      BY <2>4, <3>1, <3>3
    <3>4. ASSUME NEW msgs, call' = [call EXCEPT ![c].at = "count", ![c].messages = msgs],
                 ~RegexRejects(call[c].messages),
                 msgs = [i \in DOMAIN call[c].messages |-> Masked(call[c].messages[i])]
          PROVE  LlmInv'
      <4>1. PICK k0 : k0 = call[c]
        OBVIOUS
      <4>2. PICK k : k = [k0 EXCEPT !.at = "count", !.messages = msgs]
        OBVIOUS
      <4>3. CallOK(k) /\ k.floored = k0.floored
        <5>1. IsCall(k) /\ Charged(k) /\ k.floored = k0.floored
          BY <2>1, <3>2, <4>1, <4>2 DEF CallOK, IsCall, Charged, OnceCharged, Place
        <5>2. k.messages = msgs /\ k.at = "count"
          BY <2>1, <4>1, <4>2 DEF CallOK, IsCall
        <5>3. \A i \in DOMAIN k0.messages : DOMAIN k0.messages[i] = {"role", "text"}
          BY Zenon, <2>1, <4>1 DEF CallOK, Guarded
        <5>4. \A i \in DOMAIN msgs : DOMAIN msgs[i] = {"role", "text"}
          BY <3>4, <4>1, <5>3 DEF Masked
        <5>5. Action = "reject" => \A i \in DOMAIN msgs : Matching(msgs[i]) = {}
          BY Zenon, <3>4 DEF RegexRejects, Masked
        <5>6. Guarded(k)
          BY <5>2, <5>4, <5>5 DEF Guarded
        <5> QED  BY <5>1, <5>6 DEF CallOK
      <4>4. DOMAIN call' = Caller /\ call'[c] = k
            /\ \A d \in Caller : d # c => call'[d] = call[d]
        BY <1>1, <3>4, <4>1, <4>2
      <4> QED  BY <3>1, <4>1, <4>3, <4>4, OneCallKeeps
    <3> QED  BY Zenon, <2>7, <3>3, <3>4 DEF ApplyRegex
  <2>8. CASE CountTokens(c)
    <3>1. call[c].reports = 0 /\ call[c].at = "count" /\ UNCHANGED amended
      BY Zenon, <2>1, <2>8 DEF CountTokens, CallOK, Charged
    <3>2. CASE Goes(c, "failed") /\ UNCHANGED bucketVars
      BY <2>3, <2>4, <3>1, <3>2
    <3>3. ASSUME NEW est \in Estimate, TryWait(c, est),
                 call' = [call EXCEPT ![c].at = "limit", ![c].est = est,
                   ![c].messages = IF call[c].provider \in DefaultProvider THEN @
                                   ELSE TranslateRequest(@)]
          PROVE  LlmInv'
      <4>1. est \in Int
        BY LlmAssumption
      <4>2. BucketTypes' /\ (Balanced => Balanced')
        BY <1>1, <3>1, <3>3, <4>1, BucketKeeps
      <4>3. PICK k0 : k0 = call[c]
        OBVIOUS
      <4>4. PICK msgs : msgs = IF k0.provider \in DefaultProvider THEN k0.messages
                               ELSE TranslateRequest(k0.messages)
        OBVIOUS
      <4>5. PICK k : k = [k0 EXCEPT !.at = "limit", !.est = est, !.messages = msgs]
        OBVIOUS
      <4>6. CallOK(k) /\ k.floored = k0.floored
        <5>1. IsCall(k) /\ Charged(k) /\ k.floored = k0.floored
          BY <2>1, <3>1, <4>1, <4>3, <4>5 DEF CallOK, IsCall, Charged, OnceCharged, Place
        <5>2. k.messages = msgs /\ k.at = "limit"
          BY <2>1, <4>3, <4>5 DEF CallOK, IsCall
        <5>3. /\ \A i \in DOMAIN k0.messages : DOMAIN k0.messages[i] = {"role", "text"}
              /\ Action = "reject" =>
                   \A i \in DOMAIN k0.messages : Matching(k0.messages[i]) = {}
          BY <2>1, <3>1, <4>3 DEF CallOK, Guarded
        <5>4. /\ DOMAIN msgs = DOMAIN k0.messages
              /\ \A i \in DOMAIN msgs : DOMAIN msgs[i] = {"role", "text"}
                                        /\ msgs[i].text = k0.messages[i].text
          BY <4>4, <5>3 DEF TranslateRequest
        <5>5. \A i \in DOMAIN msgs : Matching(msgs[i]) = Matching(k0.messages[i])
          BY <5>4 DEF Matching
        <5>6. Guarded(k)
          BY <5>2, <5>3, <5>4, <5>5 DEF Guarded
        <5> QED  BY <5>1, <5>6 DEF CallOK
      <4>7. DOMAIN call' = Caller /\ call'[c] = k
            /\ \A d \in Caller : d # c => call'[d] = call[d]
        BY <1>1, <3>3, <4>3, <4>4, <4>5
      <4> QED  BY <1>1, <3>1, <4>2, <4>3, <4>6, <4>7, OneCallKeeps
    <3> QED  BY Zenon, <2>8, <3>2, <3>3 DEF CountTokens
  <2>9. CASE WaitForTokens(c)
    <3>1. WaitStep(c) /\ UNCHANGED <<call, amended>>
      BY <2>9 DEF WaitForTokens
    <3>2. BucketTypes' /\ (Balanced => Balanced')
      <4>1. 0 \in Int
        OBVIOUS
      <4> QED  BY <1>1, <3>1, <4>1, BucketKeeps
    <3> QED  BY <1>1, <1>2, <3>1, <3>2
  <2>10. CASE LimitAnswers(c)
    <3>1. call[c].reports = 0 /\ call[c].at = "limit"
      BY <2>1, <2>10 DEF LimitAnswers, CallOK, Charged
    <3>2. BucketTypes' /\ amended' \in Int /\ (Balanced => Balanced')
      <4>1. Idle \in Waiter
        BY DEF Idle, Waiter
      <4>2. waiter' \in [Caller -> Waiter]
        BY <1>1, <2>10, <4>1 DEF LimitAnswers, BucketTypes
      <4>3. UNCHANGED <<bucketTime, available, refillAt, granted, refills, amended>>
        BY <2>10 DEF LimitAnswers
      <4> QED  BY <1>1, <4>2, <4>3 DEF BucketTypes, Balanced
    <3>3. CASE Goes(c, "failed")
      BY <2>4, <3>2, <3>3
    <3>4. CASE call' = [call EXCEPT ![c].at = "upstream", ![c].charged = call[c].est]
      <4>1. PICK k0 : k0 = call[c]
        OBVIOUS
      <4>2. PICK k : k = [k0 EXCEPT !.at = "upstream", !.charged = k0.est]
        OBVIOUS
      <4>3. CallOK(k) /\ k.floored = k0.floored
        <5>1. IsCall(k) /\ Charged(k) /\ k.floored = k0.floored
          BY <2>1, <3>1, <4>1, <4>2 DEF CallOK, IsCall, Charged, OnceCharged, Place
        <5>2. k.messages = k0.messages /\ k.at = "upstream"
          BY Zenon, <2>1, <4>1, <4>2 DEF CallOK, IsCall
        <5>3. Guarded(k)
          BY <2>1, <3>1, <4>1, <5>2 DEF CallOK, Guarded
        <5> QED  BY <5>1, <5>3 DEF CallOK
      <4>4. DOMAIN call' = Caller /\ call'[c] = k
            /\ \A d \in Caller : d # c => call'[d] = call[d]
        BY <1>1, <3>4, <4>1, <4>2
      <4> QED  BY <3>2, <4>1, <4>3, <4>4, OneCallKeeps
    <3> QED  BY <2>10, <3>3, <3>4 DEF LimitAnswers
  <2>11. CASE UpstreamFails(c)
    BY Zenon, <2>3, <2>4, <2>11 DEF UpstreamFails
  <2>12. CASE ProcessResponse(c)
    <3>1. ASSUME NEW to \in {"failed", "done"}, Goes(c, to), UNCHANGED <<bucketVars, amended>>
          PROVE  LlmInv'
      <4>1. call[c].at = "upstream"
        BY <2>12 DEF ProcessResponse
      <4> QED  BY <2>3, <2>4, <3>1, <4>1
    <3>2. ASSUME NEW u \in UsageIn(call[c].provider), Amend(c, u, "done") PROVE LlmInv'
      <4>1. u.in \in Int /\ u.out \in Int
        BY LlmAssumption DEF UsageIn, NoUsage
      <4>2. ~call[c].streaming /\ call[c].at = "upstream"
        BY <2>12 DEF ProcessResponse
      <4> QED  BY <3>2, <4>1, <4>2, AmendKeeps
    <3> QED  BY <2>12, <3>1, <3>2 DEF ProcessResponse
  <2>13. CASE StartStream(c)
    <3>1. BucketTypes' /\ amended' \in Int /\ (Balanced => Balanced')
      BY <2>3, <2>13 DEF StartStream
    <3>2. CASE call[c].provider = "bedrock"
      BY <2>4, <2>13, <3>1, <3>2 DEF StartStream
    <3>3. CASE call[c].provider # "bedrock"
      <4>1. Goes(c, "stream") /\ call[c].at = "upstream" /\ call[c].streaming
        BY <2>13, <3>3 DEF StartStream
      <4> QED  BY <3>1, <3>3, <4>1, GoesKeeps DEF Place
    <3> QED  BY <3>2, <3>3
  <2>14. CASE StreamUsage(c)
    <3>1. PICK u \in Usage :
            IF call[c].provider \in DefaultProvider
            THEN Amend(c, u, "stream")
            ELSE /\ call' = [call EXCEPT ![c].reports = @ + 1, ![c].usage = u]
                 /\ UNCHANGED <<bucketVars, amended>>
      BY <2>14 DEF StreamUsage
    <3>2. u.in \in Int /\ u.out \in Int /\ call[c].at = "stream"
      BY <2>14, LlmAssumption DEF StreamUsage
    <3>3. CASE call[c].provider \in DefaultProvider
      <4>1. Amend(c, u, "stream") /\ call[c].provider # "anthropic"
        BY <3>1, <3>3 DEF DefaultProvider
      <4> QED  BY <3>2, <4>1, AmendKeeps
    <3>4. CASE call[c].provider \notin DefaultProvider
      <4>1. BucketTypes' /\ amended' \in Int /\ (Balanced => Balanced')
        BY <2>3, <3>1, <3>4
      <4>2. PICK k0 : k0 = call[c]
        OBVIOUS
      <4>3. PICK k : k = [k0 EXCEPT !.reports = k0.reports + 1, !.usage = u]
        OBVIOUS
      <4>4. IsCall(k) /\ k.floored = k0.floored
        BY <2>1, <3>2, <4>2, <4>3 DEF CallOK, IsCall
      <4>5. Charged(k)
        <5>1. k.at = "stream" /\ k.reports = k0.reports + 1 /\ k.provider = k0.provider
              /\ k.streaming = k0.streaming /\ k.est = k0.est /\ k.charged = k0.charged
          BY Zenon, <2>1, <3>2, <4>2, <4>3 DEF CallOK, IsCall
        <5>2. k0.streaming /\ k0.provider = "anthropic"
          BY <2>1, <3>2, <3>4, <4>2 DEF CallOK, IsCall, Charged, DefaultProvider
        <5>3. PICK n \in Nat : n = k0.reports
          BY <2>1, <4>2 DEF CallOK, IsCall
        <5>4. n + 1 # 0 /\ (n + 1 = 1 => n = 0)
          OBVIOUS
        <5>5. k.reports = 1 => k.charged = k.est
          BY <2>1, <3>2, <4>2, <5>1, <5>3, <5>4 DEF CallOK, Charged
        <5> QED  BY <5>1, <5>2, <5>3, <5>4, <5>5 DEF Charged, OnceCharged
      <4>6. DOMAIN call' = Caller /\ call'[c] = k
            /\ \A d \in Caller : d # c => call'[d] = call[d]
        BY Zenon, <1>1, <3>1, <3>4, <4>2, <4>3
      <4>7. k.messages = k0.messages /\ k.at = k0.at
        BY Zenon, <2>1, <4>2, <4>3 DEF CallOK, IsCall
      <4>8. Guarded(k)
        BY <2>1, <4>2, <4>7 DEF CallOK, Guarded
      <4>9. CallOK(k)
        BY <4>4, <4>5, <4>8 DEF CallOK
      <4> QED  BY <4>1, <4>2, <4>4, <4>6, <4>9, OneCallKeeps
    <3> QED  BY <3>3, <3>4
  <2>15. CASE EndStream(c)
    BY <2>3, <2>4, <2>15 DEF EndStream
  <2> QED  BY <1>5, <2>5, <2>6, <2>7, <2>8, <2>9, <2>10, <2>11, <2>12, <2>13, <2>14, <2>15
           DEF LlmStep
<1> QED  BY <1>3, <1>4, <1>5 DEF LlmNext

(* For any number of callers, any capacity, refill amount and word size: no
   interleaving of refills, charges and amendments loses or makes a token; the
   counter is capacity plus refills minus what was granted and amended, modulo
   its width, unless an amendment stopped at the floor, and a call whose usage
   was reported once has been charged that usage, but for the streams of
   Anthropic, which keep the estimate (refill, try_wait_n, amend_tokens
   of localratelimit.rs, amend_tokens of llm/mod.rs). *)
THEOREM TokensCorrect == LlmSpec => []TokensAccounted
<1>1. LlmInv => TokensAccounted
  <2> SUFFICES ASSUME LlmInv PROVE TokensAccounted
    OBVIOUS
  <2>1. ASSUME Balanced
        PROVE  (available + granted + amended - Capacity - refills) % TokenSpan = 0
    <3>1. PICK k \in Int :
             available + granted + amended = Capacity + refills + (k * TokenSpan)
      BY <2>1 DEF Balanced
    <3>2. PICK m \in Int : m = k * TokenSpan
      BY BucketAssumption
    <3>3. PICK b \in Int, g \in Int, a \in Int, p \in Int, r \in Int :
             b = available /\ g = granted /\ a = amended /\ p = Capacity /\ r = refills
      BY BucketAssumption DEF LlmInv, BucketTypes
    <3>4. b + g + a = p + r + m
      BY <3>1, <3>2, <3>3
    <3>5. b + g + a - p - r = m
      BY <3>4
    <3>6. m % TokenSpan = 0
      BY <3>2, MultipleHasNoRest, BucketAssumption
    <3> QED  BY <3>3, <3>5, <3>6
  <2>2. TokensConserved
    BY Zenon, <2>1 DEF LlmInv, TokensConserved
  <2>3. ChargedRealUsage
    BY Zenon DEF LlmInv, CallOK, Charged, OnceCharged, ChargedRealUsage
  <2> QED  BY <2>2, <2>3 DEF TokensAccounted
<1> QED  BY <1>1, LlmInitInv, LlmInvStep, PTL DEF LlmSpec

(* With action `reject' no text that a rule matches is counted, charged or sent
   to a provider, also after the webhook has rewritten it, for any messages,
   rules and number of callers (Policy::apply). *)
THEOREM GuardCorrect == LlmSpec => []GuardRejects
<1>1. LlmInv => GuardRejects
  BY DEF LlmInv, CallOK, Guarded, GuardRejects
<1> QED  BY <1>1, LlmInitInv, LlmInvStep, PTL DEF LlmSpec
=============================================================================
