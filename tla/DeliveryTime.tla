---------------------------- MODULE DeliveryTime ----------------------------
(***************************************************************************)
(* How long one delivery of a record holds its listener, and how often it  *)
(* reaches the services it calls.                                          *)
(*                                                                         *)
(* BaseKafkaConsumer.execute blocks the listener until the Mono of the     *)
(* record completes.  That Mono waits for every remote call, repeats the   *)
(* failed ones as WebClientRetrySpecs and MongoRetrySpecs say, within the  *)
(* time-outs of WebClientConfig, and holds the backoff of the record it    *)
(* publishes (Mono.delay in enqueueMessage and enqueueNotify).             *)
(*                                                                         *)
(* Delivery has the outcomes of these calls and no time; here is one       *)
(* delivery of one record, with one TPP (the TPPs of a message are served  *)
(* side by side), up to its commit or its first failure in place.  Times   *)
(* are in milliseconds; every wait takes its shortest or its longest time. *)
(* The code limits the calls of services, the waits before repetitions and *)
(* the backoffs; how long the database and the broker keep a delivery are  *)
(* parameters.                                                             *)
(***************************************************************************)
EXTENDS Integers

CONSTANTS MaxTry,        \* app.retry.max-retry
          InitialDelay,  \* app.retry.initial-delay-seconds
          MaxDelay,      \* app.retry.max-delay-seconds
          LongBits,      \* the width of a long: 64 in Java
          MongoTime,     \* bound: the longest database operation
          PublishTime    \* bound: the longest publication

ASSUME DeliveryTimeAssumption ==
    /\ MaxTry \in Nat
    /\ InitialDelay \in Nat \ {0} /\ MaxDelay \in Nat
    /\ LongBits \in Nat \ {0}
    /\ MongoTime \in Nat /\ PublishTime \in Nat

VARIABLES
    kind,     \* the topic of the record
    retry,    \* its retry header
    step,     \* the step of the Mono, see Step
    attempt,  \* how often the present call has been repeated
    elapsed,  \* milliseconds since the delivery began
    reached   \* history: [WebCall -> requests its server has received]

vars == <<kind, retry, step, attempt, elapsed, reached>>

-----------------------------------------------------------------------------
WebCall   == {"consents", "tpps", "token", "post"}
MongoCall == {"insert", "find", "save", "error"}
Ended     == {"done", "refused"}
Step      == WebCall \cup MongoCall \cup {"enqueue", "requeue"} \cup Ended

Least(a, b)   == IF a <= b THEN a ELSE b
Largest(a, b) == IF a >= b THEN a ELSE b

\* WebClientConfig: the longest ways to no connection, and to an answer.
ConnectTime == 5000 + 5000      \* PENDING_ACQUIRE_TIMEOUT, CONNECT_TIMEOUT_MS
AnswerTime  == ConnectTime + 8000                         \* RESPONSE_TIMEOUT

\* Reactor's Retry.backoff(_, first).maxBackoff(longest).jitter(0.5): the
\* shortest and the longest wait before repetition n + 1.
Backoff(first, longest, n) ==
    LET d == Least(first * 2^n, longest)
    IN  {Largest(first, d \div 2), Least(longest, (3 * d) \div 2)}

WebBackoff   == Backoff(100, 1000000, attempt)  \* MIN_BACKOFF, no other limit
MongoBackoff == Backoff(500, 30000, attempt)    \* MIN_BACKOFF, MAX_BACKOFF

MaxAttempts(call) == IF call \in WebCall THEN 2 ELSE 3
AttemptsLeftOneMore == attempt <= MaxAttempts(step)
AttemptsLeft == attempt < MaxAttempts(step)

\* What the services are asked with: GET for the consents, else POST.
Failure == {"connect", "transport", "gateway", "status"}

RetryableAlways(call, failure) == failure \in {"connect", "transport", "gateway"}
Retryable(call, failure) ==
    IF call = "consents"
    THEN failure \in {"connect", "transport", "gateway"}  \* transientNetwork
    ELSE failure = "connect"                              \* connectFailureOnly

\* Arithmetic on long: two's complement, the shift count modulo the width.
Wrap(n)    == ((n + 2^(LongBits - 1)) % 2^LongBits) - 2^(LongBits - 1)
Shifted(n) == Wrap(2^(n % LongBits))

\* Math.min(initialDelay * (1L << (retry - 1)), maxDelay), in seconds.
DelayUncapped(n) == Wrap(InitialDelay * Shifted(n - 1))
DelayShiftedByRetry(n) == Least(Wrap(InitialDelay * Shifted(n)), MaxDelay)
Delay(n) == Least(Wrap(InitialDelay * Shifted(n - 1)), MaxDelay)

\* Mono.delay of a negative product throws: its nanoseconds exceed a long.
DelayThrows(n) == Delay(n) < 0

-----------------------------------------------------------------------------
Take(times) == \E t \in times : elapsed' = elapsed + t

Goto(next) ==
    /\ step' = next
    /\ attempt' = 0
    /\ UNCHANGED <<kind, retry>>

\* Where a call that has failed for good leads: handleError, sendNotify's
\* onErrorResume, or the consumer, which repeats the record in place.
AfterFailure ==
    CASE step \in {"consents", "tpps"}     -> "requeue"
      [] step \in {"token", "post", "save"} -> "enqueue"
      [] step \in {"insert", "find"}        -> "refused"
      [] step = "error" -> IF kind = "core" THEN "requeue" ELSE "refused"

\* An answer: the next call, or an empty body or list, or a text that cannot be
\* rendered.
AfterAnswer ==
    CASE step = "consents" -> {"tpps", "done", "requeue"}
      [] step = "tpps"     -> {"insert", "done", "requeue"}
      [] step = "token"    -> {"post", "enqueue"}
      [] step = "post"     -> {"save"}
      [] step = "insert"   -> {"token", "find"}
      [] step = "find"     -> {"token", "done", "refused"}
      [] OTHER             -> {"done"}

\* The call is repeated after a backoff, or has failed.
Repeat(waits, times) ==
    /\ Take({t + w : t \in times, w \in waits})
    /\ attempt' = attempt + 1
    /\ UNCHANGED <<kind, retry, step>>

Answered ==
    /\ step \in WebCall
    /\ Take({0, AnswerTime})
    /\ reached' = [reached EXCEPT ![step] = @ + 1]
    /\ \E next \in AfterAnswer : Goto(next)

\* A connection that is not made; one that breaks, or no answer in time; an
\* answer with status 502, 503 or 504, or with any other error status.
CallFails(failure) ==
    LET times == {0, IF failure = "connect" THEN ConnectTime ELSE AnswerTime}
    IN  /\ step \in WebCall
        /\ \/ failure # "connect" /\ reached' = [reached EXCEPT ![step] = @ + 1]
           \/ failure \in {"connect", "transport"} /\ UNCHANGED reached
        /\ IF Retryable(step, failure) /\ AttemptsLeft
           THEN Repeat(WebBackoff, times)
           ELSE Take(times) /\ Goto(AfterFailure)

Stored ==
    /\ step \in MongoCall
    /\ Take({0, MongoTime})
    /\ \E next \in AfterAnswer : Goto(next)
    /\ UNCHANGED reached

\* Error 16500 is repeated, except for the find, which has no retry.
Throttled ==
    /\ step \in MongoCall \ {"find"}
    /\ IF AttemptsLeft
       THEN Repeat(MongoBackoff, {0, MongoTime})
       ELSE Take({0, MongoTime}) /\ Goto(AfterFailure)
    /\ UNCHANGED reached

StoreFails ==
    /\ step \in MongoCall
    /\ Take({0, MongoTime})
    /\ Goto(AfterFailure)
    /\ UNCHANGED reached

\* getToken throws before it has called anything.
TokenThrows ==
    /\ step = "token"
    /\ Goto(IF kind = "core" THEN "requeue" ELSE "refused")
    /\ UNCHANGED <<elapsed, reached>>

\* enqueueNotify(retry + 1): a core record begins its chain at 0.
SendRetry == IF kind = "core" THEN 0 ELSE retry

\* Where an error of enqueueNotify leads: handleError, or the consumer.
AfterEnqueueFailure == IF kind = "core" THEN "requeue" ELSE "refused"

EnqueueNotify ==
    LET n == SendRetry + 1
    IN  /\ step = "enqueue"
        /\ \/ n > MaxTry /\ Goto("error") /\ UNCHANGED elapsed
           \/ n <= MaxTry /\ DelayThrows(n) /\ Goto(AfterEnqueueFailure) /\ UNCHANGED elapsed
           \/ /\ n <= MaxTry /\ ~DelayThrows(n)
              /\ Take({1000 * Delay(n) + p : p \in {0, PublishTime}})
              /\ \E next \in {"done", AfterEnqueueFailure} : Goto(next)
        /\ UNCHANGED reached

\* enqueueMessage(retry + 1): 80 to 100 percent of the delay.
Requeue ==
    LET n == retry + 1
    IN  /\ step = "requeue"
        /\ \/ (n > MaxTry \/ DelayThrows(n)) /\ Goto("refused") /\ UNCHANGED elapsed
           \/ /\ n <= MaxTry /\ ~DelayThrows(n)
              /\ Take({w * Delay(n) + p : w \in {800, 1000}, p \in {0, PublishTime}})
              /\ \E next \in Ended : Goto(next)
        /\ UNCHANGED reached

-----------------------------------------------------------------------------
Init ==
    /\ kind \in {"core", "retry"}
    /\ retry \in 0..MaxTry
    /\ step = IF kind = "core" THEN "consents" ELSE "token"
    /\ attempt = 0
    /\ elapsed = 0
    /\ reached = [c \in WebCall |-> 0]

Next ==
    \/ Answered \/ (\E f \in Failure : CallFails(f))
    \/ Stored \/ Throttled \/ StoreFails
    \/ TokenThrows \/ EnqueueNotify \/ Requeue

Spec == Init /\ [][Next]_vars

-----------------------------------------------------------------------------
TypeOK ==
    /\ kind \in {"core", "retry"}
    /\ retry \in 0..MaxTry
    /\ step \in Step
    /\ attempt \in 0..MaxAttempts(step)
    /\ elapsed \in Nat
    /\ reached \in [WebCall -> Nat]

(* A POST, which is not idempotent, reaches its server at most once in a   *)
(* delivery, however its connections fail (connectFailureOnly repeats only *)
(* what demonstrably did not arrive).  Only the GET of the consents may    *)
(* arrive more than once.                                                  *)
PostArrivesOnce == \A c \in WebCall \ {"consents"} : reached[c] <= 1

\* What the steps of one delivery add up to: the lookup of the consents, three
\* other web calls, insert, find and save, all with their repetitions and the
\* waits before them; then the backoff and the publication of a first
\* notify-error record, or the ERROR save where there is no retry; and the
\* backoff and the publication of a core record.
WebTime == (3 * AnswerTime + 450) + 3 * (2 * ConnectTime + AnswerTime + 450)
ThrottledTime(mongo) == 4 * mongo + 5250
LongestFor(mongo, publish) ==
    WebTime + 2 * ThrottledTime(mongo) + mongo
        + Largest(1000 * Largest(Delay(1), 0) + publish, ThrottledTime(mongo))
        + 1000 * MaxDelay + publish

(* A delivery lasts no longer than its time-outs, repetitions and backoffs *)
(* add up to, whatever fails on the way: no step is repeated beyond its    *)
(* policy, none is come back to, and no failure leads through more         *)
(* backoffs than these two.  That much of max.poll.interval.ms one record  *)
(* may take.                                                               *)
DeliveryKeepsSchedule == elapsed <= LongestFor(MongoTime, PublishTime)

\* The backoff application.yml promises: it doubles up to the cap.
Promised[n \in Nat \ {0}] ==
    IF n = 1 THEN Least(InitialDelay, MaxDelay) ELSE Least(2 * Promised[n - 1], MaxDelay)

\* The product is a long: with 64 bits and 5 seconds, up to retry 61.
Fits(n) == n < LongBits /\ InitialDelay * 2^(n - 1) < 2^(LongBits - 1)

(* A record is published again only after the backoff that application.yml *)
(* documents (5, 10, 20, ... up to 60 seconds; a core record at least 80   *)
(* percent of it), on every way that leads to the publication and for      *)
(* every retry whose product fits a long.  The wait lies within the        *)
(* delivery, so that the offset is not committed before the publication.   *)
RetryKeepsItsDistance ==
    [][LET n    == IF step = "enqueue" THEN SendRetry + 1 ELSE retry + 1
           wait == elapsed' - elapsed
       IN  /\ step \in {"enqueue", "requeue"} /\ step' = "done"
           /\ Fits(n)
           => /\ n <= MaxTry
              /\ wait >= (IF step = "enqueue" THEN 1000 ELSE 800) * Promised[n]
              /\ wait <= 1000 * Promised[n] + PublishTime]_vars

(* What WebClientConfig says: "The longest chain in this service is        *)
(* getToken() + toUrl() + DB save", which ends within the                  *)
(* spring.lifecycle.timeout of 20 seconds.  A core record has two calls    *)
(* before these, calls are repeated, and the chain holds the backoff of    *)
(* the next record.                                                        *)
LongestChainFitsShutdown == step \in Ended => elapsed <= 20000

=============================================================================
