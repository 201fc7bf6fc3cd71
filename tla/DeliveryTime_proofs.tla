------------------------- MODULE DeliveryTime_proofs -------------------------
(* A POST arrives at most once in a delivery, and a delivery keeps to a    *)
(* schedule: for every retry limit, delay, width of a long and duration.   *)
EXTENDS DeliveryTime, FiniteSets, FiniteSetTheorems, WellFoundedInduction, TLAPS

-----------------------------------------------------------------------------
(* PostArrivesOnce made inductive: a call whose request has arrived lies   *)
(* behind the delivery.                                                    *)

\* The steps up to a call, which a delivery does not come back to.
UpTo(c) ==
    CASE c = "tpps"  -> {"consents", "tpps"}
      [] c = "token" -> {"consents", "tpps", "insert", "find", "token"}
      [] OTHER       -> {"consents", "tpps", "insert", "find", "token", "post"}

ArrivedIsBehind ==
    /\ reached \in [WebCall -> Nat]
    /\ step \in Step
    /\ \A c \in WebCall \ {"consents"} :
          /\ reached[c] <= 1
          /\ step \in UpTo(c) => reached[c] = 0

(* The delivery begins before any call.                                    *)
LEMMA InitBehind == Init => ArrivedIsBehind
  BY DEF Init, ArrivedIsBehind, WebCall, Step, MongoCall, Ended

(* A step without a new request that goes on, or stays where it is, keeps  *)
(* what lies behind.                                                       *)
LEMMA NothingArrives ==
    ASSUME ArrivedIsBehind, UNCHANGED reached,
           step' = step \/ step' \in {"requeue", "enqueue", "error", "save"} \cup Ended
    PROVE  ArrivedIsBehind'
  BY DEF ArrivedIsBehind, UpTo, Step, Ended, WebCall, MongoCall

(* No failure leads back to a call.                                        *)
LEMMA FailureGoesOn ==
    ASSUME step \in WebCall \cup MongoCall
    PROVE  AfterFailure \in {"requeue", "enqueue", "refused"}
  BY DEF AfterFailure, WebCall, MongoCall

(* An answered web call lies behind the step it leads to.                  *)
LEMMA AnsweredBehind == ArrivedIsBehind /\ Answered => ArrivedIsBehind'
<1> SUFFICES ASSUME ArrivedIsBehind, Answered
             PROVE  ArrivedIsBehind'
  OBVIOUS
<1>1. PICK next \in AfterAnswer : step' = next
  BY DEF Answered, Goto
<1>2. step \in WebCall /\ reached' = [reached EXCEPT ![step] = @ + 1]
  BY DEF Answered
<1>3. CASE step = "consents"
  <2>1. step' \in {"tpps", "done", "requeue"}
    BY <1>1, <1>3 DEF AfterAnswer
  <2> QED
    BY <2>1, <1>2, <1>3 DEF ArrivedIsBehind, UpTo, Step, Ended, WebCall, MongoCall
<1>4. CASE step = "tpps"
  <2>1. step' \in {"insert", "done", "requeue"}
    BY <1>1, <1>4 DEF AfterAnswer
  <2> QED
    BY <2>1, <1>2, <1>4 DEF ArrivedIsBehind, UpTo, Step, Ended, WebCall, MongoCall
<1>5. CASE step = "token"
  <2>1. step' \in {"post", "enqueue"}
    BY <1>1, <1>5 DEF AfterAnswer
  <2> QED
    BY <2>1, <1>2, <1>5 DEF ArrivedIsBehind, UpTo, Step, Ended, WebCall, MongoCall
<1>6. CASE step = "post"
  <2>1. step' = "save"
    BY <1>1, <1>6 DEF AfterAnswer
  <2> QED
    BY <2>1, <1>2, <1>6 DEF ArrivedIsBehind, UpTo, Step, Ended, WebCall, MongoCall
<1> QED
  BY <1>2, <1>3, <1>4, <1>5, <1>6 DEF WebCall

(* A failed call is repeated only if it has not arrived or may arrive more *)
(* than once; otherwise the delivery leaves the call.                      *)
LEMMA CallFailsBehind ==
    ASSUME NEW failure \in Failure, ArrivedIsBehind, CallFails(failure)
    PROVE  ArrivedIsBehind'
<1>1. step \in WebCall
  BY DEF CallFails
<1>2. CASE Retryable(step, failure) /\ AttemptsLeft
  <2>1. step' = step
    BY <1>2 DEF CallFails, Repeat
  <2>2. CASE step = "consents"
    BY <2>1, <2>2 DEF CallFails, ArrivedIsBehind, UpTo, Step, Ended, WebCall, MongoCall
  <2>3. CASE step # "consents"
    <3>1. failure = "connect"
      BY <1>2, <2>3 DEF Retryable
    <3>2. UNCHANGED reached
      BY <3>1 DEF CallFails
    <3> QED
      BY <2>1, <3>2, NothingArrives
  <2> QED
    BY <2>2, <2>3
<1>3. CASE ~(Retryable(step, failure) /\ AttemptsLeft)
  <2>1. step' = AfterFailure
    BY <1>3 DEF CallFails, Goto
  <2>2. step' \in {"requeue", "enqueue", "refused"}
    BY <1>1, <2>1, FailureGoesOn
  <2>3. UNCHANGED reached \/ reached' = [reached EXCEPT ![step] = @ + 1]
    BY DEF CallFails
  <2>4. CASE UNCHANGED reached
    BY <2>2, <2>4, NothingArrives DEF Ended
  <2>5. CASE reached' = [reached EXCEPT ![step] = @ + 1]
    BY <1>1, <2>2, <2>5 DEF ArrivedIsBehind, UpTo, Step, Ended, WebCall, MongoCall
  <2> QED
    BY <2>3, <2>4, <2>5
<1> QED
  BY <1>2, <1>3

(* The operations of the database make no request; they lead from the      *)
(* lookups to the token, and on.                                           *)
LEMMA StoredBehind == ArrivedIsBehind /\ Stored => ArrivedIsBehind'
<1> SUFFICES ASSUME ArrivedIsBehind, Stored
             PROVE  ArrivedIsBehind'
  OBVIOUS
<1>1. PICK next \in AfterAnswer : step' = next
  BY DEF Stored, Goto
<1>2. step \in MongoCall /\ UNCHANGED reached
  BY DEF Stored
<1>3. CASE step \in {"insert", "find"}
  <2>1. step' \in {"token", "find", "done", "refused"}
    BY <1>1, <1>3 DEF AfterAnswer
  <2> QED
    BY <2>1, <1>2, <1>3 DEF ArrivedIsBehind, UpTo, Step, Ended, WebCall, MongoCall
<1>4. CASE step \in {"save", "error"}
  <2>1. step' = "done"
    BY <1>1, <1>4 DEF AfterAnswer
  <2> QED
    BY <2>1, <1>2, NothingArrives DEF Ended
<1> QED
  BY <1>2, <1>3, <1>4 DEF MongoCall

(* Every other action leaves the step for one that calls nothing, or       *)
(* repeats a database operation.                                           *)
LEMMA OthersBehind ==
    ASSUME ArrivedIsBehind,
           Throttled \/ StoreFails \/ TokenThrows \/ EnqueueNotify \/ Requeue
    PROVE  ArrivedIsBehind'
<1>1. CASE Throttled
  <2>1. step \in MongoCall /\ UNCHANGED reached
    BY <1>1 DEF Throttled
  <2>2. step' = step \/ step' = AfterFailure
    BY <1>1 DEF Throttled, Repeat, Goto
  <2> QED
    BY <2>1, <2>2, FailureGoesOn, NothingArrives DEF Ended
<1>2. CASE StoreFails
  <2>1. step \in MongoCall /\ UNCHANGED reached /\ step' = AfterFailure
    BY <1>2 DEF StoreFails, Goto
  <2> QED
    BY <2>1, FailureGoesOn, NothingArrives DEF Ended
<1>3. CASE TokenThrows
  BY <1>3, NothingArrives DEF TokenThrows, Goto, Ended
<1>4. CASE EnqueueNotify
  <2>1. step' \in {"error", "requeue"} \cup Ended
    BY <1>4 DEF EnqueueNotify, AfterEnqueueFailure, Goto, Ended
  <2>2. UNCHANGED reached
    BY <1>4 DEF EnqueueNotify
  <2> QED
    BY <2>1, <2>2, NothingArrives DEF Ended
<1>5. CASE Requeue
  <2>1. step' \in Ended
    BY <1>5 DEF Requeue, Goto, Ended
  <2>2. UNCHANGED reached
    BY <1>5 DEF Requeue
  <2> QED
    BY <2>1, <2>2, NothingArrives DEF Ended
<1> QED
  BY <1>1, <1>2, <1>3, <1>4, <1>5

(* What has arrived stays behind the delivery.                             *)
LEMMA BehindStep == ArrivedIsBehind /\ [Next]_vars => ArrivedIsBehind'
<1> SUFFICES ASSUME ArrivedIsBehind, [Next]_vars
             PROVE  ArrivedIsBehind'
  OBVIOUS
<1>1. CASE Next
  BY <1>1, AnsweredBehind, CallFailsBehind, StoredBehind, OthersBehind DEF Next
<1>2. CASE UNCHANGED vars
  BY <1>2 DEF vars, ArrivedIsBehind
<1> QED
  BY <1>1, <1>2

(* NotifyServiceImpl and TppConnectorImpl: a POST reaches its server at    *)
(* most once in a delivery, for every configuration of the retries.        *)
THEOREM PostsArriveOnce == Spec => []PostArrivesOnce
<1>1. ArrivedIsBehind => PostArrivesOnce
  BY DEF ArrivedIsBehind, PostArrivesOnce
<1> QED
  BY <1>1, InitBehind, BehindStep, PTL DEF Spec

-----------------------------------------------------------------------------
(* Types, and how long a wait is.                                          *)

\* A power of two is the number of the subsets of a set.
LEMMA PowerOfTwo ==
    ASSUME NEW n \in Nat
    PROVE  2^n \in Nat \ {0}
<1>1. IsFiniteSet(1..n) /\ Cardinality(1..n) = n
  BY FS_Interval
<1>2. IsFiniteSet(SUBSET (1..n)) /\ Cardinality(SUBSET (1..n)) = 2^n
  BY <1>1, FS_SUBSET
<1>3. {} \in SUBSET (1..n)
  OBVIOUS
<1>4. Cardinality(SUBSET (1..n)) \in Nat /\ Cardinality(SUBSET (1..n)) # 0
  BY <1>2, <1>3, FS_CardinalityType, FS_EmptySet
<1> QED
  BY <1>2, <1>4

\* The waits before the repetitions that the policies allow.
LEMMA WebWaits ==
    ASSUME attempt \in 0..1, NEW w \in WebBackoff
    PROVE  w \in Nat /\ w <= 150 * (attempt + 1)
<1>1. CASE attempt = 0
  <2>1. 100 * 2^attempt = 100
    BY <1>1
  <2> QED
    BY <1>1, <2>1 DEF WebBackoff, Backoff, Least, Largest
<1>2. CASE attempt = 1
  <2>1. 100 * 2^attempt = 200
    BY <1>2
  <2> QED
    BY <1>2, <2>1 DEF WebBackoff, Backoff, Least, Largest
<1> QED
  BY <1>1, <1>2

LEMMA MongoWaits ==
    ASSUME attempt \in 0..2, NEW w \in MongoBackoff
    PROVE  /\ w \in Nat
           /\ attempt = 0 => w <= 750
           /\ attempt = 1 => w <= 1500
           /\ attempt = 2 => w <= 3000
<1>1. CASE attempt = 0
  <2>1. 500 * 2^attempt = 500
    BY <1>1
  <2> QED
    BY <1>1, <2>1 DEF MongoBackoff, Backoff, Least, Largest
<1>2. CASE attempt = 1
  <2>1. 500 * 2^attempt = 1000
    BY <1>2
  <2> QED
    BY <1>2, <2>1 DEF MongoBackoff, Backoff, Least, Largest
<1>3. CASE attempt = 2
  <2>1. 500 * 2^attempt = 2000
    BY <1>3
  <2> QED
    BY <1>3, <2>1 DEF MongoBackoff, Backoff, Least, Largest
<1> QED
  BY <1>1, <1>2, <1>3

\* The backoff of a record is an integer, and it is capped.
LEMMA DelayType ==
    ASSUME NEW n \in Nat \ {0}
    PROVE  Delay(n) \in Int /\ Delay(n) <= MaxDelay
<1>1. (n - 1) % LongBits \in Nat
  BY DeliveryTimeAssumption
<1>2. ASSUME NEW x \in Int PROVE Wrap(x) \in Int
  <2>1. 2^LongBits \in Nat \ {0} /\ 2^(LongBits - 1) \in Int
    BY DeliveryTimeAssumption, PowerOfTwo
  <2>2. PICK m \in Nat \ {0}, h \in Int : m = 2^LongBits /\ h = 2^(LongBits - 1)
    BY <2>1
  <2>3. ((x + h) % m) - h \in Int
    OBVIOUS
  <2> QED
    BY <2>2, <2>3 DEF Wrap
<1>3. Shifted(n - 1) \in Int
  BY <1>1, <1>2 DEF Shifted
<1>4. Wrap(InitialDelay * Shifted(n - 1)) \in Int
  BY <1>2, <1>3, DeliveryTimeAssumption
<1> QED
  BY <1>4, DeliveryTimeAssumption DEF Delay, Least

-----------------------------------------------------------------------------
(* How a step passes the time: what an action adds to it, and where it     *)
(* leads.                                                                  *)

Passes(t) ==
    /\ elapsed' = elapsed + t
    /\ UNCHANGED <<kind, retry>>
    /\ reached' \in [WebCall -> Nat]

\* The call of this step is repeated, or the delivery goes on to the next one.
Repeats    == step' = step /\ attempt' = attempt + 1
GoesTo(ps) == step' \in ps /\ attempt' = 0

\* The longest time of a try that is repeated.
TryTime   == IF step = "consents" THEN AnswerTime ELSE ConnectTime

LEMMA AnsweredPasses ==
    ASSUME TypeOK, Answered
    PROVE  /\ step \in WebCall
           /\ \E t \in 0..AnswerTime : Passes(t)
           /\ GoesTo(AfterAnswer)
<1>1. PICK t \in {0, AnswerTime} : elapsed' = elapsed + t
  BY DEF Answered, Take
<1>2. t \in 0..AnswerTime
  BY <1>1 DEF AnswerTime, ConnectTime
<1>3. step \in WebCall /\ reached' \in [WebCall -> Nat]
  BY DEF Answered, TypeOK
<1>4. GoesTo(AfterAnswer) /\ UNCHANGED <<kind, retry>>
  BY DEF Answered, Goto, GoesTo
<1> QED
  BY <1>1, <1>2, <1>3, <1>4 DEF Passes

LEMMA CallFailsPasses ==
    ASSUME TypeOK, NEW failure \in Failure, CallFails(failure)
    PROVE  /\ step \in WebCall
           /\ \/ /\ attempt \in 0..1 /\ Repeats
                 /\ \E t \in 0..(TryTime + 150 * (attempt + 1)) : Passes(t)
              \/ GoesTo({AfterFailure}) /\ \E t \in 0..AnswerTime : Passes(t)
<1>1. step \in WebCall /\ reached' \in [WebCall -> Nat] /\ attempt \in 0..2
  BY DEF CallFails, TypeOK, MaxAttempts, WebCall
<1>2. CASE Retryable(step, failure) /\ AttemptsLeft
  <2>1. attempt \in 0..1
    BY <1>1, <1>2 DEF AttemptsLeft, MaxAttempts
  <2>2. PICK c \in {0, IF failure = "connect" THEN ConnectTime ELSE AnswerTime},
             w \in WebBackoff : elapsed' = elapsed + (c + w)
    BY <1>2 DEF CallFails, Repeat, Take
  <2>3. w \in Nat /\ w <= 150 * (attempt + 1)
    BY <2>1, <2>2, WebWaits
  <2>4. c \in 0..TryTime
    BY <1>2, <2>2 DEF Retryable, TryTime, ConnectTime, AnswerTime
  <2>5. c + w \in 0..(TryTime + 150 * (attempt + 1))
    BY <2>1, <2>3, <2>4 DEF TryTime, ConnectTime, AnswerTime
  <2>6. Repeats /\ UNCHANGED <<kind, retry>>
    BY <1>2 DEF CallFails, Repeat, Repeats
  <2> QED
    BY <1>1, <2>1, <2>2, <2>5, <2>6 DEF Passes
<1>3. CASE ~(Retryable(step, failure) /\ AttemptsLeft)
  <2>1. PICK c \in {0, IF failure = "connect" THEN ConnectTime ELSE AnswerTime} :
            elapsed' = elapsed + c
    BY <1>3 DEF CallFails, Take
  <2>2. c \in 0..AnswerTime
    BY <2>1 DEF ConnectTime, AnswerTime
  <2>3. GoesTo({AfterFailure}) /\ UNCHANGED <<kind, retry>>
    BY <1>3 DEF CallFails, Goto, GoesTo
  <2> QED
    BY <1>1, <2>1, <2>2, <2>3 DEF Passes
<1> QED
  BY <1>2, <1>3

LEMMA MongoPasses ==
    ASSUME TypeOK, Stored \/ Throttled \/ StoreFails
    PROVE  /\ step \in MongoCall
           /\ \/ /\ attempt \in 0..2 /\ Repeats /\ step # "find"
                 /\ \E w \in MongoBackoff : \E t \in 0..MongoTime : Passes(t + w)
              \/ /\ GoesTo(AfterAnswer) \/ GoesTo({AfterFailure})
                 /\ \E t \in 0..MongoTime : Passes(t)
<1>1. step \in MongoCall /\ reached' \in [WebCall -> Nat] /\ attempt \in 0..3
  BY DEF Stored, Throttled, StoreFails, TypeOK, MaxAttempts, MongoCall, WebCall
<1>2. MongoTime \in Nat
  BY DeliveryTimeAssumption
<1>3. CASE Throttled /\ AttemptsLeft
  <2>1. attempt \in 0..2 /\ step # "find"
    BY <1>1, <1>3 DEF AttemptsLeft, MaxAttempts, MongoCall, WebCall, Throttled
  <2>2. PICK t \in {0, MongoTime}, w \in MongoBackoff : elapsed' = elapsed + (t + w)
    BY <1>3 DEF Throttled, Repeat, Take
  <2>3. Repeats /\ UNCHANGED <<kind, retry>> /\ t \in 0..MongoTime
    BY <1>2, <1>3 DEF Throttled, Repeat, Repeats
  <2> QED
    BY <1>1, <2>1, <2>2, <2>3 DEF Passes
<1>4. CASE Stored \/ StoreFails \/ (Throttled /\ ~AttemptsLeft)
  <2>1. PICK t \in {0, MongoTime} : elapsed' = elapsed + t
    BY <1>4 DEF Stored, StoreFails, Throttled, Take
  <2>2. /\ GoesTo(AfterAnswer) \/ GoesTo({AfterFailure})
        /\ UNCHANGED <<kind, retry>> /\ t \in 0..MongoTime
    BY <1>2, <1>4 DEF Stored, StoreFails, Throttled, Goto, GoesTo
  <2> QED
    BY <1>1, <2>1, <2>2 DEF Passes
<1> QED
  BY <1>3, <1>4

\* The backoff of a core record's first notify-error record.
FirstDelay == 1000 * Largest(Delay(1), 0)

LEMMA BackoffTimes ==
    ASSUME NEW n \in Nat \ {0}, ~DelayThrows(n), NEW w \in {800, 1000},
           NEW p \in {0, PublishTime}
    PROVE  /\ w * Delay(n) + p \in 0..(1000 * MaxDelay + PublishTime)
           /\ n = 1 => w * Delay(n) + p \in 0..(FirstDelay + PublishTime)
<1>1. Delay(n) \in Nat /\ Delay(n) <= MaxDelay
  BY DelayType DEF DelayThrows
<1>2. MaxDelay \in Nat /\ PublishTime \in Nat /\ p \in 0..PublishTime
  BY DeliveryTimeAssumption
<1>3. n = 1 => FirstDelay = 1000 * Delay(n)
  BY <1>1 DEF FirstDelay, Largest
<1>4. w * Delay(n) \in Nat /\ w * Delay(n) <= 1000 * Delay(n)
  BY <1>1
<1>5. FirstDelay \in Nat
  BY DelayType DEF FirstDelay, Largest
<1>6. w * Delay(n) + p \in 0..(1000 * MaxDelay + PublishTime)
  BY <1>1, <1>2, <1>4
<1>7. n = 1 => w * Delay(n) + p \in 0..(FirstDelay + PublishTime)
  BY <1>2, <1>3, <1>4, <1>5
<1> QED
  BY <1>6, <1>7

LEMMA EnqueuePasses ==
    ASSUME TypeOK, EnqueueNotify
    PROVE  /\ step = "enqueue"
           /\ \/ GoesTo({"error"}) /\ Passes(0)
              \/ /\ kind = "core" /\ GoesTo({"requeue", "done"})
                 /\ \E t \in 0..(FirstDelay + PublishTime) : Passes(t)
              \/ /\ kind = "retry" /\ GoesTo({"refused", "done"})
                 /\ \E t \in 0..(1000 * MaxDelay + PublishTime) : Passes(t)
<1> DEFINE n == SendRetry + 1
<1>1. /\ step = "enqueue" /\ reached' \in [WebCall -> Nat] /\ elapsed \in Nat
      /\ kind \in {"core", "retry"} /\ retry \in Nat
  BY DeliveryTimeAssumption DEF EnqueueNotify, TypeOK
<1>2. n \in Nat \ {0} /\ (kind = "core" => n = 1)
  BY <1>1 DEF SendRetry
<1>3. FirstDelay + PublishTime \in Nat /\ 1000 * MaxDelay + PublishTime \in Nat
  BY DelayType, DeliveryTimeAssumption DEF FirstDelay, Largest
<1>4. UNCHANGED <<kind, retry>>
  BY DEF EnqueueNotify, Goto
<1>5. CASE GoesTo({"error"}) /\ UNCHANGED elapsed
  BY <1>1, <1>4, <1>5 DEF Passes
<1>6. CASE GoesTo({AfterEnqueueFailure}) /\ UNCHANGED elapsed
  BY <1>1, <1>3, <1>4, <1>6 DEF Passes, AfterEnqueueFailure, GoesTo
<1>7. CASE /\ ~DelayThrows(n) /\ Take({1000 * Delay(n) + p : p \in {0, PublishTime}})
           /\ GoesTo({"done", AfterEnqueueFailure})
  <2>1. PICK p \in {0, PublishTime} : elapsed' = elapsed + (1000 * Delay(n) + p)
    BY <1>7 DEF Take
  <2> DEFINE t == 1000 * Delay(n) + p
  <2>2. /\ t \in 0..(1000 * MaxDelay + PublishTime)
        /\ n = 1 => t \in 0..(FirstDelay + PublishTime)
    BY <1>2, <1>7, BackoffTimes
  <2>3. Passes(t)
    BY <1>1, <1>4, <2>1 DEF Passes
  <2>4. /\ kind = "core" => GoesTo({"requeue", "done"})
        /\ kind = "retry" => GoesTo({"refused", "done"})
    BY <1>7 DEF AfterEnqueueFailure, GoesTo
  <2> HIDE DEF t
  <2> QED
    BY <1>1, <1>2, <2>2, <2>3, <2>4
<1> QED
  BY <1>5, <1>6, <1>7 DEF EnqueueNotify, Goto, GoesTo

LEMMA RequeuePasses ==
    ASSUME TypeOK, Requeue
    PROVE  /\ step = "requeue" /\ GoesTo(Ended)
           /\ \E t \in 0..(1000 * MaxDelay + PublishTime) : Passes(t)
<1> DEFINE n == retry + 1
<1>1. /\ step = "requeue" /\ reached' \in [WebCall -> Nat] /\ elapsed \in Nat
      /\ n \in Nat \ {0}
  BY DeliveryTimeAssumption DEF Requeue, TypeOK
<1>2. 1000 * MaxDelay + PublishTime \in Nat
  BY DeliveryTimeAssumption
<1>3. GoesTo(Ended) /\ UNCHANGED <<kind, retry>>
  BY DEF Requeue, Goto, GoesTo, Ended
<1>4. CASE UNCHANGED elapsed
  BY <1>1, <1>2, <1>3, <1>4 DEF Passes
<1>5. CASE /\ ~DelayThrows(n)
           /\ Take({w * Delay(n) + p : w \in {800, 1000}, p \in {0, PublishTime}})
  <2>1. PICK w \in {800, 1000}, p \in {0, PublishTime} :
            elapsed' = elapsed + (w * Delay(n) + p)
    BY <1>5 DEF Take
  <2> DEFINE t == w * Delay(n) + p
  <2>2. t \in 0..(1000 * MaxDelay + PublishTime)
    BY <1>1, <1>5, <2>1, BackoffTimes
  <2>3. Passes(t)
    BY <1>1, <1>3, <2>1 DEF Passes
  <2> HIDE DEF t
  <2> QED
    BY <1>1, <1>3, <2>2, <2>3
<1> QED
  BY <1>4, <1>5 DEF Requeue

-----------------------------------------------------------------------------
(* The type invariant.                                                     *)

\* Where the steps lead.
LEMMA Leads ==
    ASSUME step \in Step
    PROVE  /\ AfterAnswer \subseteq Step
           /\ step \in WebCall \cup MongoCall => AfterFailure \in Step
           /\ {"requeue", "refused", "done", "error"} \cup Ended \subseteq Step
  BY DEF AfterAnswer, AfterFailure, Step, Ended, WebCall, MongoCall

LEMMA PassesType ==
    ASSUME TypeOK, NEW t \in Nat, Passes(t),
           GoesTo(Step) \/ (Repeats /\ attempt < MaxAttempts(step))
    PROVE  TypeOK'
<1>1. /\ kind' \in {"core", "retry"} /\ retry' \in 0..MaxTry
      /\ elapsed' \in Nat /\ reached' \in [WebCall -> Nat]
  BY DEF Passes, TypeOK
<1>2. step' \in Step /\ attempt' \in 0..MaxAttempts(step')
  BY DEF GoesTo, Repeats, TypeOK, MaxAttempts
<1> QED
  BY <1>1, <1>2 DEF TypeOK

LEMMA TypeStep == TypeOK /\ [Next]_vars => TypeOK'
<1> SUFFICES ASSUME TypeOK, [Next]_vars PROVE TypeOK'
  OBVIOUS
<1>0. step \in Step /\ attempt \in Nat /\ MongoTime \in Nat /\ PublishTime \in Nat
  BY DeliveryTimeAssumption DEF TypeOK, MaxAttempts
<1>1. CASE Answered
  <2>1. GoesTo(Step) /\ \E t \in Nat : Passes(t)
    BY <1>0, <1>1, AnsweredPasses, Leads DEF GoesTo
  <2> QED
    BY <2>1, PassesType
<1>2. ASSUME NEW failure \in Failure, CallFails(failure) PROVE TypeOK'
  <2>1. /\ GoesTo(Step) \/ (Repeats /\ attempt < MaxAttempts(step))
        /\ \E t \in Nat : Passes(t)
    BY <1>0, <1>2, CallFailsPasses, Leads DEF GoesTo, MaxAttempts
  <2> QED
    BY <2>1, PassesType
<1>3. CASE Stored \/ Throttled \/ StoreFails
  <2>1. CASE GoesTo(AfterAnswer) \/ GoesTo({AfterFailure})
    <3>1. step \in MongoCall /\ \E t \in Nat : Passes(t)
      BY <1>0, <1>3, MongoPasses, MongoWaits
    <3>2. GoesTo(Step)
      BY <1>0, <2>1, <3>1, Leads DEF GoesTo
    <3> QED
      BY <3>1, <3>2, PassesType
  <2>2. CASE /\ attempt \in 0..2 /\ Repeats /\ step \in MongoCall
             /\ \E w \in MongoBackoff : \E t \in 0..MongoTime : Passes(t + w)
    <3>1. PICK w \in MongoBackoff, t \in 0..MongoTime : Passes(t + w)
      BY <2>2
    <3>2. w \in Nat /\ t + w \in Nat
      BY <1>0, <2>2, <3>1, MongoWaits
    <3>3. attempt < MaxAttempts(step)
      BY <2>2 DEF MaxAttempts, WebCall, MongoCall
    <3> QED
      BY <2>2, <3>1, <3>2, <3>3, PassesType
  <2> QED
    BY <1>3, <2>1, <2>2, MongoPasses
<1>4. CASE TokenThrows
  <2>1. Passes(0) /\ GoesTo(Step)
    BY <1>0, <1>4, Leads DEF TokenThrows, Goto, Passes, GoesTo, TypeOK
  <2> QED
    BY <2>1, PassesType
<1>5. CASE EnqueueNotify \/ Requeue
  <2>1. GoesTo(Step) /\ \E t \in Nat : Passes(t)
    BY <1>0, <1>5, EnqueuePasses, RequeuePasses, Leads DEF GoesTo
  <2> QED
    BY <2>1, PassesType
<1>6. CASE UNCHANGED vars
  BY <1>6 DEF vars, TypeOK, MaxAttempts
<1> QED
  BY <1>1, <1>2, <1>3, <1>4, <1>5, <1>6 DEF Next

LEMMA InitType == Init => TypeOK
  BY DeliveryTimeAssumption DEF Init, TypeOK, Step, WebCall, MongoCall, MaxAttempts

(* A delivery stays in the states its types describe, and its time is a    *)
(* number: for every width of a long and every delay, also when their      *)
(* product overflows.                                                      *)
THEOREM Typed == Spec => []TypeOK
  BY InitType, TypeStep, PTL DEF Spec

-----------------------------------------------------------------------------
(* The schedule of a delivery: the time by which it enters a step.         *)

MongoAll  == ThrottledTime(MongoTime)
LaterWeb  == 2 * ConnectTime + AnswerTime + 450
ByTpps    == 3 * AnswerTime + 450
ByInsert  == ByTpps + LaterWeb
ByFind    == ByInsert + MongoAll
ByToken   == ByFind + MongoTime
ByPost    == ByToken + LaterWeb
BySave    == ByPost + LaterWeb
ByEnqueue == BySave + MongoAll
ByRequeue == ByEnqueue + Largest(FirstDelay + PublishTime, MongoAll)
ByEnd     == LongestFor(MongoTime, PublishTime)

EnteredBy(p) ==
    CASE p = "consents" -> 0
      [] p = "tpps"     -> ByTpps
      [] p = "insert"   -> ByInsert
      [] p = "find"     -> ByFind
      [] p = "token"    -> ByToken
      [] p = "post"     -> ByPost
      [] p = "save"     -> BySave
      [] p = "enqueue"  -> ByEnqueue
      [] p = "error"    -> ByEnqueue
      [] p = "requeue"  -> ByRequeue
      [] OTHER          -> ByEnd

\* The time that the first tries of a call and the waits after them take.
WebSpent ==
    CASE attempt = 0 -> 0
      [] attempt = 1 -> TryTime + 150
      [] OTHER       -> 2 * TryTime + 450
MongoSpent ==
    CASE attempt = 0 -> 0
      [] attempt = 1 -> MongoTime + 750
      [] attempt = 2 -> 2 * MongoTime + 2250
      [] OTHER       -> 3 * MongoTime + 5250
Spent ==
    CASE step \in WebCall   -> WebSpent
      [] step \in MongoCall -> IF step = "find" THEN 0 ELSE MongoSpent
      [] OTHER              -> 0

\* The delivery keeps the schedule.
OnTime == TypeOK /\ elapsed <= EnteredBy(step) + Spent

\* The last try of a call is in time for each step that follows.
LEMMA Schedule ==
    /\ EnteredBy("consents") = 0
    /\ EnteredBy("consents") + (3 * AnswerTime + 450) <= EnteredBy("tpps")
    /\ EnteredBy("tpps") + LaterWeb <= EnteredBy("insert")
    /\ EnteredBy("insert") + MongoAll <= EnteredBy("find")
    /\ EnteredBy("find") + MongoTime <= EnteredBy("token")
    /\ EnteredBy("token") + LaterWeb <= EnteredBy("post")
    /\ EnteredBy("post") + LaterWeb <= EnteredBy("save")
    /\ EnteredBy("save") + MongoAll <= EnteredBy("enqueue")
    /\ EnteredBy("enqueue") <= EnteredBy("error")
    /\ EnteredBy("enqueue") + FirstDelay + PublishTime <= EnteredBy("requeue")
    /\ EnteredBy("error") + MongoAll <= EnteredBy("requeue")
    /\ EnteredBy("requeue") + 1000 * MaxDelay + PublishTime <= EnteredBy("done")
    /\ EnteredBy("done") = ByEnd /\ EnteredBy("refused") = ByEnd
    /\ LaterWeb = 38450 /\ AnswerTime = 18000 /\ ConnectTime = 10000
    /\ \A p \in Step : EnteredBy(p) \in Nat
    /\ FirstDelay \in Nat /\ MaxDelay \in Nat /\ MongoTime \in Nat /\ PublishTime \in Nat
    /\ MongoAll \in Nat /\ MongoAll = 4 * MongoTime + 5250
<1>1. FirstDelay \in Nat /\ MaxDelay \in Nat /\ MongoTime \in Nat /\ PublishTime \in Nat
  BY DelayType, DeliveryTimeAssumption DEF FirstDelay, Largest
<1>2. Largest(Delay(1), 0) \in Nat /\ FirstDelay = 1000 * Largest(Delay(1), 0)
  BY DelayType DEF FirstDelay, Largest
<1>3. MongoAll = 4 * MongoTime + 5250 /\ WebTime = ByTpps + 3 * LaterWeb
  BY DEF MongoAll, ThrottledTime, WebTime, ByTpps, LaterWeb
<1>4. PICK backoff \in Nat : backoff = Largest(FirstDelay + PublishTime, MongoAll)
        /\ FirstDelay + PublishTime <= backoff /\ MongoAll <= backoff
  BY <1>1, <1>3 DEF Largest
<1>5. ByEnd = ByRequeue + 1000 * MaxDelay + PublishTime
  <2>1. ByRequeue = ByTpps + 3 * LaterWeb + 2 * MongoAll + MongoTime + backoff
    BY <1>1, <1>3, <1>4
       DEF ByRequeue, ByEnqueue, BySave, ByPost, ByToken, ByFind, ByInsert, ByTpps,
           LaterWeb, AnswerTime, ConnectTime
  <2>2. ByEnd = WebTime + 2 * MongoAll + MongoTime + backoff + 1000 * MaxDelay + PublishTime
    BY <1>2, <1>4 DEF ByEnd, LongestFor, MongoAll
  <2> QED
    BY <1>1, <1>3, <1>4, <2>1, <2>2 DEF ByTpps, LaterWeb, AnswerTime, ConnectTime
<1> QED
  BY <1>1, <1>3, <1>4, <1>5
     DEF EnteredBy, ByRequeue, ByEnqueue, BySave, ByPost, ByToken, ByFind, ByInsert,
         ByTpps, LaterWeb, AnswerTime, ConnectTime

\* All tries of a call, and the last of them.
CallTime ==
    CASE step = "consents" -> 3 * AnswerTime + 450
      [] step \in {"tpps", "token", "post"} -> LaterWeb
      [] step = "find" -> MongoTime
      [] OTHER         -> MongoAll
LastTry == IF step \in WebCall THEN AnswerTime ELSE MongoTime

LEMMA CallFits ==
    ASSUME TypeOK, step \in WebCall \cup MongoCall
    PROVE  /\ Spent + LastTry <= CallTime
           /\ Spent \in Nat /\ LastTry \in Nat /\ CallTime \in Nat
<1>1. attempt \in 0..MaxAttempts(step)
  BY DEF TypeOK
<1>2. CASE step \in WebCall
  <2>1. attempt \in 0..2
    BY <1>1, <1>2 DEF MaxAttempts
  <2> QED
    BY <1>2, <2>1, Schedule
       DEF Spent, WebSpent, TryTime, LastTry, CallTime, WebCall, MongoCall
<1>3. CASE step \in MongoCall
  <2>1. attempt \in 0..3 /\ step \notin WebCall
    BY <1>1, <1>3 DEF MaxAttempts, WebCall, MongoCall
  <2> QED
    BY <1>3, <2>1, Schedule DEF Spent, MongoSpent, LastTry, CallTime, MongoCall
<1> QED
  BY <1>2, <1>3

LEMMA CallInTime ==
    ASSUME step \in WebCall \cup MongoCall, NEW p,
           p \in AfterAnswer \/ p = AfterFailure
    PROVE  EnteredBy(step) + CallTime <= EnteredBy(p)
<1> USE Schedule DEF CallTime, AfterAnswer, AfterFailure, Step, WebCall, MongoCall, Ended
<1>1. CASE step = "consents"
  <2>1. p \in {"tpps", "done", "requeue"}
    BY <1>1
  <2> QED BY <1>1, <2>1
<1>2. CASE step = "tpps"
  <2>1. p \in {"insert", "done", "requeue"}
    BY <1>2
  <2> QED BY <1>2, <2>1
<1>3. CASE step = "insert"
  <2>1. p \in {"token", "find", "refused"}
    BY <1>3
  <2> QED BY <1>3, <2>1
<1>4. CASE step = "find"
  <2>1. p \in {"token", "done", "refused"}
    BY <1>4
  <2> QED BY <1>4, <2>1
<1>5. CASE step = "token"
  <2>1. p \in {"post", "enqueue"}
    BY <1>5
  <2> QED BY <1>5, <2>1
<1>6. CASE step = "post"
  <2>1. p \in {"save", "enqueue"}
    BY <1>6
  <2> QED BY <1>6, <2>1
<1>7. CASE step = "save"
  <2>1. p \in {"done", "enqueue"}
    BY <1>7
  <2> QED BY <1>7, <2>1
<1>8. CASE step = "error"
  <2>1. p \in {"done", "requeue", "refused"}
    BY <1>8
  <2> QED BY <1>8, <2>1
<1> QED
  BY <1>1, <1>2, <1>3, <1>4, <1>5, <1>6, <1>7, <1>8

\* The next step is entered in time.
LEMMA EntersInTime ==
    ASSUME TypeOK', attempt' = 0, elapsed' <= EnteredBy(step')
    PROVE  OnTime'
<1>1. EnteredBy(step') \in Nat /\ elapsed' \in Nat
  BY Schedule DEF TypeOK
<1>2. Spent' = 0
  BY DEF Spent, WebSpent, MongoSpent
<1> QED
  BY <1>1, <1>2 DEF OnTime, EnteredBy

LEMMA GoesOnInTime ==
    ASSUME OnTime, TypeOK', step \in WebCall \cup MongoCall,
           NEW t \in 0..LastTry, Passes(t),
           GoesTo(AfterAnswer) \/ GoesTo({AfterFailure})
    PROVE  OnTime'
<1>1. EnteredBy(step) + CallTime <= EnteredBy(step') /\ attempt' = 0
  BY CallInTime DEF GoesTo
<1>2. /\ Spent + LastTry <= CallTime
      /\ Spent \in Nat /\ LastTry \in Nat /\ CallTime \in Nat
  BY CallFits DEF OnTime
<1>3. /\ elapsed \in Nat /\ EnteredBy(step) \in Nat /\ EnteredBy(step') \in Nat
      /\ elapsed <= EnteredBy(step) + Spent /\ elapsed' = elapsed + t
  BY Schedule DEF OnTime, TypeOK, Passes
<1>4. elapsed' <= EnteredBy(step')
  BY <1>1, <1>2, <1>3
<1> QED
  BY <1>1, <1>4, EntersInTime

LEMMA OnTimeStep == OnTime /\ [Next]_vars => OnTime'
<1> SUFFICES ASSUME OnTime, [Next]_vars PROVE OnTime'
  OBVIOUS
<1>0. /\ TypeOK /\ TypeOK' /\ elapsed \in Nat /\ elapsed <= EnteredBy(step) + Spent
      /\ step \in Step /\ EnteredBy(step) \in Nat
  BY TypeStep, Schedule DEF OnTime, TypeOK
<1>1. CASE Answered
  BY <1>0, <1>1, AnsweredPasses, GoesOnInTime DEF LastTry
<1>2. ASSUME NEW failure \in Failure, CallFails(failure) PROVE OnTime'
  <2>1. CASE GoesTo({AfterFailure}) /\ \E t \in 0..AnswerTime : Passes(t)
    BY <1>0, <1>2, <2>1, CallFailsPasses, GoesOnInTime DEF LastTry
  <2>2. ASSUME attempt \in 0..1, Repeats, NEW t \in 0..(TryTime + 150 * (attempt + 1)), Passes(t)
        PROVE  OnTime'
    <3>1. step \in WebCall /\ step' = step /\ attempt' = attempt + 1 /\ elapsed' = elapsed + t
      BY <1>0, <1>2, <2>2, CallFailsPasses DEF Repeats, Passes
    <3>2. TryTime \in {10000, 18000} /\ TryTime' = TryTime
      BY <3>1, Schedule DEF TryTime
    <3>3. WebSpent + t <= WebSpent' /\ WebSpent \in Nat /\ WebSpent' \in Nat
      BY <2>2, <3>1, <3>2 DEF WebSpent
    <3>4. Spent = WebSpent /\ Spent' = WebSpent' /\ EnteredBy(step)' = EnteredBy(step)
      BY <3>1 DEF Spent, EnteredBy, WebCall, MongoCall
    <3>5. elapsed' <= EnteredBy(step)' + Spent'
      BY <1>0, <2>2, <3>1, <3>2, <3>3, <3>4
    <3> QED
      BY <1>0, <3>5 DEF OnTime
  <2> QED
    BY <1>0, <1>2, <2>1, <2>2, CallFailsPasses
<1>3. CASE Stored \/ Throttled \/ StoreFails
  <2>1. step \in MongoCall /\ step \notin WebCall
    BY <1>0, <1>3, MongoPasses DEF WebCall, MongoCall
  <2>2. CASE /\ GoesTo(AfterAnswer) \/ GoesTo({AfterFailure})
             /\ \E t \in 0..MongoTime : Passes(t)
    BY <1>0, <2>1, <2>2, GoesOnInTime DEF LastTry
  <2>3. ASSUME attempt \in 0..2, Repeats, step # "find",
               NEW w \in MongoBackoff, NEW t \in 0..MongoTime, Passes(t + w)
        PROVE  OnTime'
    <3>1. /\ step' = step /\ attempt' = attempt + 1 /\ elapsed' = elapsed + (t + w)
          /\ w \in Nat /\ MongoTime \in Nat
      BY <2>3, MongoWaits, DeliveryTimeAssumption DEF Repeats, Passes
    <3>2. MongoSpent + (t + w) <= MongoSpent' /\ MongoSpent \in Nat /\ MongoSpent' \in Nat
      BY <2>3, <3>1, MongoWaits DEF MongoSpent
    <3>3. /\ Spent = MongoSpent /\ Spent' = MongoSpent'
          /\ EnteredBy(step)' = EnteredBy(step)
      BY <2>1, <2>3, <3>1 DEF Spent, EnteredBy
    <3>4. elapsed' <= EnteredBy(step)' + Spent'
      BY <1>0, <2>3, <3>1, <3>2, <3>3
    <3> QED
      BY <1>0, <3>4 DEF OnTime
  <2> QED
    BY <1>0, <1>3, <2>2, <2>3, MongoPasses
<1>4. CASE TokenThrows
  <2>1. /\ step = "token" /\ step' \in {"requeue", "refused"} /\ attempt' = 0
        /\ elapsed' = elapsed
    BY <1>4 DEF TokenThrows, Goto
  <2>2. elapsed <= EnteredBy(step) + CallTime
    BY <1>0, <2>1, CallFits DEF WebCall
  <2>3. elapsed' <= EnteredBy(step')
    BY <1>0, <2>1, <2>2, Schedule DEF CallTime, Step, Ended, WebCall, MongoCall
  <2> QED
    BY <1>0, <2>1, <2>3, EntersInTime
<1>5. CASE EnqueueNotify \/ Requeue
  <2>1. Spent = 0 /\ step \in {"enqueue", "requeue"}
    BY <1>0, <1>5, EnqueuePasses, RequeuePasses DEF Spent, WebCall, MongoCall
  <2>2. /\ attempt' = 0 /\ step' \in Step
        /\ \E t \in Nat :
              /\ elapsed' = elapsed + t
              /\ EnteredBy(step) + t <= EnteredBy(step')
    <3>1. CASE EnqueueNotify
      <4>1. /\ step = "enqueue" /\ attempt' = 0
            /\ \/ step' = "error" /\ elapsed' = elapsed + 0
               \/ /\ step' \in {"requeue", "done"}
                  /\ \E t \in 0..(FirstDelay + PublishTime) : elapsed' = elapsed + t
               \/ /\ step' \in {"refused", "done"}
                  /\ \E t \in 0..(1000 * MaxDelay + PublishTime) : elapsed' = elapsed + t
        BY <1>0, <3>1, EnqueuePasses DEF GoesTo, Passes
      <4>2. {"error", "requeue", "refused", "done", "enqueue"} \subseteq Step
        BY DEF Step, Ended, MongoCall
      <4>3. /\ EnteredBy("enqueue") + FirstDelay + PublishTime <= EnteredBy("requeue")
            /\ EnteredBy("requeue") <= EnteredBy("done")
            /\ EnteredBy("enqueue") + 1000 * MaxDelay + PublishTime <= EnteredBy("done")
            /\ EnteredBy("refused") = EnteredBy("done")
            /\ EnteredBy("enqueue") <= EnteredBy("error")
        BY <4>2, Schedule
      <4>4. ASSUME step' = "error", elapsed' = elapsed + 0
            PROVE  0 \in Nat /\ EnteredBy(step) + 0 <= EnteredBy(step')
        BY <1>0, <4>1, <4>3, <4>4
      <4>5. ASSUME step' \in {"requeue", "done"}, NEW t \in 0..(FirstDelay + PublishTime),
                   elapsed' = elapsed + t
            PROVE  t \in Nat /\ EnteredBy(step) + t <= EnteredBy(step')
        BY <4>1, <4>2, <4>3, <4>5, Schedule
      <4>6. ASSUME step' \in {"refused", "done"},
                   NEW t \in 0..(1000 * MaxDelay + PublishTime), elapsed' = elapsed + t
            PROVE  t \in Nat /\ EnteredBy(step) + t <= EnteredBy(step')
        BY <4>1, <4>2, <4>3, <4>6, Schedule
      <4> QED
        BY <4>1, <4>2, <4>4, <4>5, <4>6
    <3>2. CASE Requeue
      <4>1. PICK t \in 0..(1000 * MaxDelay + PublishTime) : elapsed' = elapsed + t
        BY <1>0, <3>2, RequeuePasses DEF Passes
      <4>2. step = "requeue" /\ attempt' = 0 /\ step' \in {"done", "refused"}
        BY <1>0, <3>2, RequeuePasses DEF GoesTo, Ended
      <4>3. t \in Nat /\ EnteredBy(step) + t <= EnteredBy(step')
        <5>1. /\ EnteredBy("requeue") + 1000 * MaxDelay + PublishTime <= EnteredBy("done")
              /\ EnteredBy("refused") = EnteredBy("done") /\ EnteredBy("done") \in Nat
              /\ MaxDelay \in Nat /\ PublishTime \in Nat
          BY Schedule DEF Step, Ended
        <5>2. EnteredBy(step') = EnteredBy("done")
          BY <4>2, <5>1
        <5> QED
          BY <1>0, <4>1, <4>2, <5>1, <5>2
      <4>4. step' \in Step
        BY <4>2 DEF Step, Ended
      <4> QED
        BY <4>1, <4>2, <4>3, <4>4
    <3> QED
      BY <1>5, <3>1, <3>2
  <2>3. elapsed' <= EnteredBy(step')
    BY <1>0, <2>1, <2>2, Schedule
  <2> QED
    BY <1>0, <2>2, <2>3, EntersInTime
<1>6. CASE UNCHANGED vars
  BY <1>0, <1>6 DEF vars, OnTime, Spent, WebSpent, MongoSpent, TryTime, EnteredBy
<1> QED
  BY <1>1, <1>2, <1>3, <1>4, <1>5, <1>6 DEF Next

(* A delivery lasts no longer than its time-outs, repetitions and backoffs *)
(* add up to: for every retry limit, every delay and width of its long,    *)
(* every duration of the database and the broker, whatever fails.          *)
THEOREM Scheduled == Spec => []DeliveryKeepsSchedule
<1>1. Init => OnTime
  <2> SUFFICES ASSUME Init PROVE OnTime
    OBVIOUS
  <2>1. TypeOK /\ attempt = 0 /\ elapsed = 0
    BY InitType DEF Init
  <2>2. Spent = 0 /\ EnteredBy(step) \in Nat
    BY <2>1, Schedule DEF Spent, WebSpent, MongoSpent, TypeOK
  <2> QED
    BY <2>1, <2>2 DEF OnTime
<1>2. OnTime => DeliveryKeepsSchedule
  <2> SUFFICES ASSUME OnTime PROVE elapsed <= ByEnd
    BY DEF DeliveryKeepsSchedule, ByEnd
  <2>1. /\ step \in Step /\ EnteredBy(step) \in Nat /\ ByEnd \in Nat
        /\ elapsed \in Nat /\ elapsed <= EnteredBy(step) + Spent
    BY Schedule DEF OnTime, TypeOK, Step, Ended
  <2>2. CASE step \in WebCall \cup MongoCall
    <3>1. /\ Spent <= CallTime /\ Spent \in Nat /\ CallTime \in Nat
      BY <2>2, CallFits DEF OnTime
    <3>2. EnteredBy(step) + CallTime <= ByEnd
      BY <2>1, <2>2, Schedule DEF CallTime, Step, WebCall, MongoCall, Ended
    <3> QED
      BY <2>1, <3>1, <3>2
  <2>3. CASE step \notin WebCall \cup MongoCall
    BY <2>1, <2>3, Schedule DEF Spent, Step, Ended, WebCall, MongoCall
  <2> QED
    BY <2>2, <2>3
<1> QED
  BY <1>1, <1>2, OnTimeStep, PTL DEF Spec

-----------------------------------------------------------------------------
(* The backoff that application.yml promises and the one the code computes.*)

\* What holds of 0 and of every successor holds of every number: the least
\* number left out would follow one that is not.
LEMMA FromZeroOn ==
    ASSUME NEW A, 0 \in A, \A n \in Nat : n \in A => n + 1 \in A
    PROVE  Nat \subseteq A
  <1> DEFINE Gap == Nat \ A
             Below == {p \in Nat \X Nat : p[1] < p[2]}
  <1>1. SUFFICES ASSUME Gap # {} PROVE FALSE
    OBVIOUS
  <1>2. IsWellFoundedOn(Below, Nat)
    BY NatLessThanWellFounded DEF OpToRel
  <1>3. PICK n \in Gap : \A m \in Gap : ~(<<m, n>> \in Below)
    <2>1. Gap \subseteq Nat
      OBVIOUS
    <2> HIDE DEF Gap, Below
    <2>2. QED
      BY <1>1, <1>2, <2>1, WFMin
  <1>4. \A m \in Gap : ~(m < n)
    BY <1>3
  <1>5. n # 0 /\ n - 1 \in Nat /\ n - 1 < n
    OBVIOUS
  <1>6. n - 1 \in A
    BY <1>4, <1>5
  <1>7. QED
    BY <1>5, <1>6

\* It doubles with one element more: that is in a subset or not.
LEMMA PowerDoubles ==
    ASSUME NEW n \in Nat
    PROVE  2^(n + 1) = 2 * 2^n
<1> DEFINE Old == SUBSET (1..n)
           New == {X \cup {n + 1} : X \in Old}
<1>1. /\ IsFiniteSet(Old) /\ Cardinality(Old) = 2^n /\ 2^n \in Nat
      /\ Cardinality(SUBSET (1..(n + 1))) = 2^(n + 1)
  <2>1. IsFiniteSet(1..n) /\ Cardinality(1..n) = n
    BY FS_Interval
  <2>2. IsFiniteSet(1..(n + 1)) /\ Cardinality(1..(n + 1)) = n + 1
    BY FS_Interval
  <2> QED
    BY <2>1, <2>2, FS_SUBSET, PowerOfTwo
<1>2. 1..(n + 1) = (1..n) \cup {n + 1} /\ n + 1 \notin 1..n
  OBVIOUS
<1>3. SUBSET (1..(n + 1)) = Old \cup New /\ Old \cap New = {}
  <2>1. ASSUME NEW Y \in SUBSET (1..(n + 1)) PROVE Y \in Old \cup New
    <3>1. CASE n + 1 \in Y
      <4>1. Y \ {n + 1} \in Old /\ Y = (Y \ {n + 1}) \cup {n + 1}
        BY <1>2, <3>1
      <4> QED
        BY <4>1
    <3>2. CASE n + 1 \notin Y
      BY <1>2, <3>2
    <3> QED
      BY <3>1, <3>2
  <2>2. \A X \in Old : X \cup {n + 1} \in SUBSET (1..(n + 1)) /\ X \in SUBSET (1..(n + 1))
    BY <1>2
  <2>3. \A X \in Old : X \cup {n + 1} \notin Old
    BY <1>2
  <2>4. \A Y \in New : \E X \in Old : Y = X \cup {n + 1}
    OBVIOUS
  <2> HIDE DEF Old, New
  <2>5. Old \cup New \subseteq SUBSET (1..(n + 1))
    BY <2>2, <2>4
  <2>6. SUBSET (1..(n + 1)) \subseteq Old \cup New
    BY <2>1
  <2>7. Old \cap New = {}
    BY <2>3, <2>4
  <2> QED
    BY <2>5, <2>6, <2>7
<1>4. IsFiniteSet(New) /\ Cardinality(New) = Cardinality(Old)
  <2> DEFINE f == [X \in Old |-> X \cup {n + 1}]
  <2>1. \A X \in Old : n + 1 \notin X
    BY <1>2
  <2>2. \A X, Y \in Old : X \cup {n + 1} = Y \cup {n + 1} => X = Y
    BY <2>1
  <2>3. f \in [Old -> New] /\ \A X \in Old : f[X] = X \cup {n + 1}
    OBVIOUS
  <2>4. \A Y \in New : \E X \in Old : Y = X \cup {n + 1}
    OBVIOUS
  <2> HIDE DEF f, Old, New
  <2>5. f \in Injection(Old, New)
    BY <2>2, <2>3 DEF Injection, IsInjective
  <2>6. f \in Surjection(Old, New)
    <3>1. \A Y \in New : \E X \in Old : f[X] = Y
      BY <2>3, <2>4, Zenon
    <3>2. f \in [Old -> New]
      BY <2>3
    <3> QED
      BY <3>1, <3>2, Zenon DEF Surjection
  <2>7. f \in Bijection(Old, New)
    BY <2>5, <2>6 DEF Bijection
  <2> QED
    BY <1>1, <2>7, FS_Bijection DEF ExistsBijection
<1> HIDE DEF Old, New
<1>5. Cardinality(Old \cup New) = Cardinality(Old) + Cardinality(New) - Cardinality(Old \cap New)
  BY <1>1, <1>4, FS_Union
<1>6. Cardinality(Old \cap New) = 0
  BY <1>3, FS_EmptySet
<1>7. Cardinality(Old \cup New) = 2^n + 2^n
  BY <1>1, <1>4, <1>5, <1>6
<1>8. Cardinality(Old \cup New) = 2^(n + 1)
  BY <1>1, <1>3
<1>9. PICK p \in Nat : p = 2^n
  BY <1>1
<1> QED
  BY <1>7, <1>8, <1>9

\* The promised backoff in closed form.
Doubled(n) == Least(InitialDelay * 2^(n - 1), MaxDelay)

LEMMA DoubledType ==
    ASSUME NEW n \in Nat \ {0}
    PROVE  /\ InitialDelay * 2^(n - 1) \in Nat /\ 2^(n - 1) \in Nat
           /\ 2^(n - 1) <= InitialDelay * 2^(n - 1)
           /\ Doubled(n) \in Nat
<1>1. PICK p \in Nat : p = 2^(n - 1)
  BY PowerOfTwo
<1>2. InitialDelay * p \in Nat /\ p <= InitialDelay * p
  BY DeliveryTimeAssumption
<1> QED
  BY <1>1, <1>2, DeliveryTimeAssumption DEF Doubled, Least

LEMMA DoubledNext ==
    /\ Doubled(1) = Least(InitialDelay, MaxDelay)
    /\ \A n \in Nat \ {0} : Doubled(n + 1) = Least(2 * Doubled(n), MaxDelay)
<1>1. Doubled(1) = Least(InitialDelay, MaxDelay)
  <2>1. 2^(1 - 1) = 1
    OBVIOUS
  <2> QED
    BY <2>1, DeliveryTimeAssumption DEF Doubled
<1>2. ASSUME NEW n \in Nat \ {0} PROVE Doubled(n + 1) = Least(2 * Doubled(n), MaxDelay)
  <2>1. 2^((n + 1) - 1) = 2 * 2^(n - 1)
    BY PowerDoubles
  <2>2. PICK p \in Nat : p = 2^(n - 1)
    BY DoubledType
  <2>3. InitialDelay * (2 * p) = 2 * (InitialDelay * p) /\ InitialDelay * p \in Nat
    BY DeliveryTimeAssumption
  <2> QED
    BY <2>1, <2>2, <2>3, DeliveryTimeAssumption DEF Doubled, Least
<1> QED
  BY <1>1, <1>2

LEMMA PromisedDoubles ==
    \A n \in Nat \ {0} : Promised[n] = Doubled(n)
<1> DEFINE Recurs(f) ==
        f = [n \in Nat \ {0} |-> IF n = 1 THEN Least(InitialDelay, MaxDelay)
                                         ELSE Least(2 * f[n - 1], MaxDelay)]
           g == [n \in Nat \ {0} |-> Doubled(n)]
<1>1. Recurs(g)
  <2>1. ASSUME NEW n \in Nat \ {0}
        PROVE  Doubled(n) = IF n = 1 THEN Least(InitialDelay, MaxDelay)
                                     ELSE Least(2 * g[n - 1], MaxDelay)
    <3>1. CASE n = 1
      BY <3>1, DoubledNext
    <3>2. CASE n # 1
      <4>1. n - 1 \in Nat \ {0} /\ n = (n - 1) + 1
        BY <3>2
      <4>2. Doubled((n - 1) + 1) = Least(2 * Doubled(n - 1), MaxDelay)
        BY <4>1, DoubledNext
      <4> QED
        BY <3>2, <4>1, <4>2
    <3> QED
      BY <3>1, <3>2
  <2> QED
    BY <2>1
<1>2. Recurs(Promised)
  <2>1. \E f : Recurs(f)
    BY <1>1
  <2>2. Promised = CHOOSE f : Recurs(f)
    BY DEF Promised
  <2> HIDE DEF Recurs
  <2> QED
    BY <2>1, <2>2
<1>3. /\ Promised[1] = Least(InitialDelay, MaxDelay)
      /\ \A n \in Nat \ {0} : Promised[n + 1] = Least(2 * Promised[n], MaxDelay)
  <2>1. \A n \in Nat \ {0} : Promised[n] = IF n = 1 THEN Least(InitialDelay, MaxDelay)
                                             ELSE Least(2 * Promised[n - 1], MaxDelay)
    BY <1>2
  <2>2. ASSUME NEW n \in Nat \ {0} PROVE Promised[n + 1] = Least(2 * Promised[n], MaxDelay)
    <3>1. n + 1 \in Nat \ {0} /\ n + 1 # 1 /\ (n + 1) - 1 = n
      OBVIOUS
    <3> QED
      BY <2>1, <3>1
  <2> QED
    BY <2>1, <2>2
<1> DEFINE A == {n \in Nat : Promised[n + 1] = Doubled(n + 1)}
<1>4. 0 \in A
  BY <1>3, DoubledNext
<1>5. ASSUME NEW n \in Nat, n \in A PROVE n + 1 \in A
  <2>1. n + 1 \in Nat \ {0}
    OBVIOUS
  <2> QED
    BY <1>3, <1>5, <2>1, DoubledNext
<1>6. Nat \subseteq A
  <2> HIDE DEF A
  <2> QED
    BY <1>4, <1>5, FromZeroOn
<1>7. ASSUME NEW n \in Nat \ {0} PROVE Promised[n] = Doubled(n)
  <2>1. n - 1 \in A /\ (n - 1) + 1 = n
    BY <1>6
  <2> QED
    BY <2>1
<1> QED
  BY <1>7

\* A long that has room for a number holds it.
LEMMA WrapKeeps ==
    ASSUME NEW x \in Nat, x < 2^(LongBits - 1)
    PROVE  Wrap(x) = x
<1>1. LongBits - 1 \in Nat /\ LongBits = (LongBits - 1) + 1
  BY DeliveryTimeAssumption
<1>2. PICK h \in Nat \ {0} : h = 2^(LongBits - 1)
  BY <1>1, PowerOfTwo
<1>3. 2^LongBits = 2 * h
  BY <1>1, <1>2, PowerDoubles
<1>4. (x + h) % (2 * h) = x + h
  <2>1. x + h \in 0..(2 * h - 1) /\ 2 * h \in Nat \ {0}
    BY <1>2
  <2>2. \A m \in Nat \ {0} : \A y \in 0..(m - 1) : y % m = y
    OBVIOUS
  <2> QED
    BY <2>1, <2>2
<1> QED
  BY <1>2, <1>3, <1>4 DEF Wrap

\* As long as the product fits, the code waits what application.yml promises.
LEMMA DelayKeepsPromise ==
    ASSUME NEW n \in Nat \ {0}, Fits(n)
    PROVE  Delay(n) = Promised[n] /\ Promised[n] \in Nat
<1>1. /\ InitialDelay * 2^(n - 1) \in Nat /\ 2^(n - 1) \in Nat
      /\ 2^(n - 1) <= InitialDelay * 2^(n - 1)
      /\ Doubled(n) \in Nat
  BY DoubledType
<1>2. n < LongBits /\ InitialDelay * 2^(n - 1) < 2^(LongBits - 1)
  BY DEF Fits
<1>3. 2^(LongBits - 1) \in Nat
  BY PowerOfTwo, DeliveryTimeAssumption
<1>4. (n - 1) % LongBits = n - 1
  BY <1>2, DeliveryTimeAssumption
<1>5. 2^(n - 1) < 2^(LongBits - 1)
  BY <1>1, <1>2, <1>3
<1>6. Shifted(n - 1) = 2^(n - 1)
  BY <1>1, <1>4, <1>5, WrapKeeps DEF Shifted
<1>7. Wrap(InitialDelay * Shifted(n - 1)) = InitialDelay * 2^(n - 1)
  BY <1>1, <1>2, <1>6, WrapKeeps
<1> QED
  BY <1>1, <1>7, PromisedDoubles DEF Delay, Doubled

\* A way out of the delivery that ends in "done" has published.
LEMMA PublishesInTime ==
    ASSUME NEW n \in Nat \ {0}, NEW w \in {800, 1000}, NEW p \in {0, PublishTime}, Fits(n),
           elapsed \in Nat, elapsed' = elapsed + (w * Delay(n) + p)
    PROVE  /\ elapsed' - elapsed >= w * Promised[n]
           /\ elapsed' - elapsed <= 1000 * Promised[n] + PublishTime
<1>1. PICK d \in Nat : d = Promised[n] /\ d = Delay(n)
  BY DelayKeepsPromise
<1>2. p \in Nat /\ p <= PublishTime /\ w * d \in Nat /\ w * d <= 1000 * d
  BY <1>1, DeliveryTimeAssumption
<1>3. elapsed' - elapsed = w * d + p
  BY <1>1, <1>2
<1> QED
  BY <1>1, <1>2, <1>3, DeliveryTimeAssumption

(* A record is published again only after the backoff of application.yml,  *)
(* for every retry whose product fits a long, whatever the delays and the  *)
(* width of a long are.                                                    *)
THEOREM DistanceKept == Spec => RetryKeepsItsDistance
<1> DEFINE n    == IF step = "enqueue" THEN SendRetry + 1 ELSE retry + 1
           wait == elapsed' - elapsed
           Kept == step \in {"enqueue", "requeue"} /\ step' = "done" /\ Fits(n)
                   => /\ n <= MaxTry
                      /\ wait >= (IF step = "enqueue" THEN 1000 ELSE 800) * Promised[n]
                      /\ wait <= 1000 * Promised[n] + PublishTime
<1>1. TypeOK /\ [Next]_vars => [Kept]_vars
  <2> SUFFICES ASSUME TypeOK, Next, step \in {"enqueue", "requeue"}, step' = "done", Fits(n)
               PROVE  /\ n <= MaxTry
                      /\ wait >= (IF step = "enqueue" THEN 1000 ELSE 800) * Promised[n]
                      /\ wait <= 1000 * Promised[n] + PublishTime
    OBVIOUS
  <2>1. /\ elapsed \in Nat /\ retry \in Nat /\ SendRetry \in Nat
        /\ Promised[n] \in Nat /\ n \in Nat \ {0}
    <3>1. elapsed \in Nat /\ retry \in Nat /\ SendRetry \in Nat
      BY DEF TypeOK, SendRetry
    <3>2. n \in Nat \ {0}
      BY <3>1
    <3> QED
      BY <3>1, <3>2, DelayKeepsPromise
  <2>2. EnqueueNotify \/ Requeue
    BY DEF Next, Answered, CallFails, Stored, Throttled, StoreFails, TokenThrows, WebCall,
           MongoCall
  <2>3. CASE EnqueueNotify
    <3>1. step = "enqueue" /\ n = SendRetry + 1
      BY <2>3 DEF EnqueueNotify
    <3>2. PICK p \in {0, PublishTime} :
             n <= MaxTry /\ elapsed' = elapsed + (1000 * Delay(n) + p)
      BY <2>3, <3>1 DEF EnqueueNotify, Take, Goto, AfterEnqueueFailure
    <3> HIDE DEF n
    <3> QED
      BY <2>1, <3>1, <3>2, PublishesInTime
  <2>4. CASE Requeue
    <3>1. step = "requeue" /\ n = retry + 1
      BY <2>4 DEF Requeue
    <3>2. PICK w \in {800, 1000}, p \in {0, PublishTime} :
             n <= MaxTry /\ elapsed' = elapsed + (w * Delay(n) + p)
      BY <2>4, <3>1 DEF Requeue, Take, Goto, Ended
    <3> HIDE DEF n
    <3>3. wait >= w * Promised[n] /\ wait <= 1000 * Promised[n] + PublishTime
      BY <2>1, <3>2, PublishesInTime
    <3>4. w * Promised[n] >= 800 * Promised[n]
      BY <2>1
    <3>5. wait \in Int /\ w * Promised[n] \in Int
      <4>1. elapsed' \in Int
        BY <2>1, <3>2, DelayKeepsPromise, DeliveryTimeAssumption
      <4> QED
        BY <2>1, <4>1
    <3> QED
      BY <2>1, <3>1, <3>2, <3>3, <3>4, <3>5
  <2> QED
    BY <2>2, <2>3, <2>4
<1> QED
  BY <1>1, Typed, PTL DEF Spec, RetryKeepsItsDistance

=============================================================================
