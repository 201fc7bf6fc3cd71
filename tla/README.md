# A formal model of emd-notifier-sender

TLA+ modules for the delivery of courtesy messages to third-party providers
(TPPs), TLC configurations that check them on small instances, and proofs that
TLAPS checks for every value of the constants.

| module | what it is | checked by | proved in |
|---|---|---|---|
| `Delivery` | the delivery pipeline: both topics, several listeners, the collection, crashes, rebalances, faults | `chain`, `faults`, `fanout`, `exhausted` | `Delivery_proofs`, `Delivery_counts` |
| `NotificationPromise` | what the service promises about one notification; `Delivery` implements it | `faults` (`ImplementsPromise`) | `Delivery_proofs` (`Refinement`) |
| `KafkaConsumer` | `BaseKafkaConsumer` on one partition, in order, with bad records | `group` | `KafkaConsumer_proofs` |
| `ManualRetry` | the REST endpoint that retries ERROR notifications, on top of `Delivery` | `manual` | `ManualRetry_proofs`, `ManualRetry_counts` |
| `RetryPromise` | the promise when an operator may reopen an ERROR; `ManualRetry` implements it | `manual` (`ImplementsRetryPromise`) | `ManualRetry_counts` (`RetryRefinement`) |
| `MessageDeletion` | the weekly batch and the bulk deletion, beside deliveries and manual retries | `deletion`, `deletion_live`, `orphan`, `count` | `MessageDeletion_proofs` |
| `DeliveryTime` | time-outs, call repetitions and backoffs of one delivery | `poll`, `budget` | `DeliveryTime_proofs` |

`Counting` holds the lemmas about sizes of finite sets that the counting proofs
share. The `MC*` modules and the `.cfg` files of the same prefix are the instances. To
repeat a run: `tlc -config MCDelivery_chain.cfg MCDelivery`; to check the proofs:
`tlapm Delivery_proofs.tla`.

## 1. The system

The service reads messages from the topic `emd-courtesy-message`, asks which
TPPs the citizen has consented to, stores one document for each (message, TPP)
and posts the notification to the TPP. What fails goes to one of two topics: a
message that could not be resolved back to the core topic, a notification that
could not be sent to `emd-notify-error`. All pods consume both topics in one
group: each has three listener threads on the core topic (`concurrency` of
`consumerMessage-in-0`) and one on `emd-notify-error`, whose binding sets none.

```
 core topic --> MessageCoreConsumerService --> MessageService --(citizen, tpp lookups)
     ^                                             |  insert / find
     +---- MessageCoreProducerService <--- error --+
                                                   v
 notify-error --> NotifyErrorConsumerService --> NotifyService.sendNotify --(token, POST)--> TPP
     ^                                             |  save SENT
     +---- NotifyErrorProducerService <--- error --+  save ERROR
     ^
     +---- NotifyService.retryFailedMessage <-- REST      deleteMessages <-- REST, scheduler
```

### Components, their state and operations

- **Kafka consumers** (`BaseKafkaConsumer`, the two `*ConsumerServiceImpl`).
  State: the group's committed offset, the position of every listener thread.
  A record is discarded (another application's retry header), refused for ever
  (not deserializable, no retry header) or processed; the listener thread blocks
  until its Mono completes and only then acknowledges. Every error becomes an
  `UncommittableError`, retried in place without limit.
  *Correct if* no record is passed unprocessed, records are processed in order,
  an offset never moves back, and what is repeated was disturbed.
- **Delivery pipeline** (`MessageServiceImpl`). No state of its own; it writes
  the collection and the topics. Lookups, one inner Mono per TPP (`flatMap`),
  insert, find after a duplicate, send. *Correct if* a record is committed only
  when all it stands for is settled or carried by a later record, and a
  completed notification is not sent again.
- **Notification** (`NotifyServiceImpl.sendNotify`, `getToken`, `toUrl`). Token,
  POST, save of SENT; each failure leads to `enqueueNotify(retry + 1)`.
  *Correct if* SENT means the TPP has taken it, ERROR means all attempts were
  made, and duplicates come from faults only.
- **Producers** (`MessageCoreProducerServiceImpl`, `NotifyErrorProducerServiceImpl`):
  retry limit, exponential backoff, publication; ERROR is saved when the
  retries of a notification are exhausted.
- **Message repository** (MongoDB collection with a unique index on
  (messageId, entityId)): insert, save by `_id`, conditional updates, cursor,
  delete.
- **Manual retry** (`NotifyServiceImpl.retryFailedMessage`): claim ERROR ->
  IN_PROCESS atomically, look up the TPP, publish with retry 0, release on
  failure. *Correct if* concurrent requests and listeners do not notify twice
  and a claimed notification is not stranded.
- **Message deletion** (`deleteMessages`, `scheduleDeletionTask`): cursor,
  batches, deletions, count. *Correct if* an answer means that what matched is
  gone, nothing else was removed, and the count is right.
- **Connectors, retry specifications, time-outs** (`CitizenConnectorImpl`,
  `TppConnectorImpl`, `WebClientRetrySpecs`, `MongoRetrySpecs`,
  `WebClientConfig`). *Correct if* a call that is not idempotent is not
  repeated once it may have arrived, no way through a delivery costs more than
  its time-outs, policies and backoffs allow, and a retry waits for its backoff.

### Not modelled

Web error translation (stateless; `ManualRetry` has the error a request ends
with), log masking and utilities, the template language, configuration beans and
health endpoints, build and CI. The stub controllers only read: they find, map
and return stored messages, or serve a page, and change nothing the other
components see.

The static bundle under `src/main/resources/static` (`main.006a2046.js`) is not
modelled either. It is the minified output of a React build for the demo portal
(login, list of messages, consent, payment), nearly all of it library code in a
few very long lines; its sources are not in the repository. A definition could
not be compared with any line of it, and the notifier keeps no state for it: it
calls the read-only stub and services outside this repository. The program this
project is about is the Java code, and the map names the lines of it.

### What is hard here

Several pods and threads share the collection and the topics without
transactions: a step is a database operation, a request or a publication, and
between any two of them the pod may stop, the partition may move to another
listener while the first works on, an answer may be lost after the effect, or
an inner Mono may be cancelled by its neighbour's error. Documents are read,
kept in a retry record for minutes and then written back whole. Retry chains
interleave with manual retries, redeliveries and deletions. `PROJECT.json`
lists each hazard with its line and the properties that watch it.

## 2. The modules and the code

### Delivery

State: `docs` (the collection, by key), `log` and `committed` (both topics in
one log of records with the set of committed positions), and for each listener
`stage`, `offset`, `owning` (partition still assigned), `branch` (the step of
the inner Mono of each TPP), `settled`. `omitted`, `accepted`, `attempts`,
`faults` are history. One action per step of the Monos:

| code | actions |
|---|---|
| `processMessage`, `processTppList`, `sendNotifications` | `Resolve`, `ResolveFails` |
| `handleError`, `enqueueMessage` | `Requeue`, `RequeueFails` |
| `persistAndNotify` | `Insert`, `InsertFails`, `Find`, `FindFails` |
| `sendNotify`, `getToken`, `toUrl` | `GetToken`, `GetTokenThrows`, `Post`, `PostAnswerLost`, `SaveSent`, `SaveSentFails` |
| `enqueueNotify` | `EnqueueNotify`, `EnqueueNotifyFails` |
| `BaseKafkaConsumer` | `Poll`, `Acknowledge`, and `RetryInPlace` inside the failing actions |
| environment | `Arrive`, `ArriveAgain`, `PollStale`, `Crash`, `Rebalance` |

Abstractions. The order of a partition is left out (any uncommitted record may
be delivered); that one listener works in order is `KafkaConsumer`'s subject. A
request that is cancelled and takes effect later is represented by taking
effect before the cancellation. Documents are never deleted here. `*Fails`
actions let the effect happen or not, and count as a fault; a lookup, a token
request or a POST that fails is normal behaviour and does not. `GetTokenThrows`
counts as a fault, so it happens at most `MaxFaults` times. A malformed TPP
configuration may be permanent: the message is then published again up to the
limit and its record, exhausted, blocks its partition, cancelling the inner
Monos of the other TPPs each time. The liveness properties do not hold for such
a TPP, and do not claim to.

### NotificationPromise

The abstract specification: a notification is charged, opened, notified,
completed and discharged; it may be waived by a lookup. `Delivery` implements it
under `owed <- Owed`, the keys that some uncommitted record is about.

### KafkaConsumer

One partition whose records are of any mix of kinds (valid, foreign, malformed,
no retry header). `Begin`, `Succeed`, `Fail`, `Resume`, `Acknowledge` are
`BaseKafkaConsumer`'s; assignment, polls, `max.poll.interval.ms`, crashes and
refused or failing commits are the container's, modelled from `application.yml`
and from what the tests rely on. A record without retry header never succeeds:
both consumers answer it with an `UncommittableError`, although the Javadoc of
`MessageCoreConsumerServiceImpl` (line 57) says "skip processing if missing";
`UnprocessableStopsEveryListener` states what follows.

### ManualRetry

Extends `Delivery`; the requests are further processes on the same collection
and log: `Claim`, `Exists`, `GetConfig`, `PublishRetry`, `Release` and their
failures (the existence check is the one database call without a retry:
`ExistsFails`), and `Abandon` (pod stops, caller hangs up). `stranded` records the
keys of failed claims, failed releases and abandoned requests, the three faults
that can leave a document IN_PROCESS with nobody in charge.

### RetryPromise

`NotificationPromise` and three more steps: `Reopen`, which takes an ERROR back
to IN_PROCESS and owes the notification from the same step on; `GiveUp`, back to
ERROR; `Strand`, the fault that lets go of it and counts as waived. A SENT
document is not reopened. `ManualRetry` implements it under
`owed <- ROwed`, the keys an uncommitted record is about or a request has
claimed, and `waived <- omitted \cup stranded`. `Promise` and `Pledge` both leave
what a stale listener may write between SENT and ERROR visible (`Complete`).

### MessageDeletion

Documents with their `_id` (key and generation) and the records in which the
collection has stored them, so that a document put back by `save()` is told
apart from the one that was deleted. Sweeps: `Begin`, `Fetch`, `EndOfCursor`,
`BeginBatch`, `Delete`, `Answer`, and `CursorRestarts` (a throttled query is
subscribed again), `DeleteFails`, `Abort` (20 s `block`, cancelled request, pod
stop). Deliveries are reduced to what touches a document: `Insert`, `Find`,
`Send`, `SaveSent`, `Enqueue`, `SaveError`. So are manual retries: `Claim`,
`PublishRetry`, `Release`, which work by natural key and state where deliveries
work by `_id`, so that a release may hit a document that was inserted after its
own claim was deleted; from its publication on a manual retry is a chain of
retry records as any other. `InProcessIsHeld` says that this never leaves a
document IN_PROCESS that all its holders have given up. A claim whose request is
abandoned is a fault of `ManualRetry` and not repeated here. Dates are old or new; the delay
between batches and `concatMap`'s prefetch limit (32 batches) are left out, as
is a batch size of 0, which `buffer` refuses before any state changes.

### DeliveryTime

One delivery of one record with a clock. Every call takes its shortest or
longest time (pool acquisition 5 s, connect 5 s, response 8 s), is repeated as
its policy allows (`transientNetwork` for the GET, `connectFailureOnly` for the
POSTs, `cosmosDbThrottling` for the database) after Reactor's jittered backoff,
and the backoff of the next record is part of the delivery. The backoff is
computed as in the code, in two's complement of `LongBits` bits with a shift
count modulo the width: `min` lets an overflowed, negative product through, for
which `Mono.delay` throws (`DelayThrows`). In Java's 64 bits and with the default
of 5 s the product fits up to retry 61, far above the default limit of 3;
`RetryKeepsItsDistance` states the documented backoff for every retry that fits.

What the code limits is in the model: the connection and the response of each web
call, the number of repetitions and the waits before them, the backoffs. How long
the database and the broker keep a delivery is not limited to anything that would
fit `max.poll.interval.ms`, so `MongoTime` and `PublishTime` are parameters:
`application.yml` lets one database operation wait 120 s for a connection (line 19),
and a synchronous publication last a minute or more (`request.timeout.ms` at line
84, `retry.backoff.ms` at 97 and 108). `LongestFor` is the sum as a function of the two, and
`DeliveryKeepsSchedule` says that no way through a delivery takes longer.
Not in the model: name resolution and the TLS handshake, which have the client's
own defaults, and a body that trickles (the response time-out of the HTTP client
restarts with each read).

## 3. The runs

| run | instance | what it shows |
|---|---|---|
| `chain` | 1 message, 1 TPP, 2 listeners, 2 retries, 1 fault; liveness | retry counts, `ErrorOnlyAfterAllAttempts`, `AttemptsBounded`, `TerminalIsFinal`; every record is committed and every document settles |
| `faults` | 1 retry, 2 faults | a fault in the recovery from another: `CommittedIsCovered`, `CompletedAreSkipped`, `DuplicatesPaidByFaults`, `ImplementsPromise` |
| `fanout` | 2 TPPs, 1 retry, 1 fault | inner Monos that cancel each other; the whole inductive invariant `IInv`, which the proofs establish for every instance |
| `exhausted` | no fault | refutes "empty if max retries exceeded": an exhausted core record is processed for ever |
| `group` | 3 records of any kind, 2 listeners, batches of 2, 2 disruptions; liveness | order, commits, no rewind; the healthy prefix is consumed; one bad record stops both listeners |
| `manual` | 2 requests, 2 listeners, no automatic retry, 1 fault; liveness | the inductive invariant `RInv`; one hand at a time; only the three faults strand; claims settle; pipeline and requests implement `RetryPromise` |
| `poll` | 1 record, 7 retries (the cap of 60 s is reached from 5 on), a long of 9 bits (5 s times 2^(n-1) fits up to retry 6), example times of the database and the broker (10 s, 60 s) | a POST arrives once; a delivery takes no longer than its parts add up to (`DeliveryKeepsSchedule`, a bound that is reached); every way to a publication waits for the documented backoff (`RetryKeepsItsDistance`) |
| `budget` | the retry limit and delays of `application.yml`; 2 s for a database operation, as `WebClientConfig` reckons, and none for a publication | refutes the 20 s budget of `WebClientConfig` |
| `deletion` | 2 keys, 1 delivery or manual retry, 2 sweeps, batches of 2 | the inductive invariant `IInv`; an answer leaves nothing, only matching documents go, the count is exact for a sweep alone |
| `deletion_live` | 1 key, 2 deliveries or manual retries, 1 sweep, 1 fault; liveness | the same with a throttled cursor or a failed deletion; `InProcessIsHeld`; a delivery ends only over a completed document (`DeliveryEndsCompleted`); sweeps and deliveries end |
| `orphan` | 1 key, 2 deliveries, 1 sweep | refutes "persisted in state ERROR": a chain whose document was deleted and inserted anew never ends |
| `count` | 2 keys, 1 sweep, 1 throttled cursor | refutes "number of deleted messages" |

**Bounds.** Two listeners are enough for every overlap of a delivery with its
stale predecessor; a third would be a second stale one, which the proofs cover
for `Delivery` and `KafkaConsumer`. Two faults let one hit the recovery from
another. Retry limits of 0, 1 and 2 give an empty chain, one record, and a
record that publishes a record. Two TPPs are the smallest `flatMap` that can
cancel. In `MessageDeletion` two keys and batches of two give a full batch, a
partial one and two in sequence. A long of 9 bits puts the overflow of the
backoff among the retries the run makes; the width is a parameter, and the
arithmetic is the same. `MaxFaults` and `MaxDisruptions` bound what the
environment does; the program itself is not bounded: `log` grows only with
publications, which the retry limit and the faults bound.

**Symmetry** is used in the safety-only runs (listeners, TPPs, keys, sweeps),
never with liveness. **Deadlock** checking is off everywhere because all these
systems may rightly be idle: topics consumed, requests answered, sweeps over.

**Fairness.** Weak fairness of what a running pod does by itself: listeners
poll, go on with their record, acknowledge; claimed requests, deliveries and
begun sweeps go on. Strong fairness where the code relies on the services
coming back: `Resolve` (`chain`, `manual`: the lookups do not fail for ever) and
`Succeed` (`group`: processing that is repeated for ever succeeds at some
point), and of `PollIntervalExpires`, a timer of the Kafka client. No fault, crash
or arrival is ever required.

## 4. What the runs found

- **An exhausted core record is not dropped** (`exhausted`). `README.md` and
  `MessageCoreProducerService` promise an empty result; the implementation
  (and its own comment) fails the record, which then blocks its partition as
  long as the lookups fail.
- **The shutdown budget does not hold** (`budget`). `WebClientConfig` computes
  18 s for the longest chain; the backoff of the next record is inside the same
  Mono, there are two calls before, and calls are repeated. A graceful shutdown
  then cuts deliveries off, which is safe (`CommittedIsCovered`) but repeats
  them.
- **A chain may never end after a deletion** (`orphan`). A document deleted
  while its retry record waits, then inserted anew by a redelivery, has another
  `_id`: the ERROR save of the old copy is refused by the unique index each time
  and the listener sends the notification again and again.
- **`deletedCount` may be too large** (`count`): a throttled cursor starts again
  and what it returns a second time is counted again. Two concurrent sweeps
  over-count too; `CountIsExactWhenAlone` says when the number is right.

What no run refutes, and no property claims:

- **One delivery may outlast `max.poll.interval.ms`** (300 s). The part that the
  code limits adds up to 245.55 s (`LongestFor(0, 0)`), and a database or a broker as
  slow as `application.yml` allows takes it far beyond (`MCDeliveryTime` states both
  as `LimitsFit` and `WaitsDoNotFit`). Besides, up to 50 records
  (`max.poll.records`) share one interval. The listener then loses its partition
  while it works: that is `Rebalance` of `Delivery` and `PollIntervalExpires` of
  `KafkaConsumer`, where it costs repetitions (`DuplicatesPaidByFaults`,
  `RepeatsPaidByDisruptions`) and no notification (`CommittedIsCovered`).
- **A second chain of retries** for one notification, which needs a fault, may
  overwrite SENT with ERROR (`TerminalIsFinal` and `SentIsFinal` hold without
  faults only).
- **A notification left IN_PROCESS.** When a TPP that has a document is not among
  the consents of a later attempt, the record is committed and nothing settles
  the document (`omitted`); when a pod stops between the claim of a manual retry and
  its publication, nothing gives the claim back (`stranded`). The code has
  nothing for either, and the properties excuse both by name.
- **A deleted document may come back.** The last save of a delivery puts it
  back; nothing in the repository says that the deletion should win.
- **A stale line of the documentation.** The repository's `README.md` (lines 35 to
  37) says of a message "If save fails, adds it with id "REFUSED"", and that only one
  that is not "REFUSED" is sent. There is no such id
  in the code: a failed insert leaves the record uncommitted and it is processed
  again, which step 7 of the same list and
  `IdempotencyAndDlqFlowIT.insertFailure_doesNotCommitOffset` agree with, and which
  `InsertFails` models.

## 5. What is proved

For every set of messages, TPPs, listeners, every retry limit and any number of
faults. The only assumptions are the `ASSUME`s of the modules (the constants
are natural numbers of the right kind).

- `Delivery_proofs`. `TypeCorrect` (with `HoldsRecord`, which makes `TypeOK`
  inductive). `Covered`: `CoverInv`, because `CommittedIsCovered` is not
  inductive: at the commit one must know that the listener's work suffices, so
  `ListenerInv` and `BranchInv` say at each step what it has established (a
  finished branch needs nothing more from this record; a branch past the insert
  has a document; a branch that saves has been accepted), and
  `RetryHasDocument` says it of retry records. The step is split by who moves:
  Kafka, the record, a branch, the acknowledgment; `CoveredAfter` is stable under
  each. `NothingLost`, `SentIsTrue`, `RedeliverySkips` follow; `Refinement` shows
  that each step is one of `NotificationPromise` or leaves its view unchanged.
  `AllAttemptsBeforeError` has an invariant of its own, `AttemptsInv`: the count in
  a retry record's header is not ahead of the attempts made before it was
  published, and a branch beyond the token has made one more.
- `Delivery_counts`. `Inductive`: the whole `IInv`, which adds `WorkInv` and
  `CountInv` to the two invariants above. The argument counts *hands*: the
  listeners that may still send a notification (`Holding`), the uncommitted
  records about it that no owner is processing (`Queued`), and a document in
  ERROR, whose chain has ended without a send. Sends made and hands together
  (`Held`) are at most `1 + faults`: a step that is no fault only hands a
  notification on (a poll takes it from the topic, a POST turns a hand into a
  send, a publication puts it back, the ERROR save retires it), and each fault
  adds at most one hand. That is why a repeated delivery, a publication
  whose answer was lost and a stale listener each cost one duplicate and no more
  (`NotifiedOnce`). `Tries` weighs each hand with the attempts it has left
  (`TriesBounded`); `Saving` ties a SENT document, or one about to be saved, to a
  POST of its own, so that with no fault a completed document uses up the only
  hand there is (`CompletedStays`). Attempts are counted as pairs (hand, attempt),
  which keeps the argument one about sizes of sets.
- `KafkaConsumer_proofs`. `Inductive`: what each listener, with or without the
  partition, knows of the records in front of it, and that the committed offset is
  at most one past the owner's position (a failed commit may have been
  applied). `CommitAfterProcessing`, `InOrder` and `NoRewind` follow.
  `RepeatsPaid` needs `CountInv` in the same invariant: a listener that is to
  process again what is processed already (`Ahead`, `StaleRunners`) owes that to a
  disruption that no repetition has used up.
- `ManualRetry_proofs`, on top of `Delivery_proofs`, whose lemmas about types it
  uses. `Carried`: `InProcessIsCarried`. `CommittedIsCovered` is no longer true
  once a claim may reopen a document whose records are all committed, so
  `RCoverInv` weakens it: the request that has claimed the document, or the fault
  that has stranded it, stands in for a record (`RCoveredAfter`). The pipeline's
  steps preserve this as before; a request's step (`Requests`) hands the document
  on to a record, to ERROR, or to `stranded`. `DocumentHasRecord` closes the
  argument: a document has a record, which is committed, hence covered, or is not.
- `ManualRetry_counts`. `RInductive`: `RInv`, the same count with one more kind of
  hand, a request in charge. Its claim takes over the hand of the ERROR document,
  its publication passes it to the record, its release gives it back, and a
  publication whose answer is lost or a release that fails is a fault; the lemmas of `Delivery_counts`
  carry the pipeline's own steps. `OneHand`, `RNotifiedOnce`, `SentStays` and
  `ErrorRestored` follow: with no fault the request that is to release a claim
  holds the only hand, so that nobody can have changed the document since.
  `RetryRefinement`: `RSpec => ImplementsRetryPromise`. The pipeline's steps but
  the commit are mapped as in `Refinement` (`RefineButCommit`); a commit lets go
  only of what `RCoveredAfter` says is completed, left out, stranded or still
  carried, here possibly by a request (`CommitPledges`); each step of a request
  is mapped on its own (`RequestPledges`). A publication keeps the notification
  owed through the record it appends, a release is a `GiveUp`, a failure or
  an abandoned request a `Strand`. The argument needs that whatever a record or a
  branch will complete has a document to complete, also between a claim and a
  release; that is `RDocInv`, a part of `RInv` (`CoverInv` says the same of
  the pipeline alone; `RCoverInv` does without it).
- `MessageDeletion_proofs`. `AnsweredLeavesNothing`, `OnlyMatching`, `Held`,
  `CountExactWhenAlone` and `EndsCompleted` follow from `IInv`: what anybody knows of was numbered
  when it was stored (`Numbered`), so that a record once removed does not come
  back, a document put back being a new one; a sweep's batch is within what it
  has fetched and has not dealt with (`BatchInv`); what it has dealt with is
  gone (`SweepInv`); what it has counted it has removed, if nobody else removed
  anything (`CountInv`). `InProcessIsHeld` is itself a part of
  the invariant: with generations that tell the documents of a key apart it needs
  no other. `EndsCompleted` looks at the three steps that end a delivery: a find of
  a completed document, and the two saves, which leave their document in the
  collection whether it was there or not (`PutStores`).
- `DeliveryTime_proofs`. `PostsArriveOnce`, for every retry limit, delay and
  duration, from `ArrivedIsBehind`: a request that has arrived belongs to a step
  the delivery does not come back to. `Scheduled`: `DeliveryKeepsSchedule`, for
  every duration of the database and the broker and with no assumption about how
  the sum compares to any interval. The argument is a timetable: `EnteredBy` is the
  latest time at which a step begins, `OnTime` adds what the repetitions of its call
  may have cost. `Typed` needs that the backoff is a
  natural number where it is not cut off, hence that powers of two are: they are
  the numbers of subsets of finite sets (`PowerOfTwo`), which avoids an induction.
  `DistanceKept`: `RetryKeepsItsDistance`, for every width of the long. The
  documented backoff is a recursive function of the retry. An induction principle
  with an operator as its parameter is beyond the provers, but one over a
  set is not: a set of naturals with 0 and with each successor has no least number
  left out (`FromZeroOn`, from the well-foundedness of < in the library). With the
  sets of retries as that set, `Promised[n]` is the initial delay times 2^(n-1), cut
  off at the cap (`PromisedDoubles`; the powers double because half of the subsets
  of a set contain its last element, `PowerDoubles`), and where the product
  fits the long, two's complement leaves it alone (`WrapKeeps`) and the shift of
  the code gives the same (`DelayKeepsPromise`).

Only model-checked: liveness under fairness, which this prover cannot do.
`BacklogDrains`, `EveryNotificationSettles`, `HealthyPrefixIsConsumed`,
`UnprocessableStopsEveryListener`, `EveryClaimSettles`, `EverySweepEnds` and
`EveryChainEnds` are checked by TLC on the instances of section 3 and not proved. Every
other property of a passing run is a theorem.

## 6. Plan

Done, in this order: `Delivery` and its promise, `KafkaConsumer`, `ManualRetry`,
`MessageDeletion`, `DeliveryTime`; proofs of `Delivery`, `KafkaConsumer`,
`DeliveryTime`; manual retries in `MessageDeletion` and the arithmetic of the
backoff in `DeliveryTime`; proofs of `MessageDeletion` and `ManualRetry`, and of
`ErrorOnlyAfterAllAttempts`; the counting proofs (`Delivery_counts`,
`ManualRetry_counts`, `RepeatsPaid`) and the bound on the time of a delivery;
`RetryPromise` with its refinement, and the backoff; how a delivery ends beside
deletions (`DeliveryEndsCompleted`), and the schedule with the times of the database
and the broker as parameters. Every invariant, action
property and refinement that a passing run checks is now a theorem.

Next:

1. Composition: `MessageDeletion` with the whole of `Delivery` (here its
   deliveries and manual retries are reduced to what touches a document), and
   several records of one poll in `DeliveryTime`.
2. A TPP whose configuration is permanently malformed, as a constant set of TPPs,
   and what it may and may not stop.
