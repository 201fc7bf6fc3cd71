------------------------------ MODULE Delivery ------------------------------
(***************************************************************************)
(* The delivery pipeline of emd-notifier-sender: from a record of the core *)
(* topic to a settled document and a notification at each TPP.             *)
(*                                                                         *)
(*   core topic -> MessageServiceImpl.processMessage                       *)
(*                   consents, enabled TPPs, then for every TPP at once:   *)
(*                   insert the document, token, POST, save SENT           *)
(*   notify-error topic -> NotifyServiceImpl.sendNotify, one TPP           *)
(*                                                                         *)
(* A failed core attempt is published again on the core topic, a failed    *)
(* send on the notify-error topic, each with its retry count + 1.  A       *)
(* record's offset is committed only after its processing has completed,   *)
(* so a crash or a rebalance in between delivers the record again; after a *)
(* rebalance the first listener may still be running (it blocks in         *)
(* BaseKafkaConsumer.execute) beside the new owner of the partition.       *)
(*                                                                         *)
(* Abstractions: the order of records inside a partition is left to the    *)
(* consumer's own module (here any uncommitted record may be delivered);   *)
(* delays are not timed; documents are never deleted here.                 *)
(***************************************************************************)
EXTENDS Naturals, Sequences, FiniteSets

CONSTANTS Message,    \* the message ids that can arrive on the core topic
          Tpp,        \* the entity ids of the TPPs
          Listener,   \* the Kafka listener threads of all pods, both topics
          MaxTry,     \* app.retry.max-retry
          MaxFaults   \* bound: number of faults in a behaviour

ASSUME DeliveryAssumption == MaxTry \in Nat /\ MaxFaults \in Nat

VARIABLES
    docs,       \* [Key -> DocState]: the message collection
    log,        \* the records published on both topics, in publication order
    committed,  \* the positions of log whose offset is committed
    stage,      \* [Listener -> Stage]: where the listener is in its record
    offset,     \* [Listener -> position of the record being processed]
    owning,     \* the listeners whose partition has not been taken from them
    branch,     \* [Listener -> [Tpp -> BranchPc]]: the inners of the flatMap
    settled,    \* history: [Listener -> TPPs already settled at the delivery]
    omitted,    \* history: keys that a consent/TPP lookup has left out
    accepted,   \* history: [Key -> number of POSTs the TPP has taken]
    attempts,   \* history: [Key -> number of sendNotify calls]
    faults      \* history: number of faults so far

storeVars    == <<docs>>
kafkaVars    == <<log, committed>>
listenerVars == <<stage, offset, owning, branch, settled>>
historyVars  == <<omitted, accepted, attempts, faults>>
vars == <<docs, log, committed, stage, offset, owning, branch, settled,
          omitted, accepted, attempts, faults>>

-----------------------------------------------------------------------------
(* Documents and records.  A document is identified by its natural key,    *)
(* the unique index (messageId, entityId).                                 *)

Key      == Message \X Tpp
DocState == {"none", "IN_PROCESS", "SENT", "ERROR"}
Terminal == {"SENT", "ERROR"}

CoreRecord  == [topic : {"core"}, msg : Message, retry : 0..MaxTry]
RetryRecord == [topic : {"notifyError"}, msg : Message, tpp : Tpp, retry : 0..MaxTry]
Record      == CoreRecord \cup RetryRecord

Core(m, n)     == [topic |-> "core", msg |-> m, retry |-> n]
Retry(m, t, n) == [topic |-> "notifyError", msg |-> m, tpp |-> t, retry |-> n]

Stage    == {"idle", "resolve", "send", "requeue", "processed"}
BranchPc == {"off", "insert", "find", "token", "post", "save", "enqueue", "done"}

\* The keys a record is about: a core record stands for every TPP.
Targets(r) == IF r.topic = "core" THEN {r.msg} \X Tpp ELSE {<<r.msg, r.tpp>>}

Rec(s)     == log[offset[s]]
KeyOf(s, t) == <<Rec(s).msg, t>>

\* MessageServiceImpl.notify starts at 0 whatever the core retry count is;
\* the notify-error consumer goes on from the record's header.
SendRetry(s) == IF Rec(s).topic = "core" THEN 0 ELSE Rec(s).retry

\* The producers' limit: `retry > maxTry`, tested on the incremented count.
ExhaustedOffByOne(n) == n >= MaxTry
ExhaustedTooLate(n) == n > MaxTry + 1
Exhausted(n) == n > MaxTry

\* A duplicate insert resumes an IN_PROCESS document and skips a completed one.
ResumesAlways(state) == state # "none"
ResumesNever(state) == state = "none"
Resumes(state) == state = "IN_PROCESS"

\* The retry count a producer's message carries.
NextRetryForgotten(n) == n
NextRetry(n) == n + 1

StartStage(r) == IF r.topic = "core" THEN "resolve" ELSE "send"

StartBranches(r) ==
    [t \in Tpp |-> IF r.topic = "notifyError" /\ r.tpp = t THEN "token" ELSE "off"]

NoBranches == [t \in Tpp |-> "off"]

-----------------------------------------------------------------------------
(* How a processing ends.                                                  *)

\* A record may be delivered when it is uncommitted and its partition's owner
\* is not already processing it.
DeliverableTwice(i) == i \in DOMAIN log \ committed
Deliverable(i) ==
    /\ i \in DOMAIN log \ committed
    /\ \A s \in owning : stage[s] = "idle" \/ offset[s] # i

\* The listener's Mono has completed with a value: nothing to notify, every
\* inner of the flatMap has completed, or the record was published again.
CompleteOnFirst(s) ==
    \/ stage[s] = "processed"
    \/ stage[s] = "send" /\ \E t \in Tpp : branch[s][t] = "done"
CompleteNonEmpty(s) ==
    \/ stage[s] = "processed"
    \/ /\ stage[s] = "send"
       /\ \A t \in Tpp : branch[s][t] \in {"off", "done"}
       /\ \E t \in Tpp : branch[s][t] = "done"
Complete(s) ==
    \/ stage[s] = "processed"
    \/ stage[s] = "send" /\ \A t \in Tpp : branch[s][t] \in {"off", "done"}

Goto(s, t, pc) ==
    /\ branch' = [branch EXCEPT ![s][t] = pc]
    /\ UNCHANGED <<stage, offset, owning, settled>>

\* UncommittableError: BaseKafkaConsumer retries the whole record in place.
\* The error of one inner of the flatMap cancels the other ones.
RetryInPlace(s) ==
    /\ stage' = [stage EXCEPT ![s] = StartStage(Rec(s))]
    /\ branch' = [branch EXCEPT ![s] = StartBranches(Rec(s))]
    /\ UNCHANGED <<offset, owning, settled>>

\* Any other error: processMessage hands it to handleError; on the
\* notify-error topic BaseKafkaConsumer maps it to UncommittableError.
OtherError(s) ==
    IF Rec(s).topic = "core"
    THEN /\ stage' = [stage EXCEPT ![s] = "requeue"]
         /\ branch' = [branch EXCEPT ![s] = NoBranches]
         /\ UNCHANGED <<offset, owning, settled>>
    ELSE RetryInPlace(s)

Leave(s) ==
    /\ stage' = [stage EXCEPT ![s] = "idle"]
    /\ offset' = [offset EXCEPT ![s] = 0]
    /\ branch' = [branch EXCEPT ![s] = NoBranches]
    /\ settled' = [settled EXCEPT ![s] = {}]

Publish(r) ==
    /\ log' = Append(log, r)
    /\ UNCHANGED committed

Fault ==
    /\ faults < MaxFaults
    /\ faults' = faults + 1

-----------------------------------------------------------------------------
(* The topics and the listener.                                            *)

\* The upstream service publishes the message on the core topic.
Arrive(m) ==
    /\ \A i \in DOMAIN log : log[i].msg # m
    /\ Publish(Core(m, 0))
    /\ UNCHANGED <<storeVars, listenerVars, historyVars>>

\* It publishes the same message once more.
ArriveAgain(m) ==
    /\ \E i \in DOMAIN log : log[i].msg = m
    /\ Fault
    /\ Publish(Core(m, 0))
    /\ UNCHANGED <<storeVars, listenerVars, omitted, accepted, attempts>>

\* A listener begins the record at position i.
Take(s, i) ==
    /\ stage[s] = "idle"
    /\ stage' = [stage EXCEPT ![s] = StartStage(log[i])]
    /\ offset' = [offset EXCEPT ![s] = i]
    /\ branch' = [branch EXCEPT ![s] = StartBranches(log[i])]
    /\ settled' = [settled EXCEPT ![s] =
                      {t \in Tpp : docs[<<log[i].msg, t>>] \in Terminal}]
    /\ UNCHANGED <<storeVars, kafkaVars, omitted, accepted, attempts>>

\* An idle listener gets a record: the first time, after a crash, or because
\* the previous owner of the partition lost it.
Poll(s, i) ==
    /\ Deliverable(i)
    /\ Take(s, i)
    /\ owning' = owning \cup {s}
    /\ UNCHANGED faults

\* A listener that has lost its partition goes on with a record of the batch
\* it had polled before; another listener may have committed that record.
PollStale(s, i) ==
    /\ Fault
    /\ Take(s, i)
    /\ UNCHANGED owning

\* processed.ack().acknowledge(): the offset is committed (MANUAL_IMMEDIATE),
\* unless the partition has another owner by now: the commit is refused.
Acknowledge(s) ==
    /\ Complete(s)
    /\ committed' = IF s \in owning THEN committed \cup {offset[s]} ELSE committed
    /\ owning' = owning \ {s}
    /\ Leave(s)
    /\ UNCHANGED <<storeVars, log, historyVars>>

\* The pod stops between two steps.
Crash(s) ==
    /\ stage[s] # "idle"
    /\ Fault
    /\ owning' = owning \ {s}
    /\ Leave(s)
    /\ UNCHANGED <<storeVars, kafkaVars, omitted, accepted, attempts>>

\* max.poll.interval.ms expires while execute() blocks: the partition goes to
\* another listener and this one keeps working on the record.
Rebalance(s) ==
    /\ s \in owning
    /\ stage[s] # "idle"
    /\ Fault
    /\ owning' = owning \ {s}
    /\ UNCHANGED <<storeVars, kafkaVars, stage, offset, branch, settled,
                   omitted, accepted, attempts>>

-----------------------------------------------------------------------------
(* The core record: MessageServiceImpl.processMessage.                     *)

\* The consents and the enabled TPPs are known: one inner for each of them.
\* Either list may be empty, and may differ from the one of an earlier attempt.
Resolve(s) ==
    /\ stage[s] = "resolve"
    /\ \E T \in SUBSET Tpp :
          /\ stage' = [stage EXCEPT ![s] = "send"]
          /\ branch' = [branch EXCEPT ![s] =
                            [t \in Tpp |-> IF t \in T THEN "insert" ELSE "off"]]
          /\ omitted' = omitted \cup {KeyOf(s, t) : t \in Tpp \ T}
    /\ UNCHANGED <<storeVars, kafkaVars, offset, owning, settled,
                   accepted, attempts, faults>>

\* A lookup fails or answers with an empty body.
ResolveFails(s) ==
    /\ stage[s] = "resolve"
    /\ stage' = [stage EXCEPT ![s] = "requeue"]
    /\ UNCHANGED <<storeVars, kafkaVars, offset, owning, branch, settled, historyVars>>

\* handleError -> enqueueMessage(retry + 1): an exhausted record is not
\* acknowledged, any other is published again and can then be acknowledged.
Requeue(s) ==
    LET n == NextRetry(Rec(s).retry)
    IN  /\ stage[s] = "requeue"
        /\ IF Exhausted(n)
           THEN RetryInPlace(s) /\ UNCHANGED kafkaVars
           ELSE /\ Publish(Core(Rec(s).msg, n))
                /\ stage' = [stage EXCEPT ![s] = "processed"]
                /\ UNCHANGED <<offset, owning, branch, settled>>
        /\ UNCHANGED <<storeVars, historyVars>>

\* StreamBridge.send fails or throws; the record may be on the topic all the same.
RequeueFails(s) ==
    LET n == NextRetry(Rec(s).retry)
    IN  /\ stage[s] = "requeue"
        /\ ~Exhausted(n)
        /\ Fault
        /\ Publish(Core(Rec(s).msg, n)) \/ UNCHANGED kafkaVars
        /\ RetryInPlace(s)
        /\ UNCHANGED <<storeVars, omitted, accepted, attempts>>

-----------------------------------------------------------------------------
(* One TPP of the core record: MessageServiceImpl.persistAndNotify.        *)

At(s, t, pc) == stage[s] = "send" /\ branch[s][t] = pc

SetDoc(s, t, state) == docs' = [docs EXCEPT ![KeyOf(s, t)] = state]

Insert(s, t) ==
    /\ At(s, t, "insert")
    /\ IF docs[KeyOf(s, t)] = "none"
       THEN SetDoc(s, t, "IN_PROCESS") /\ Goto(s, t, "token")
       ELSE UNCHANGED docs /\ Goto(s, t, "find")
    /\ UNCHANGED <<kafkaVars, historyVars>>

\* The insert fails for another reason than a duplicate; it may have been applied.
InsertFails(s, t) ==
    /\ At(s, t, "insert")
    /\ Fault
    /\ \/ UNCHANGED docs
       \/ docs[KeyOf(s, t)] = "none" /\ SetDoc(s, t, "IN_PROCESS")
    /\ RetryInPlace(s)
    /\ UNCHANGED <<kafkaVars, omitted, accepted, attempts>>

\* After a DuplicateKeyException: resume, skip, or (no such document) give up.
Find(s, t) ==
    /\ At(s, t, "find")
    /\ IF docs[KeyOf(s, t)] = "none"
       THEN RetryInPlace(s)
       ELSE Goto(s, t, IF Resumes(docs[KeyOf(s, t)]) THEN "token" ELSE "done")
    /\ UNCHANGED <<storeVars, kafkaVars, historyVars>>

FindFails(s, t) ==
    /\ At(s, t, "find")
    /\ Fault
    /\ RetryInPlace(s)
    /\ UNCHANGED <<storeVars, kafkaVars, omitted, accepted, attempts>>

-----------------------------------------------------------------------------
(* One send: NotifyServiceImpl.sendNotify.                                 *)

CountAttempt(s, t) == attempts' = [attempts EXCEPT ![KeyOf(s, t)] = @ + 1]
CountPost(s, t)    == accepted' = [accepted EXCEPT ![KeyOf(s, t)] = @ + 1]

\* The token arrives, or the request fails or answers with an empty body.
GetToken(s, t) ==
    /\ At(s, t, "token")
    /\ CountAttempt(s, t)
    /\ \E pc \in {"post", "enqueue"} : Goto(s, t, pc)
    /\ UNCHANGED <<storeVars, kafkaVars, omitted, accepted, faults>>

\* getToken throws while it builds the request (a TPP without a token section,
\* a malformed content type): sendNotify has no Mono to recover.
GetTokenThrows(s, t) ==
    /\ At(s, t, "token")
    /\ Fault
    /\ CountAttempt(s, t)
    /\ OtherError(s)
    /\ UNCHANGED <<storeVars, kafkaVars, omitted, accepted>>

\* The TPP takes the notification; or it answers an error, cannot be reached,
\* or the message cannot be rendered.
PostUnchecked(s, t) ==
    /\ At(s, t, "post")
    /\ Goto(s, t, "save")
    /\ UNCHANGED accepted \/ CountPost(s, t)
    /\ UNCHANGED <<storeVars, kafkaVars, omitted, attempts, faults>>
Post(s, t) ==
    /\ At(s, t, "post")
    /\ \/ CountPost(s, t) /\ Goto(s, t, "save")
       \/ UNCHANGED accepted /\ Goto(s, t, "enqueue")
    /\ UNCHANGED <<storeVars, kafkaVars, omitted, attempts, faults>>

\* The TPP takes the notification and its answer is lost or times out.
PostAnswerLost(s, t) ==
    /\ At(s, t, "post")
    /\ Fault
    /\ CountPost(s, t)
    /\ Goto(s, t, "enqueue")
    /\ UNCHANGED <<storeVars, kafkaVars, omitted, attempts>>

\* save() replaces the document by _id whatever its state is now.
SaveSent(s, t) ==
    /\ At(s, t, "save")
    /\ SetDoc(s, t, "SENT")
    /\ Goto(s, t, "done")
    /\ UNCHANGED <<kafkaVars, historyVars>>

\* The save fails, applied or not: the notification is enqueued for another try.
SaveSentFails(s, t) ==
    /\ At(s, t, "save")
    /\ Fault
    /\ UNCHANGED docs \/ SetDoc(s, t, "SENT")
    /\ Goto(s, t, "enqueue")
    /\ UNCHANGED <<kafkaVars, omitted, accepted, attempts>>

\* enqueueNotify(retry + 1): state ERROR once exhausted, else one more record.
EnqueueNotifyFallsThrough(s, t) ==
    LET n == NextRetry(SendRetry(s))
    IN  /\ At(s, t, "enqueue")
        /\ IF Exhausted(n) THEN SetDoc(s, t, "ERROR") ELSE UNCHANGED docs
        /\ Publish(Retry(Rec(s).msg, t, n))
        /\ Goto(s, t, "done")
        /\ UNCHANGED historyVars
EnqueueNotify(s, t) ==
    LET n == NextRetry(SendRetry(s))
    IN  /\ At(s, t, "enqueue")
        /\ IF Exhausted(n)
           THEN SetDoc(s, t, "ERROR") /\ UNCHANGED kafkaVars
           ELSE Publish(Retry(Rec(s).msg, t, n)) /\ UNCHANGED docs
        /\ Goto(s, t, "done")
        /\ UNCHANGED historyVars

\* The save or the publication fails, applied or not; nothing recovers it.
EnqueueNotifyFails(s, t) ==
    LET n == NextRetry(SendRetry(s))
    IN  /\ At(s, t, "enqueue")
        /\ Fault
        /\ \/ UNCHANGED <<docs, log, committed>>
           \/ Exhausted(n) /\ SetDoc(s, t, "ERROR") /\ UNCHANGED kafkaVars
           \/ ~Exhausted(n) /\ Publish(Retry(Rec(s).msg, t, n)) /\ UNCHANGED docs
        /\ OtherError(s)
        /\ UNCHANGED <<omitted, accepted, attempts>>

-----------------------------------------------------------------------------
Init ==
    /\ docs = [k \in Key |-> "none"]
    /\ log = << >>
    /\ committed = {}
    /\ stage = [s \in Listener |-> "idle"]
    /\ offset = [s \in Listener |-> 0]
    /\ owning = {}
    /\ branch = [s \in Listener |-> NoBranches]
    /\ settled = [s \in Listener |-> {}]
    /\ omitted = {}
    /\ accepted = [k \in Key |-> 0]
    /\ attempts = [k \in Key |-> 0]
    /\ faults = 0

\* What a listener does by itself with the record it holds.
BranchStep(s, t) ==
    \/ Insert(s, t) \/ InsertFails(s, t)
    \/ Find(s, t) \/ FindFails(s, t)
    \/ GetToken(s, t) \/ GetTokenThrows(s, t)
    \/ Post(s, t) \/ PostAnswerLost(s, t)
    \/ SaveSent(s, t) \/ SaveSentFails(s, t)
    \/ EnqueueNotify(s, t) \/ EnqueueNotifyFails(s, t)

RecordStep(s) ==
    \/ Resolve(s) \/ ResolveFails(s)
    \/ Requeue(s) \/ RequeueFails(s)
    \/ Acknowledge(s)

Next ==
    \/ \E m \in Message : Arrive(m) \/ ArriveAgain(m)
    \/ \E s \in Listener :
          \/ \E i \in DOMAIN log : Poll(s, i) \/ PollStale(s, i)
          \/ Crash(s) \/ Rebalance(s)
          \/ RecordStep(s)
          \/ \E t \in Tpp : BranchStep(s, t)

Spec == Init /\ [][Next]_vars

-----------------------------------------------------------------------------
(* Fairness.  A pod that runs finishes what it started and its listeners   *)
(* keep polling; faults are never required.  The citizen and TPP services  *)
(* may fail, but not for ever each time they are asked (strong fairness of *)
(* Resolve): without that an exhausted core record blocks its partition.   *)

Fairness ==
    /\ \A s \in Listener :
          /\ WF_vars(\E i \in DOMAIN log : Poll(s, i))
          /\ SF_vars(Resolve(s))
          /\ WF_vars(RecordStep(s))
          /\ \A t \in Tpp : WF_vars(BranchStep(s, t))

LiveSpec == Spec /\ Fairness

-----------------------------------------------------------------------------
(* Safety.                                                                 *)

TypeOK ==
    /\ docs \in [Key -> DocState]
    /\ log \in Seq(Record)
    /\ committed \in SUBSET (DOMAIN log)
    /\ stage \in [Listener -> Stage]
    /\ offset \in [Listener -> Nat]
    /\ owning \in SUBSET Listener
    /\ branch \in [Listener -> [Tpp -> BranchPc]]
    /\ settled \in [Listener -> SUBSET Tpp]
    /\ omitted \in SUBSET Key
    /\ accepted \in [Key -> Nat]
    /\ attempts \in [Key -> Nat]
    /\ faults \in 0..MaxFaults

\* The notification k needs nothing more from the record at position i: its
\* document is completed, the citizen or the TPP no longer wants it, or a
\* record published after i, still to be committed, carries it on.
CoveredAfter(i, k) ==
    \/ docs[k] \in Terminal
    \/ k \in omitted
    \/ \E j \in DOMAIN log \ committed : j > i /\ k \in Targets(log[j])

(* A record's offset is committed only when everything the record stood    *)
(* for is settled or has been taken over by a later record, whatever       *)
(* failed, crashed or was rebalanced on the way: no notification is lost   *)
(* (BaseKafkaConsumer.execute acknowledges after the Mono completes, and   *)
(* every error path either publishes or refuses the commit).               *)
CommittedIsCovered ==
    \A i \in committed : \A k \in Targets(log[i]) : CoveredAfter(i, k)

(* A delivery of a core record that began when a TPP's document was        *)
(* already completed never contacts that TPP, however often it is retried  *)
(* in place (persistAndNotify: completed messages are skipped).            *)
CompletedAreSkipped ==
    \A s \in Listener : \A t \in settled[s] :
        stage[s] = "send" /\ Rec(s).topic = "core" =>
            branch[s][t] \in {"off", "insert", "find", "done"}

(* A TPP takes a notification once, plus at most once for each fault: a    *)
(* crash, a rebalance, a lost answer, a failed write or publication, or a  *)
(* repeated message.  The pipeline itself never notifies twice.            *)
DuplicatesPaidByFaults == \A k \in Key : accepted[k] <= 1 + faults

(* A document is SENT only when the TPP has taken the notification.        *)
SentWasAccepted == \A k \in Key : docs[k] = "SENT" => accepted[k] > 0

(* A document is ERROR only after the first attempt and all MaxTry retries *)
(* were made (enqueueNotify: retry > maxTry).                              *)
ErrorOnlyAfterAllAttempts ==
    \A k \in Key : docs[k] = "ERROR" => attempts[k] >= MaxTry + 1

(* Retries are bounded: a notification is tried at most MaxTry + 1 times,  *)
(* and once more for the whole series for each fault.                      *)
AttemptsBounded ==
    \A k \in Key : attempts[k] <= (MaxTry + 1) * (1 + faults)

(* As long as nothing has failed, a completed document is never written    *)
(* again: no second chain of retries for one notification is alive.        *)
TerminalIsFinal ==
    [][\A k \in Key : docs[k] \in Terminal /\ faults = 0 => docs'[k] = docs[k]]_vars

(* What the interface and README.md say of a core record whose retries are *)
(* exhausted: enqueueMessage completes empty, so the record counts as      *)
(* processed and is dropped.  MessageCoreProducerServiceImpl fails with an *)
(* UncommittableError instead, and the record is processed once more.      *)
ExhaustedRecordIsDropped ==
    [][\A s \in Listener :
          stage[s] = "requeue" /\ Exhausted(NextRetry(Rec(s).retry)) =>
              stage'[s] \in {"requeue", "processed", "idle"}]_vars

-----------------------------------------------------------------------------
(* The inductive invariant.  CommittedIsCovered is not inductive: what a   *)
(* listener has done so far must be enough for the commit it will make.    *)

\* A listener at work has a record of the log: makes TypeOK inductive.
HoldsRecord == \A s \in Listener : stage[s] # "idle" => offset[s] \in DOMAIN log

TypeInv == TypeOK /\ HoldsRecord

\* A branch that is off has been omitted or is not the record's; a branch
\* that is done needs nothing more from this record; a branch beyond the
\* insert has its document, and a branch that saves has notified the TPP.
BranchInv(s, t) ==
    /\ branch[s][t] = "off" =>
          KeyOf(s, t) \in omitted \/ (Rec(s).topic = "notifyError" /\ Rec(s).tpp # t)
    /\ branch[s][t] = "done" => CoveredAfter(offset[s], KeyOf(s, t))
    /\ branch[s][t] \in {"find", "token", "post", "save", "enqueue"} =>
          docs[KeyOf(s, t)] # "none"
    /\ branch[s][t] = "save" => accepted[KeyOf(s, t)] > 0

\* What a listener at work has established about its record.
ListenerInv(s) ==
    stage[s] # "idle" =>
        /\ Rec(s).topic = "core" \/ stage[s] = "send"
        /\ stage[s] = "processed" =>
              \A k \in Targets(Rec(s)) : CoveredAfter(offset[s], k)
        /\ stage[s] = "send" => \A t \in Tpp : BranchInv(s, t)
        /\ \A t \in settled[s] : docs[KeyOf(s, t)] \in Terminal
        /\ stage[s] = "send" /\ Rec(s).topic = "core" =>
              \A t \in settled[s] : branch[s][t] \in {"off", "insert", "find", "done"}

\* A notify-error record is about a document that exists.
RetryHasDocument ==
    \A i \in DOMAIN log :
        log[i].topic = "notifyError" => docs[<<log[i].msg, log[i].tpp>>] # "none"

(* These parts hold together in every reachable state: a listener is       *)
(* at no point ahead of what the store and the topics already guarantee.   *)
CoverInv ==
    /\ TypeInv
    /\ \A s \in Listener : ListenerInv(s)
    /\ RetryHasDocument
    /\ SentWasAccepted
    /\ CommittedIsCovered

\* A retry record's count is not ahead of the attempts made before it, and a
\* branch beyond the token has made one more.
RetriesWereTried ==
    \A i \in DOMAIN log :
        log[i].topic = "notifyError" =>
            attempts[<<log[i].msg, log[i].tpp>>] >= log[i].retry

BranchWasTried(s, t) ==
    stage[s] = "send" =>
        /\ branch[s][t] \in {"insert", "find", "token"} =>
              attempts[KeyOf(s, t)] >= SendRetry(s)
        /\ branch[s][t] \in {"post", "save", "enqueue"} =>
              attempts[KeyOf(s, t)] > SendRetry(s)

\* What makes ErrorOnlyAfterAllAttempts inductive.
AttemptsInv ==
    /\ RetriesWereTried
    /\ \A s \in Listener : \A t \in Tpp : BranchWasTried(s, t)
    /\ ErrorOnlyAfterAllAttempts

\* The listeners that may still send k, beginning with the core record it is
\* part of; those that have sent it and record it; and the uncommitted records
\* about k that nobody who owns the partition is processing.
Holding(k) ==
    {s \in Listener :
        \/ stage[s] \in {"resolve", "requeue"} /\ k \in Targets(Rec(s))
        \/ /\ stage[s] = "send" /\ Rec(s).msg = k[1]
           /\ branch[s][k[2]] \in {"insert", "find", "token", "post", "enqueue"}}
Saving(k) ==
    {s \in Listener : stage[s] = "send" /\ Rec(s).msg = k[1] /\ branch[s][k[2]] = "save"}
Queued(k) == {i \in DOMAIN log : Deliverable(i) /\ k \in Targets(log[i])}

\* The sends made, and the hands from which one more can come: a document in
\* ERROR is one, since its chain of retries has ended without a send.
IsIn(k, state) == IF docs[k] = state THEN 1 ELSE 0
Held(k) ==
    accepted[k] + Cardinality(Holding(k)) + Cardinality(Queued(k)) + IsIn(k, "ERROR")

\* The attempts made, and those a listener or a record can still make.
TriesOf(r) == MaxTry + 1 - (IF r.topic = "core" THEN 0 ELSE r.retry)
TriesLeft(s, k) ==
    TriesOf(Rec(s)) - (IF stage[s] = "send" /\ branch[s][k[2]] \in {"post", "enqueue"}
                       THEN 1 ELSE 0)
HeldTries(k)   == {p \in Holding(k) \X (1..(MaxTry + 1)) : p[2] <= TriesLeft(p[1], k)}
QueuedTries(k) == {p \in Queued(k) \X (1..(MaxTry + 1)) : p[2] <= TriesOf(log[p[1]])}
Tries(k) == attempts[k] + Cardinality(HeldTries(k)) + Cardinality(QueuedTries(k))

\* A step without a fault only hands a notification on; a fault adds one hand,
\* with all its tries.  A SENT document, or one about to be, has its own POST.
CountInv ==
    \A k \in Key :
        /\ IsFiniteSet(Holding(k)) /\ IsFiniteSet(Saving(k))
        /\ Held(k) <= 1 + faults
        /\ Cardinality(Saving(k)) + IsIn(k, "SENT") <= accepted[k]
        /\ Tries(k) <= (MaxTry + 1) * (1 + faults)

\* What a listener at work, a document and a history presuppose.
WorkInv ==
    /\ \A s \in owning : stage[s] # "idle"
    /\ \A s \in Listener : stage[s] \notin {"idle", "send"} => Rec(s).topic = "core"
    /\ \A s \in Listener : \A t \in Tpp :
          stage[s] = "send" /\ branch[s][t] = "find" => docs[KeyOf(s, t)] # "none"
    /\ \A k \in Key :
          docs[k] # "none" \/ accepted[k] > 0 \/ attempts[k] > 0 =>
              \E i \in DOMAIN log : log[i].msg = k[1]

(* The inductive invariant: the three arguments together.                  *)
IInv == CoverInv /\ AttemptsInv /\ WorkInv /\ CountInv

-----------------------------------------------------------------------------
(* Liveness.                                                               *)

(* Every record is committed in the end: no listener is stuck for ever and *)
(* chains of retries come to an end.                                       *)
BacklogDrains == <>[](committed = DOMAIN log)

(* A persisted notification reaches SENT or ERROR, unless it was left out  *)
(* by a later lookup of the consents.                                      *)
EveryNotificationSettles ==
    \A k \in Key :
        docs[k] = "IN_PROCESS" ~> docs[k] \in Terminal \/ k \in omitted

-----------------------------------------------------------------------------
(* Refinement: the pipeline implements NotificationPromise.  It is in      *)
(* charge of a notification while an uncommitted record is about it.       *)

Owed     == {k \in Key : \E i \in DOMAIN log \ committed : k \in Targets(log[i])}
Notified == {k \in Key : accepted[k] > 0}

Promise == INSTANCE NotificationPromise
               WITH doc <- docs, owed <- Owed, waived <- omitted, notified <- Notified

(* Every step of the pipeline is a step the promise allows, or leaves its  *)
(* view unchanged: in particular a commit only ever discharges completed   *)
(* or waived notifications.                                                *)
ImplementsPromise == Promise!PSpec

=============================================================================
