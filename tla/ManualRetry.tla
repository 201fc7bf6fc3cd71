----------------------------- MODULE ManualRetry -----------------------------
(***************************************************************************)
(* The manual retry of a failed notification beside the delivery pipeline: *)
(* NotifyServiceImpl.retryFailedMessage, behind the HTTP endpoint, for     *)
(* concurrent requests.                                                    *)
(*                                                                         *)
(*   claim    ERROR -> IN_PROCESS, one atomic findAndModify                *)
(*   config   the TPP's configuration                                      *)
(*   publish  a notify-error record with retry count 0                     *)
(*   release  IN_PROCESS -> ERROR when config or publish failed            *)
(*                                                                         *)
(* The module extends Delivery: requests and listeners write the same      *)
(* documents and publish on the same topic.  Between its claim and its     *)
(* publication a request is the only one in charge of the notification,    *)
(* and nothing but its own memory says so.                                 *)
(***************************************************************************)
EXTENDS Delivery

CONSTANT Request   \* the HTTP requests

VARIABLES
    wanted,   \* [Request -> Key]: the notification a request names
    pc,       \* [Request -> RequestPc]
    answer,   \* [Request -> Answer]
    stranded  \* history: keys a fault has left claimed with nobody in charge

requestVars == <<wanted, pc, answer, stranded>>
rvars == <<vars, requestVars>>

RequestPc == {"claim", "exists", "config", "publish", "release", "answered"}
Answer    == {"none", "accepted", "conflict", "notFound", "badGateway",
              "unavailable", "error"}

\* What no step of a request touches.
pipelineVars == <<committed, listenerVars, omitted, accepted, attempts>>

GoOn(r, step) ==
    /\ pc' = [pc EXCEPT ![r] = step]
    /\ UNCHANGED answer

\* The error is kept while the claim is released.
Reply(r, step, a) ==
    /\ pc' = [pc EXCEPT ![r] = step]
    /\ answer' = [answer EXCEPT ![r] = a]

SetWanted(r, state) == docs' = [docs EXCEPT ![wanted[r]] = state]

RetryFromStart(r) == Retry(wanted[r][1], wanted[r][2], 0)

-----------------------------------------------------------------------------
\* claimErroredMessage: of several requests one finds the document in ERROR.
ClaimAnyState(r) ==
    /\ pc[r] = "claim"
    /\ IF docs[wanted[r]] # "none"
       THEN SetWanted(r, "IN_PROCESS") /\ GoOn(r, "config")
       ELSE UNCHANGED docs /\ GoOn(r, "exists")
    /\ UNCHANGED <<pipelineVars, log, faults, wanted, stranded>>
Claim(r) ==
    /\ pc[r] = "claim"
    /\ IF docs[wanted[r]] = "ERROR"
       THEN SetWanted(r, "IN_PROCESS") /\ GoOn(r, "config")
       ELSE UNCHANGED docs /\ GoOn(r, "exists")
    /\ UNCHANGED <<pipelineVars, log, faults, wanted, stranded>>

\* The claim fails, applied or not: it lies outside the error handler that
\* releases.
ClaimFails(r) ==
    /\ pc[r] = "claim"
    /\ Fault
    /\ \/ UNCHANGED <<docs, stranded>>
       \/ /\ docs[wanted[r]] = "ERROR"
          /\ SetWanted(r, "IN_PROCESS")
          /\ stranded' = stranded \cup {wanted[r]}
    /\ Reply(r, "answered", "error")
    /\ UNCHANGED <<pipelineVars, log, wanted>>

\* Nothing claimed: 409 if the document exists, 404 if not.
Exists(r) ==
    /\ pc[r] = "exists"
    /\ Reply(r, "answered",
             IF docs[wanted[r]] # "none" THEN "conflict" ELSE "notFound")
    /\ UNCHANGED <<pipelineVars, docs, log, faults, wanted, stranded>>

\* The lookup fails: unlike the claim it is not tried again.
ExistsFails(r) ==
    /\ pc[r] = "exists"
    /\ Fault
    /\ Reply(r, "answered", "error")
    /\ UNCHANGED <<pipelineVars, docs, log, wanted, stranded>>

\* The configuration is there and is the TPP's; or it is missing, another
\* TPP's, or cannot be had.
GetConfigNoRelease(r) ==
    /\ pc[r] = "config"
    /\ GoOn(r, "publish") \/ Reply(r, "answered", "badGateway")
    /\ UNCHANGED <<pipelineVars, docs, log, faults, wanted, stranded>>
GetConfig(r) ==
    /\ pc[r] = "config"
    /\ GoOn(r, "publish") \/ Reply(r, "release", "badGateway")
    /\ UNCHANGED <<pipelineVars, docs, log, faults, wanted, stranded>>

\* publishManualRetry: the retry count starts again from 0.
PublishRetry(r) ==
    /\ pc[r] = "publish"
    /\ log' = Append(log, RetryFromStart(r))
    /\ Reply(r, "answered", "accepted")
    /\ UNCHANGED <<pipelineVars, docs, faults, wanted, stranded>>

\* The broker does not take the record.
PublishRetryRefused(r) ==
    /\ pc[r] = "publish"
    /\ Reply(r, "release", "unavailable")
    /\ UNCHANGED <<pipelineVars, docs, log, faults, wanted, stranded>>

\* The broker takes the record and the producer does not learn it.
PublishRetryAnswerLost(r) ==
    /\ pc[r] = "publish"
    /\ Fault
    /\ log' = Append(log, RetryFromStart(r))
    /\ Reply(r, "release", "unavailable")
    /\ UNCHANGED <<pipelineVars, docs, wanted, stranded>>

\* releaseManualRetryClaim: by state only, whoever has put it there.
Release(r) ==
    /\ pc[r] = "release"
    /\ IF docs[wanted[r]] = "IN_PROCESS" THEN SetWanted(r, "ERROR") ELSE UNCHANGED docs
    /\ GoOn(r, "answered")
    /\ UNCHANGED <<pipelineVars, log, faults, wanted, stranded>>

\* The release fails: it is logged and the request answers its first error.
ReleaseFails(r) ==
    /\ pc[r] = "release"
    /\ Fault
    /\ \/ UNCHANGED docs /\ stranded' = stranded \cup {wanted[r]}
       \/ /\ docs[wanted[r]] = "IN_PROCESS"
          /\ SetWanted(r, "ERROR")
          /\ UNCHANGED stranded
    /\ GoOn(r, "answered")
    /\ UNCHANGED <<pipelineVars, log, wanted>>

\* The pod stops, or the caller hangs up and the request is cancelled.
Abandon(r) ==
    /\ pc[r] \in {"config", "publish", "release"}
    /\ Fault
    /\ stranded' = stranded \cup {wanted[r]}
    /\ Reply(r, "answered", "error")
    /\ UNCHANGED <<pipelineVars, docs, log, wanted>>

-----------------------------------------------------------------------------
RInit ==
    /\ Init
    /\ wanted \in [Request -> Key]
    /\ pc = [r \in Request |-> "claim"]
    /\ answer = [r \in Request |-> "none"]
    /\ stranded = {}

RequestStep(r) ==
    \/ Claim(r) \/ ClaimFails(r) \/ Exists(r) \/ ExistsFails(r) \/ GetConfig(r)
    \/ PublishRetry(r) \/ PublishRetryRefused(r) \/ PublishRetryAnswerLost(r)
    \/ Release(r) \/ ReleaseFails(r) \/ Abandon(r)

RNext ==
    \/ Next /\ UNCHANGED requestVars
    \/ \E r \in Request : RequestStep(r)

RSpec == RInit /\ [][RNext]_rvars

\* The pipeline's fairness, and a request that has claimed goes on.
Pipeline(A) == A /\ UNCHANGED requestVars

RFairness ==
    /\ \A s \in Listener :
          /\ WF_rvars(Pipeline(\E i \in DOMAIN log : Poll(s, i)))
          /\ SF_rvars(Pipeline(Resolve(s)))
          /\ WF_rvars(Pipeline(RecordStep(s)))
          /\ \A t \in Tpp : WF_rvars(Pipeline(BranchStep(s, t)))
    /\ \A r \in Request : WF_rvars(pc[r] # "claim" /\ RequestStep(r))

RLiveSpec == RSpec /\ RFairness

-----------------------------------------------------------------------------
(* Who can still change the outcome of a notification.                     *)

InCharge(k) == {r \in Request : wanted[r] = k /\ pc[r] \in {"config", "publish", "release"}}

\* The listeners that are sending it.
Sending(k) ==
    {s \in Listener :
        /\ stage[s] = "send"
        /\ Rec(s).msg = k[1]
        /\ branch[s][k[2]] \in {"token", "post", "save", "enqueue"}}

\* Its records on the notify-error topic that no listener has begun.
Waiting(k) ==
    {i \in DOMAIN log \ committed :
        /\ log[i].topic = "notifyError" /\ k \in Targets(log[i])
        /\ \A s \in Listener : stage[s] = "idle" \/ offset[s] # i}

RTypeOK ==
    /\ TypeOK
    /\ wanted \in [Request -> Key]
    /\ pc \in [Request -> RequestPc]
    /\ answer \in [Request -> Answer]
    /\ stranded \in SUBSET Key

(* A notification is in at most one hand, a request's, a listener's or the *)
(* topic's, and in at most one more for each fault: the claim is atomic,   *)
(* and a claim and a chain of retries exclude each other.                  *)
OneHandAtATime ==
    \A k \in Key :
        Cardinality(InCharge(k)) + Cardinality(Sending(k)) + Cardinality(Waiting(k))
            <= 1 + faults

(* A document in state IN_PROCESS is always in somebody's charge: a record *)
(* still to be committed or a request, or a lookup has left it out, or a   *)
(* failed claim, a failed release or an abandoned request has stranded it. *)
(* There is no other way to lose a notification, also after manual retries.*)
InProcessIsCarried ==
    \A k \in Key :
        docs[k] = "IN_PROCESS" =>
            \/ \E i \in DOMAIN log \ committed : k \in Targets(log[i])
            \/ InCharge(k) # {}
            \/ k \in omitted \cup stranded

(* Manual retries do not notify twice: a TPP takes a notification once,    *)
(* plus at most once for each fault, whatever the number of requests.      *)
ManualRetriesNotifyOnce == \A k \in Key : accepted[k] <= 1 + faults

(* A SENT document stays SENT as long as nothing has failed: neither a     *)
(* claim nor the listener it races against overwrites it.                  *)
SentIsFinal ==
    [][\A k \in Key : faults' = 0 /\ docs[k] = "SENT" => docs'[k] = "SENT"]_rvars

(* As long as nothing has failed, a request whose configuration or         *)
(* publication fails leaves its document in ERROR, as it found it: the     *)
(* release finds the state its own claim has left.                         *)
FailedRequestRestoresError ==
    [][\A r \in Request :
          faults' = 0 /\ pc[r] = "release" /\ pc'[r] = "answered" =>
              docs'[wanted[r]] = "ERROR"]_rvars

(* A claimed notification settles again, unless it is stranded.            *)
EveryClaimSettles ==
    \A k \in Key :
        docs[k] = "IN_PROCESS" ~> docs[k] \in Terminal \/ k \in omitted \cup stranded

-----------------------------------------------------------------------------
(* The inductive invariant.  InProcessIsCarried: CommittedIsCovered        *)
(* of the pipeline does not survive manual retries, since a claim reopens  *)
(* a document whose records are all committed: the request that has        *)
(* claimed it, or the fault that has stranded it, stands in for a record.  *)

RCoveredAfter(i, k) == CoveredAfter(i, k) \/ InCharge(k) # {} \/ k \in stranded

RBranchInv(s, t) ==
    /\ KeyOf(s, t) \in Targets(Rec(s)) =>
          branch[s][t] # "off" \/ KeyOf(s, t) \in omitted
    /\ branch[s][t] # "off" => KeyOf(s, t) \in Targets(Rec(s))
    /\ branch[s][t] = "done" => RCoveredAfter(offset[s], KeyOf(s, t))

RListenerInv(s) ==
    stage[s] # "idle" =>
        /\ Rec(s).topic = "core" \/ stage[s] = "send"
        /\ stage[s] = "processed" =>
              \A k \in Targets(Rec(s)) : RCoveredAfter(offset[s], k)
        /\ stage[s] = "send" => \A t \in Tpp : RBranchInv(s, t)

RCommittedIsCovered ==
    \A i \in committed : \A k \in Targets(log[i]) : RCoveredAfter(i, k)

\* A document was inserted for a record, and a request has claimed a document.
DocumentHasRecord ==
    \A k \in Key : docs[k] # "none" => \E i \in DOMAIN log : k \in Targets(log[i])
ClaimHasDocument == \A r \in Request :
    pc[r] \in {"config", "publish", "release"} => docs[wanted[r]] # "none"

(* These parts hold together in every reachable state.                     *)
RCoverInv ==
    /\ RTypeOK /\ HoldsRecord
    /\ \A s \in Listener : RListenerInv(s)
    /\ RCommittedIsCovered /\ DocumentHasRecord /\ ClaimHasDocument

\* A request in charge is one more hand from which a send can come: it has
\* taken ERROR away, and gives it back or publishes a record.
RCountInv ==
    \A k \in Key :
        /\ IsFiniteSet(Holding(k)) /\ IsFiniteSet(Saving(k)) /\ IsFiniteSet(InCharge(k))
        /\ Held(k) + Cardinality(InCharge(k)) <= 1 + faults
        /\ Cardinality(Saving(k)) + IsIn(k, "SENT") <= accepted[k]

\* What is sent again, or is about to be sent or recorded, has its document.
BranchHasDocument(s, t) ==
    stage[s] = "send" /\ branch[s][t] \in {"token", "post", "save", "enqueue"} =>
        docs[KeyOf(s, t)] # "none"
RDocInv == RetryHasDocument /\ \A s \in Listener : \A t \in Tpp : BranchHasDocument(s, t)

(* The inductive invariant: the arguments together.                        *)
RInv == RCoverInv /\ WorkInv /\ RCountInv /\ RDocInv

-----------------------------------------------------------------------------
(* Refinement: pipeline and requests together implement RetryPromise.  The *)
(* service is in charge of a notification while an uncommitted record is   *)
(* about it or a request has claimed it.                                   *)

ROwed == Owed \cup {k \in Key : InCharge(k) # {}}

Pledge == INSTANCE RetryPromise
              WITH doc <- docs, owed <- ROwed, waived <- omitted \cup stranded,
                   notified <- Notified

(* Every step, of a request or of a listener, keeps what is promised with  *)
(* manual retries: a claim opens only a document in ERROR and takes charge *)
(* of it in the same step, and neither a request nor a commit lets go of   *)
(* a notification that is not completed, left out or stranded by a fault.  *)
ImplementsRetryPromise == Pledge!RetrySpec

=============================================================================
