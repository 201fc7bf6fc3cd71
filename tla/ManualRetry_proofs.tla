-------------------------- MODULE ManualRetry_proofs --------------------------
(* No notification is lost with manual retries either: for any number of   *)
(* messages, TPPs, listeners and requests, every retry limit and number of *)
(* faults.  Types and what the pipeline does come from Delivery_proofs.    *)
EXTENDS ManualRetry, Delivery_proofs

USE DeliveryAssumption

Claimed == {"config", "publish", "release"}

-----------------------------------------------------------------------------
(* What stays covered.                                                     *)

\* RCoveredAfter in the next state, for a position and a key of this one.
RCoveredNext(i, k) ==
    \/ CoveredNext(i, k)
    \/ \E r \in Request : wanted'[r] = k /\ pc'[r] \in Claimed
    \/ k \in stranded'

\* What every step preserves.
RAdvance ==
    /\ \A i \in DOMAIN log : \A k \in Key : RCoveredAfter(i, k) => RCoveredNext(i, k)
    /\ omitted \subseteq omitted'
    /\ DOMAIN log \subseteq DOMAIN log'
    /\ \A i \in DOMAIN log : log'[i] = log[i]

\* A document appears only for a key that has a record.
NewDocsHaveRecord ==
    \A k \in Key : docs'[k] # "none" =>
        docs[k] # "none" \/ \E i \in DOMAIN log : k \in Targets(log[i])

(* The pipeline's steps but the commit.                                    *)
LEMMA PipelineAdvances ==
    ASSUME TypeInv, Advance, committed' = committed, UNCHANGED requestVars
    PROVE  RAdvance
<1> SUFFICES ASSUME NEW i \in DOMAIN log, NEW k \in Key, RCoveredAfter(i, k)
             PROVE  RCoveredNext(i, k)
  BY DEF RAdvance, Advance
<1>1. CASE CoveredAfter(i, k)
  BY <1>1, CoverStable DEF RCoveredNext
<1>2. CASE InCharge(k) # {} \/ k \in stranded
  BY <1>2 DEF InCharge, Claimed, RCoveredNext, requestVars
<1> QED
  BY <1>1, <1>2 DEF RCoveredAfter

(* A listener that rests.                                                  *)
LEMMA RListenerStable ==
    ASSUME TypeInv, RAdvance, NEW s \in Listener, RListenerInv(s), Rests(s)
    PROVE  RListenerInv(s)'
<1> SUFFICES ASSUME stage[s] # "idle" PROVE RListenerInv(s)'
  BY DEF RListenerInv, Rests
<1>1. /\ offset[s] \in DOMAIN log /\ offset'[s] = offset[s] /\ Rec(s)' = Rec(s)
      /\ stage'[s] = stage[s] /\ branch'[s] = branch[s]
      /\ Rec(s) \in Record
      /\ \A t \in Tpp : KeyOf(s, t) \in Key /\ KeyOf(s, t)' = KeyOf(s, t)
  BY RecordFacts DEF TypeInv, TypeOK, HoldsRecord, RAdvance, Rests, Rec, KeyOf
<1>2. \A k \in Key : RCoveredAfter(offset[s], k) => RCoveredNext(offset[s], k)
  BY <1>1 DEF RAdvance
<1>3. Targets(Rec(s)) \subseteq Key /\ Targets(Rec(s))' = Targets(Rec(s))
  BY <1>1, TargetsFacts DEF Targets
<1>4. (\A k \in Targets(Rec(s)) : RCoveredAfter(offset[s], k))
          => \A k \in Targets(Rec(s)) : RCoveredNext(offset[s], k)
  BY <1>2, <1>3
<1>5. stage[s] = "processed" => (\A k \in Targets(Rec(s)) : RCoveredAfter(offset[s], k))'
  BY <1>1, <1>3, <1>4 DEF RListenerInv, RCoveredNext, RCoveredAfter, CoveredNext, CoveredAfter,
                          InCharge, Claimed
<1>6. ASSUME NEW t \in Tpp, RBranchInv(s, t) PROVE RBranchInv(s, t)'
  <2>1. branch[s][t] = "done" => RCoveredNext(offset[s], KeyOf(s, t))
    BY <1>1, <1>2, <1>6 DEF RBranchInv
  <2>2. branch'[s][t] = "done" => RCoveredAfter(offset[s], KeyOf(s, t))'
    BY <1>1, <2>1 DEF RCoveredNext, RCoveredAfter, CoveredNext, CoveredAfter, InCharge, Claimed
  <2>3. omitted \subseteq omitted'
    BY DEF RAdvance
  <2> QED
    BY <1>1, <1>3, <1>6, <2>2, <2>3 DEF RBranchInv
<1> QED
  BY <1>1, <1>5, <1>6 DEF RListenerInv

(* Committed records, as long as no offset is committed.                   *)
LEMMA RCommittedStable ==
    ASSUME TypeInv, RAdvance, RCommittedIsCovered, committed' = committed
    PROVE  RCommittedIsCovered'
<1> SUFFICES ASSUME NEW i \in committed, NEW k \in Targets(log'[i]) PROVE RCoveredNext(i, k)
  BY DEF RCommittedIsCovered, RCoveredNext, RCoveredAfter, CoveredNext, CoveredAfter,
         InCharge, Claimed
<1>1. i \in DOMAIN log /\ log'[i] = log[i] /\ log[i] \in Record
  BY DEF TypeInv, TypeOK, RAdvance
<1>2. k \in Key /\ RCoveredAfter(i, k)
  BY <1>1, TargetsFacts DEF RCommittedIsCovered
<1> QED
  BY <1>1, <1>2 DEF RAdvance

LEMMA RecordsRemain ==
    ASSUME RAdvance, DocumentHasRecord, NewDocsHaveRecord
    PROVE  DocumentHasRecord'
<1> SUFFICES ASSUME NEW k \in Key, docs'[k] # "none"
             PROVE  \E i \in DOMAIN log' : k \in Targets(log'[i])
  BY DEF DocumentHasRecord
<1>1. PICK i \in DOMAIN log : k \in Targets(log[i])
  BY DEF DocumentHasRecord, NewDocsHaveRecord
<1> QED
  BY <1>1 DEF RAdvance

-----------------------------------------------------------------------------
(* The pipeline's steps: the moves of the listener that makes one.         *)

\* The branch of a TPP is the record's when the TPP is one of its targets.
LEMMA TargetOfRecord ==
    ASSUME TypeInv, NEW s \in Listener, stage[s] # "idle"
    PROVE  /\ Rec(s).topic = "core" => \A t \in Tpp : KeyOf(s, t) \in Targets(Rec(s))
           /\ Rec(s).topic = "notifyError" =>
                 \A t \in Tpp : KeyOf(s, t) \in Targets(Rec(s)) <=> Rec(s).tpp = t
           /\ \A k \in Targets(Rec(s)) : \E t \in Tpp : k = KeyOf(s, t)
           /\ Targets(Rec(s)) \subseteq Key
           /\ Rec(s).topic \in {"core", "notifyError"}
<1>1. Rec(s) \in Record /\ Rec(s).msg \in Message
  BY RecordFacts
<1>2. CASE Rec(s).topic = "core"
  BY <1>1, <1>2, TargetsFacts DEF KeyOf
<1>3. CASE Rec(s).topic = "notifyError"
  <2>1. Targets(Rec(s)) = {<<Rec(s).msg, Rec(s).tpp>>} /\ Rec(s).tpp \in Tpp
    BY <1>1, <1>3, TargetsFacts, RecordFacts
  <2> QED
    BY <1>1, <1>3, <2>1, TargetsFacts DEF KeyOf
<1> QED
  BY <1>1, <1>2, <1>3, RecordFacts

(* The listener begins its record, or begins it again.                     *)
LEMMA StartInv ==
    ASSUME TypeInv', NEW s \in Listener, stage'[s] # "idle",
           stage'[s] = StartStage(Rec(s))', branch'[s] = StartBranches(Rec(s))'
    PROVE  RListenerInv(s)'
<1>1. /\ Rec(s)'.topic = "core" => \A t \in Tpp : KeyOf(s, t)' \in Targets(Rec(s))'
      /\ Rec(s)'.topic = "notifyError" =>
            \A t \in Tpp : KeyOf(s, t)' \in Targets(Rec(s))' <=> Rec(s)'.tpp = t
      /\ Rec(s)'.topic \in {"core", "notifyError"}
  <2>1. PICK r \in Record : r = Rec(s)'
    BY DEF TypeInv, TypeOK, HoldsRecord, Rec
  <2>2. \A t \in Tpp : KeyOf(s, t)' = <<r.msg, t>>
    BY <2>1 DEF KeyOf
  <2>3. /\ r.topic = "core" => Targets(r) = {r.msg} \X Tpp
        /\ r.topic = "notifyError" => Targets(r) = {<<r.msg, r.tpp>>}
    BY <2>1, TargetsFacts
  <2>4. r.topic \in {"core", "notifyError"} /\ Targets(Rec(s))' = Targets(r)
    BY <2>1 DEF Record, CoreRecord, RetryRecord, Targets
  <2>5. r.topic = "core" => \A t \in Tpp : KeyOf(s, t)' \in Targets(Rec(s))'
    BY <2>2, <2>3, <2>4
  <2>6. r.topic = "notifyError" =>
            \A t \in Tpp : KeyOf(s, t)' \in Targets(Rec(s))' <=> r.tpp = t
    BY <2>2, <2>3, <2>4
  <2> QED
    BY <2>1, <2>4, <2>5, <2>6
<1>2. CASE Rec(s)'.topic = "core"
  BY <1>2 DEF RListenerInv, StartStage
<1>3. CASE Rec(s)'.topic = "notifyError"
  <2>1. \A t \in Tpp : branch'[s][t] = IF Rec(s)'.tpp = t THEN "token" ELSE "off"
    BY <1>3 DEF StartBranches
  <2>2. \A t \in Tpp : RBranchInv(s, t)'
    BY <1>1, <1>3, <2>1 DEF RBranchInv
  <2> QED
    BY <1>3, <2>2 DEF RListenerInv, StartStage
<1> QED
  BY <1>1, <1>2, <1>3

(* The record again in place, or a core record's requeue.                  *)
LEMMA RRestartInv ==
    ASSUME TypeInv, TypeInv', RAdvance, NEW s \in Listener, stage[s] # "idle",
           RetryInPlace(s) \/ OtherError(s)
    PROVE  RListenerInv(s)' /\ \A x \in Listener \ {s} : Rests(x)
<1>1. \A x \in Listener \ {s} : Rests(x)
  BY DEF RetryInPlace, OtherError, Rests, TypeInv, TypeOK
<1>2. Rec(s)' = Rec(s)
  BY DEF TypeInv, HoldsRecord, RetryInPlace, OtherError, RAdvance, Rec
<1>3. CASE RetryInPlace(s)
  <2>1. stage'[s] = StartStage(Rec(s)) /\ branch'[s] = StartBranches(Rec(s))
        /\ stage'[s] # "idle"
    BY <1>3 DEF RetryInPlace, TypeInv, TypeOK, StartStage
  <2>2. stage'[s] = StartStage(Rec(s))' /\ branch'[s] = StartBranches(Rec(s))'
    BY <1>2, <2>1 DEF StartStage, StartBranches
  <2> QED
    BY <1>1, <2>1, <2>2, StartInv
<1>4. CASE Rec(s).topic = "core" /\ OtherError(s)
  <2>1. stage'[s] = "requeue"
    BY <1>4 DEF OtherError, TypeInv, TypeOK
  <2> QED
    BY <1>1, <1>2, <1>4, <2>1 DEF RListenerInv
<1> QED
  BY <1>3, <1>4 DEF OtherError

(* One branch moves on.                                                    *)
LEMMA RGotoInv ==
    ASSUME TypeInv, RAdvance, NEW s \in Listener, RListenerInv(s),
           NEW t \in Tpp, NEW to \in BranchPc,
           stage[s] = "send", branch[s][t] # "off", Goto(s, t, to), to # "off",
           to = "done" => CoveredNext(offset[s], KeyOf(s, t))
    PROVE  RListenerInv(s)' /\ \A x \in Listener \ {s} : Rests(x)
<1>1. /\ offset[s] \in DOMAIN log /\ offset'[s] = offset[s] /\ Rec(s)' = Rec(s)
      /\ stage'[s] = "send" /\ Rec(s) \in Record
      /\ \A u \in Tpp : KeyOf(s, u) \in Key /\ KeyOf(s, u)' = KeyOf(s, u)
      /\ Targets(Rec(s))' = Targets(Rec(s))
  BY RecordFacts DEF TypeInv, TypeOK, HoldsRecord, RAdvance, Goto, Rec, KeyOf, Targets
<1>2. /\ \A x \in Listener \ {s} : Rests(x)
      /\ branch'[s][t] = to
      /\ \A u \in Tpp \ {t} : branch'[s][u] = branch[s][u]
  BY DEF Goto, Rests, TypeInv, TypeOK
<1>3. ASSUME NEW u \in Tpp PROVE RBranchInv(s, u)'
  <2>1. RCoveredNext(offset[s], KeyOf(s, u)) => RCoveredAfter(offset[s], KeyOf(s, u))'
    BY <1>1 DEF RCoveredNext, RCoveredAfter, CoveredNext, CoveredAfter, InCharge, Claimed
  <2>2. RBranchInv(s, u)
    BY DEF RListenerInv
  <2>3. CASE u = t
    BY <1>1, <1>2, <2>1, <2>2, <2>3 DEF RBranchInv, RCoveredNext
  <2>4. CASE u # t
    <3>1. branch[s][u] = "done" => RCoveredNext(offset[s], KeyOf(s, u))
      BY <1>1, <2>2 DEF RBranchInv, RAdvance
    <3>2. omitted \subseteq omitted'
      BY DEF RAdvance
    <3> QED
      BY <1>1, <1>2, <2>1, <2>2, <2>4, <3>1, <3>2 DEF RBranchInv
  <2> QED
    BY <2>3, <2>4
<1> QED
  BY <1>1, <1>2, <1>3 DEF RListenerInv

\* What the pipeline's part of the invariant becomes.
RPipelineInv ==
    (\A s \in Listener : RListenerInv(s)) /\ RCommittedIsCovered /\ DocumentHasRecord

(* One listener at most moves, and nothing is committed.                   *)
LEMMA OneMoves ==
    ASSUME TypeInv, RPipelineInv, RAdvance, committed' = committed, NewDocsHaveRecord,
           \A x \in Listener : Rests(x) \/ RListenerInv(x)'
    PROVE  RPipelineInv'
<1>1. \A x \in Listener : RListenerInv(x)'
  BY RListenerStable DEF RPipelineInv
<1> QED
  BY <1>1, RCommittedStable, RecordsRemain DEF RPipelineInv

(* Records that arrive, are polled or are given up.                        *)
LEMMA RKafkaStepInv ==
    ASSUME TypeInv, TypeInv', RPipelineInv, UNCHANGED requestVars,
           \/ \E m \in Message : Arrive(m) \/ ArriveAgain(m)
           \/ \E s \in Listener : Crash(s) \/ Rebalance(s)
           \/ \E s \in Listener : \E i \in DOMAIN log : Poll(s, i) \/ PollStale(s, i)
    PROVE  RPipelineInv'
<1> USE DEF storeVars, kafkaVars, listenerVars, historyVars
<1>0. TypeOK
  BY DEF TypeInv
<1>1. ASSUME NEW m \in Message, Arrive(m) \/ ArriveAgain(m) PROVE RPipelineInv'
  <2>1. Core(m, 0) \in Record
    BY DEF Core, Record, CoreRecord
  <2>2. /\ Publish(Core(m, 0)) /\ UNCHANGED <<storeVars, listenerVars>>
        /\ UNCHANGED <<omitted, accepted>>
    BY <1>1 DEF Arrive, ArriveAgain
  <2>3. Advance /\ committed' = committed
    BY <2>1, <2>2, PublishType DEF Advance
  <2>4. RAdvance
    BY <2>3, PipelineAdvances
  <2>5. NewDocsHaveRecord /\ \A x \in Listener : Rests(x)
    BY <2>2 DEF NewDocsHaveRecord, Rests
  <2> QED
    BY <2>3, <2>4, <2>5, OneMoves
<1>2. ASSUME NEW s \in Listener, Crash(s) \/ Rebalance(s) PROVE RPipelineInv'
  <2>1. UNCHANGED <<docs, log, committed, omitted, accepted>>
    BY <1>2 DEF Crash, Rebalance
  <2>2. Advance /\ NewDocsHaveRecord
    BY <2>1 DEF Advance, NewDocsHaveRecord
  <2>3. RAdvance
    BY <2>1, <2>2, PipelineAdvances
  <2>4. CASE Crash(s)
    <3>1. stage'[s] = "idle" /\ \A x \in Listener \ {s} : Rests(x)
      BY <1>0, <2>4 DEF Crash, Leave, Rests, TypeOK
    <3> QED
      BY <2>1, <2>2, <2>3, <3>1, OneMoves DEF RListenerInv
  <2>5. CASE Rebalance(s)
    BY <2>1, <2>2, <2>3, <2>5, OneMoves DEF Rebalance, Rests
  <2> QED
    BY <1>2, <2>4, <2>5
<1>3. ASSUME NEW s \in Listener, NEW i \in DOMAIN log, Poll(s, i) \/ PollStale(s, i)
      PROVE  RPipelineInv'
  <2>1. UNCHANGED <<docs, log, committed, omitted, accepted>>
    BY <1>3 DEF Poll, PollStale, Take
  <2>2. Advance /\ NewDocsHaveRecord
    BY <2>1 DEF Advance, NewDocsHaveRecord
  <2>3. RAdvance
    BY <2>1, <2>2, PipelineAdvances
  <2>4. \A x \in Listener \ {s} : Rests(x)
    BY <1>0, <1>3 DEF Poll, PollStale, Take, Rests, TypeOK
  <2>5. /\ Rec(s)' = log[i] /\ stage'[s] # "idle"
        /\ stage'[s] = StartStage(log[i]) /\ branch'[s] = StartBranches(log[i])
    BY <1>0, <1>3, <2>1 DEF Poll, PollStale, Take, TypeOK, Rec, StartStage
  <2>6. stage'[s] = StartStage(Rec(s))' /\ branch'[s] = StartBranches(Rec(s))'
    BY <2>5 DEF StartStage, StartBranches
  <2>7. RListenerInv(s)'
    BY <2>5, <2>6, StartInv
  <2> QED
    BY <2>1, <2>2, <2>3, <2>4, <2>7, OneMoves
<1> QED
  BY <1>1, <1>2, <1>3

(* A listener that has completed leaves nothing of its record uncovered.   *)
LEMMA RCompleteCovers ==
    ASSUME TypeInv, NEW s \in Listener, RListenerInv(s), Complete(s)
    PROVE  \A k \in Targets(Rec(s)) : RCoveredAfter(offset[s], k)
<1>1. stage[s] # "idle"
  BY DEF Complete
<1>2. CASE stage[s] = "processed"
  BY <1>1, <1>2 DEF RListenerInv
<1>3. CASE stage[s] = "send" /\ \A t \in Tpp : branch[s][t] \in {"off", "done"}
  <2> SUFFICES ASSUME NEW k \in Targets(Rec(s)) PROVE RCoveredAfter(offset[s], k)
    OBVIOUS
  <2>1. PICK t \in Tpp : k = KeyOf(s, t)
    BY <1>1, TargetOfRecord
  <2>2. RBranchInv(s, t) /\ branch[s][t] \in {"off", "done"}
    BY <1>1, <1>3 DEF RListenerInv
  <2> QED
    BY <2>1, <2>2 DEF RBranchInv, RCoveredAfter, CoveredAfter
<1> QED
  BY <1>2, <1>3 DEF Complete

(* The commit.                                                             *)
LEMMA RAcknowledgeInv ==
    ASSUME TypeInv, TypeInv', RPipelineInv, UNCHANGED requestVars,
           NEW s \in Listener, Acknowledge(s)
    PROVE  RPipelineInv'
<1>0. /\ TypeOK /\ Complete(s) /\ RListenerInv(s)
      /\ UNCHANGED <<docs, log, omitted>> /\ UNCHANGED <<wanted, pc, answer, stranded>>
      /\ offset[s] \in DOMAIN log /\ Rec(s) \in Record
  BY RecordFacts
     DEF TypeInv, HoldsRecord, RPipelineInv, Acknowledge, Complete, storeVars, historyVars,
         requestVars
<1>1. \A k \in Targets(Rec(s)) : RCoveredAfter(offset[s], k)
  BY <1>0, RCompleteCovers
<1>2. committed' = committed \/ committed' = committed \cup {offset[s]}
  BY DEF Acknowledge
<1>3. ASSUME NEW k \in Key, docs[k] \in Terminal \/ k \in omitted \/ InCharge(k) # {} \/ k \in stranded,
             NEW i
      PROVE  RCoveredNext(i, k)
  BY <1>0, <1>3 DEF RCoveredNext, CoveredNext, InCharge, Claimed
<1>4. ASSUME NEW i \in DOMAIN log, NEW k \in Key, RCoveredAfter(i, k) PROVE RCoveredNext(i, k)
  <2>1. CASE \E j \in DOMAIN log \ committed : j > i /\ k \in Targets(log[j])
    <3>1. PICK j \in DOMAIN log \ committed : j > i /\ k \in Targets(log[j])
      BY <2>1
    <3>2. CASE j # offset[s]
      BY <1>0, <1>2, <3>1, <3>2 DEF RCoveredNext, CoveredNext
    <3>3. CASE j = offset[s]
      <4>1. RCoveredAfter(offset[s], k)
        BY <1>1, <3>1, <3>3 DEF Rec
      <4>2. CASE \E l \in DOMAIN log \ committed : l > offset[s] /\ k \in Targets(log[l])
        <5>1. PICK l \in DOMAIN log \ committed : l > offset[s] /\ k \in Targets(log[l])
          BY <4>2
        <5>2. l > i /\ l # offset[s]
          BY <1>0, <3>1, <3>3, <5>1 DEF TypeOK
        <5> QED
          BY <1>0, <1>2, <5>1, <5>2 DEF RCoveredNext, CoveredNext
      <4> QED
        BY <1>3, <4>1, <4>2 DEF RCoveredAfter, CoveredAfter
    <3> QED
      BY <3>2, <3>3
  <2> QED
    BY <1>3, <1>4, <2>1 DEF RCoveredAfter, CoveredAfter
<1>5. RAdvance
  BY <1>0, <1>4 DEF RAdvance
<1>6. ASSUME NEW x \in Listener PROVE RListenerInv(x)'
  <2>1. CASE x = s
    BY <1>0, <2>1 DEF Acknowledge, Leave, RListenerInv, TypeOK
  <2>2. CASE x # s
    <3>1. Rests(x)
      BY <1>0, <2>2 DEF Acknowledge, Leave, Rests, TypeOK
    <3> QED
      BY <1>0, <1>5, <3>1, RListenerStable DEF RPipelineInv
  <2> QED
    BY <2>1, <2>2
<1>7. RCommittedIsCovered'
  <2> SUFFICES ASSUME NEW i \in committed', NEW k \in Targets(log'[i]) PROVE RCoveredNext(i, k)
    BY DEF RCommittedIsCovered, RCoveredNext, RCoveredAfter, CoveredNext, CoveredAfter,
           InCharge, Claimed
  <2>1. i \in DOMAIN log /\ log'[i] = log[i] /\ log[i] \in Record
    BY <1>0, <1>2 DEF TypeOK
  <2>2. k \in Key /\ RCoveredAfter(i, k)
    BY <1>1, <1>2, <2>1, TargetsFacts DEF RPipelineInv, RCommittedIsCovered, Rec
  <2> QED
    BY <1>4, <2>1, <2>2
<1>8. DocumentHasRecord'
  BY <1>0 DEF RPipelineInv, DocumentHasRecord
<1> QED
  BY <1>6, <1>7, <1>8 DEF RPipelineInv

(* The other steps on a core record as a whole.                            *)
LEMMA RRecordStepInv ==
    ASSUME TypeInv, TypeInv', RPipelineInv, UNCHANGED requestVars,
           NEW s \in Listener, RecordStep(s)
    PROVE  RPipelineInv'
<1> USE DEF storeVars, kafkaVars, historyVars
<1>0. /\ TypeOK /\ RListenerInv(s) /\ stage[s] # "idle"
  BY DEF TypeInv, RPipelineInv, RecordStep, Resolve, ResolveFails, Requeue, RequeueFails,
         Acknowledge, Complete
<1>r. offset[s] \in DOMAIN log /\ Rec(s) \in Record
  BY <1>0, RecordFacts DEF TypeInv, HoldsRecord
<1>1. CASE Acknowledge(s)
  BY <1>1, RAcknowledgeInv
<1>2. CASE Resolve(s) \/ ResolveFails(s)
  <2>1. /\ UNCHANGED <<docs, log, committed, accepted, offset>>
        /\ stage[s] = "resolve" /\ omitted \subseteq omitted'
    BY <1>2 DEF Resolve, ResolveFails
  <2>2. Advance /\ NewDocsHaveRecord
    BY <2>1 DEF Advance, NewDocsHaveRecord
  <2>3. RAdvance
    BY <2>1, <2>2, PipelineAdvances
  <2>4. \A x \in Listener \ {s} : Rests(x)
    BY <1>0, <1>2 DEF Resolve, ResolveFails, Rests, TypeOK
  <2>5. /\ Rec(s)' = Rec(s) /\ Targets(Rec(s))' = Targets(Rec(s))
        /\ \A t \in Tpp : KeyOf(s, t)' = KeyOf(s, t)
        /\ Rec(s).topic = "core"
    BY <1>0, <2>1 DEF Rec, KeyOf, Targets, RListenerInv
  <2>6. RListenerInv(s)'
    <3>1. CASE ResolveFails(s)
      <4>1. stage'[s] = "requeue"
        BY <1>0, <3>1 DEF ResolveFails, TypeOK
      <4> QED
        BY <2>5, <4>1 DEF RListenerInv
    <3>2. CASE Resolve(s)
      <4>1. PICK T \in SUBSET Tpp :
               /\ stage' = [stage EXCEPT ![s] = "send"]
               /\ branch' = [branch EXCEPT ![s] =
                                [t \in Tpp |-> IF t \in T THEN "insert" ELSE "off"]]
               /\ omitted' = omitted \cup {KeyOf(s, t) : t \in Tpp \ T}
        BY <3>2 DEF Resolve
      <4>2. /\ stage'[s] = "send"
            /\ \A t \in Tpp : branch'[s][t] = IF t \in T THEN "insert" ELSE "off"
            /\ \A t \in Tpp \ T : KeyOf(s, t) \in omitted'
        BY <1>0, <4>1 DEF TypeOK
      <4>3. \A t \in Tpp : KeyOf(s, t) \in Targets(Rec(s))
        BY <1>0, <2>5, TargetOfRecord
      <4>4. ASSUME NEW t \in Tpp PROVE RBranchInv(s, t)'
        BY <2>5, <4>2, <4>3 DEF RBranchInv
      <4> QED
        BY <2>5, <4>2, <4>4 DEF RListenerInv
    <3> QED
      BY <1>2, <3>1, <3>2
  <2> QED
    BY <2>1, <2>2, <2>3, <2>4, <2>6, OneMoves
<1>3. CASE Requeue(s) \/ RequeueFails(s)
  <2> DEFINE n == NextRetry(Rec(s).retry)
             r == Core(Rec(s).msg, n)
  <2>1. /\ UNCHANGED <<docs, omitted, accepted>> /\ stage[s] = "requeue"
        /\ UNCHANGED kafkaVars \/ (~Exhausted(n) /\ Publish(r))
        /\ \/ RetryInPlace(s)
           \/ /\ ~Exhausted(n) /\ Publish(r)
              /\ stage' = [stage EXCEPT ![s] = "processed"]
              /\ UNCHANGED <<offset, owning, branch, settled>>
    BY <1>3 DEF Requeue, RequeueFails
  <2>2. n \in Nat
    BY <1>0, NextRetryType
  <2>3. ~Exhausted(n) => r \in Record
    BY <1>0, <2>2, ProducedType
  <2>4. r.topic = "core" /\ r.msg = Rec(s).msg
    BY DEF Core
  <2> HIDE DEF n, r
  <2>5. Advance /\ committed' = committed /\ NewDocsHaveRecord
    <3>1. CASE UNCHANGED kafkaVars
      BY <2>1, <3>1 DEF Advance, NewDocsHaveRecord
    <3>2. CASE ~Exhausted(n) /\ Publish(r)
      BY <2>1, <2>3, <3>2, PublishType DEF Advance, NewDocsHaveRecord
    <3> QED
      BY <2>1, <3>1, <3>2
  <2>6. RAdvance
    BY <2>5, PipelineAdvances
  <2>7. RListenerInv(s)' /\ \A x \in Listener \ {s} : Rests(x)
    <3>1. CASE RetryInPlace(s)
      BY <1>0, <2>6, <3>1, RRestartInv
    <3>2. CASE /\ ~Exhausted(n) /\ Publish(r)
               /\ stage' = [stage EXCEPT ![s] = "processed"]
               /\ UNCHANGED <<offset, owning, branch, settled>>
      <4>1. /\ stage'[s] = "processed" /\ \A x \in Listener \ {s} : Rests(x)
            /\ offset'[s] = offset[s] /\ Rec(s)' = Rec(s)
        BY <1>0, <1>r, <2>5, <3>2 DEF TypeOK, Rests, Advance, Rec
      <4>2. Rec(s).topic = "core" /\ Targets(Rec(s)) = Targets(r)
        BY <1>0, <1>r, <2>1, <2>3, <2>4, <3>2, TargetsFacts DEF RListenerInv
      <4>3. \A k \in Targets(Rec(s)) : CoveredNext(offset[s], k)
        BY <1>r, <2>3, <3>2, <4>2, PublishCovers
      <4>4. (\A k \in Targets(Rec(s)) : RCoveredAfter(offset[s], k))'
        BY <4>1, <4>3 DEF CoveredNext, CoveredAfter, RCoveredAfter, Targets
      <4> QED
        BY <4>1, <4>2, <4>4 DEF RListenerInv
    <3> QED
      BY <2>1, <3>1, <3>2
  <2> QED
    BY <2>5, <2>6, <2>7, OneMoves
<1> QED
  BY <1>1, <1>2, <1>3 DEF RecordStep

(* The steps on one TPP: what a branch that is done has left behind.       *)
LEMMA RBranchMoves ==
    ASSUME TypeInv, NEW s \in Listener, NEW t \in Tpp, BranchStep(s, t),
           KeyOf(s, t) \in Key,
           SetDoc(s, t, "SENT") \/ SetDoc(s, t, "ERROR") => docs'[KeyOf(s, t)] \in Terminal
    PROVE  LET n == NextRetry(SendRetry(s))
               r == Retry(Rec(s).msg, t, n)
           IN  /\ branch[s][t] # "off"
               /\ \/ RetryInPlace(s) \/ OtherError(s)
                  \/ \E to \in BranchPc :
                        /\ Goto(s, t, to) /\ to # "off"
                        /\ to = "done" => \/ docs'[KeyOf(s, t)] \in Terminal
                                          \/ ~Exhausted(n) /\ Publish(r)
<1> USE DEF storeVars, kafkaVars, historyVars, At, BranchPc
<1>1. CASE Insert(s, t) \/ InsertFails(s, t)
  BY <1>1 DEF Insert, InsertFails
<1>2. CASE Find(s, t) \/ FindFails(s, t)
  <2>1. docs[KeyOf(s, t)] \in DocState
    BY DEF TypeInv, TypeOK
  <2>2. CASE Find(s, t)
    BY <2>1, <2>2 DEF Find, Resumes, DocState, Terminal
  <2>3. CASE FindFails(s, t)
    BY <2>3 DEF FindFails
  <2> QED
    BY <1>2, <2>2, <2>3
<1>3. CASE GetToken(s, t) \/ GetTokenThrows(s, t)
  BY <1>3 DEF GetToken, GetTokenThrows
<1>4. CASE Post(s, t) \/ PostAnswerLost(s, t)
  BY <1>4 DEF Post, PostAnswerLost
<1>5. CASE SaveSent(s, t) \/ SaveSentFails(s, t)
  BY <1>5 DEF SaveSent, SaveSentFails
<1>6. CASE EnqueueNotify(s, t) \/ EnqueueNotifyFails(s, t)
  BY <1>6 DEF EnqueueNotify, EnqueueNotifyFails
<1> QED
  BY <1>1, <1>2, <1>3, <1>4, <1>5, <1>6 DEF BranchStep

LEMMA RBranchStepInv ==
    ASSUME TypeInv, TypeInv', RPipelineInv, UNCHANGED requestVars,
           NEW s \in Listener, NEW t \in Tpp, BranchStep(s, t)
    PROVE  RPipelineInv'
<1> DEFINE k == KeyOf(s, t)
           n == NextRetry(SendRetry(s))
           r == Retry(Rec(s).msg, t, n)
<1>0. /\ TypeOK /\ RListenerInv(s) /\ RBranchInv(s, t)
      /\ stage[s] = "send" /\ stage[s] # "idle" /\ offset[s] \in DOMAIN log
      /\ Rec(s) \in Record /\ k \in Key
  BY BranchStepShape, RecordFacts DEF TypeInv, RPipelineInv, RListenerInv, HoldsRecord
<1>1. n \in Nat /\ (~Exhausted(n) => r \in Record)
  BY <1>0, NextRetryType, ProducedType
<1>2. k \in Targets(r)
  BY DEF Retry, KeyOf, Targets
<1>3. /\ UNCHANGED kafkaVars \/ (~Exhausted(n) /\ Publish(r))
      /\ \/ docs' = docs
         \/ SetDoc(s, t, "IN_PROCESS") /\ docs[KeyOf(s, t)] = "none"
         \/ SetDoc(s, t, "SENT")
         \/ SetDoc(s, t, "ERROR")
      /\ omitted' = omitted
      /\ accepted' = accepted \/ CountPost(s, t)
  BY BranchStepEffect DEF kafkaVars
<1>4. /\ Advance /\ committed' = committed
      /\ SetDoc(s, t, "SENT") \/ SetDoc(s, t, "ERROR") => docs'[k] \in Terminal
  BY <1>0, <1>1, <1>3, BranchAdvance
<1>5. RAdvance
  BY <1>4, PipelineAdvances
<1>6. /\ branch[s][t] # "off"
      /\ \/ RetryInPlace(s) \/ OtherError(s)
         \/ \E to \in BranchPc :
               /\ Goto(s, t, to) /\ to # "off"
               /\ to = "done" => docs'[k] \in Terminal \/ (~Exhausted(n) /\ Publish(r))
  BY <1>0, <1>4, RBranchMoves
<1>7. ~Exhausted(n) /\ Publish(r) => CoveredNext(offset[s], k)
  BY <1>0, <1>1, <1>2, PublishCovers
<1>8. NewDocsHaveRecord
  <2>1. k \in Targets(log[offset[s]])
    BY <1>0, <1>6 DEF RBranchInv, Rec
  <2>2. \A j \in Key : j # k => docs'[j] = docs[j]
    BY <1>0, <1>3 DEF SetDoc, TypeOK
  <2> QED
    BY <1>0, <2>1, <2>2 DEF NewDocsHaveRecord
<1> HIDE DEF n, r
<1>9. RListenerInv(s)' /\ \A x \in Listener \ {s} : Rests(x)
  <2>1. CASE RetryInPlace(s) \/ OtherError(s)
    BY <1>0, <1>5, <2>1, RRestartInv
  <2>2. ASSUME NEW to \in BranchPc, Goto(s, t, to), to # "off",
               to = "done" => docs'[k] \in Terminal \/ (~Exhausted(n) /\ Publish(r))
        PROVE  RListenerInv(s)' /\ \A x \in Listener \ {s} : Rests(x)
    <3>1. to = "done" => CoveredNext(offset[s], KeyOf(s, t))
      BY <1>7, <2>2 DEF CoveredNext
    <3> QED
      BY <1>0, <1>5, <1>6, <2>2, <3>1, RGotoInv
  <2> QED
    BY <1>6, <2>1, <2>2
<1> QED
  BY <1>4, <1>5, <1>8, <1>9, OneMoves

(* The pipeline removes no document.                                       *)
LEMMA DocsStay ==
    ASSUME TypeInv, Next, NEW k \in Key, docs[k] # "none"
    PROVE  docs'[k] # "none"
<1> USE DEF storeVars
<1>1. CASE docs' = docs
  BY <1>1
<1>2. ASSUME NEW s \in Listener, NEW t \in Tpp, BranchStep(s, t) PROVE docs'[k] # "none"
  BY <1>2, BranchStepEffect DEF SetDoc, TypeInv, TypeOK
<1>3. ASSUME NEW s \in Listener, RecordStep(s) PROVE docs' = docs
  BY <1>3 DEF RecordStep, Resolve, ResolveFails, Requeue, RequeueFails, Acknowledge
<1>4. ASSUME NEW m \in Message, Arrive(m) \/ ArriveAgain(m) PROVE docs' = docs
  BY <1>4 DEF Arrive, ArriveAgain
<1>5. ASSUME NEW s \in Listener, NEW i \in DOMAIN log,
             Poll(s, i) \/ PollStale(s, i)
      PROVE  docs' = docs
  BY <1>5 DEF Poll, PollStale, Take
<1>6. ASSUME NEW s \in Listener, Crash(s) \/ Rebalance(s) PROVE docs' = docs
  BY <1>6 DEF Crash, Rebalance
<1> QED
  BY <1>1, <1>2, <1>3, <1>4, <1>5, <1>6 DEF Next

(* A step of the pipeline beside the requests.                             *)
LEMMA PipelineInv ==
    ASSUME RCoverInv, Next, UNCHANGED requestVars
    PROVE  RCoverInv'
<1>1. TypeInv /\ RPipelineInv /\ RTypeOK
  BY DEF RCoverInv, RTypeOK, TypeInv, RPipelineInv
<1>2. TypeInv'
  BY <1>1, TypeInvStep
<1>3. RPipelineInv'
  <2>1. CASE \/ \E m \in Message : Arrive(m) \/ ArriveAgain(m)
             \/ \E s \in Listener : Crash(s) \/ Rebalance(s)
             \/ \E s \in Listener : \E i \in DOMAIN log : Poll(s, i) \/ PollStale(s, i)
    BY <1>1, <1>2, <2>1, RKafkaStepInv
  <2>2. ASSUME NEW s \in Listener, RecordStep(s) PROVE RPipelineInv'
    BY <1>1, <1>2, <2>2, RRecordStepInv
  <2>3. ASSUME NEW s \in Listener, NEW t \in Tpp, BranchStep(s, t) PROVE RPipelineInv'
    BY <1>1, <1>2, <2>3, RBranchStepInv
  <2> QED
    BY <2>1, <2>2, <2>3 DEF Next
<1>4. RTypeOK'
  BY <1>1, <1>2 DEF RTypeOK, TypeInv, requestVars
<1>5. ClaimHasDocument'
  BY <1>1, DocsStay DEF RCoverInv, RTypeOK, ClaimHasDocument, requestVars
<1> QED
  BY <1>2, <1>3, <1>4, <1>5 DEF RCoverInv, TypeInv, RPipelineInv

-----------------------------------------------------------------------------
(* The requests.                                                           *)

\* What every step of request r does: it writes the document it names, which
\* is there if it had or gets the claim; a record it publishes is about that
\* document; and what it no longer holds is completed, published or stranded.
Requests(r) ==
    LET k == wanted[r]
    IN  /\ UNCHANGED <<committed, listenerVars, omitted, accepted, attempts, wanted>>
        /\ \E p \in RequestPc : pc' = [pc EXCEPT ![r] = p]
        /\ \E a \in Answer : answer' = [answer EXCEPT ![r] = a]
        /\ docs' = docs \/ \E state \in DocState \ {"none"} : SetWanted(r, state) /\ docs[k] # "none"
        /\ log' = log \/ Publish(RetryFromStart(r))
        /\ stranded' = stranded \/ stranded' = stranded \cup {k}
        /\ faults' = faults \/ Fault
        /\ docs[k] \in Terminal =>
              docs'[k] \in Terminal \/ pc'[r] \in Claimed \/ k \in stranded'
        /\ pc[r] \in Claimed =>
              \/ pc'[r] \in Claimed \/ k \in stranded' \/ docs'[k] \in Terminal
              \/ Publish(RetryFromStart(r))
        /\ pc'[r] \in Claimed => docs'[k] # "none"

(* Each of them.                                                           *)
LEMMA RequestSteps ==
    ASSUME RCoverInv, NEW r \in Request, RequestStep(r)
    PROVE  Requests(r)
<1> DEFINE k == wanted[r]
<1>1. /\ k \in Key /\ docs[k] \in DocState /\ docs \in [Key -> DocState]
      /\ pc \in [Request -> RequestPc] /\ answer \in [Request -> Answer]
      /\ committed \in SUBSET (DOMAIN log)
      /\ pc[r] \in Claimed => docs[k] # "none"
      /\ answer = [answer EXCEPT ![r] = answer[r]] /\ answer[r] \in Answer
  BY DEF RCoverInv, RTypeOK, TypeOK, ClaimHasDocument, Claimed
<1>2. \A state : SetWanted(r, state) => docs'[k] = state
  BY <1>1 DEF SetWanted
<1>3. \A p \in RequestPc : pc' = [pc EXCEPT ![r] = p] => pc'[r] = p
  BY <1>1
<1> USE DEF pipelineVars, GoOn, Reply, Claimed, Terminal, DocState, RequestPc, Answer
<1>4. CASE Claim(r)
  BY <1>1, <1>2, <1>3, <1>4 DEF Claim, Requests
<1>5. CASE ClaimFails(r)
  BY <1>1, <1>2, <1>3, <1>5 DEF ClaimFails, Requests
<1>6. CASE Exists(r) \/ ExistsFails(r)
  BY <1>1, <1>2, <1>3, <1>6 DEF Exists, ExistsFails, Requests
<1>7. CASE GetConfig(r)
  BY <1>1, <1>2, <1>3, <1>7 DEF GetConfig, Requests
<1>8. CASE PublishRetry(r) \/ PublishRetryAnswerLost(r)
  BY <1>1, <1>2, <1>3, <1>8 DEF PublishRetry, PublishRetryAnswerLost, Requests, Publish
<1>9. CASE PublishRetryRefused(r)
  BY <1>1, <1>2, <1>3, <1>9 DEF PublishRetryRefused, Requests
<1>10. CASE Release(r)
  BY <1>1, <1>2, <1>3, <1>10 DEF Release, Requests
<1>11. CASE ReleaseFails(r)
  BY <1>1, <1>2, <1>3, <1>11 DEF ReleaseFails, Requests
<1>12. CASE Abandon(r)
  BY <1>1, <1>2, <1>3, <1>12 DEF Abandon, Requests
<1> QED
  BY <1>4, <1>5, <1>6, <1>7, <1>8, <1>9, <1>10, <1>11, <1>12 DEF RequestStep

(* A request keeps covered what it takes over, and hands it on.            *)
LEMMA RequestInv ==
    ASSUME RCoverInv, NEW r \in Request, RequestStep(r)
    PROVE  RCoverInv'
<1> DEFINE k == wanted[r]
           rec == RetryFromStart(r)
<1>0. /\ TypeInv /\ TypeOK /\ RPipelineInv /\ RTypeOK /\ Requests(r)
      /\ k \in Key /\ docs \in [Key -> DocState]
  <2>1. TypeInv /\ TypeOK /\ RPipelineInv /\ RTypeOK
    BY DEF RCoverInv, RTypeOK, TypeInv, RPipelineInv
  <2>2. k \in Key /\ docs \in [Key -> DocState]
    BY <2>1 DEF RTypeOK, TypeOK
  <2>3. Requests(r)
    BY RequestSteps
  <2> QED
    BY <2>1, <2>2, <2>3
<1>1. /\ UNCHANGED <<committed, listenerVars, omitted, accepted, attempts, wanted>>
      /\ \E p \in RequestPc : pc' = [pc EXCEPT ![r] = p]
      /\ \E a \in Answer : answer' = [answer EXCEPT ![r] = a]
      /\ docs' = docs \/ \E state \in DocState \ {"none"} : SetWanted(r, state) /\ docs[k] # "none"
      /\ log' = log \/ Publish(rec)
      /\ stranded' = stranded \/ stranded' = stranded \cup {k}
      /\ faults' = faults \/ Fault
  BY <1>0 DEF Requests
<1>2. rec \in Record /\ k \in Targets(rec)
  <2>1. k = <<k[1], k[2]>> /\ k[1] \in Message /\ k[2] \in Tpp
    BY <1>0 DEF Key
  <2> QED
    BY <2>1 DEF RetryFromStart, Retry, Record, RetryRecord, Targets
<1> HIDE DEF rec
<1>3. /\ log' \in Seq(Record) /\ committed' \in SUBSET (DOMAIN log')
      /\ DOMAIN log \subseteq DOMAIN log' /\ \A i \in DOMAIN log : log'[i] = log[i]
  <2>1. CASE log' = log
    BY <1>0, <1>1, <2>1 DEF TypeOK
  <2>2. CASE Publish(rec)
    BY <1>0, <1>2, <2>2, PublishType
  <2> QED
    BY <1>1, <2>1, <2>2
<1>4. docs' \in [Key -> DocState] /\ \A j \in Key : j # k => docs'[j] = docs[j]
  BY <1>0, <1>1 DEF SetWanted
<1>5. \A j \in Key : (docs'[j] # "none") = (docs[j] # "none")
  <2>1. CASE docs' = docs
    BY <2>1
  <2>2. CASE docs' # docs
    <3>1. PICK state \in DocState \ {"none"} : SetWanted(r, state) /\ docs[k] # "none"
      BY <1>1, <2>2
    <3>2. docs'[k] = state
      BY <1>0, <3>1 DEF SetWanted
    <3>3. TAKE j \in Key
    <3>4. CASE j = k
      BY <3>1, <3>2, <3>4
    <3>5. CASE j # k
      BY <1>4, <3>5
    <3> QED
      BY <3>4, <3>5
  <2> QED
    BY <2>1, <2>2
<1>6. TypeInv'
  <2>1. ListenersOK' /\ NoNewWork
    BY <1>0, <1>1 DEF TypeOK, ListenersOK, NoNewWork, listenerVars
  <2>2. faults' \in 0..MaxFaults
    BY <1>0, <1>1, FaultType DEF TypeOK
  <2> QED
    BY <1>0, <1>1, <1>3, <1>4, <2>1, <2>2, TypeInvParts DEF TypeOK
<1>7. RTypeOK'
  <2>1. stranded' \in SUBSET Key
    BY <1>0, <1>1 DEF RTypeOK
  <2>2. pc' \in [Request -> RequestPc] /\ answer' \in [Request -> Answer]
    BY <1>0, <1>1 DEF RTypeOK
  <2> QED
    BY <1>0, <1>1, <1>6, <2>1, <2>2 DEF RTypeOK, TypeInv
<1>8. \A x \in Request \ {r} : pc'[x] = pc[x]
  BY <1>0, <1>1 DEF RTypeOK
<1>9. ASSUME NEW i \in DOMAIN log, NEW j \in Key, RCoveredAfter(i, j)
      PROVE  RCoveredNext(i, j)
  <2>1. CASE j \in omitted \/ j \in stranded
    BY <1>1, <2>1 DEF RCoveredNext, CoveredNext
  <2>2. CASE \E l \in DOMAIN log \ committed : l > i /\ j \in Targets(log[l])
    BY <1>1, <1>3, <2>2 DEF RCoveredNext, CoveredNext
  <2>3. CASE docs[j] \in Terminal
    <3>1. CASE j = k
      BY <1>0, <1>1, <2>3, <3>1 DEF Requests, RCoveredNext, CoveredNext
    <3>2. CASE j # k
      BY <1>4, <2>3, <3>2 DEF RCoveredNext, CoveredNext
    <3> QED
      BY <3>1, <3>2
  <2>4. CASE InCharge(j) # {}
    <3>1. PICK x \in Request : wanted[x] = j /\ pc[x] \in Claimed
      BY <2>4 DEF InCharge, Claimed
    <3>2. CASE x # r
      BY <1>1, <1>8, <3>1, <3>2 DEF RCoveredNext
    <3>3. CASE x = r
      <4>1. j = k
        BY <3>1, <3>3
      <4>2. \/ pc'[r] \in Claimed \/ k \in stranded' \/ docs'[k] \in Terminal
            \/ Publish(rec)
        BY <1>0, <3>1, <3>3 DEF Requests, rec
      <4>3. CASE Publish(rec)
        BY <1>0, <1>2, <4>1, <4>3, PublishCovers DEF RCoveredNext
      <4> QED
        BY <1>1, <4>1, <4>2, <4>3 DEF RCoveredNext, CoveredNext
    <3> QED
      BY <3>2, <3>3
  <2> QED
    BY <1>9, <2>1, <2>2, <2>3, <2>4 DEF RCoveredAfter, CoveredAfter
<1>10. RAdvance
  BY <1>1, <1>3, <1>9 DEF RAdvance
<1>11. RPipelineInv'
  <2>1. NewDocsHaveRecord
    BY <1>5 DEF NewDocsHaveRecord
  <2>2. \A x \in Listener : Rests(x)
    BY <1>1 DEF Rests, listenerVars
  <2> QED
    BY <1>0, <1>1, <1>10, <2>1, <2>2, OneMoves
<1>12. ClaimHasDocument'
  <2>1. \A x \in Request : pc'[x] \in Claimed => docs'[wanted[x]] # "none"
    <3> SUFFICES ASSUME NEW x \in Request, pc'[x] \in Claimed PROVE docs'[wanted[x]] # "none"
      OBVIOUS
    <3>1. CASE x = r
      BY <1>0, <3>1 DEF Requests
    <3>2. CASE x # r
      BY <1>0, <1>5, <1>8, <3>2 DEF RCoverInv, RTypeOK, ClaimHasDocument, Claimed
    <3> QED
      BY <3>1, <3>2
  <2> QED
    BY <1>1, <2>1 DEF ClaimHasDocument, Claimed
<1> QED
  BY <1>6, <1>7, <1>11, <1>12 DEF RCoverInv, TypeInv, RPipelineInv

-----------------------------------------------------------------------------
LEMMA RCoverInit ==
    ASSUME RInit
    PROVE  RCoverInv
<1>1. TypeInv
  BY TypeInvInit DEF RInit
<1>2. RTypeOK
  BY <1>1 DEF RInit, RTypeOK, TypeInv, RequestPc, Answer
<1>3. RPipelineInv /\ ClaimHasDocument
  BY DEF RInit, Init, RPipelineInv, RListenerInv, RCommittedIsCovered, DocumentHasRecord,
         ClaimHasDocument
<1> QED
  BY <1>1, <1>2, <1>3 DEF RCoverInv, TypeInv, RPipelineInv

LEMMA RCoverStep ==
    ASSUME RCoverInv, [RNext]_rvars
    PROVE  RCoverInv'
<1>1. CASE Next /\ UNCHANGED requestVars
  BY <1>1, PipelineInv
<1>2. ASSUME NEW r \in Request, RequestStep(r) PROVE RCoverInv'
  BY <1>2, RequestInv
<1>3. CASE UNCHANGED rvars
  <2>1. UNCHANGED vars /\ UNCHANGED requestVars
    BY <1>3 DEF rvars
  <2>2. TypeInv /\ TypeInv' /\ RPipelineInv /\ RTypeOK /\ ClaimHasDocument
    BY <2>1, TypeInvStep DEF RCoverInv, RTypeOK, TypeInv, RPipelineInv
  <2>3. RAdvance
    <3>1. Advance /\ committed' = committed
      BY <2>1 DEF vars, Advance
    <3> QED
      BY <2>1, <2>2, <3>1, PipelineAdvances
  <2>4. RPipelineInv'
    BY <2>1, <2>2, <2>3, OneMoves DEF vars, Rests, NewDocsHaveRecord
  <2> QED
    BY <2>1, <2>2, <2>4 DEF RCoverInv, RTypeOK, TypeInv, RPipelineInv, ClaimHasDocument,
                            vars, requestVars
<1> QED
  BY <1>1, <1>2, <1>3 DEF RNext

(* RCoverInv is an invariant: between its claim and its publication a      *)
(* request stands in for the record that carries a notification.           *)
THEOREM RCovered == RSpec => []RCoverInv
  BY RCoverInit, RCoverStep, PTL DEF RSpec

(* A notification is lost only by a fault that strands it: what is         *)
(* IN_PROCESS has an uncommitted record or a request that carries it on.   *)
THEOREM Carried == RSpec => []InProcessIsCarried
<1>1. RCoverInv => InProcessIsCarried
  <2> SUFFICES ASSUME RCoverInv, NEW k \in Key, docs[k] = "IN_PROCESS"
               PROVE  \/ \E i \in DOMAIN log \ committed : k \in Targets(log[i])
                      \/ InCharge(k) # {}
                      \/ k \in omitted \cup stranded
    BY DEF InProcessIsCarried
  <2>1. PICK i \in DOMAIN log : k \in Targets(log[i])
    BY DEF RCoverInv, DocumentHasRecord
  <2>2. i \in committed => RCoveredAfter(i, k)
    BY <2>1 DEF RCoverInv, RCommittedIsCovered
  <2> QED
    BY <2>1, <2>2 DEF RCoveredAfter, CoveredAfter, Terminal
<1> QED
  BY <1>1, RCovered, PTL

=============================================================================
