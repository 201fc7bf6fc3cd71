--------------------------- MODULE Delivery_proofs ---------------------------
(***************************************************************************)
(* Theorems about Delivery, for every set of messages, TPPs and listeners, *)
(* every MaxTry and every number of faults.                                *)
(***************************************************************************)
EXTENDS Delivery, TLAPS

USE DeliveryAssumption

-----------------------------------------------------------------------------
(* Types.                                                                  *)

\* What Append does to a log and to the records already on it.
LEMMA AppendFacts ==
    ASSUME NEW S, NEW q \in Seq(S), NEW r \in S
    PROVE  /\ Append(q, r) \in Seq(S)
           /\ Len(Append(q, r)) = Len(q) + 1
           /\ DOMAIN q = 1..Len(q)
           /\ DOMAIN Append(q, r) = 1..(Len(q) + 1)
           /\ \A i \in DOMAIN q : Append(q, r)[i] = q[i]
           /\ Append(q, r)[Len(q) + 1] = r
  OBVIOUS

\* A record of the log is a record, with a message and a retry count in range.
LEMMA RecordFacts ==
    ASSUME TypeInv, NEW s \in Listener, stage[s] # "idle"
    PROVE  /\ Rec(s) \in Record
           /\ Rec(s).msg \in Message
           /\ Rec(s).retry \in 0..MaxTry
           /\ Rec(s).topic \in {"core", "notifyError"}
           /\ Rec(s).topic = "notifyError" => Rec(s).tpp \in Tpp
           /\ \A t \in Tpp : KeyOf(s, t) \in Key
           /\ SendRetry(s) \in 0..MaxTry
           /\ StartStage(Rec(s)) \in Stage
  <1>1. Rec(s) \in Record
    BY DEF TypeInv, TypeOK, HoldsRecord, Rec
  <1>2. /\ Rec(s).msg \in Message
        /\ Rec(s).retry \in 0..MaxTry
        /\ Rec(s).topic \in {"core", "notifyError"}
        /\ Rec(s).topic = "notifyError" => Rec(s).tpp \in Tpp
    BY <1>1 DEF Record, CoreRecord, RetryRecord
  <1>3. QED
    BY <1>1, <1>2 DEF KeyOf, Key, SendRetry, StartStage, Stage

\* The branches a record starts with are branches.
LEMMA StartBranchesType ==
    ASSUME NEW r
    PROVE  StartBranches(r) \in [Tpp -> BranchPc] /\ NoBranches \in [Tpp -> BranchPc]
  BY DEF StartBranches, NoBranches, BranchPc


\* The listeners' part of TypeOK.
ListenersOK ==
    /\ stage \in [Listener -> Stage]
    /\ offset \in [Listener -> Nat]
    /\ owning \in SUBSET Listener
    /\ branch \in [Listener -> [Tpp -> BranchPc]]
    /\ settled \in [Listener -> SUBSET Tpp]

\* No listener takes up another record.
NoNewWork ==
    \A x \in Listener : stage'[x] # "idle" => stage[x] # "idle" /\ offset'[x] = offset[x]

\* The ways in which a step moves the listener that makes it.
LEMMA GotoType ==
    ASSUME TypeInv, NEW s \in Listener, NEW t \in Tpp, NEW pc \in BranchPc, Goto(s, t, pc)
    PROVE  ListenersOK' /\ NoNewWork
  BY DEF TypeInv, TypeOK, Goto, ListenersOK, NoNewWork

LEMMA RetryInPlaceType ==
    ASSUME TypeInv, NEW s \in Listener, stage[s] # "idle", RetryInPlace(s)
    PROVE  ListenersOK' /\ NoNewWork
  BY RecordFacts, StartBranchesType
     DEF TypeInv, TypeOK, RetryInPlace, ListenersOK, NoNewWork

LEMMA OtherErrorType ==
    ASSUME TypeInv, NEW s \in Listener, stage[s] # "idle", OtherError(s)
    PROVE  ListenersOK' /\ NoNewWork
  <1>1. CASE Rec(s).topic = "core"
    BY <1>1, StartBranchesType
       DEF TypeInv, TypeOK, OtherError, ListenersOK, NoNewWork, Stage
  <1>2. CASE Rec(s).topic # "core"
    BY <1>2, RetryInPlaceType DEF OtherError
  <1>3. QED BY <1>1, <1>2

LEMMA LeaveType ==
    ASSUME TypeInv, NEW s \in Listener, Leave(s), owning' = owning \ {s}
    PROVE  ListenersOK' /\ NoNewWork
  BY StartBranchesType DEF TypeInv, TypeOK, Leave, ListenersOK, NoNewWork, Stage

\* What a publication does to the log.
LEMMA PublishType ==
    ASSUME TypeInv, NEW r \in Record, Publish(r)
    PROVE  /\ log' \in Seq(Record)
           /\ committed' \in SUBSET (DOMAIN log')
           /\ DOMAIN log \subseteq DOMAIN log'
           /\ \A i \in DOMAIN log : log'[i] = log[i]
           /\ Len(log') = Len(log) + 1 /\ DOMAIN log' = 1..(Len(log) + 1)
           /\ log'[Len(log) + 1] = r
           /\ committed' = committed
  BY AppendFacts DEF TypeInv, TypeOK, Publish

\* A producer's record: its retry count is not above MaxTry.
LEMMA ProducedType ==
    ASSUME TypeInv, NEW s \in Listener, stage[s] # "idle", NEW n, n \in Nat, ~Exhausted(n)
    PROVE  /\ Core(Rec(s).msg, n) \in Record
           /\ \A t \in Tpp : Retry(Rec(s).msg, t, n) \in Record
  BY RecordFacts DEF Exhausted, Core, Retry, Record, CoreRecord, RetryRecord

LEMMA NextRetryType ==
    ASSUME TypeInv, NEW s \in Listener, stage[s] # "idle"
    PROVE  NextRetry(Rec(s).retry) \in Nat /\ NextRetry(SendRetry(s)) \in Nat
  BY RecordFacts DEF NextRetry

\* The document and history parts of TypeOK under a write of the listener.
LEMMA SetDocType ==
    ASSUME TypeInv, NEW s \in Listener, NEW t \in Tpp, NEW state \in DocState,
           SetDoc(s, t, state)
    PROVE  docs' \in [Key -> DocState]
  BY DEF TypeInv, TypeOK, SetDoc

LEMMA CountType ==
    ASSUME TypeInv, NEW s \in Listener, stage[s] # "idle", NEW t \in Tpp
    PROVE  /\ CountAttempt(s, t) => attempts' \in [Key -> Nat]
           /\ CountPost(s, t) => accepted' \in [Key -> Nat]
  <1> DEFINE k == KeyOf(s, t)
  <1>1. k \in Key /\ attempts \in [Key -> Nat] /\ accepted \in [Key -> Nat]
    BY RecordFacts DEF TypeInv, TypeOK
  <1>2. attempts[k] + 1 \in Nat /\ accepted[k] + 1 \in Nat
    BY <1>1
  <1> HIDE DEF k
  <1>3. CountAttempt(s, t) => attempts' \in [Key -> Nat]
    BY <1>1, <1>2 DEF CountAttempt, k
  <1>4. CountPost(s, t) => accepted' \in [Key -> Nat]
    BY <1>1, <1>2 DEF CountPost, k
  <1>5. QED BY <1>3, <1>4

LEMMA FaultType ==
    ASSUME TypeInv, Fault
    PROVE  faults' \in 0..MaxFaults
  BY DEF TypeInv, TypeOK, Fault

\* TypeInv from its parts.
LEMMA TypeInvParts ==
    ASSUME TypeInv, ListenersOK', NoNewWork,
           docs' \in [Key -> DocState], log' \in Seq(Record),
           committed' \in SUBSET (DOMAIN log'), DOMAIN log \subseteq DOMAIN log',
           omitted' \in SUBSET Key, accepted' \in [Key -> Nat],
           attempts' \in [Key -> Nat], faults' \in 0..MaxFaults
    PROVE  TypeInv'
  <1>1. TypeOK'
    BY DEF TypeOK, ListenersOK
  <1>2. HoldsRecord'
    BY DEF HoldsRecord, NoNewWork, TypeInv
  <1>3. QED
    BY <1>1, <1>2 DEF TypeInv

\* What a step on one TPP can do, whichever step it is.
LEMMA BranchStepShape ==
    ASSUME TypeInv, NEW s \in Listener, NEW t \in Tpp, BranchStep(s, t)
    PROVE  /\ stage[s] # "idle" /\ stage[s] = "send"
           /\ (\E pc \in BranchPc : Goto(s, t, pc)) \/ RetryInPlace(s) \/ OtherError(s)
           /\ docs' = docs \/ (\E state \in DocState : SetDoc(s, t, state))
           /\ \/ UNCHANGED kafkaVars
              \/ \E n \in Nat : ~Exhausted(n) /\ Publish(Retry(Rec(s).msg, t, n))
           /\ omitted' = omitted
           /\ accepted' = accepted \/ CountPost(s, t)
           /\ attempts' = attempts \/ CountAttempt(s, t)
           /\ faults' = faults \/ Fault
  <1> USE DEF storeVars, kafkaVars, historyVars, At, BranchPc, DocState
  <1>1. CASE Insert(s, t) \/ InsertFails(s, t)
    BY <1>1 DEF Insert, InsertFails
  <1>2. CASE Find(s, t) \/ FindFails(s, t)
    BY <1>2 DEF Find, FindFails
  <1>3. CASE GetToken(s, t) \/ GetTokenThrows(s, t)
    BY <1>3 DEF GetToken, GetTokenThrows
  <1>4. CASE Post(s, t) \/ PostAnswerLost(s, t)
    BY <1>4 DEF Post, PostAnswerLost
  <1>5. CASE SaveSent(s, t) \/ SaveSentFails(s, t)
    BY <1>5 DEF SaveSent, SaveSentFails
  <1>6. CASE EnqueueNotify(s, t) \/ EnqueueNotifyFails(s, t)
    <2>1. stage[s] # "idle" /\ stage[s] = "send"
      BY <1>6 DEF EnqueueNotify, EnqueueNotifyFails
    <2>2. NextRetry(SendRetry(s)) \in Nat
      BY <2>1, NextRetryType
    <2>3. QED
      BY <1>6, <2>1, <2>2 DEF EnqueueNotify, EnqueueNotifyFails
  <1>7. QED
    BY <1>1, <1>2, <1>3, <1>4, <1>5, <1>6 DEF BranchStep

-----------------------------------------------------------------------------
LEMMA TypeInvInit == Init => TypeInv
  BY StartBranchesType
     DEF Init, TypeInv, TypeOK, HoldsRecord, Record, DocState, Stage

LEMMA TypeInvStep == TypeInv /\ [Next]_vars => TypeInv'
  <1> SUFFICES ASSUME TypeInv, [Next]_vars PROVE TypeInv'
    OBVIOUS
  <1> USE DEF storeVars, kafkaVars, listenerVars, historyVars
  <1>0. /\ TypeOK /\ ListenersOK
        /\ DOMAIN log \subseteq DOMAIN log
    BY DEF TypeInv, TypeOK, ListenersOK
  <1>1. ASSUME NEW m \in Message, Arrive(m) \/ ArriveAgain(m) PROVE TypeInv'
    <2>1. Core(m, 0) \in Record
      BY DEF Core, Record, CoreRecord
    <2>2. Publish(Core(m, 0)) /\ UNCHANGED <<storeVars, listenerVars>>
          /\ UNCHANGED <<omitted, accepted, attempts>> /\ faults' \in 0..MaxFaults
      BY <1>1, <1>0, FaultType DEF Arrive, ArriveAgain, TypeOK
    <2>3. ListenersOK' /\ NoNewWork
      BY <1>0, <2>2 DEF ListenersOK, NoNewWork
    <2>4. QED
      BY <1>0, <2>1, <2>2, <2>3, PublishType, TypeInvParts DEF TypeOK
  <1>2. ASSUME NEW s \in Listener, NEW i \in DOMAIN log, Poll(s, i) \/ PollStale(s, i) PROVE TypeInv'
    <2>1. log[i] \in Record /\ i \in Nat /\ StartStage(log[i]) \in Stage
      BY <1>0 DEF TypeOK, StartStage, Stage
    <2>2. Take(s, i) /\ owning' \in SUBSET Listener /\ faults' \in 0..MaxFaults
      BY <1>0, <1>2, FaultType DEF TypeOK, Poll, PollStale
    <2>3. stage' \in [Listener -> Stage] /\ offset' \in [Listener -> Nat]
      BY <1>0, <2>1, <2>2 DEF TypeOK, Take
    <2>4. branch' \in [Listener -> [Tpp -> BranchPc]]
          /\ settled' \in [Listener -> SUBSET Tpp]
      BY <1>0, <2>2, StartBranchesType DEF TypeOK, Take
    <2>5. HoldsRecord'
      BY <1>0, <2>2 DEF TypeInv, TypeOK, HoldsRecord, Take
    <2>6. QED
      BY <1>0, <2>2, <2>3, <2>4, <2>5 DEF TypeInv, TypeOK, Take
  <1>3. ASSUME NEW s \in Listener, Acknowledge(s) PROVE TypeInv'
    <2>1. stage[s] # "idle" /\ offset[s] \in DOMAIN log
      BY <1>3 DEF Acknowledge, Complete, TypeInv, HoldsRecord
    <2>2. committed' \in SUBSET (DOMAIN log')
      BY <1>0, <1>3, <2>1 DEF Acknowledge, TypeOK
    <2>3. ListenersOK' /\ NoNewWork
      BY <1>3, LeaveType DEF Acknowledge
    <2>4. QED
      BY <1>0, <1>3, <2>2, <2>3, TypeInvParts DEF Acknowledge, TypeOK
  <1>4. ASSUME NEW s \in Listener, Crash(s) PROVE TypeInv'
    <2>1. ListenersOK' /\ NoNewWork
      BY <1>4, LeaveType DEF Crash
    <2>2. QED
      BY <1>0, <1>4, <2>1, FaultType, TypeInvParts DEF Crash, TypeOK
  <1>5. ASSUME NEW s \in Listener, Rebalance(s) PROVE TypeInv'
    <2>1. ListenersOK' /\ NoNewWork
      BY <1>0, <1>5 DEF Rebalance, ListenersOK, NoNewWork
    <2>2. QED
      BY <1>0, <1>5, <2>1, FaultType, TypeInvParts DEF Rebalance, TypeOK
  <1>6. ASSUME NEW s \in Listener, Resolve(s) PROVE TypeInv'
    <2>1. stage[s] = "resolve"
      BY <1>6 DEF Resolve
    <2>2. PICK T \in SUBSET Tpp :
             /\ stage' = [stage EXCEPT ![s] = "send"]
             /\ branch' = [branch EXCEPT ![s] =
                              [t \in Tpp |-> IF t \in T THEN "insert" ELSE "off"]]
             /\ omitted' = omitted \cup {KeyOf(s, t) : t \in Tpp \ T}
      BY <1>6 DEF Resolve
    <2>3. [t \in Tpp |-> IF t \in T THEN "insert" ELSE "off"] \in [Tpp -> BranchPc]
      BY DEF BranchPc
    <2>4. ListenersOK' /\ NoNewWork
      BY <1>0, <1>6, <2>1, <2>2, <2>3 DEF Resolve, ListenersOK, NoNewWork, Stage
    <2>5. omitted' \in SUBSET Key
      <3>1. \A t \in Tpp : KeyOf(s, t) \in Key
        BY <2>1, RecordFacts
      <3>2. {KeyOf(s, t) : t \in Tpp \ T} \subseteq Key
        BY <3>1
      <3>3. QED
        BY <1>0, <2>2, <3>2 DEF TypeOK
    <2>6. QED
      BY <1>0, <1>6, <2>4, <2>5, TypeInvParts DEF Resolve, TypeOK
  <1>7. ASSUME NEW s \in Listener, ResolveFails(s) PROVE TypeInv'
    <2>1. ListenersOK' /\ NoNewWork
      BY <1>0, <1>7 DEF ResolveFails, ListenersOK, NoNewWork, Stage
    <2>2. QED
      BY <1>0, <1>7, <2>1, TypeInvParts DEF ResolveFails, TypeOK
  <1>8. ASSUME NEW s \in Listener, Requeue(s) \/ RequeueFails(s) PROVE TypeInv'
    <2> DEFINE n == NextRetry(Rec(s).retry)
    <2>1. stage[s] # "idle" /\ stage[s] = "requeue"
      BY <1>8 DEF Requeue, RequeueFails
    <2>2. n \in Nat
      BY <2>1, NextRetryType
    <2>3. docs' = docs /\ omitted' = omitted /\ accepted' = accepted
          /\ attempts' = attempts /\ faults' \in 0..MaxFaults
      BY <1>0, <1>8, FaultType DEF Requeue, RequeueFails, TypeOK
    <2>4. /\ RetryInPlace(s) \/ (/\ stage' = [stage EXCEPT ![s] = "processed"]
                                 /\ UNCHANGED <<offset, owning, branch, settled>>)
          /\ UNCHANGED kafkaVars \/ (~Exhausted(n) /\ Publish(Core(Rec(s).msg, n)))
      BY <1>8 DEF Requeue, RequeueFails
    <2>5. ListenersOK' /\ NoNewWork
      <3>1. CASE RetryInPlace(s)
        BY <2>1, <3>1, RetryInPlaceType
      <3>2. CASE /\ stage' = [stage EXCEPT ![s] = "processed"]
                 /\ UNCHANGED <<offset, owning, branch, settled>>
        BY <1>0, <2>1, <3>2 DEF ListenersOK, NoNewWork, Stage
      <3>3. QED BY <2>4, <3>1, <3>2
    <2>6. /\ log' \in Seq(Record) /\ committed' \in SUBSET (DOMAIN log')
          /\ DOMAIN log \subseteq DOMAIN log'
      <3>1. CASE UNCHANGED kafkaVars
        BY <1>0, <3>1 DEF TypeOK
      <3>2. CASE ~Exhausted(n) /\ Publish(Core(Rec(s).msg, n))
        BY <2>1, <2>2, <3>2, ProducedType, PublishType
      <3>3. QED BY <2>4, <3>1, <3>2
    <2>7. QED
      BY <1>0, <2>3, <2>5, <2>6, TypeInvParts DEF TypeOK
  <1>9. ASSUME NEW s \in Listener, NEW t \in Tpp, BranchStep(s, t) PROVE TypeInv'
    <2>1. stage[s] # "idle"
      BY <1>9, BranchStepShape
    <2>2. ListenersOK' /\ NoNewWork
      BY <1>9, <2>1, BranchStepShape, GotoType, RetryInPlaceType, OtherErrorType
    <2>3. docs' \in [Key -> DocState]
      BY <1>0, <1>9, BranchStepShape, SetDocType DEF TypeOK
    <2>4. /\ log' \in Seq(Record) /\ committed' \in SUBSET (DOMAIN log')
          /\ DOMAIN log \subseteq DOMAIN log'
      <3>1. CASE UNCHANGED kafkaVars
        BY <1>0, <3>1 DEF TypeOK
      <3>2. ASSUME NEW n \in Nat, ~Exhausted(n), Publish(Retry(Rec(s).msg, t, n))
            PROVE  /\ log' \in Seq(Record) /\ committed' \in SUBSET (DOMAIN log')
                   /\ DOMAIN log \subseteq DOMAIN log'
        BY <2>1, <3>2, ProducedType, PublishType
      <3>3. QED BY <1>9, <3>1, <3>2, BranchStepShape
    <2>5. /\ omitted' \in SUBSET Key /\ accepted' \in [Key -> Nat]
          /\ attempts' \in [Key -> Nat] /\ faults' \in 0..MaxFaults
      BY <1>0, <1>9, <2>1, BranchStepShape, CountType, FaultType DEF TypeOK
    <2>6. QED
      BY <2>2, <2>3, <2>4, <2>5, TypeInvParts
  <1>10. CASE UNCHANGED vars
    BY <1>0, <1>10 DEF TypeInv, TypeOK, HoldsRecord, vars
  <1>11. QED
    BY <1>1, <1>2, <1>3, <1>4, <1>5, <1>6, <1>7, <1>8, <1>9, <1>10
       DEF Next, RecordStep

(* Every reachable state of every instance is well typed: in particular no *)
(* record on either topic has a retry count above MaxTry.                  *)
THEOREM TypeCorrect == Spec => []TypeOK
  <1>1. Spec => []TypeInv
    BY TypeInvInit, TypeInvStep, PTL DEF Spec
  <1>2. TypeInv => TypeOK
    BY DEF TypeInv
  <1>3. QED
    BY <1>1, <1>2, PTL

-----------------------------------------------------------------------------
(* No notification is lost.                                                *)

\* What every step but a commit preserves: documents and histories only
\* advance, the log only grows, and no offset is committed.
Advance ==
    /\ \A k \in Key : /\ docs[k] # "none" => docs'[k] # "none"
                      /\ docs[k] \in Terminal => docs'[k] \in Terminal
                      /\ accepted[k] > 0 => accepted'[k] > 0
    /\ omitted \subseteq omitted'
    /\ DOMAIN log \subseteq DOMAIN log'
    /\ \A i \in DOMAIN log : log'[i] = log[i]

\* The listener x does not move.
Rests(x) ==
    /\ stage'[x] = stage[x] /\ offset'[x] = offset[x]
    /\ branch'[x] = branch[x] /\ settled'[x] = settled[x]

\* The keys a record is about.
LEMMA TargetsFacts ==
    ASSUME NEW r \in Record
    PROVE  /\ Targets(r) \subseteq Key
           /\ r.topic = "core" => Targets(r) = {r.msg} \X Tpp
           /\ r.topic = "notifyError" => Targets(r) = {<<r.msg, r.tpp>>}
           /\ \A k \in Targets(r) : k[1] = r.msg /\ k[2] \in Tpp /\ k = <<r.msg, k[2]>>
  BY DEF Targets, Record, CoreRecord, RetryRecord, Key

\* CoveredAfter in the next state, for a position and a key of this one.
CoveredNext(i, k) ==
    \/ docs'[k] \in Terminal
    \/ k \in omitted'
    \/ \E j \in DOMAIN log' \ committed' : j > i /\ k \in Targets(log'[j])

\* What covers a key still covers it, as long as nothing is committed.
LEMMA CoverStable ==
    ASSUME TypeInv, Advance, committed' = committed,
           NEW i, NEW k \in Key, CoveredAfter(i, k)
    PROVE  CoveredNext(i, k)
  BY DEF CoveredAfter, CoveredNext, Advance, TypeInv, TypeOK

\* The invariant of a listener that rests is preserved.
LEMMA ListenerStable ==
    ASSUME TypeInv, Advance, NEW s \in Listener, ListenerInv(s), Rests(s),
           \A i \in Nat : \A k \in Key : CoveredAfter(i, k) => CoveredNext(i, k)
    PROVE  ListenerInv(s)'
  <1> SUFFICES ASSUME stage[s] # "idle" PROVE ListenerInv(s)'
    BY DEF ListenerInv, Rests
  <1>1. /\ offset[s] \in DOMAIN log /\ offset[s] \in Nat /\ offset'[s] = offset[s]
        /\ Rec(s)' = Rec(s)
        /\ \A t \in Tpp : KeyOf(s, t)' = KeyOf(s, t)
        /\ Rec(s) \in Record /\ \A t \in Tpp : KeyOf(s, t) \in Key
    BY RecordFacts DEF TypeInv, TypeOK, HoldsRecord, Rests, Advance, Rec, KeyOf
  <1>2. settled[s] \in SUBSET Tpp
    BY DEF TypeInv, TypeOK
  <1>3. \A k \in Targets(Rec(s)) : k \in Key
    BY <1>1, TargetsFacts
  <1>4. ASSUME NEW t \in Tpp, BranchInv(s, t) PROVE BranchInv(s, t)'
    <2>1. /\ docs[KeyOf(s, t)] # "none" => docs'[KeyOf(s, t)] # "none"
          /\ accepted[KeyOf(s, t)] > 0 => accepted'[KeyOf(s, t)] > 0
          /\ KeyOf(s, t) \in omitted => KeyOf(s, t) \in omitted'
      BY <1>1 DEF Advance
    <2>2. CoveredAfter(offset[s], KeyOf(s, t)) => CoveredNext(offset[s], KeyOf(s, t))
      BY <1>1
    <2>3. CoveredNext(offset[s], KeyOf(s, t)) => CoveredAfter(offset[s], KeyOf(s, t))'
      BY <1>1 DEF CoveredNext, CoveredAfter
    <2>4. QED
      BY <1>1, <1>4, <2>1, <2>2, <2>3 DEF BranchInv, Rests
  <1>5. stage[s] = "processed" =>
            \A k \in Targets(Rec(s)) : CoveredAfter(offset[s], k)'
    <2> SUFFICES ASSUME stage[s] = "processed", NEW k \in Targets(Rec(s))
                 PROVE  CoveredAfter(offset[s], k)'
      OBVIOUS
    <2>1. CoveredNext(offset[s], k)
      BY <1>1, <1>3 DEF ListenerInv
    <2>2. QED
      BY <1>1, <2>1 DEF CoveredNext, CoveredAfter
  <1>6. /\ Rec(s).topic = "core" \/ stage[s] = "send"
        /\ stage[s] = "send" => \A t \in Tpp : BranchInv(s, t)'
        /\ \A t \in settled[s] : docs'[KeyOf(s, t)] \in Terminal
        /\ stage[s] = "send" /\ Rec(s).topic = "core" =>
              \A t \in settled[s] : branch[s][t] \in {"off", "insert", "find", "done"}
    BY <1>1, <1>2, <1>4 DEF ListenerInv, Advance
  <1>7. /\ stage'[s] = stage[s] /\ branch'[s] = branch[s] /\ settled'[s] = settled[s]
    BY DEF Rests
  <1>8. Targets(Rec(s))' = Targets(Rec(s))
    BY <1>1 DEF Targets
  <1>9. stage[s] = "processed" =>
            (\A k \in Targets(Rec(s)) : CoveredAfter(offset[s], k))'
    BY <1>5, <1>8
  <1>10. QED
    BY <1>1, <1>2, <1>6, <1>7, <1>9 DEF ListenerInv

\* Committed records stay covered when covers do.
LEMMA CoverCommitted ==
    ASSUME TypeInv, CommittedIsCovered, Advance, committed' = committed,
           \A i \in Nat : \A k \in Key : CoveredAfter(i, k) => CoveredNext(i, k)
    PROVE  CommittedIsCovered'
  <1> SUFFICES ASSUME NEW i \in committed, NEW k \in Targets(log'[i])
               PROVE  CoveredNext(i, k)
    BY DEF CommittedIsCovered, CoveredNext, CoveredAfter
  <1>1. i \in DOMAIN log /\ i \in Nat /\ log'[i] = log[i] /\ log[i] \in Record
    BY DEF TypeInv, TypeOK, Advance
  <1>2. k \in Key /\ CoveredAfter(i, k)
    BY <1>1, TargetsFacts DEF CommittedIsCovered
  <1>3. QED
    BY <1>1, <1>2

\* After a step of the listener s that commits nothing, the other listeners
\* and the committed records are still covered.
LEMMA OthersStable ==
    ASSUME CoverInv, Advance, committed' = committed, NEW s \in Listener,
           \A x \in Listener \ {s} : Rests(x), ListenerInv(s)'
    PROVE  (\A x \in Listener : ListenerInv(x)') /\ CommittedIsCovered'
  <1>1. \A i \in Nat : \A k \in Key : CoveredAfter(i, k) => CoveredNext(i, k)
    BY CoverStable DEF CoverInv
  <1>2. ASSUME NEW x \in Listener PROVE ListenerInv(x)'
    BY <1>1, <1>2, ListenerStable DEF CoverInv
  <1>3. CommittedIsCovered'
    BY <1>1, CoverCommitted DEF CoverInv
  <1>4. QED
    BY <1>2, <1>3

\* The records and the documents a step may leave.
LEMMA RecordsStable ==
    ASSUME CoverInv, Advance,
           UNCHANGED kafkaVars
           \/ \E r \in Record :
                 /\ Publish(r)
                 /\ r.topic = "notifyError" => docs'[<<r.msg, r.tpp>>] # "none"
    PROVE  RetryHasDocument'
  <1>1. \A i \in DOMAIN log : log[i].topic = "notifyError" =>
            docs'[<<log[i].msg, log[i].tpp>>] # "none"
    <2> SUFFICES ASSUME NEW i \in DOMAIN log, log[i].topic = "notifyError"
                 PROVE  docs'[<<log[i].msg, log[i].tpp>>] # "none"
      OBVIOUS
    <2>1. log[i] \in RetryRecord
      BY DEF CoverInv, TypeInv, TypeOK, Record, CoreRecord
    <2>2. <<log[i].msg, log[i].tpp>> \in Key
      BY <2>1 DEF RetryRecord, Key
    <2>3. QED
      BY <2>2 DEF CoverInv, RetryHasDocument, Advance
  <1>2. CASE UNCHANGED kafkaVars
    BY <1>1, <1>2 DEF RetryHasDocument, kafkaVars
  <1>3. ASSUME NEW r \in Record, Publish(r),
               r.topic = "notifyError" => docs'[<<r.msg, r.tpp>>] # "none"
        PROVE  RetryHasDocument'
    <2>1. /\ DOMAIN log = 1..Len(log) /\ DOMAIN log' = 1..(Len(log) + 1)
          /\ \A i \in DOMAIN log : log'[i] = log[i]
          /\ log'[Len(log) + 1] = r
          /\ Len(log) \in Nat
      BY <1>3, PublishType, AppendFacts DEF CoverInv, TypeInv, TypeOK
    <2>2. QED
      BY <1>1, <1>3, <2>1 DEF RetryHasDocument
  <1>4. QED
    BY <1>2, <1>3

\* RetryInPlace and OtherError start over: nothing is claimed any more.
LEMMA RestartInv ==
    ASSUME CoverInv, TypeInv', Advance, NEW s \in Listener, stage[s] # "idle",
           RetryInPlace(s) \/ OtherError(s)
    PROVE  ListenerInv(s)' /\ \A x \in Listener \ {s} : Rests(x)
  <1>1. /\ offset[s] \in DOMAIN log /\ offset[s] \in Nat /\ offset'[s] = offset[s]
        /\ Rec(s)' = Rec(s) /\ settled' = settled
        /\ \A t \in Tpp : KeyOf(s, t)' = KeyOf(s, t)
        /\ Rec(s) \in Record /\ \A t \in Tpp : KeyOf(s, t) \in Key
        /\ settled[s] \in SUBSET Tpp
    BY RecordFacts
       DEF CoverInv, TypeInv, TypeOK, HoldsRecord, RetryInPlace, OtherError, Advance, Rec, KeyOf
  <1>2. \A x \in Listener \ {s} : Rests(x)
    BY DEF RetryInPlace, OtherError, Rests, CoverInv, TypeInv, TypeOK
  <1>3. \A t \in settled[s] : docs'[KeyOf(s, t)] \in Terminal
    BY <1>1 DEF CoverInv, ListenerInv, Advance, TypeInv, TypeOK
  <1>4. CASE Rec(s).topic = "core"
    <2>1. stage'[s] \in {"resolve", "requeue"}
      BY <1>4 DEF CoverInv, TypeInv, TypeOK, RetryInPlace, OtherError, StartStage
    <2>2. QED
      BY <1>1, <1>2, <1>3, <1>4, <2>1 DEF ListenerInv
  <1>5. CASE Rec(s).topic = "notifyError"
    <2>1. stage'[s] = "send" /\ branch'[s] = StartBranches(Rec(s))
      BY <1>5 DEF CoverInv, TypeInv, TypeOK, RetryInPlace, OtherError, StartStage
    <2>2. docs[<<Rec(s).msg, Rec(s).tpp>>] # "none"
      BY <1>1, <1>5 DEF CoverInv, RetryHasDocument, Rec
    <2>3. ASSUME NEW t \in Tpp PROVE BranchInv(s, t)'
      <3>1. branch'[s][t] = IF Rec(s).tpp = t THEN "token" ELSE "off"
        BY <1>5, <2>1 DEF StartBranches
      <3>2. Rec(s).tpp = t => docs'[KeyOf(s, t)] # "none"
        BY <1>1, <2>2 DEF Advance, KeyOf
      <3>3. QED
        BY <1>1, <1>5, <3>1, <3>2 DEF BranchInv
    <2>4. QED
      BY <1>1, <1>2, <1>3, <1>5, <2>1, <2>3 DEF ListenerInv
  <1>6. QED
    BY <1>1, <1>4, <1>5 DEF Record, CoreRecord, RetryRecord

\* One branch moves to pc: what must hold there.
LEMMA GotoInv ==
    ASSUME CoverInv, TypeInv', Advance, committed' = committed,
           NEW s \in Listener, NEW t \in Tpp, NEW pc \in BranchPc,
           stage[s] = "send", Goto(s, t, pc), pc # "off",
           pc = "done" => CoveredNext(offset[s], KeyOf(s, t)),
           pc # "insert" => pc = "done" \/ docs'[KeyOf(s, t)] # "none",
           pc = "save" => accepted'[KeyOf(s, t)] > 0,
           Rec(s).topic = "core" /\ t \in settled[s] => pc \in {"insert", "find", "done"}
    PROVE  ListenerInv(s)' /\ \A x \in Listener \ {s} : Rests(x)
  <1>1. /\ offset[s] \in DOMAIN log /\ offset[s] \in Nat /\ offset'[s] = offset[s]
        /\ Rec(s)' = Rec(s) /\ settled' = settled /\ stage' = stage
        /\ \A u \in Tpp : KeyOf(s, u)' = KeyOf(s, u)
        /\ Rec(s) \in Record /\ \A u \in Tpp : KeyOf(s, u) \in Key
        /\ settled[s] \in SUBSET Tpp
    BY RecordFacts DEF CoverInv, TypeInv, TypeOK, HoldsRecord, Goto, Advance, Rec, KeyOf
  <1>2. /\ \A x \in Listener \ {s} : Rests(x)
        /\ branch'[s][t] = pc
        /\ \A u \in Tpp \ {t} : branch'[s][u] = branch[s][u]
    BY DEF Goto, Rests, CoverInv, TypeInv, TypeOK
  <1>3. \A u \in settled[s] : docs'[KeyOf(s, u)] \in Terminal
    BY <1>1 DEF CoverInv, ListenerInv, Advance, TypeInv, TypeOK
  <1>4. \A i \in Nat : \A k \in Key : CoveredAfter(i, k) => CoveredNext(i, k)
    BY CoverStable DEF CoverInv
  <1>5. ASSUME NEW u \in Tpp PROVE BranchInv(s, u)'
    <2>1. CoveredNext(offset[s], KeyOf(s, u)) => CoveredAfter(offset[s], KeyOf(s, u))'
      BY <1>1 DEF CoveredNext, CoveredAfter
    <2>2. CASE u = t
      BY <1>1, <1>2, <2>1, <2>2 DEF BranchInv
    <2>3. CASE u # t
      <3>1. BranchInv(s, u)
        BY DEF CoverInv, ListenerInv
      <3>2. /\ docs[KeyOf(s, u)] # "none" => docs'[KeyOf(s, u)] # "none"
            /\ accepted[KeyOf(s, u)] > 0 => accepted'[KeyOf(s, u)] > 0
            /\ KeyOf(s, u) \in omitted => KeyOf(s, u) \in omitted'
        BY <1>1 DEF Advance
      <3>3. QED
        BY <1>1, <1>2, <1>4, <2>1, <2>3, <3>1, <3>2 DEF BranchInv
    <2>4. QED BY <2>2, <2>3
  <1>6. Rec(s).topic = "core" =>
            \A u \in settled[s] : branch'[s][u] \in {"off", "insert", "find", "done"}
    <2>1. Rec(s).topic = "core" =>
              \A u \in settled[s] : branch[s][u] \in {"off", "insert", "find", "done"}
      BY DEF CoverInv, ListenerInv
    <2>2. QED
      BY <1>1, <1>2, <2>1
  <1>7. QED
    BY <1>1, <1>2, <1>3, <1>5, <1>6 DEF ListenerInv

\* A record just published covers its keys for every earlier position.
LEMMA PublishCovers ==
    ASSUME TypeInv, NEW r \in Record, Publish(r), NEW i \in DOMAIN log,
           NEW k \in Targets(r)
    PROVE  CoveredNext(i, k)
  <1>1. /\ Len(log) + 1 \in DOMAIN log' /\ log'[Len(log) + 1] = r
        /\ committed' = committed /\ Len(log) \in Nat
        /\ DOMAIN log = 1..Len(log) /\ committed \subseteq DOMAIN log
    BY PublishType, AppendFacts DEF TypeInv, TypeOK
  <1>2. Len(log) + 1 \in DOMAIN log' \ committed' /\ Len(log) + 1 > i
    BY <1>1
  <1>3. QED
    BY <1>1, <1>2 DEF CoveredNext

\* A listener that has completed leaves nothing of its record uncovered.
LEMMA CompleteCovers ==
    ASSUME CoverInv, NEW s \in Listener, Complete(s)
    PROVE  \A k \in Targets(Rec(s)) : CoveredAfter(offset[s], k)
  <1>1. stage[s] # "idle" /\ Rec(s) \in Record
    BY RecordFacts DEF CoverInv, Complete
  <1>2. CASE stage[s] = "processed"
    BY <1>1, <1>2 DEF CoverInv, ListenerInv
  <1>3. CASE stage[s] = "send" /\ \A t \in Tpp : branch[s][t] \in {"off", "done"}
    <2> SUFFICES ASSUME NEW k \in Targets(Rec(s)) PROVE CoveredAfter(offset[s], k)
      OBVIOUS
    <2>1. k[2] \in Tpp /\ k = KeyOf(s, k[2])
      BY <1>1, TargetsFacts DEF KeyOf
    <2>2. Rec(s).topic = "notifyError" => Rec(s).tpp = k[2]
      BY <1>1, TargetsFacts
    <2>3. BranchInv(s, k[2])
      BY <1>1, <1>3, <2>1 DEF CoverInv, ListenerInv
    <2>4. QED
      BY <1>3, <2>1, <2>2, <2>3 DEF BranchInv, CoveredAfter
  <1>4. QED
    BY <1>2, <1>3 DEF Complete

LEMMA CoverInvInit == Init => CoverInv
  <1> SUFFICES ASSUME Init PROVE CoverInv
    OBVIOUS
  <1>1. TypeInv
    BY TypeInvInit
  <1>2. \A s \in Listener : ListenerInv(s)
    BY DEF Init, ListenerInv
  <1>3. RetryHasDocument /\ SentWasAccepted /\ CommittedIsCovered
    BY DEF Init, RetryHasDocument, SentWasAccepted, CommittedIsCovered
  <1>4. QED
    BY <1>1, <1>2, <1>3 DEF CoverInv

\* The steps that only touch the topics and the listener's assignment.
LEMMA KafkaStepInv ==
    ASSUME CoverInv, TypeInv',
           \/ \E m \in Message : Arrive(m) \/ ArriveAgain(m)
           \/ \E s \in Listener : Crash(s) \/ Rebalance(s)
           \/ \E s \in Listener : \E i \in DOMAIN log : Poll(s, i) \/ PollStale(s, i)
    PROVE  CoverInv'
  <1> USE DEF storeVars, kafkaVars, listenerVars, historyVars
  <1>0. /\ TypeInv /\ TypeOK /\ SentWasAccepted
        /\ \A s \in Listener : ListenerInv(s)
    BY DEF CoverInv, TypeInv
  <1>1. ASSUME NEW m \in Message, Arrive(m) \/ ArriveAgain(m) PROVE CoverInv'
    <2>1. Core(m, 0) \in Record /\ Core(m, 0).topic = "core"
      BY DEF Core, Record, CoreRecord
    <2>2. /\ Publish(Core(m, 0)) /\ UNCHANGED <<storeVars, listenerVars>>
          /\ UNCHANGED <<omitted, accepted>>
      BY <1>1 DEF Arrive, ArriveAgain
    <2>3. Advance /\ committed' = committed
      BY <1>0, <2>1, <2>2, PublishType DEF Advance
    <2>4. \A x \in Listener : Rests(x)
      BY <2>2 DEF Rests
    <2>5. (\A x \in Listener : ListenerInv(x)') /\ CommittedIsCovered'
      <3>1. \A i \in Nat : \A k \in Key : CoveredAfter(i, k) => CoveredNext(i, k)
        BY <1>0, <2>3, CoverStable
      <3>2. ASSUME NEW x \in Listener PROVE ListenerInv(x)'
        BY <1>0, <2>3, <2>4, <3>1, ListenerStable
      <3>3. QED
        BY <1>0, <2>3, <3>1, <3>2, CoverCommitted DEF CoverInv
    <2>6. RetryHasDocument'
      BY <2>1, <2>2, <2>3, RecordsStable
    <2>7. SentWasAccepted'
      BY <1>0, <2>2 DEF SentWasAccepted
    <2>8. QED
      BY <2>5, <2>6, <2>7 DEF CoverInv
  <1>2. ASSUME NEW s \in Listener, Crash(s) \/ Rebalance(s) PROVE CoverInv'
    <2>1. UNCHANGED <<docs, log, committed, omitted, accepted>>
      BY <1>2 DEF Crash, Rebalance
    <2>2. Advance
      BY <2>1 DEF Advance
    <2>3. \A x \in Listener \ {s} : Rests(x)
      BY <1>0, <1>2 DEF Crash, Rebalance, Leave, Rests, TypeOK
    <2>4. ListenerInv(s)'
      <3>1. CASE Crash(s)
        BY <1>0, <3>1 DEF Crash, Leave, ListenerInv, TypeOK
      <3>2. CASE Rebalance(s)
        <4>1. Rests(s) /\ committed' = committed
          BY <3>2 DEF Rebalance, Rests
        <4>2. \A i \in Nat : \A k \in Key : CoveredAfter(i, k) => CoveredNext(i, k)
          BY <1>0, <2>2, <4>1, CoverStable
        <4>3. QED
          BY <1>0, <2>2, <4>1, <4>2, ListenerStable
      <3>3. QED BY <1>2, <3>1, <3>2
    <2>5. QED
      BY <1>0, <2>1, <2>2, <2>3, <2>4, OthersStable, RecordsStable
         DEF CoverInv, SentWasAccepted
  <1>3. ASSUME NEW s \in Listener, NEW i \in DOMAIN log, Poll(s, i) \/ PollStale(s, i) PROVE CoverInv'
    <2>1. UNCHANGED <<docs, log, committed, omitted, accepted>>
      BY <1>3 DEF Poll, PollStale, Take
    <2>2. Advance
      BY <2>1 DEF Advance
    <2>3. \A x \in Listener \ {s} : Rests(x)
      BY <1>0, <1>3 DEF Poll, PollStale, Take, Rests, TypeOK
    <2>4. ListenerInv(s)'
      <3>1. /\ offset'[s] = i /\ Rec(s)' = log[i] /\ log[i] \in Record
            /\ stage'[s] = StartStage(log[i]) /\ branch'[s] = StartBranches(log[i])
            /\ settled'[s] = {t \in Tpp : docs[<<log[i].msg, t>>] \in Terminal}
            /\ \A t \in Tpp : KeyOf(s, t)' = <<log[i].msg, t>>
        BY <1>0, <1>3, <2>1 DEF Poll, PollStale, Take, TypeOK, Rec, KeyOf
      <3>2. \A t \in settled'[s] : docs'[KeyOf(s, t)'] \in Terminal
        BY <2>1, <3>1
      <3>3. CASE log[i].topic = "core"
        BY <3>1, <3>2, <3>3 DEF ListenerInv, StartStage
      <3>4. CASE log[i].topic = "notifyError"
        <4>1. docs[<<log[i].msg, log[i].tpp>>] # "none"
          BY <3>4 DEF CoverInv, RetryHasDocument
        <4>2. ASSUME NEW t \in Tpp PROVE BranchInv(s, t)'
          <5>1. branch'[s][t] = IF log[i].tpp = t THEN "token" ELSE "off"
            BY <3>1, <3>4 DEF StartBranches
          <5>2. QED
            BY <2>1, <3>1, <3>4, <4>1, <5>1 DEF BranchInv
        <4>3. QED
          BY <3>1, <3>2, <3>4, <4>2 DEF ListenerInv, StartStage
      <3>5. QED
        BY <3>1, <3>3, <3>4 DEF Record, CoreRecord, RetryRecord
    <2>5. QED
      BY <1>0, <2>1, <2>2, <2>3, <2>4, OthersStable, RecordsStable
         DEF CoverInv, SentWasAccepted
  <1>4. QED
    BY <1>1, <1>2, <1>3

\* The commit: whatever the committed record covered for an earlier one is
\* covered by what its own listener has completed.
LEMMA AcknowledgeInv ==
    ASSUME CoverInv, TypeInv', NEW s \in Listener, Acknowledge(s)
    PROVE  CoverInv'
  <1>0. /\ TypeInv /\ TypeOK /\ Complete(s)
        /\ UNCHANGED <<docs, log, omitted, accepted>>
        /\ offset[s] \in DOMAIN log /\ Rec(s) \in Record
    BY RecordFacts
       DEF CoverInv, TypeInv, HoldsRecord, Acknowledge, Complete, storeVars, historyVars
  <1>1. Advance
    BY <1>0 DEF Advance
  <1>2. \A k \in Targets(Rec(s)) : CoveredAfter(offset[s], k)
    BY <1>0, CompleteCovers
  <1>3. committed' = committed \/ committed' = committed \cup {offset[s]}
    BY DEF Acknowledge
  <1>4. ASSUME NEW i \in Nat, NEW k \in Key, CoveredAfter(i, k) PROVE CoveredNext(i, k)
    <2>1. CASE docs[k] \in Terminal \/ k \in omitted
      BY <1>0, <2>1 DEF CoveredNext
    <2>2. CASE \E j \in DOMAIN log \ committed : j > i /\ k \in Targets(log[j])
      <3>1. PICK j \in DOMAIN log \ committed : j > i /\ k \in Targets(log[j])
        BY <2>2
      <3>2. CASE j # offset[s]
        BY <1>0, <1>3, <3>1, <3>2 DEF CoveredNext
      <3>3. CASE j = offset[s]
        <4>1. CoveredAfter(offset[s], k)
          BY <1>2, <3>1, <3>3 DEF Rec
        <4>2. CASE docs[k] \in Terminal \/ k \in omitted
          BY <1>0, <4>2 DEF CoveredNext
        <4>3. CASE \E l \in DOMAIN log \ committed : l > offset[s] /\ k \in Targets(log[l])
          <5>1. PICK l \in DOMAIN log \ committed : l > offset[s] /\ k \in Targets(log[l])
            BY <4>3
          <5>2. l # offset[s] /\ l \in DOMAIN log' \ committed' /\ k \in Targets(log'[l])
            BY <1>0, <1>3, <5>1 DEF TypeOK
          <5>3. QED
            BY <1>0, <3>1, <3>3, <5>1, <5>2 DEF CoveredNext, TypeOK
        <4>4. QED BY <4>1, <4>2, <4>3 DEF CoveredAfter
      <3>4. QED BY <3>2, <3>3
    <2>3. QED BY <1>4, <2>1, <2>2 DEF CoveredAfter
  <1>5. ASSUME NEW x \in Listener PROVE ListenerInv(x)'
    <2>1. CASE x = s
      BY <1>0, <2>1 DEF Acknowledge, Leave, ListenerInv, TypeOK
    <2>2. CASE x # s
      <3>1. Rests(x)
        BY <1>0, <2>2 DEF Acknowledge, Leave, Rests, TypeOK
      <3>2. QED
        BY <1>0, <1>1, <1>4, <3>1, ListenerStable DEF CoverInv
    <2>3. QED BY <2>1, <2>2
  <1>6. CommittedIsCovered'
    <2> SUFFICES ASSUME NEW i \in committed', NEW k \in Targets(log'[i])
                 PROVE  CoveredNext(i, k)
      BY DEF CommittedIsCovered, CoveredNext, CoveredAfter
    <2>1. i \in DOMAIN log /\ i \in Nat /\ log'[i] = log[i] /\ log[i] \in Record
      BY <1>0, <1>3 DEF TypeOK
    <2>2. k \in Key /\ CoveredAfter(i, k)
      BY <1>2, <1>3, <2>1, TargetsFacts DEF CoverInv, CommittedIsCovered, Rec
    <2>3. QED
      BY <1>4, <2>1, <2>2
  <1>7. RetryHasDocument' /\ SentWasAccepted'
    BY <1>0 DEF CoverInv, RetryHasDocument, SentWasAccepted
  <1>8. QED
    BY <1>5, <1>6, <1>7 DEF CoverInv

\* The other steps on a core record as a whole.
LEMMA RecordStepInv ==
    ASSUME CoverInv, TypeInv', NEW s \in Listener, RecordStep(s)
    PROVE  CoverInv'
  <1> USE DEF storeVars, kafkaVars, historyVars
  <1>0. /\ TypeInv /\ TypeOK /\ SentWasAccepted /\ ListenerInv(s)
        /\ stage[s] # "idle"
    BY DEF CoverInv, TypeInv, RecordStep, Resolve, ResolveFails, Requeue, RequeueFails,
           Acknowledge, Complete
  <1>r. /\ offset[s] \in DOMAIN log /\ Rec(s) \in Record
        /\ settled[s] \in SUBSET Tpp /\ \A t \in Tpp : KeyOf(s, t) \in Key
    BY <1>0, RecordFacts DEF TypeInv, TypeOK, HoldsRecord
  <1>1. CASE Acknowledge(s)
    BY <1>1, AcknowledgeInv
  <1>2. CASE Resolve(s) \/ ResolveFails(s)
    <2>1. /\ UNCHANGED <<docs, log, committed, accepted, offset, settled>>
          /\ stage[s] = "resolve"
      BY <1>2 DEF Resolve, ResolveFails
    <2>2. Advance
      <3>1. omitted \subseteq omitted'
        BY <1>2 DEF Resolve, ResolveFails
      <3>2. QED BY <2>1, <3>1 DEF Advance
    <2>3. \A x \in Listener \ {s} : Rests(x)
      BY <1>0, <1>2 DEF Resolve, ResolveFails, Rests, TypeOK
    <2>4. /\ Rec(s)' = Rec(s) /\ offset'[s] = offset[s] /\ settled'[s] = settled[s]
          /\ \A t \in Tpp : KeyOf(s, t)' = KeyOf(s, t)
          /\ Rec(s).topic = "core"
      BY <1>0, <2>1 DEF Rec, KeyOf, ListenerInv
    <2>5. \A t \in settled[s] : docs'[KeyOf(s, t)] \in Terminal
      BY <1>0, <2>1 DEF ListenerInv
    <2>6. ListenerInv(s)'
      <3>1. CASE ResolveFails(s)
        <4>1. stage'[s] = "requeue"
          BY <1>0, <3>1 DEF ResolveFails, TypeOK
        <4>2. QED
          BY <1>r, <2>4, <2>5, <4>1 DEF ListenerInv
      <3>2. CASE Resolve(s)
        <4>1. PICK T \in SUBSET Tpp :
                 /\ stage' = [stage EXCEPT ![s] = "send"]
                 /\ branch' = [branch EXCEPT ![s] =
                                  [t \in Tpp |-> IF t \in T THEN "insert" ELSE "off"]]
                 /\ omitted' = omitted \cup {KeyOf(s, t) : t \in Tpp \ T}
          BY <3>2 DEF Resolve
        <4>2. /\ stage'[s] = "send"
              /\ \A t \in Tpp : branch'[s][t] = IF t \in T THEN "insert" ELSE "off"
              /\ \A t \in Tpp \ T : KeyOf(s, t) \in omitted'
          BY <1>0, <4>1 DEF TypeOK
        <4>3. ASSUME NEW t \in Tpp PROVE BranchInv(s, t)'
          BY <2>4, <4>2 DEF BranchInv
        <4>4. \A t \in settled[s] : branch'[s][t] \in {"off", "insert", "find", "done"}
          BY <1>r, <4>2
        <4>5. QED
          BY <1>r, <2>4, <2>5, <4>2, <4>3, <4>4 DEF ListenerInv
      <3>3. QED BY <1>2, <3>1, <3>2
    <2>7. QED
      BY <1>0, <2>1, <2>2, <2>3, <2>6, OthersStable, RecordsStable
         DEF CoverInv, SentWasAccepted
  <1>3. CASE Requeue(s) \/ RequeueFails(s)
    <2> DEFINE n == NextRetry(Rec(s).retry)
               r == Core(Rec(s).msg, n)
    <2>1. /\ UNCHANGED <<docs, omitted, accepted>> /\ stage[s] = "requeue"
          /\ UNCHANGED kafkaVars \/ (~Exhausted(n) /\ Publish(r))
          /\ \/ RetryInPlace(s)
             \/ /\ ~Exhausted(n) /\ Publish(r)
                /\ stage' = [stage EXCEPT ![s] = "processed"]
                /\ UNCHANGED <<offset, owning, branch, settled>>
      BY <1>3 DEF Requeue, RequeueFails
    <2>2. n \in Nat
      BY <1>0, NextRetryType
    <2>3. ~Exhausted(n) => r \in Record
      BY <1>0, <2>2, ProducedType
    <2>t. r.topic = "core" /\ r.msg = Rec(s).msg
      BY DEF Core
    <2> HIDE DEF n, r
    <2>4. Advance /\ committed' = committed
      <3>1. CASE UNCHANGED kafkaVars
        BY <2>1, <3>1 DEF Advance
      <3>2. CASE ~Exhausted(n) /\ Publish(r)
        BY <1>0, <2>1, <2>3, <3>2, PublishType DEF Advance
      <3>3. QED BY <2>1, <3>1, <3>2
    <2>5. RetryHasDocument'
      BY <1>0, <2>1, <2>3, <2>4, <2>t, RecordsStable
    <2>6. ListenerInv(s)' /\ \A x \in Listener \ {s} : Rests(x)
      <3>1. CASE RetryInPlace(s)
        BY <1>0, <2>4, <3>1, RestartInv
      <3>2. CASE /\ ~Exhausted(n) /\ Publish(r)
                 /\ stage' = [stage EXCEPT ![s] = "processed"]
                 /\ UNCHANGED <<offset, owning, branch, settled>>
        <4>1. /\ stage'[s] = "processed" /\ \A x \in Listener \ {s} : Rests(x)
              /\ offset'[s] = offset[s] /\ settled'[s] = settled[s]
              /\ Rec(s)' = Rec(s) /\ \A t \in Tpp : KeyOf(s, t)' = KeyOf(s, t)
          BY <1>0, <1>r, <2>4, <3>2 DEF TypeOK, Rests, Advance, Rec, KeyOf
        <4>2. Rec(s).topic = "core" /\ Targets(Rec(s)) = Targets(r)
          BY <1>0, <1>r, <2>1, <2>3, <2>t, <3>2, TargetsFacts DEF ListenerInv
        <4>3. \A k \in Targets(Rec(s)) : CoveredNext(offset[s], k)
          BY <1>0, <1>r, <2>3, <3>2, <4>2, PublishCovers
        <4>4. (\A k \in Targets(Rec(s)) : CoveredAfter(offset[s], k))'
          BY <4>1, <4>3 DEF CoveredNext, CoveredAfter, Targets
        <4>5. \A t \in settled[s] : docs'[KeyOf(s, t)] \in Terminal
          BY <1>0, <2>1 DEF ListenerInv
        <4>6. QED
          BY <1>r, <4>1, <4>2, <4>4, <4>5 DEF ListenerInv
      <3>3. QED BY <2>1, <3>1, <3>2
    <2>7. SentWasAccepted'
      BY <1>0, <2>1 DEF SentWasAccepted
    <2>8. QED
      BY <2>4, <2>5, <2>6, <2>7, OthersStable DEF CoverInv
  <1>4. QED
    BY <1>1, <1>2, <1>3 DEF RecordStep

\* A write of the listener's document and a POST only advance.
LEMMA BranchAdvance ==
    ASSUME TypeInv, NEW s \in Listener, NEW t \in Tpp, KeyOf(s, t) \in Key,
           omitted' = omitted,
           \/ docs' = docs
           \/ SetDoc(s, t, "IN_PROCESS") /\ docs[KeyOf(s, t)] = "none"
           \/ SetDoc(s, t, "SENT")
           \/ SetDoc(s, t, "ERROR"),
           accepted' = accepted \/ CountPost(s, t),
           UNCHANGED kafkaVars \/ \E r \in Record : Publish(r)
    PROVE  /\ Advance /\ committed' = committed
           /\ SetDoc(s, t, "SENT") \/ SetDoc(s, t, "ERROR") =>
                 docs'[KeyOf(s, t)] \in Terminal
           /\ SetDoc(s, t, "IN_PROCESS") => docs'[KeyOf(s, t)] # "none"
           /\ CountPost(s, t) => accepted'[KeyOf(s, t)] > 0
           /\ \A k \in Key : accepted[k] > 0 => accepted'[k] > 0
  <1> DEFINE k == KeyOf(s, t)
  <1>0. k \in Key /\ docs \in [Key -> DocState] /\ accepted \in [Key -> Nat]
    BY DEF TypeInv, TypeOK
  <1>1. /\ \A st : SetDoc(s, t, st) => docs' = [docs EXCEPT ![k] = st]
        /\ CountPost(s, t) => accepted' = [accepted EXCEPT ![k] = accepted[k] + 1]
    BY DEF SetDoc, CountPost
  <1>d. docs[k] = "none" <=> docs[KeyOf(s, t)] = "none"
    OBVIOUS
  <1> HIDE DEF k
  <1>2. \A j \in Key : accepted[j] > 0 => accepted'[j] > 0
    BY <1>0, <1>1
  <1>3. CountPost(s, t) => accepted'[k] > 0
    BY <1>0, <1>1
  <1>4. /\ \A j \in Key : docs[j] # "none" => docs'[j] # "none"
        /\ \A j \in Key : docs[j] \in Terminal => docs'[j] \in Terminal
    BY <1>0, <1>1, <1>d DEF Terminal
  <1>5. /\ SetDoc(s, t, "SENT") \/ SetDoc(s, t, "ERROR") => docs'[k] \in Terminal
        /\ SetDoc(s, t, "IN_PROCESS") => docs'[k] # "none"
    BY <1>0, <1>1 DEF Terminal
  <1>6. /\ DOMAIN log \subseteq DOMAIN log' /\ committed' = committed
        /\ \A i \in DOMAIN log : log'[i] = log[i]
    BY PublishType DEF kafkaVars
  <1>7. QED
    BY <1>2, <1>3, <1>4, <1>5, <1>6 DEF Advance, k

\* A step on one TPP changes at most one of: the document, the topic, and
\* what the TPP has taken.
LEMMA BranchStepEffect ==
    ASSUME NEW s \in Listener, NEW t \in Tpp, BranchStep(s, t)
    PROVE  LET n == NextRetry(SendRetry(s))
           IN  /\ omitted' = omitted
               /\ \/ UNCHANGED <<docs, log, committed, accepted>>
                  \/ /\ UNCHANGED <<log, committed, accepted>>
                     /\ \/ SetDoc(s, t, "IN_PROCESS") /\ docs[KeyOf(s, t)] = "none"
                        \/ SetDoc(s, t, "SENT") /\ branch[s][t] = "save"
                        \/ SetDoc(s, t, "ERROR") /\ branch[s][t] = "enqueue"
                  \/ UNCHANGED <<docs, log, committed>> /\ CountPost(s, t)
                  \/ /\ UNCHANGED <<docs, accepted>> /\ branch[s][t] = "enqueue"
                     /\ ~Exhausted(n) /\ Publish(Retry(Rec(s).msg, t, n))
  BY DEF BranchStep, Insert, InsertFails, Find, FindFails, GetToken, GetTokenThrows,
         Post, PostAnswerLost, SaveSent, SaveSentFails, EnqueueNotify,
         EnqueueNotifyFails, storeVars, kafkaVars, historyVars, At

\* The steps on one TPP.
LEMMA BranchStepInv ==
    ASSUME CoverInv, TypeInv', NEW s \in Listener, NEW t \in Tpp, BranchStep(s, t)
    PROVE  CoverInv'
  <1> USE DEF storeVars, kafkaVars, historyVars, At
  <1> DEFINE k == KeyOf(s, t)
             n == NextRetry(SendRetry(s))
             r == Retry(Rec(s).msg, t, n)
  <1>0. /\ TypeInv /\ TypeOK /\ SentWasAccepted /\ ListenerInv(s) /\ BranchInv(s, t)
        /\ stage[s] = "send" /\ stage[s] # "idle" /\ offset[s] \in DOMAIN log
        /\ Rec(s) \in Record /\ k \in Key
    BY BranchStepShape, RecordFacts DEF CoverInv, TypeInv, ListenerInv, HoldsRecord
  <1>s. Rec(s).topic = "core" /\ t \in settled[s] =>
            /\ branch[s][t] \in {"off", "insert", "find", "done"}
            /\ docs[k] \in Terminal
    BY <1>0 DEF ListenerInv
  <1>n. n \in Nat /\ (~Exhausted(n) => r \in Record)
    BY <1>0, NextRetryType, ProducedType
  <1>r. r.topic = "notifyError" /\ <<r.msg, r.tpp>> = k /\ k \in Targets(r)
    BY DEF Retry, KeyOf, Targets
  <1>k. /\ UNCHANGED kafkaVars \/ (~Exhausted(n) /\ Publish(r))
        /\ ~(UNCHANGED kafkaVars) => docs' = docs /\ branch[s][t] = "enqueue"
    BY BranchStepEffect
  <1>d. /\ \/ docs' = docs
           \/ SetDoc(s, t, "IN_PROCESS") /\ docs[KeyOf(s, t)] = "none"
           \/ SetDoc(s, t, "SENT") /\ branch[s][t] = "save"
           \/ SetDoc(s, t, "ERROR")
        /\ omitted' = omitted
        /\ accepted' = accepted \/ CountPost(s, t)
    BY BranchStepEffect
  <1>a. /\ Advance /\ committed' = committed
        /\ SetDoc(s, t, "SENT") \/ SetDoc(s, t, "ERROR") => docs'[k] \in Terminal
        /\ SetDoc(s, t, "IN_PROCESS") => docs'[k] # "none"
        /\ CountPost(s, t) => accepted'[k] > 0
    BY <1>0, <1>n, <1>k, <1>d, BranchAdvance
  <1>e. docs[k] # "none" => docs'[k] # "none"
    BY <1>0, <1>a DEF Advance
  <1>p. \/ RetryInPlace(s) \/ OtherError(s)
        \/ \E pc \in BranchPc :
              /\ Goto(s, t, pc) /\ pc # "off"
              /\ pc = "done" => \/ docs'[k] \in Terminal
                                \/ ~Exhausted(n) /\ Publish(r)
              /\ pc # "insert" => pc = "done" \/ docs'[k] # "none"
              /\ pc = "save" => accepted'[k] > 0
              /\ Rec(s).topic = "core" /\ t \in settled[s] => pc \in {"insert", "find", "done"}
    <2> USE DEF BranchPc
    <2>1. CASE Insert(s, t) \/ InsertFails(s, t)
      BY <1>s, <1>a, <1>e, <2>1 DEF Insert, InsertFails, Terminal
    <2>2. CASE Find(s, t) \/ FindFails(s, t)
      <3>1. docs[k] \in DocState
        BY <1>0 DEF TypeOK
      <3>2. CASE Find(s, t)
        BY <1>s, <1>e, <3>1, <3>2 DEF Find, Resumes, DocState, Terminal
      <3>3. CASE FindFails(s, t)
        BY <3>3 DEF FindFails
      <3>4. QED BY <2>2, <3>2, <3>3
    <2>3. CASE GetToken(s, t) \/ GetTokenThrows(s, t)
      BY <1>0, <1>s, <1>e, <2>3 DEF GetToken, GetTokenThrows, BranchInv
    <2>4. CASE Post(s, t) \/ PostAnswerLost(s, t)
      BY <1>0, <1>s, <1>a, <1>e, <2>4 DEF Post, PostAnswerLost, BranchInv
    <2>5. CASE SaveSent(s, t) \/ SaveSentFails(s, t)
      BY <1>0, <1>s, <1>a, <1>e, <2>5 DEF SaveSent, SaveSentFails, BranchInv
    <2>6. CASE EnqueueNotify(s, t) \/ EnqueueNotifyFails(s, t)
      BY <1>0, <1>s, <1>a, <1>e, <2>6 DEF EnqueueNotify, EnqueueNotifyFails, BranchInv
    <2>7. QED
      BY <2>1, <2>2, <2>3, <2>4, <2>5, <2>6 DEF BranchStep
  <1> HIDE DEF n, r
  <1>1. ListenerInv(s)' /\ \A x \in Listener \ {s} : Rests(x)
    <2>1. CASE RetryInPlace(s) \/ OtherError(s)
      BY <1>0, <1>a, <2>1, RestartInv
    <2>2. ASSUME NEW pc \in BranchPc,
                 Goto(s, t, pc), pc # "off",
                 pc = "done" => docs'[k] \in Terminal \/ (~Exhausted(n) /\ Publish(r)),
                 pc # "insert" => pc = "done" \/ docs'[k] # "none",
                 pc = "save" => accepted'[k] > 0,
                 Rec(s).topic = "core" /\ t \in settled[s] => pc \in {"insert", "find", "done"}
          PROVE  ListenerInv(s)' /\ \A x \in Listener \ {s} : Rests(x)
      <3>1. ~Exhausted(n) /\ Publish(r) => CoveredNext(offset[s], k)
        BY <1>0, <1>n, <1>r, PublishCovers
      <3>2. pc = "done" => CoveredNext(offset[s], KeyOf(s, t))
        BY <2>2, <3>1 DEF CoveredNext
      <3>3. QED
        BY <1>0, <1>a, <2>2, <3>2, GotoInv
    <2>3. QED BY <1>p, <2>1, <2>2
  <1>2. RetryHasDocument'
    <2>1. branch[s][t] = "enqueue" => docs[k] # "none"
      BY <1>0 DEF BranchInv
    <2>2. QED
      BY <1>0, <1>a, <1>k, <1>n, <1>r, <2>1, RecordsStable
  <1>3. SentWasAccepted'
    <2>1. branch[s][t] = "save" => accepted[k] > 0
      BY <1>0 DEF BranchInv
    <2>2. \A j \in Key : accepted[j] > 0 => accepted'[j] > 0
      BY <1>a DEF Advance
    <2>3. \A j \in Key : docs'[j] = "SENT" =>
              docs[j] = "SENT" \/ (j = k /\ branch[s][t] = "save")
      BY <1>0, <1>d DEF SetDoc, TypeOK
    <2>4. QED
      BY <1>0, <2>1, <2>2, <2>3 DEF SentWasAccepted
  <1>4. QED
    BY <1>1, <1>2, <1>3, <1>a, OthersStable DEF CoverInv

LEMMA CoverInvStep == CoverInv /\ [Next]_vars => CoverInv'
  <1> SUFFICES ASSUME CoverInv, [Next]_vars PROVE CoverInv'
    OBVIOUS
  <1>1. TypeInv'
    BY TypeInvStep DEF CoverInv
  <1>2. CASE \/ \E m \in Message : Arrive(m) \/ ArriveAgain(m)
             \/ \E s \in Listener : Crash(s) \/ Rebalance(s)
             \/ \E s \in Listener : \E i \in DOMAIN log : Poll(s, i) \/ PollStale(s, i)
    BY <1>1, <1>2, KafkaStepInv
  <1>3. CASE \E s \in Listener : RecordStep(s)
    BY <1>1, <1>3, RecordStepInv
  <1>4. CASE \E s \in Listener : \E t \in Tpp : BranchStep(s, t)
    BY <1>1, <1>4, BranchStepInv
  <1>5. CASE UNCHANGED vars
    <2>1. Advance /\ committed' = committed /\ \A x \in Listener : Rests(x)
      BY <1>5 DEF vars, Advance, Rests
    <2>2. \A i \in Nat : \A k \in Key : CoveredAfter(i, k) => CoveredNext(i, k)
      BY <2>1, CoverStable DEF CoverInv
    <2>3. \A x \in Listener : ListenerInv(x)'
      BY <2>1, <2>2, ListenerStable DEF CoverInv
    <2>4. CommittedIsCovered'
      BY <2>1, <2>2, CoverCommitted DEF CoverInv
    <2>5. RetryHasDocument' /\ SentWasAccepted'
      BY <1>5 DEF vars, CoverInv, RetryHasDocument, SentWasAccepted
    <2>6. QED
      BY <1>1, <2>3, <2>4, <2>5 DEF CoverInv
  <1>6. QED
    BY <1>2, <1>3, <1>4, <1>5 DEF Next

(* No listener is ever ahead of what the store and the topics guarantee. *)
THEOREM Covered == Spec => []CoverInv
  BY CoverInvInit, CoverInvStep, PTL DEF Spec

(* No notification is lost: an offset is committed only when all its       *)
(* record stood for is settled, left out, or carried on by a later         *)
(* uncommitted record, under any number of crashes, rebalances and failed  *)
(* or half-done writes and publications.                                   *)
THEOREM NothingLost == Spec => []CommittedIsCovered
  <1>1. CoverInv => CommittedIsCovered
    BY DEF CoverInv
  <1>2. QED
    BY <1>1, Covered, PTL

(* SENT is never recorded without a POST the TPP has taken. *)
THEOREM SentIsTrue == Spec => []SentWasAccepted
  <1>1. CoverInv => SentWasAccepted
    BY DEF CoverInv
  <1>2. QED
    BY <1>1, Covered, PTL

(* A redelivered core record never notifies a TPP whose document was       *)
(* already completed when the delivery began.                              *)
THEOREM RedeliverySkips == Spec => []CompletedAreSkipped
  <1>1. CoverInv => CompletedAreSkipped
    BY DEF CoverInv, ListenerInv, CompletedAreSkipped
  <1>2. QED
    BY <1>1, Covered, PTL

-----------------------------------------------------------------------------
(* The pipeline implements NotificationPromise.                            *)

\* The steps that leave the promise's view alone, charge, waive or notify.
LEMMA ViewUnchanged ==
    ASSUME UNCHANGED <<docs, log, committed, omitted, accepted>>
    PROVE  UNCHANGED Promise!pvars
  BY DEF Promise!pvars, Owed, Notified

LEMMA PublishCharges ==
    ASSUME TypeInv, NEW r \in Record, Publish(r), UNCHANGED <<docs, omitted, accepted>>
    PROVE  Promise!Charge(Targets(r)) /\ Targets(r) \in SUBSET Key
  <1>1. /\ DOMAIN log = 1..Len(log) /\ DOMAIN log' = 1..(Len(log) + 1)
        /\ \A i \in DOMAIN log : log'[i] = log[i]
        /\ log'[Len(log) + 1] = r
        /\ Len(log) \in Nat /\ committed' = committed /\ committed \subseteq DOMAIN log
    BY PublishType, AppendFacts DEF TypeInv, TypeOK
  <1>2. DOMAIN log' \ committed' = (DOMAIN log \ committed) \cup {Len(log) + 1}
    BY <1>1
  <1>3. \A k \in Key : (\E i \in DOMAIN log' \ committed' : k \in Targets(log'[i]))
                       <=> k \in Owed \/ k \in Targets(r)
    BY <1>1, <1>2 DEF Owed
  <1>4. Targets(r) \subseteq Key
    BY TargetsFacts
  <1>5. Owed' = Owed \cup Targets(r)
    BY <1>3, <1>4 DEF Owed
  <1>6. QED
    BY <1>4, <1>5 DEF Promise!Charge, Notified

LEMMA CommitDischarges ==
    ASSUME CoverInv, NEW s \in Listener, Acknowledge(s)
    PROVE  \E K \in SUBSET Key : Promise!Discharge(K)
  <1>0. /\ TypeInv /\ TypeOK /\ Complete(s)
        /\ UNCHANGED <<docs, log, omitted, accepted>>
        /\ offset[s] \in DOMAIN log /\ Rec(s) \in Record
        /\ committed' = committed \/ committed' = committed \cup {offset[s]}
    BY RecordFacts
       DEF CoverInv, TypeInv, HoldsRecord, Acknowledge, Complete, storeVars, historyVars
  <1> DEFINE K == Owed \ Owed'
  <1>1. Owed' \subseteq Owed /\ K \in SUBSET Key /\ Owed' = Owed \ K
    BY <1>0 DEF Owed
  <1>2. ASSUME NEW k \in K PROVE docs[k] \in Terminal \/ k \in omitted
    <2>1. /\ k \in Key /\ ~(\E i \in DOMAIN log \ committed' : k \in Targets(log[i]))
          /\ \E i \in DOMAIN log \ committed : k \in Targets(log[i])
      BY <1>0, <1>2 DEF Owed
    <2>2. k \in Targets(Rec(s))
      BY <1>0, <2>1 DEF Rec
    <2>3. CoveredAfter(offset[s], k)
      BY <1>0, <2>2, CompleteCovers
    <2>4. ~(\E j \in DOMAIN log \ committed : j > offset[s] /\ k \in Targets(log[j]))
      BY <1>0, <2>1 DEF TypeOK
    <2>5. QED
      BY <2>3, <2>4 DEF CoveredAfter
  <1>3. Promise!Discharge(K)
    BY <1>0, <1>1, <1>2 DEF Promise!Discharge, Promise!Completed, Terminal, Notified
  <1>4. QED
    BY <1>1, <1>3

LEMMA BranchRefines ==
    ASSUME TypeInv, NEW s \in Listener, NEW t \in Tpp, BranchStep(s, t),
           branch[s][t] \in {"save", "enqueue"} => docs[KeyOf(s, t)] # "none",
           branch[s][t] = "save" => accepted[KeyOf(s, t)] > 0
    PROVE  [Promise!PNext]_(Promise!pvars)
  <1> DEFINE k == KeyOf(s, t)
             n == NextRetry(SendRetry(s))
             r == Retry(Rec(s).msg, t, n)
  <1>0. /\ TypeInv /\ TypeOK /\ stage[s] = "send" /\ stage[s] # "idle"
        /\ k \in Key /\ omitted' = omitted
    BY BranchStepShape, RecordFacts, BranchStepEffect DEF TypeInv
  <1>n. n \in Nat /\ (~Exhausted(n) => r \in Record)
    BY <1>0, NextRetryType, ProducedType
  <1>1. CASE UNCHANGED <<docs, log, committed, accepted>>
    BY <1>0, <1>1, ViewUnchanged
  <1>2. CASE /\ UNCHANGED <<log, committed, accepted>>
             /\ \/ SetDoc(s, t, "IN_PROCESS") /\ docs[KeyOf(s, t)] = "none"
                \/ SetDoc(s, t, "SENT") /\ branch[s][t] = "save"
                \/ SetDoc(s, t, "ERROR") /\ branch[s][t] = "enqueue"
    <2>1. Owed' = Owed /\ Notified' = Notified
      BY <1>2 DEF Owed, Notified
    <2>2. branch[s][t] = "save" => k \in Notified /\ docs[k] # "none"
      BY <1>0 DEF Notified
    <2>3. branch[s][t] = "enqueue" => docs[k] # "none"
      OBVIOUS
    <2>4. \/ Promise!Open(k)
          \/ Promise!Complete(k, "SENT")
          \/ Promise!Complete(k, "ERROR")
      BY <1>0, <1>2, <2>1, <2>2, <2>3 DEF SetDoc, Promise!Open, Promise!Complete
    <2>5. QED
      BY <1>0, <2>4 DEF Promise!PNext, Promise!Completed
  <1>3. CASE UNCHANGED <<docs, log, committed>> /\ CountPost(s, t)
    <2>1. accepted' = [accepted EXCEPT ![k] = accepted[k] + 1]
          /\ accepted \in [Key -> Nat]
      BY <1>0, <1>3 DEF CountPost, TypeOK
    <2> HIDE DEF k
    <2>2. Notified' = Notified \cup {k} /\ Owed' = Owed
      BY <1>0, <1>3, <2>1 DEF Notified, Owed
    <2>3. Promise!Notify(k)
      BY <1>0, <1>3, <2>2 DEF Promise!Notify
    <2>4. QED
      BY <1>0, <2>3 DEF Promise!PNext
  <1>4. CASE /\ UNCHANGED <<docs, accepted>>
             /\ ~Exhausted(n) /\ Publish(r)
    BY <1>0, <1>n, <1>4, PublishCharges DEF Promise!PNext
  <1>5. QED
    BY <1>1, <1>2, <1>3, <1>4, BranchStepEffect

\* All steps but the commit keep the promise by what they write alone.
LEMMA RefineButCommit ==
    ASSUME TypeInv, [Next]_vars,
           \A s \in Listener : \A t \in Tpp : BranchStep(s, t) =>
               /\ branch[s][t] \in {"save", "enqueue"} => docs[KeyOf(s, t)] # "none"
               /\ branch[s][t] = "save" => accepted[KeyOf(s, t)] > 0
    PROVE  \/ [Promise!PNext]_(Promise!pvars)
           \/ \E s \in Listener : Acknowledge(s)
  <1> USE DEF storeVars, kafkaVars, listenerVars, historyVars
  <1>0. TypeInv /\ TypeOK
    BY DEF TypeInv
  <1>1. ASSUME NEW m \in Message, Arrive(m) \/ ArriveAgain(m)
        PROVE  [Promise!PNext]_(Promise!pvars)
    <2>1. Core(m, 0) \in Record
      BY DEF Core, Record, CoreRecord
    <2>2. Publish(Core(m, 0)) /\ UNCHANGED <<docs, omitted, accepted>>
      BY <1>1 DEF Arrive, ArriveAgain
    <2>3. QED
      BY <1>0, <2>1, <2>2, PublishCharges DEF Promise!PNext
  <1>2. CASE \/ \E s \in Listener : Crash(s) \/ Rebalance(s) \/ ResolveFails(s)
             \/ \E s \in Listener : \E i \in DOMAIN log : Poll(s, i) \/ PollStale(s, i)
             \/ UNCHANGED vars
    <2>1. UNCHANGED <<docs, log, committed, omitted, accepted>>
      BY <1>2 DEF Crash, Rebalance, ResolveFails, Poll, PollStale, Take, vars
    <2>2. QED
      BY <2>1, ViewUnchanged
  <1>3. ASSUME NEW s \in Listener, Resolve(s)
        PROVE  [Promise!PNext]_(Promise!pvars)
    <2>1. stage[s] # "idle" /\ UNCHANGED <<docs, log, committed, accepted>>
      BY <1>3 DEF Resolve
    <2>2. \A t \in Tpp : KeyOf(s, t) \in Key
      BY <1>0, <2>1, RecordFacts
    <2>3. \E T \in SUBSET Tpp : omitted' = omitted \cup {KeyOf(s, t) : t \in Tpp \ T}
      BY <1>3 DEF Resolve
    <2>4. \E K \in SUBSET Key : omitted' = omitted \cup K
      BY <2>2, <2>3
    <2>5. Owed' = Owed /\ Notified' = Notified
      BY <2>1 DEF Owed, Notified
    <2>6. QED
      BY <2>1, <2>4, <2>5 DEF Promise!PNext, Promise!Waive
  <1>4. ASSUME NEW s \in Listener, Requeue(s) \/ RequeueFails(s)
        PROVE  [Promise!PNext]_(Promise!pvars)
    <2> DEFINE n == NextRetry(Rec(s).retry)
    <2>1. /\ stage[s] # "idle" /\ UNCHANGED <<docs, omitted, accepted>>
          /\ UNCHANGED kafkaVars \/ (~Exhausted(n) /\ Publish(Core(Rec(s).msg, n)))
      BY <1>4 DEF Requeue, RequeueFails
    <2>2. n \in Nat /\ (~Exhausted(n) => Core(Rec(s).msg, n) \in Record)
      BY <1>0, <2>1, NextRetryType, ProducedType
    <2>3. CASE UNCHANGED kafkaVars
      BY <2>1, <2>3, ViewUnchanged
    <2>4. CASE ~Exhausted(n) /\ Publish(Core(Rec(s).msg, n))
      BY <1>0, <2>1, <2>2, <2>4, PublishCharges DEF Promise!PNext
    <2>5. QED BY <2>1, <2>3, <2>4
  <1>5. ASSUME NEW s \in Listener, NEW t \in Tpp, BranchStep(s, t)
        PROVE  [Promise!PNext]_(Promise!pvars)
    BY <1>5, BranchRefines
  <1>6. QED
    BY <1>1, <1>2, <1>3, <1>4, <1>5 DEF Next, RecordStep

LEMMA RefineStep ==
    ASSUME CoverInv, [Next]_vars
    PROVE  [Promise!PNext]_(Promise!pvars)
  <1>1. ASSUME NEW s \in Listener, NEW t \in Tpp, BranchStep(s, t)
        PROVE  /\ branch[s][t] \in {"save", "enqueue"} => docs[KeyOf(s, t)] # "none"
               /\ branch[s][t] = "save" => accepted[KeyOf(s, t)] > 0
    <2>1. stage[s] # "idle" /\ stage[s] = "send"
      BY <1>1, BranchStepShape DEF CoverInv
    <2>2. BranchInv(s, t)
      BY <2>1 DEF CoverInv, ListenerInv
    <2>3. QED
      BY <2>2 DEF BranchInv
  <1>2. ASSUME NEW s \in Listener, Acknowledge(s)
        PROVE  [Promise!PNext]_(Promise!pvars)
    BY <1>2, CommitDischarges DEF Promise!PNext
  <1>3. TypeInv
    BY DEF CoverInv
  <1>4. QED
    BY <1>1, <1>2, <1>3, RefineButCommit

LEMMA RefineInit == Init => Promise!PInit
  BY DEF Init, Promise!PInit, Owed, Notified

(* The whole pipeline implements the promise made for each notification:   *)
(* it stays in charge until the document is completed or the TPP is left   *)
(* out, and no document is ever reopened.                                  *)
THEOREM Refinement == Spec => ImplementsPromise
  <1>1. Init => Promise!PInit
    BY RefineInit
  <1>2. CoverInv /\ [Next]_vars => [Promise!PNext]_(Promise!pvars)
    BY RefineStep
  <1>3. QED
    BY <1>1, <1>2, Covered, PTL DEF Spec, ImplementsPromise, Promise!PSpec

-----------------------------------------------------------------------------
(* ERROR comes only after all attempts.                                    *)

\* What every step does to the log and to the number of attempts.
AttemptsGrow ==
    /\ DOMAIN log \subseteq DOMAIN log'
    /\ \A i \in DOMAIN log : log'[i] = log[i]
    /\ \A k \in Key : attempts'[k] >= attempts[k]

\* A branch that does not move.
LEMMA TriedStable ==
    ASSUME TypeInv, TypeInv', AttemptsGrow, NEW s \in Listener, NEW t \in Tpp,
           BranchWasTried(s, t), stage'[s] = stage[s], offset'[s] = offset[s],
           branch'[s][t] = branch[s][t]
    PROVE  BranchWasTried(s, t)'
<1> SUFFICES ASSUME stage[s] = "send" PROVE BranchWasTried(s, t)'
  BY DEF BranchWasTried
<1>1. KeyOf(s, t) \in Key /\ SendRetry(s) \in Nat
  BY RecordFacts
<1>2. Rec(s)' = Rec(s) /\ KeyOf(s, t)' = KeyOf(s, t) /\ SendRetry(s)' = SendRetry(s)
  BY DEF TypeInv, HoldsRecord, AttemptsGrow, Rec, KeyOf, SendRetry
<1>3. /\ attempts'[KeyOf(s, t)] >= attempts[KeyOf(s, t)]
      /\ attempts[KeyOf(s, t)] \in Nat /\ attempts'[KeyOf(s, t)] \in Nat
  BY <1>1 DEF AttemptsGrow, TypeInv, TypeOK
<1> QED
  BY <1>1, <1>2, <1>3 DEF BranchWasTried

\* A listener at the start of a record: a retry record's attempts are made.
LEMMA TriedAtStart ==
    ASSUME TypeInv, TypeInv', AttemptsGrow, RetriesWereTried, NEW s \in Listener,
           NEW i \in DOMAIN log, offset'[s] = i,
           stage'[s] # "send" \/ branch'[s] = StartBranches(log[i])
    PROVE  \A t \in Tpp : BranchWasTried(s, t)'
<1> SUFFICES ASSUME stage'[s] = "send", NEW t \in Tpp PROVE BranchWasTried(s, t)'
  BY DEF BranchWasTried
<1>1. Rec(s)' = log[i] /\ KeyOf(s, t)' = <<log[i].msg, t>>
  BY DEF AttemptsGrow, Rec, KeyOf
<1>2. branch'[s][t] = IF log[i].topic = "notifyError" /\ log[i].tpp = t THEN "token" ELSE "off"
  BY DEF StartBranches
<1>3. CASE log[i].topic = "notifyError" /\ log[i].tpp = t
  <2>1. log[i] \in Record /\ log[i] \in RetryRecord
    BY <1>3 DEF TypeInv, TypeOK, Record, CoreRecord
  <2>2. <<log[i].msg, t>> \in Key /\ log[i].retry \in Nat
    BY <2>1 DEF RetryRecord, Key
  <2>3. attempts[<<log[i].msg, t>>] >= log[i].retry
    BY <1>3 DEF RetriesWereTried
  <2>4. attempts'[<<log[i].msg, t>>] >= log[i].retry
    BY <2>2, <2>3 DEF AttemptsGrow, TypeInv, TypeOK
  <2>5. SendRetry(s)' = log[i].retry
    BY <1>1, <1>3 DEF SendRetry
  <2> QED
    BY <1>1, <1>2, <1>3, <2>4, <2>5 DEF BranchWasTried
<1>4. CASE ~(log[i].topic = "notifyError" /\ log[i].tpp = t)
  BY <1>2, <1>4 DEF BranchWasTried
<1> QED
  BY <1>3, <1>4

\* The records already published stay tried; so does what is published now if
\* its attempts are made.
LEMMA RecordsTried ==
    ASSUME TypeInv, TypeInv', AttemptsGrow, RetriesWereTried,
           \/ log' = log
           \/ \E r \in Record :
                 /\ Publish(r)
                 /\ r.topic = "notifyError" => attempts'[<<r.msg, r.tpp>>] >= r.retry
    PROVE  RetriesWereTried'
<1> SUFFICES ASSUME NEW i \in DOMAIN log', log'[i].topic = "notifyError"
             PROVE  attempts'[<<log'[i].msg, log'[i].tpp>>] >= log'[i].retry
  BY DEF RetriesWereTried
<1>1. CASE i \in DOMAIN log
  <2>1. log'[i] = log[i] /\ attempts[<<log[i].msg, log[i].tpp>>] >= log[i].retry
    BY <1>1 DEF AttemptsGrow, RetriesWereTried
  <2>2. log[i] \in RetryRecord
    BY <1>1, <2>1 DEF TypeInv, TypeOK, Record, CoreRecord
  <2>3. <<log[i].msg, log[i].tpp>> \in Key /\ log[i].retry \in Nat
    BY <2>2 DEF RetryRecord, Key
  <2> QED
    BY <2>1, <2>3 DEF AttemptsGrow, TypeInv, TypeOK
<1>2. CASE i \notin DOMAIN log
  <2>1. PICK r \in Record :
            /\ Publish(r)
            /\ r.topic = "notifyError" => attempts'[<<r.msg, r.tpp>>] >= r.retry
    BY <1>2
  <2>2. /\ DOMAIN log' = 1..(Len(log) + 1) /\ log'[Len(log) + 1] = r
        /\ DOMAIN log = 1..Len(log) /\ Len(log) \in Nat
    BY <2>1, PublishType DEF TypeInv, TypeOK
  <2>3. i = Len(log) + 1
    BY <1>2, <2>2
  <2> QED
    BY <2>1, <2>2, <2>3
<1> QED
  BY <1>1, <1>2

\* Arrivals, polls, crashes and rebalances.
LEMMA KafkaStepTried ==
    ASSUME TypeInv, TypeInv', AttemptsInv,
           \/ \E m \in Message : Arrive(m) \/ ArriveAgain(m)
           \/ \E s \in Listener : Crash(s) \/ Rebalance(s)
           \/ \E s \in Listener : \E i \in DOMAIN log : Poll(s, i) \/ PollStale(s, i)
    PROVE  AttemptsInv'
<1> USE DEF storeVars, kafkaVars, listenerVars, historyVars
<1>0. TypeOK /\ RetriesWereTried /\ ErrorOnlyAfterAllAttempts
  BY DEF TypeInv, AttemptsInv
<1>1. ASSUME NEW m \in Message, Arrive(m) \/ ArriveAgain(m) PROVE AttemptsInv'
  <2>1. Core(m, 0) \in Record /\ Core(m, 0).topic = "core"
    BY DEF Core, Record, CoreRecord
  <2>2. /\ Publish(Core(m, 0)) /\ UNCHANGED <<storeVars, listenerVars>>
        /\ attempts' = attempts
    BY <1>1 DEF Arrive, ArriveAgain
  <2>3. AttemptsGrow
    BY <1>0, <2>1, <2>2, PublishType DEF AttemptsGrow, TypeOK
  <2>4. RetriesWereTried'
    BY <1>0, <2>1, <2>2, <2>3, RecordsTried
  <2>5. \A s \in Listener : \A t \in Tpp : BranchWasTried(s, t)'
    BY <2>2, <2>3, TriedStable DEF AttemptsInv
  <2> QED
    BY <1>0, <2>2, <2>4, <2>5 DEF AttemptsInv, ErrorOnlyAfterAllAttempts
<1>2. ASSUME NEW s \in Listener, UNCHANGED <<docs, log, attempts>>,
             \A x \in Listener \ {s} : Rests(x),
             \A t \in Tpp : BranchWasTried(s, t)'
      PROVE  AttemptsInv'
  <2>1. AttemptsGrow
    BY <1>0, <1>2 DEF AttemptsGrow, TypeOK
  <2>2. RetriesWereTried'
    BY <1>0, <1>2, <2>1, RecordsTried
  <2>3. \A x \in Listener : \A t \in Tpp : BranchWasTried(x, t)'
    BY <1>2, <2>1, TriedStable DEF AttemptsInv, Rests
  <2> QED
    BY <1>0, <1>2, <2>2, <2>3 DEF AttemptsInv, ErrorOnlyAfterAllAttempts
<1>3. ASSUME NEW s \in Listener, Crash(s) PROVE AttemptsInv'
  <2>1. /\ UNCHANGED <<docs, log, attempts>> /\ stage'[s] = "idle"
        /\ \A x \in Listener \ {s} : Rests(x)
    BY <1>0, <1>3 DEF Crash, Leave, Rests, TypeOK
  <2> QED
    BY <1>2, <2>1 DEF BranchWasTried
<1>4. ASSUME NEW s \in Listener, Rebalance(s) PROVE AttemptsInv'
  <2>1. UNCHANGED <<docs, log, attempts>> /\ \A x \in Listener : Rests(x)
    BY <1>4 DEF Rebalance, Rests
  <2>2. AttemptsGrow
    BY <1>0, <2>1 DEF AttemptsGrow, TypeOK
  <2>3. \A t \in Tpp : BranchWasTried(s, t)'
    BY <2>1, <2>2, TriedStable DEF AttemptsInv, Rests
  <2> QED
    BY <1>2, <2>1, <2>3
<1>5. ASSUME NEW s \in Listener, NEW i \in DOMAIN log, Poll(s, i) \/ PollStale(s, i)
      PROVE  AttemptsInv'
  <2>1. /\ UNCHANGED <<docs, log, attempts>>
        /\ offset'[s] = i /\ branch'[s] = StartBranches(log[i])
        /\ \A x \in Listener \ {s} : Rests(x)
    BY <1>0, <1>5 DEF Poll, PollStale, Take, Rests, TypeOK
  <2>2. AttemptsGrow
    BY <1>0, <2>1 DEF AttemptsGrow, TypeOK
  <2>3. \A t \in Tpp : BranchWasTried(s, t)'
    BY <1>0, <2>1, <2>2, TriedAtStart
  <2> QED
    BY <1>2, <2>1, <2>3
<1> QED
  BY <1>1, <1>3, <1>4, <1>5

\* The steps on a whole record: a core record, which has made no attempt.
LEMMA RecordStepTried ==
    ASSUME CoverInv, TypeInv', AttemptsInv, NEW s \in Listener, RecordStep(s)
    PROVE  AttemptsInv'
<1> USE DEF storeVars, kafkaVars, historyVars
<1>0. TypeInv /\ TypeOK /\ RetriesWereTried /\ ErrorOnlyAfterAllAttempts /\ ListenerInv(s)
  BY DEF CoverInv, TypeInv, AttemptsInv
<1>1. /\ stage[s] # "idle" /\ offset[s] \in DOMAIN log
      /\ Acknowledge(s) \/ (Rec(s).topic = "core" /\ stage[s] \in {"resolve", "requeue"})
  BY <1>0 DEF RecordStep, Resolve, ResolveFails, Requeue, RequeueFails, Acknowledge,
              Complete, ListenerInv, TypeInv, HoldsRecord
<1>2. UNCHANGED <<docs, attempts>>
  BY DEF RecordStep, Resolve, ResolveFails, Requeue, RequeueFails, Acknowledge
<1>3. log' = log \/ \E r \in Record : Publish(r) /\ r.topic = "core"
  <2> DEFINE n == NextRetry(Rec(s).retry)
  <2>1. n \in Nat /\ (~Exhausted(n) => Core(Rec(s).msg, n) \in Record)
    BY <1>0, <1>1, NextRetryType, ProducedType
  <2>2. log' = log \/ (~Exhausted(n) /\ Publish(Core(Rec(s).msg, n)))
    BY DEF RecordStep, Resolve, ResolveFails, Requeue, RequeueFails, Acknowledge
  <2>3. Core(Rec(s).msg, n).topic = "core"
    BY DEF Core
  <2> QED
    BY <2>1, <2>2, <2>3
<1>4. AttemptsGrow
  BY <1>0, <1>2, <1>3, PublishType DEF AttemptsGrow, TypeOK
<1>5. RetriesWereTried'
  BY <1>0, <1>3, <1>4, RecordsTried
<1>6. /\ \A x \in Listener \ {s} : Rests(x)
      /\ \/ stage'[s] # "send"
         \/ offset'[s] = offset[s] /\ branch'[s] = StartBranches(log[offset[s]])
         \/ Resolve(s)
  BY <1>0 DEF RecordStep, Resolve, ResolveFails, Requeue, RequeueFails, Acknowledge,
              Leave, RetryInPlace, Rests, Rec, TypeOK
<1>7. \A t \in Tpp : BranchWasTried(s, t)'
  <2>1. CASE stage'[s] # "send"
    BY <2>1 DEF BranchWasTried
  <2>2. CASE offset'[s] = offset[s] /\ branch'[s] = StartBranches(log[offset[s]])
    BY <1>0, <1>1, <1>4, <2>2, TriedAtStart
  <2>3. CASE Resolve(s)
    <3>1. Rec(s).topic = "core" /\ offset'[s] = offset[s]
      BY <1>1, <2>3 DEF Resolve, Acknowledge, Complete
    <3>2. Rec(s)' = Rec(s) /\ SendRetry(s)' = 0
      BY <1>1, <1>4, <3>1 DEF AttemptsGrow, Rec, SendRetry
    <3>3. \A t \in Tpp : /\ branch'[s][t] \in {"insert", "off"}
                         /\ attempts'[KeyOf(s, t)'] \in Nat
      <4>1. \A t \in Tpp : KeyOf(s, t)' = KeyOf(s, t) /\ KeyOf(s, t) \in Key
        BY <1>0, <1>1, <3>2, RecordFacts DEF KeyOf
      <4> QED
        BY <1>0, <1>2, <2>3, <4>1 DEF Resolve, TypeOK
    <3> QED
      BY <3>2, <3>3 DEF BranchWasTried
  <2> QED
    BY <1>6, <2>1, <2>2, <2>3
<1>8. \A x \in Listener : \A t \in Tpp : BranchWasTried(x, t)'
  BY <1>0, <1>4, <1>6, <1>7, TriedStable DEF AttemptsInv, Rests
<1> QED
  BY <1>0, <1>2, <1>5, <1>8 DEF AttemptsInv, ErrorOnlyAfterAllAttempts

\* Where a step on one TPP leads: an attempt is counted on the way out of the
\* token, and only an exhausted retry writes ERROR.
LEMMA BranchStepTries ==
    ASSUME NEW s \in Listener, NEW t \in Tpp, BranchStep(s, t)
    PROVE  LET n == NextRetry(SendRetry(s))
           IN  /\ \/ RetryInPlace(s) \/ OtherError(s)
                  \/ \E pc \in BranchPc :
                        /\ Goto(s, t, pc) /\ pc \notin {"insert", "off"}
                        /\ pc \in {"find", "token"} => branch[s][t] \in {"insert", "find"}
                        /\ pc \in {"post", "save", "enqueue"} =>
                              \/ branch[s][t] = "token" /\ CountAttempt(s, t)
                              \/ branch[s][t] \in {"post", "save"}
               /\ \/ docs' = docs
                  \/ \E state \in DocState \ {"ERROR"} : SetDoc(s, t, state)
                  \/ SetDoc(s, t, "ERROR") /\ branch[s][t] = "enqueue" /\ Exhausted(n)
               /\ \/ UNCHANGED kafkaVars
                  \/ branch[s][t] = "enqueue" /\ ~Exhausted(n) /\ Publish(Retry(Rec(s).msg, t, n))
               /\ attempts' = attempts \/ CountAttempt(s, t)
<1> USE DEF storeVars, kafkaVars, historyVars, At, BranchPc, DocState
<1>1. CASE Insert(s, t) \/ InsertFails(s, t)
  BY <1>1 DEF Insert, InsertFails
<1>2. CASE Find(s, t) \/ FindFails(s, t)
  BY <1>2 DEF Find, FindFails
<1>3. CASE GetToken(s, t) \/ GetTokenThrows(s, t)
  BY <1>3 DEF GetToken, GetTokenThrows
<1>4. CASE Post(s, t) \/ PostAnswerLost(s, t)
  BY <1>4 DEF Post, PostAnswerLost
<1>5. CASE SaveSent(s, t) \/ SaveSentFails(s, t)
  BY <1>5 DEF SaveSent, SaveSentFails
<1>6. CASE EnqueueNotify(s, t) \/ EnqueueNotifyFails(s, t)
  BY <1>6 DEF EnqueueNotify, EnqueueNotifyFails
<1> QED
  BY <1>1, <1>2, <1>3, <1>4, <1>5, <1>6 DEF BranchStep

\* The steps on one TPP.
LEMMA BranchStepTried ==
    ASSUME TypeInv, TypeInv', AttemptsInv, NEW s \in Listener, NEW t \in Tpp, BranchStep(s, t)
    PROVE  AttemptsInv'
<1> DEFINE k == KeyOf(s, t)
           n == NextRetry(SendRetry(s))
           r == Retry(Rec(s).msg, t, n)
<1>0. /\ TypeOK /\ RetriesWereTried /\ ErrorOnlyAfterAllAttempts /\ BranchWasTried(s, t)
      /\ stage[s] = "send" /\ offset[s] \in DOMAIN log
      /\ k \in Key /\ SendRetry(s) \in Nat /\ n = SendRetry(s) + 1
      /\ attempts[k] \in Nat /\ attempts'[k] \in Nat
  <2>1. /\ TypeOK /\ RetriesWereTried /\ ErrorOnlyAfterAllAttempts
        /\ BranchWasTried(s, t)
    BY DEF TypeInv, AttemptsInv
  <2>2. stage[s] = "send" /\ offset[s] \in DOMAIN log
    BY BranchStepShape DEF TypeInv, HoldsRecord
  <2>3. k \in Key /\ SendRetry(s) \in Nat /\ n = SendRetry(s) + 1
    BY <2>2, RecordFacts DEF NextRetry
  <2>4. attempts \in [Key -> Nat] /\ attempts' \in [Key -> Nat]
    BY DEF TypeInv, TypeOK
  <2> QED
    BY <2>1, <2>2, <2>3, <2>4
<1>1. /\ attempts' = attempts \/ CountAttempt(s, t)
      /\ \/ docs' = docs
         \/ \E state \in DocState \ {"ERROR"} : SetDoc(s, t, state)
         \/ SetDoc(s, t, "ERROR") /\ branch[s][t] = "enqueue" /\ Exhausted(n)
      /\ log' = log \/ (branch[s][t] = "enqueue" /\ ~Exhausted(n) /\ Publish(r))
  BY BranchStepTries DEF kafkaVars
<1>2. /\ CountAttempt(s, t) => attempts'[k] = attempts[k] + 1
      /\ \A j \in Key : attempts'[j] >= attempts[j]
  <2>1. CountAttempt(s, t) => attempts' = [attempts EXCEPT ![k] = attempts[k] + 1]
    BY DEF CountAttempt
  <2> HIDE DEF k, n, r
  <2>2. k \in Key /\ attempts \in [Key -> Nat]
    BY <1>0 DEF TypeOK
  <2>3. CASE attempts' = attempts
    BY <2>1, <2>2, <2>3
  <2>4. CASE CountAttempt(s, t)
    <3>1. attempts'[k] = attempts[k] + 1 /\ \A j \in Key \ {k} : attempts'[j] = attempts[j]
      BY <2>1, <2>2, <2>4
    <3> QED
      BY <2>2, <3>1
  <2> QED
    BY <1>1, <2>3, <2>4
<1>3. branch[s][t] = "enqueue" => attempts[k] >= n /\ attempts'[k] >= n
  BY <1>0, <1>2 DEF BranchWasTried
<1>4. ~Exhausted(n) => r \in Record /\ r.topic = "notifyError" /\ <<r.msg, r.tpp>> = k /\ r.retry = n
  BY <1>0, ProducedType DEF Retry, KeyOf
<1> HIDE DEF n, r, k
<1>5. AttemptsGrow
  BY <1>1, <1>2, <1>4, PublishType DEF AttemptsGrow
<1>6. RetriesWereTried'
  BY <1>0, <1>1, <1>3, <1>4, <1>5, RecordsTried
<1>7. ErrorOnlyAfterAllAttempts'
  <2> SUFFICES ASSUME NEW j \in Key, docs'[j] = "ERROR" PROVE attempts'[j] >= MaxTry + 1
    BY DEF ErrorOnlyAfterAllAttempts
  <2>1. CASE docs[j] = "ERROR"
    <3>1. attempts[j] >= MaxTry + 1 /\ attempts'[j] >= attempts[j]
      BY <1>0, <1>2, <2>1 DEF ErrorOnlyAfterAllAttempts
    <3>2. attempts[j] \in Nat /\ attempts'[j] \in Nat /\ MaxTry \in Nat
      BY DeliveryAssumption DEF TypeInv, TypeOK
    <3> QED
      BY <3>1, <3>2
  <2>2. CASE docs[j] # "ERROR"
    <3>1. j = k /\ branch[s][t] = "enqueue" /\ Exhausted(n)
      BY <1>0, <1>1, <2>2 DEF SetDoc, TypeOK, k
    <3> QED
      BY <1>0, <1>3, <3>1 DEF Exhausted
  <2> QED
    BY <2>1, <2>2
<1>8. /\ \A x \in Listener \ {s} : Rests(x)
      /\ \A u \in Tpp : BranchWasTried(s, u)'
  <2>1. CASE RetryInPlace(s) \/ OtherError(s)
    <3>1. /\ offset'[s] = offset[s]
          /\ stage'[s] # "send" \/ branch'[s] = StartBranches(log[offset[s]])
          /\ \A x \in Listener \ {s} : Rests(x)
      BY <1>0, <2>1 DEF RetryInPlace, OtherError, Rests, Rec, TypeOK
    <3> QED
      BY <1>0, <1>5, <3>1, TriedAtStart
  <2>2. ASSUME NEW pc \in BranchPc, Goto(s, t, pc), pc \notin {"insert", "off"},
               pc \in {"find", "token"} => branch[s][t] \in {"insert", "find"},
               pc \in {"post", "save", "enqueue"} =>
                  \/ branch[s][t] = "token" /\ CountAttempt(s, t)
                  \/ branch[s][t] \in {"post", "save"}
        PROVE  /\ \A x \in Listener \ {s} : Rests(x)
               /\ \A u \in Tpp : BranchWasTried(s, u)'
    <3>1. /\ stage' = stage /\ offset' = offset /\ branch'[s][t] = pc
          /\ \A u \in Tpp \ {t} : branch'[s][u] = branch[s][u]
          /\ \A x \in Listener \ {s} : Rests(x)
      BY <1>0, <2>2 DEF Goto, Rests, TypeOK
    <3>2. \A u \in Tpp \ {t} : BranchWasTried(s, u)'
      BY <1>5, <3>1, TriedStable DEF AttemptsInv
    <3>3. Rec(s)' = Rec(s) /\ KeyOf(s, t)' = k /\ SendRetry(s)' = SendRetry(s)
      BY <1>0, <1>5, <3>1 DEF AttemptsGrow, Rec, KeyOf, SendRetry, k
    <3>4. /\ branch[s][t] \in {"insert", "find", "token"} => attempts[k] >= SendRetry(s)
          /\ branch[s][t] \in {"post", "save", "enqueue"} => attempts[k] > SendRetry(s)
      BY <1>0 DEF BranchWasTried, k
    <3>5. attempts'[k] >= attempts[k]
      BY <1>0, <1>2
    <3>6. /\ pc \in {"insert", "find", "token"} => attempts'[k] >= SendRetry(s)
          /\ pc \in {"post", "save", "enqueue"} => attempts'[k] > SendRetry(s)
      BY <1>0, <1>2, <2>2, <3>4, <3>5
    <3>7. BranchWasTried(s, t)'
      BY <3>1, <3>3, <3>6 DEF BranchWasTried
    <3> QED
      BY <3>1, <3>2, <3>7
  <2> QED
    BY <2>1, <2>2, BranchStepTries
<1>9. \A x \in Listener : \A u \in Tpp : BranchWasTried(x, u)'
  BY <1>5, <1>8, TriedStable DEF AttemptsInv, Rests
<1> QED
  BY <1>6, <1>7, <1>9 DEF AttemptsInv

LEMMA AttemptsInvStep == CoverInv /\ AttemptsInv /\ [Next]_vars => AttemptsInv'
<1> SUFFICES ASSUME CoverInv, AttemptsInv, [Next]_vars PROVE AttemptsInv'
  OBVIOUS
<1>1. TypeInv /\ TypeInv'
  BY TypeInvStep DEF CoverInv
<1>2. CASE \/ \E m \in Message : Arrive(m) \/ ArriveAgain(m)
           \/ \E s \in Listener : Crash(s) \/ Rebalance(s)
           \/ \E s \in Listener : \E i \in DOMAIN log : Poll(s, i) \/ PollStale(s, i)
  BY <1>1, <1>2, KafkaStepTried
<1>3. CASE \E s \in Listener : RecordStep(s)
  BY <1>1, <1>3, RecordStepTried
<1>4. CASE \E s \in Listener : \E t \in Tpp : BranchStep(s, t)
  BY <1>1, <1>4, BranchStepTried
<1>5. CASE UNCHANGED vars
  BY <1>5 DEF vars, AttemptsInv, RetriesWereTried, BranchWasTried,
              ErrorOnlyAfterAllAttempts, Rec, KeyOf, SendRetry
<1> QED
  BY <1>2, <1>3, <1>4, <1>5 DEF Next

(* A document is in ERROR only after the first attempt and all MaxTry      *)
(* retries: the count in a retry record's header, which crosses the topic  *)
(* once for every attempt, is never ahead of the attempts made, also when  *)
(* records are processed twice or published twice (enqueueNotify).         *)
THEOREM AllAttemptsBeforeError == Spec => []ErrorOnlyAfterAllAttempts
<1>1. Init => AttemptsInv
  BY DEF Init, AttemptsInv, RetriesWereTried, BranchWasTried, ErrorOnlyAfterAllAttempts
<1>2. AttemptsInv => ErrorOnlyAfterAllAttempts
  BY DEF AttemptsInv
<1> QED
  BY <1>1, <1>2, Covered, AttemptsInvStep, PTL DEF Spec

=============================================================================
