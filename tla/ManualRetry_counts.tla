-------------------------- MODULE ManualRetry_counts --------------------------
(***************************************************************************)
(* Theorems about the pipeline and the manual retries together that count: *)
(* who can still change the outcome of a notification, and how often it is *)
(* sent, for any number of requests, listeners and faults.                 *)
(*                                                                         *)
(* A request in charge is a hand like a listener or a waiting record: it   *)
(* takes the hand that a document in ERROR stands for, and gives it back   *)
(* or passes it to a record.                                               *)
(***************************************************************************)
EXTENDS ManualRetry_proofs, Delivery_counts

USE DeliveryAssumption

-----------------------------------------------------------------------------
(* The requests and the listeners' work.                                   *)

\* A request moves no listener, removes no document and only adds to the log.
LEMMA RequestKeeps ==
    ASSUME RCoverInv, NEW r \in Request, RequestStep(r)
    PROVE  /\ TypeInv /\ TypeInv' /\ LogKept /\ Serving
           /\ UNCHANGED <<committed, stage, offset, owning, branch, settled, accepted, attempts>>
           /\ \A x \in Listener : Rests(x)
           /\ \A k \in Key : (docs'[k] # "none") = (docs[k] # "none")
           /\ wanted[r] \in Key /\ RetryFromStart(r) \in Record
           /\ Targets(RetryFromStart(r)) = {wanted[r]}
  <1>1. TypeInv /\ TypeInv' /\ Requests(r)
    BY RequestInv, RequestSteps DEF RCoverInv, RTypeOK, TypeInv
  <1>2. wanted[r] \in Key
    BY DEF RCoverInv, RTypeOK
  <1>3. RetryFromStart(r) \in Record /\ Targets(RetryFromStart(r)) = {wanted[r]}
    BY <1>2 DEF Key, RetryFromStart, Retry, Record, RetryRecord, Targets
  <1>4. UNCHANGED <<committed, stage, offset, owning, branch, settled, accepted, attempts>>
    BY <1>1 DEF Requests, listenerVars
  <1>5. LogKept
    <2>1. CASE log' = log
      BY <2>1 DEF LogKept
    <2>2. CASE Publish(RetryFromStart(r))
      BY <1>1, <1>3, <2>2, PublishType DEF LogKept
    <2>3. QED
      BY <1>1, <2>1, <2>2 DEF Requests
  <1>6. \A k \in Key : (docs'[k] # "none") = (docs[k] # "none")
    <2> SUFFICES ASSUME NEW k \in Key PROVE (docs'[k] # "none") = (docs[k] # "none")
      OBVIOUS
    <2>1. docs \in [Key -> DocState]
      BY <1>1 DEF TypeInv, TypeOK
    <2>2. CASE docs' = docs
      BY <2>2
    <2>3. CASE docs' # docs
      <3>1. PICK state \in DocState \ {"none"} :
                SetWanted(r, state) /\ docs[wanted[r]] # "none"
        BY <1>1, <2>3 DEF Requests
      <3>2. CASE k = wanted[r]
        BY <1>2, <2>1, <3>1, <3>2 DEF SetWanted
      <3>3. CASE k # wanted[r]
        BY <2>1, <3>1, <3>3 DEF SetWanted
      <3>4. QED BY <3>2, <3>3
    <2>4. QED BY <2>2, <2>3
  <1>7. QED
    BY <1>1, <1>2, <1>3, <1>4, <1>5, <1>6 DEF Serving, Rests

LEMMA RequestWork ==
    ASSUME RCoverInv, WorkInv, NEW r \in Request, RequestStep(r)
    PROVE  WorkInv'
  <1>1. /\ TypeInv /\ LogKept
        /\ UNCHANGED <<stage, offset, owning, branch, accepted, attempts>>
        /\ \A k \in Key : (docs'[k] # "none") = (docs[k] # "none")
    BY RequestKeeps
  <1>2. \A x \in Listener : stage[x] # "idle" =>
            /\ Rec(x)' = Rec(x)
            /\ \A t \in Tpp : KeyOf(x, t)' = KeyOf(x, t) /\ KeyOf(x, t) \in Key
    BY <1>1, RecordFacts DEF TypeInv, HoldsRecord, LogKept, Rec, KeyOf
  <1>3. \A k \in Key :
            docs'[k] # "none" \/ accepted'[k] > 0 \/ attempts'[k] > 0 =>
                \E i \in DOMAIN log' : log'[i].msg = k[1]
    BY <1>1, ArrivedStays DEF WorkInv
  <1>4. \A x \in Listener : \A t \in Tpp :
            stage'[x] = "send" /\ branch'[x][t] = "find" => docs'[KeyOf(x, t)'] # "none"
    BY <1>1, <1>2 DEF WorkInv
  <1>5. QED
    BY <1>1, <1>2, <1>3, <1>4 DEF WorkInv

-----------------------------------------------------------------------------
(* What has a document.                                                    *)

\* A new record to notify again is about a document that is there.
LEMMA RecordsHaveDocument ==
    ASSUME TypeInv, RetryHasDocument,
           \A k \in Key : docs[k] # "none" => docs'[k] # "none",
           \/ log' = log
           \/ \E r \in Record :
                 /\ Publish(r)
                 /\ r.topic = "notifyError" => docs[<<r.msg, r.tpp>>] # "none"
    PROVE  RetryHasDocument' /\ LogKept
  <1>1. ASSUME NEW r \in Record, r.topic = "notifyError" PROVE <<r.msg, r.tpp>> \in Key
    BY <1>1 DEF Record, CoreRecord, RetryRecord, Key
  <1>2. \A i \in DOMAIN log : log[i] \in Record
    BY DEF TypeInv, TypeOK
  <1>3. CASE log' = log
    BY <1>1, <1>2, <1>3 DEF RetryHasDocument, LogKept
  <1>4. ASSUME NEW r \in Record, Publish(r),
               r.topic = "notifyError" => docs[<<r.msg, r.tpp>>] # "none"
        PROVE  RetryHasDocument' /\ LogKept
    <2>1. /\ DOMAIN log = 1..Len(log) /\ DOMAIN log' = 1..(Len(log) + 1)
          /\ \A i \in DOMAIN log : log'[i] = log[i]
          /\ log'[Len(log) + 1] = r /\ Len(log) \in Nat
      BY <1>4, PublishType, AppendFacts DEF TypeInv, TypeOK
    <2>2. \A i \in DOMAIN log' : i \in DOMAIN log \/ i = Len(log) + 1
      BY <2>1
    <2>3. \A i \in DOMAIN log' : log'[i].topic = "notifyError" =>
              docs[<<log'[i].msg, log'[i].tpp>>] # "none" /\ log'[i] \in Record
      BY <1>2, <1>4, <2>1, <2>2 DEF RetryHasDocument
    <2>4. QED
      BY <1>1, <2>1, <2>3 DEF RetryHasDocument, LogKept
  <1>5. QED
    BY <1>3, <1>4

\* The listeners that rest, that begin a record or that no longer send.
LEMMA RestHasDocument ==
    ASSUME TypeInv, LogKept, NEW x \in Listener, Rests(x),
           \A k \in Key : docs[k] # "none" => docs'[k] # "none",
           \A t \in Tpp : BranchHasDocument(x, t)
    PROVE  \A t \in Tpp : BranchHasDocument(x, t)'
  <1> SUFFICES ASSUME NEW t \in Tpp, stage'[x] = "send",
                      branch'[x][t] \in {"token", "post", "save", "enqueue"}
               PROVE  docs'[KeyOf(x, t)'] # "none"
    BY DEF BranchHasDocument
  <1>1. stage[x] # "idle" /\ docs[KeyOf(x, t)] # "none"
    BY DEF Rests, BranchHasDocument
  <1>2. KeyOf(x, t) \in Key /\ offset[x] \in DOMAIN log
    BY <1>1, RecordFacts DEF TypeInv, HoldsRecord
  <1>3. KeyOf(x, t)' = KeyOf(x, t)
    BY <1>2 DEF KeyOf, Rec, LogKept, Rests
  <1>4. QED
    BY <1>1, <1>2, <1>3

LEMMA StartHasDocument ==
    ASSUME TypeInv', RetryHasDocument', NEW x \in Listener, stage'[x] # "idle",
           branch'[x] = StartBranches(Rec(x))'
    PROVE  \A t \in Tpp : BranchHasDocument(x, t)'
  <1>1. offset'[x] \in DOMAIN log'
    BY DEF TypeInv, HoldsRecord
  <1>2. ASSUME NEW t \in Tpp, branch'[x][t] \in {"token", "post", "save", "enqueue"}
        PROVE  docs'[KeyOf(x, t)'] # "none"
    <2>1. Rec(x)'.topic = "notifyError" /\ Rec(x)'.tpp = t
      BY <1>2 DEF StartBranches
    <2>2. QED
      BY <1>1, <2>1 DEF RetryHasDocument, KeyOf, Rec
  <1>3. QED
    BY <1>2 DEF BranchHasDocument

\* A branch goes beyond its insert only with its document.
LEMMA BranchOpens ==
    ASSUME TypeInv, NEW s \in Listener, NEW t \in Tpp, BranchStep(s, t),
           BranchHasDocument(s, t)
    PROVE  \/ RetryInPlace(s) \/ OtherError(s)
           \/ \E to \in BranchPc :
                 /\ Goto(s, t, to)
                 /\ to \in {"token", "post", "save", "enqueue"} =>
                       docs'[KeyOf(s, t)] # "none"
  <1> USE DEF storeVars, kafkaVars, historyVars, At, BranchPc
  <1>0. KeyOf(s, t) \in Key /\ docs \in [Key -> DocState]
    BY BranchStepShape, RecordFacts DEF TypeInv, TypeOK
  <1>1. CASE Insert(s, t) \/ InsertFails(s, t)
    BY <1>0, <1>1 DEF Insert, InsertFails, SetDoc
  <1>2. CASE Find(s, t) \/ FindFails(s, t)
    BY <1>2 DEF Find, FindFails
  <1>3. CASE GetToken(s, t) \/ GetTokenThrows(s, t)
    BY <1>3 DEF GetToken, GetTokenThrows, BranchHasDocument
  <1>4. CASE Post(s, t) \/ PostAnswerLost(s, t)
    BY <1>4 DEF Post, PostAnswerLost, BranchHasDocument
  <1>5. CASE SaveSent(s, t) \/ SaveSentFails(s, t)
    BY <1>0, <1>5 DEF SaveSent, SaveSentFails, BranchHasDocument, SetDoc
  <1>6. CASE EnqueueNotify(s, t) \/ EnqueueNotifyFails(s, t)
    BY <1>6 DEF EnqueueNotify, EnqueueNotifyFails
  <1>7. QED
    BY <1>1, <1>2, <1>3, <1>4, <1>5, <1>6 DEF BranchStep

\* All listeners but one rest, and that one is in order.
LEMMA OneHasDocument ==
    ASSUME TypeInv, LogKept, RDocInv, RetryHasDocument', NEW s \in Listener,
           \A x \in Listener \ {s} : Rests(x),
           \A k \in Key : docs[k] # "none" => docs'[k] # "none",
           \A t \in Tpp : BranchHasDocument(s, t)'
    PROVE  RDocInv'
  BY RestHasDocument DEF RDocInv

LEMMA BranchStepHasDocument ==
    ASSUME TypeInv, TypeInv', RDocInv, NEW s \in Listener, NEW t \in Tpp, BranchStep(s, t)
    PROVE  RDocInv'
  <1> DEFINE n == NextRetry(SendRetry(s))
             r == Retry(Rec(s).msg, t, n)
  <1>1. /\ stage[s] = "send" /\ stage[s] # "idle" /\ offset[s] \in DOMAIN log
        /\ \A u \in Tpp : KeyOf(s, u) \in Key
        /\ docs \in [Key -> DocState] /\ BranchHasDocument(s, t)
    BY BranchStepShape, RecordFacts DEF TypeInv, TypeOK, HoldsRecord, RDocInv
  <1>2. n \in Nat /\ (~Exhausted(n) => r \in Record)
    BY <1>1, NextRetryType, ProducedType, RecordFacts
  <1>3. \A k \in Key : docs[k] # "none" => docs'[k] # "none"
    BY <1>1, BranchStepEffect DEF SetDoc
  <1>4. \/ log' = log
        \/ ~Exhausted(n) /\ Publish(r) /\ docs[KeyOf(s, t)] # "none"
    BY <1>1, BranchStepEffect DEF BranchHasDocument
  <1>5. r.msg = Rec(s).msg /\ r.tpp = t
    BY DEF Retry
  <1>6. RetryHasDocument' /\ LogKept
    <2> HIDE DEF n, r
    <2>1. \/ log' = log
          \/ \E x \in Record :
                /\ Publish(x)
                /\ x.topic = "notifyError" => docs[<<x.msg, x.tpp>>] # "none"
      BY <1>2, <1>4, <1>5 DEF KeyOf
    <2>2. QED
      BY <1>3, <2>1, RecordsHaveDocument DEF RDocInv
  <1>7. Rec(s) = log[offset[s]] /\ (offset'[s] = offset[s] => Rec(s)' = Rec(s))
    BY <1>1, <1>6 DEF Rec, LogKept
  <1>8. CASE RetryInPlace(s) \/ OtherError(s)
    <2>1. /\ \A x \in Listener \ {s} : Rests(x)
          /\ offset' = offset
          /\ \/ stage'[s] = StartStage(Rec(s)) /\ branch'[s] = StartBranches(Rec(s))
             \/ stage'[s] = "requeue"
      BY <1>1, <1>8 DEF RetryInPlace, OtherError, Rests, TypeInv, TypeOK
    <2>2. stage'[s] # "idle"
      BY <2>1 DEF StartStage
    <2>3. \A u \in Tpp : BranchHasDocument(s, u)'
      <3>1. CASE stage'[s] = "requeue"
        BY <3>1 DEF BranchHasDocument
      <3>2. CASE branch'[s] = StartBranches(Rec(s))
        <4>1. branch'[s] = StartBranches(Rec(s))'
          BY <1>7, <2>1, <3>2 DEF StartBranches
        <4>2. QED
          BY <1>6, <2>2, <4>1, StartHasDocument
      <3>3. QED
        BY <2>1, <3>1, <3>2
    <2>4. QED
      BY <1>3, <1>6, <2>1, <2>3, OneHasDocument
  <1>9. ASSUME NEW to \in BranchPc, Goto(s, t, to),
               to \in {"token", "post", "save", "enqueue"} => docs'[KeyOf(s, t)] # "none"
        PROVE  RDocInv'
    <2>1. /\ \A x \in Listener \ {s} : Rests(x)
          /\ offset' = offset /\ stage'[s] = "send"
          /\ branch'[s][t] = to /\ \A u \in Tpp \ {t} : branch'[s][u] = branch[s][u]
      BY <1>1, <1>9 DEF Goto, Rests, TypeInv, TypeOK
    <2>2. \A u \in Tpp : KeyOf(s, u)' = KeyOf(s, u)
      BY <1>7, <2>1 DEF KeyOf
    <2>3. ASSUME NEW u \in Tpp PROVE BranchHasDocument(s, u)'
      <3>1. CASE u = t
        BY <1>9, <2>1, <2>2, <3>1 DEF BranchHasDocument
      <3>2. CASE u # t
        BY <1>1, <1>3, <2>1, <2>2, <3>2 DEF BranchHasDocument, RDocInv
      <3>3. QED
        BY <3>1, <3>2
    <2>4. QED
      BY <1>3, <1>6, <2>1, <2>3, OneHasDocument
  <1>10. QED
    BY <1>1, <1>8, <1>9, BranchOpens

LEMMA NextHasDocument ==
    ASSUME TypeInv, TypeInv', RDocInv, Next
    PROVE  RDocInv'
  <1> USE DEF storeVars, kafkaVars, listenerVars, historyVars
  <1>0. TypeOK
    BY DEF TypeInv
  <1>1. \A k \in Key : docs[k] # "none" => docs'[k] # "none"
    BY DocsStay
  <1>2. ASSUME log' = log PROVE RetryHasDocument' /\ LogKept
    BY <1>1, <1>2, RecordsHaveDocument DEF RDocInv
  <1>3. ASSUME NEW m \in Message, NEW n \in 0..MaxTry, Publish(Core(m, n))
        PROVE  RetryHasDocument' /\ LogKept
    <2>1. Core(m, n) \in Record /\ Core(m, n).topic = "core"
      BY DEF Core, Record, CoreRecord
    <2>2. QED
      BY <1>1, <1>3, <2>1, RecordsHaveDocument DEF RDocInv
  <1>4. ASSUME NEW m \in Message, Arrive(m) \/ ArriveAgain(m) PROVE RDocInv'
    <2>1. Publish(Core(m, 0)) /\ \A x \in Listener : Rests(x)
      BY <1>4 DEF Arrive, ArriveAgain, Rests
    <2>2. RetryHasDocument' /\ LogKept
      BY <1>3, <2>1
    <2>3. QED
      BY <1>1, <2>1, <2>2, RestHasDocument DEF RDocInv
  <1>5. ASSUME NEW s \in Listener, Rebalance(s) PROVE RDocInv'
    <2>1. log' = log /\ \A x \in Listener : Rests(x)
      BY <1>5 DEF Rebalance, Rests
    <2>2. QED
      BY <1>1, <1>2, <2>1, RestHasDocument DEF RDocInv
  <1>6. ASSUME NEW s \in Listener, NEW i \in DOMAIN log, Poll(s, i) \/ PollStale(s, i)
        PROVE  RDocInv'
    <2>1. /\ log' = log /\ \A x \in Listener \ {s} : Rests(x)
          /\ Rec(s)' = log[i] /\ stage'[s] = StartStage(log[i])
          /\ branch'[s] = StartBranches(log[i])
      BY <1>0, <1>6 DEF Poll, PollStale, Take, Rests, TypeOK, Rec
    <2>2. stage'[s] # "idle" /\ branch'[s] = StartBranches(Rec(s))'
      BY <2>1 DEF StartStage, StartBranches
    <2>3. \A t \in Tpp : BranchHasDocument(s, t)'
      BY <1>2, <2>1, <2>2, StartHasDocument
    <2>4. QED
      BY <1>1, <1>2, <2>1, <2>3, OneHasDocument
  <1>7. ASSUME NEW s \in Listener, Crash(s) \/ Acknowledge(s) PROVE RDocInv'
    <2>1. log' = log /\ stage'[s] = "idle" /\ \A x \in Listener \ {s} : Rests(x)
      BY <1>0, <1>7 DEF Crash, Acknowledge, Leave, Rests, TypeOK
    <2>2. \A t \in Tpp : BranchHasDocument(s, t)'
      BY <2>1 DEF BranchHasDocument
    <2>3. QED
      BY <1>1, <1>2, <2>1, <2>2, OneHasDocument
  <1>8. ASSUME NEW s \in Listener, Resolve(s) \/ ResolveFails(s) PROVE RDocInv'
    <2>1. /\ log' = log /\ \A x \in Listener \ {s} : Rests(x)
          /\ stage'[s] = "send" => \A t \in Tpp : branch'[s][t] \in {"insert", "off"}
      BY <1>0, <1>8 DEF Resolve, ResolveFails, Rests, TypeOK
    <2>2. \A t \in Tpp : BranchHasDocument(s, t)'
      BY <2>1 DEF BranchHasDocument
    <2>3. QED
      BY <1>1, <1>2, <2>1, <2>2, OneHasDocument
  <1>9. ASSUME NEW s \in Listener, Requeue(s) \/ RequeueFails(s) PROVE RDocInv'
    <2> DEFINE n == NextRetry(Rec(s).retry)
    <2>1. /\ stage[s] = "requeue" /\ offset[s] \in DOMAIN log /\ Rec(s).msg \in Message
          /\ n \in Nat /\ (~Exhausted(n) => n \in 0..MaxTry)
      BY <1>9, RecordFacts, NextRetryType DEF Requeue, RequeueFails, TypeInv, HoldsRecord,
         Exhausted
    <2>2. /\ \A x \in Listener \ {s} : Rests(x)
          /\ offset' = offset
          /\ log' = log \/ (~Exhausted(n) /\ Publish(Core(Rec(s).msg, n)))
          /\ \/ stage'[s] = "processed"
             \/ stage'[s] = StartStage(Rec(s)) /\ branch'[s] = StartBranches(Rec(s))
      BY <1>0, <1>9 DEF Requeue, RequeueFails, RetryInPlace, Rests, TypeOK
    <2>3. RetryHasDocument' /\ LogKept
      BY <1>2, <1>3, <2>1, <2>2
    <2>4. \A t \in Tpp : BranchHasDocument(s, t)'
      <3>1. CASE stage'[s] = "processed"
        BY <3>1 DEF BranchHasDocument
      <3>2. CASE stage'[s] = StartStage(Rec(s)) /\ branch'[s] = StartBranches(Rec(s))
        <4>1. Rec(s)' = Rec(s)
          BY <2>1, <2>2, <2>3 DEF Rec, LogKept
        <4>2. stage'[s] # "idle" /\ branch'[s] = StartBranches(Rec(s))'
          BY <3>2, <4>1 DEF StartStage, StartBranches
        <4>3. QED
          BY <2>3, <4>2, StartHasDocument
      <3>3. QED
        BY <2>2, <3>1, <3>2
    <2>5. QED
      BY <1>1, <2>2, <2>3, <2>4, OneHasDocument
  <1>10. QED
    BY <1>4, <1>5, <1>6, <1>7, <1>8, <1>9, BranchStepHasDocument DEF Next, RecordStep

\* A request publishes only what it has claimed.
LEMMA RequestPublishes ==
    ASSUME RCoverInv, NEW r \in Request, RequestStep(r)
    PROVE  log' = log \/ (Publish(RetryFromStart(r)) /\ docs[wanted[r]] # "none")
  <1>1. CASE PublishRetry(r) \/ PublishRetryAnswerLost(r)
    <2>1. pc[r] = "publish" /\ Publish(RetryFromStart(r))
      BY <1>1 DEF PublishRetry, PublishRetryAnswerLost, Publish, pipelineVars
    <2>2. QED
      BY <2>1 DEF RCoverInv, ClaimHasDocument
  <1>2. QED
    BY <1>1 DEF RequestStep, Claim, ClaimFails, Exists, ExistsFails, GetConfig,
         PublishRetryRefused, Release, ReleaseFails, Abandon

LEMMA RequestHasDocument ==
    ASSUME RCoverInv, RDocInv, NEW r \in Request, RequestStep(r)
    PROVE  RDocInv'
  <1>1. /\ TypeInv /\ \A x \in Listener : Rests(x)
        /\ \A k \in Key : (docs'[k] # "none") = (docs[k] # "none")
        /\ wanted[r] \in Key /\ RetryFromStart(r) \in Record
    BY RequestKeeps
  <1>2. log' = log \/ (Publish(RetryFromStart(r)) /\ docs[wanted[r]] # "none")
    BY RequestPublishes
  <1>3. <<RetryFromStart(r).msg, RetryFromStart(r).tpp>> = wanted[r]
    BY <1>1 DEF Key, RetryFromStart, Retry
  <1>4. RetryHasDocument' /\ LogKept
    BY <1>1, <1>2, <1>3, RecordsHaveDocument DEF RDocInv
  <1>5. QED
    BY <1>1, <1>4, RestHasDocument DEF RDocInv

-----------------------------------------------------------------------------
(* The balance of a request's step.                                        *)

\* What a request is for the notification it names.
ChargeAt(step) == IF step \in Claimed THEN 1 ELSE 0

\* Requests are in charge of the notifications they name and of no other.
LEMMA ChargeCounts ==
    ASSUME RTypeOK, NEW r \in Request, NEW step \in RequestPc,
           pc' = [pc EXCEPT ![r] = step], wanted' = wanted,
           NEW k \in Key, IsFiniteSet(InCharge(k))
    PROVE  /\ IsFiniteSet(InCharge(k)')
           /\ Cardinality(InCharge(k)) \in Nat /\ Cardinality(InCharge(k)') \in Nat
           /\ k = wanted[r] =>
                 Cardinality(InCharge(k)') + ChargeAt(pc[r])
                     = Cardinality(InCharge(k)) + ChargeAt(step)
           /\ k # wanted[r] => Cardinality(InCharge(k)') = Cardinality(InCharge(k))
  <1>1. pc'[r] = step /\ \A x \in Request \ {r} : pc'[x] = pc[x]
    BY DEF RTypeOK
  <1>2. InCharge(k)' \ {r} = InCharge(k) \ {r}
    BY <1>1 DEF InCharge
  <1>3. /\ r \in InCharge(k) <=> k = wanted[r] /\ pc[r] \in Claimed
        /\ r \in InCharge(k)' <=> k = wanted[r] /\ step \in Claimed
    BY <1>1 DEF InCharge, Claimed
  <1>4. /\ IsFiniteSet(InCharge(k)')
        /\ Cardinality(InCharge(k)) \in Nat /\ Cardinality(InCharge(k)') \in Nat
        /\ Cardinality(InCharge(k)') + (IF r \in InCharge(k) THEN 1 ELSE 0)
             = Cardinality(InCharge(k)) + (IF r \in InCharge(k)' THEN 1 ELSE 0)
    BY <1>2, OneSwings
  <1>5. QED
    BY <1>3, <1>4 DEF ChargeAt

\* With q = 1 when the request publishes: the listeners' hands stay, and what
\* waits grows by its record at most.
LEMMA RequestQueues ==
    ASSUME RCoverInv, NEW r \in Request, RequestStep(r), NEW k \in Key,
           IsFiniteSet(Holding(k)), IsFiniteSet(Saving(k)), NEW q \in 0..1,
           \/ log' = log
           \/ Publish(RetryFromStart(r)) /\ (k = wanted[r] => q = 1)
    PROVE  /\ Holding(k)' = Holding(k) /\ Saving(k)' = Saving(k)
           /\ Held(k) \in Nat /\ Held(k)' \in Nat
           /\ Held(k)' + IsIn(k, "ERROR") <= Held(k) + IsIn(k, "ERROR")' + q
  <1> DEFINE rec == RetryFromStart(r)
  <1>1. /\ TypeInv /\ TypeInv' /\ LogKept /\ Serving /\ committed' = committed
        /\ accepted' = accepted /\ \A x \in Listener : Rests(x)
        /\ rec \in Record /\ Targets(rec) = {wanted[r]}
    BY RequestKeeps
  <1> HIDE DEF rec
  <1>2. Holding(k)' = Holding(k) /\ Saving(k)' = Saving(k)
    <2>1. \A x \in Listener : /\ x \in Holding(k)' <=> x \in Holding(k)
                              /\ x \in Saving(k)' <=> x \in Saving(k)
      BY <1>1, RestsCounts
    <2>2. /\ Holding(k) \subseteq Listener /\ Holding(k)' \subseteq Listener
          /\ Saving(k) \subseteq Listener /\ Saving(k)' \subseteq Listener
      BY DEF Holding, Saving
    <2>3. QED
      BY <2>1, <2>2
  <1>3. /\ Cardinality(Queued(k)) \in Nat /\ Cardinality(Queued(k)') \in Nat
        /\ Cardinality(Queued(k)') <= Cardinality(Queued(k)) + q
    <2>1. CASE Queued(k)' \subseteq Queued(k)
      BY <1>1, <2>1, QueueShrinks
    <2>2. CASE Publish(rec) /\ k = wanted[r] /\ q = 1
      <3>1. /\ Len(log) + 1 \in DOMAIN log'
            /\ Queued(k)' \subseteq Queued(k) \cup {Len(log) + 1}
        BY <1>1, <2>2, QueueServing
      <3>2. QED
        BY <1>1, <2>2, <3>1, QueueGrows
    <2>3. CASE log' = log
      <3>1. Queued(k)' \subseteq Queued(k)
        BY <1>1, <2>3, QueueServing
      <3>2. QED BY <2>1, <3>1
    <2>4. CASE Publish(rec) /\ k # wanted[r]
      <3>1. Queued(k)' \subseteq Queued(k)
        BY <1>1, <2>4, QueueServing
      <3>2. QED BY <2>1, <3>1
    <2>5. QED
      BY <2>2, <2>3, <2>4 DEF rec
  <1>4. Cardinality(Holding(k)) \in Nat /\ accepted[k] \in Nat /\ accepted'[k] = accepted[k]
    BY <1>1, FS_CardinalityType DEF TypeInv, TypeOK
  <1>5. IsIn(k, "ERROR") \in 0..1 /\ IsIn(k, "ERROR")' \in 0..1
    BY IsInType
  <1>6. /\ Held(k) = accepted[k] + Cardinality(Holding(k)) + Cardinality(Queued(k))
                        + IsIn(k, "ERROR")
        /\ Held(k)' = accepted[k] + Cardinality(Holding(k)) + Cardinality(Queued(k)')
                        + IsIn(k, "ERROR")'
    BY <1>2, <1>4 DEF Held
  <1>7. QED
    BY <1>2, <1>3, <1>4, <1>5, <1>6

\* What a step leaves of k's hands: none more but for a fault.
RSettles(k) ==
    /\ IsFiniteSet(Holding(k)') /\ IsFiniteSet(Saving(k)') /\ IsFiniteSet(InCharge(k)')
    /\ Held(k) \in Nat /\ Held(k)' \in Nat
    /\ Cardinality(InCharge(k)) \in Nat /\ Cardinality(InCharge(k)') \in Nat
    /\ \/ /\ faults' = faults
          /\ Held(k)' + Cardinality(InCharge(k)') <= Held(k) + Cardinality(InCharge(k))
       \/ /\ faults' = faults + 1
          /\ Held(k)' + Cardinality(InCharge(k)') <= Held(k) + Cardinality(InCharge(k)) + 1
    /\ Cardinality(Saving(k)') = Cardinality(Saving(k)) /\ accepted'[k] = accepted[k]
    /\ IsIn(k, "SENT")' = IsIn(k, "SENT")

\* How each of a request's steps moves it, whether it publishes, and what it
\* does to its document.
RequestMoves(r, step, q) ==
    LET k == wanted[r]
    IN  /\ pc' = [pc EXCEPT ![r] = step]
        /\ log' = log \/ (Publish(RetryFromStart(r)) /\ q = 1)
        /\ \/ docs' = docs
           \/ docs[k] = "ERROR" /\ SetWanted(r, "IN_PROCESS")
           \/ docs[k] = "IN_PROCESS" /\ SetWanted(r, "ERROR")
        /\ IsIn(k, "ERROR")' + q + ChargeAt(step) + faults
              <= IsIn(k, "ERROR") + ChargeAt(pc[r]) + faults'
        /\ faults' = faults \/ faults' = faults + 1

LEMMA RequestMovesOn ==
    ASSUME RCoverInv, NEW r \in Request, RequestStep(r)
    PROVE  \E step \in RequestPc : \E q \in 0..1 : RequestMoves(r, step, q)
  <1> DEFINE k == wanted[r]
  <1>1. /\ k \in Key /\ docs \in [Key -> DocState] /\ faults \in Nat
        /\ pc \in [Request -> RequestPc] /\ committed' = committed
    BY RequestKeeps DEF RCoverInv, RTypeOK, TypeOK
  <1>2. /\ SetWanted(r, "IN_PROCESS") => docs'[k] = "IN_PROCESS"
        /\ SetWanted(r, "ERROR") => docs'[k] = "ERROR"
    BY <1>1 DEF SetWanted
  <1> HIDE DEF k
  <1> USE <1>1, <1>2
      DEF GoOn, Reply, IsIn, ChargeAt, Claimed, Fault, RequestPc
  <1>3. CASE Claim(r) /\ docs[k] = "ERROR"
    <2>1. RequestMoves(r, "config", 0)
      BY <1>3 DEF Claim, RequestMoves, k
    <2>2. QED BY <2>1
  <1>4. CASE Claim(r) /\ docs[k] # "ERROR"
    <2>1. RequestMoves(r, "exists", 0)
      BY <1>4 DEF Claim, RequestMoves, k
    <2>2. QED BY <2>1
  <1>5. CASE ClaimFails(r) \/ Exists(r) \/ ExistsFails(r) \/ Abandon(r)
    <2>1. RequestMoves(r, "answered", 0)
      BY <1>5 DEF ClaimFails, Exists, ExistsFails, Abandon, RequestMoves, k
    <2>2. QED BY <2>1
  <1>6. CASE GetConfig(r)
    <2>1. RequestMoves(r, "publish", 0) \/ RequestMoves(r, "release", 0)
      BY <1>6 DEF GetConfig, RequestMoves, k
    <2>2. QED BY <2>1
  <1>7. CASE PublishRetry(r)
    <2>1. RequestMoves(r, "answered", 1)
      BY <1>7 DEF PublishRetry, Publish, RequestMoves, k
    <2>2. QED BY <2>1
  <1>8. CASE PublishRetryRefused(r)
    <2>1. RequestMoves(r, "release", 0)
      BY <1>8 DEF PublishRetryRefused, RequestMoves, k
    <2>2. QED BY <2>1
  <1>9. CASE PublishRetryAnswerLost(r)
    <2>1. RequestMoves(r, "release", 1)
      BY <1>9 DEF PublishRetryAnswerLost, Publish, RequestMoves, k
    <2>2. QED BY <2>1
  <1>10. CASE Release(r) \/ ReleaseFails(r)
    <2>1. RequestMoves(r, "answered", 0)
      BY <1>10 DEF Release, ReleaseFails, RequestMoves, k
    <2>2. QED BY <2>1
  <1>11. QED
    BY <1>3, <1>4, <1>5, <1>6, <1>7, <1>8, <1>9, <1>10 DEF RequestStep

LEMMA RequestSettles ==
    ASSUME RCoverInv, NEW r \in Request, RequestStep(r), NEW k \in Key,
           IsFiniteSet(Holding(k)), IsFiniteSet(Saving(k)), IsFiniteSet(InCharge(k))
    PROVE  RSettles(k)
  <1>1. PICK step \in RequestPc, q \in 0..1 : RequestMoves(r, step, q)
    BY RequestMovesOn
  <1>2. /\ RTypeOK /\ TypeInv /\ TypeInv' /\ wanted' = wanted
        /\ accepted' = accepted /\ docs \in [Key -> DocState]
    BY RequestKeeps, RequestSteps DEF RCoverInv, RTypeOK, TypeOK, Requests
  <1>3. pc' = [pc EXCEPT ![r] = step]
    BY <1>1 DEF RequestMoves
  <1>4. /\ IsFiniteSet(InCharge(k)')
        /\ Cardinality(InCharge(k)) \in Nat /\ Cardinality(InCharge(k)') \in Nat
        /\ k = wanted[r] =>
              Cardinality(InCharge(k)') + ChargeAt(pc[r])
                  = Cardinality(InCharge(k)) + ChargeAt(step)
        /\ k # wanted[r] => Cardinality(InCharge(k)') = Cardinality(InCharge(k))
    BY <1>2, <1>3, ChargeCounts
  <1>5. IsIn(k, "SENT")' = IsIn(k, "SENT") /\ (k # wanted[r] => docs'[k] = docs[k])
    BY <1>1, <1>2 DEF RequestMoves, SetWanted, IsIn
  <1>6. faults \in Nat /\ (faults' = faults \/ faults' = faults + 1)
    BY <1>1, <1>2 DEF RequestMoves, TypeInv, TypeOK
  <1>7. IsIn(k, "ERROR") \in 0..1 /\ IsIn(k, "ERROR")' \in 0..1
    BY IsInType
  <1>8. CASE k # wanted[r]
    <2>1. /\ Holding(k)' = Holding(k) /\ Saving(k)' = Saving(k)
          /\ Held(k) \in Nat /\ Held(k)' \in Nat
          /\ Held(k)' + IsIn(k, "ERROR") <= Held(k) + IsIn(k, "ERROR")' + 0
      BY <1>1, <1>8, RequestQueues DEF RequestMoves
    <2>2. IsIn(k, "ERROR")' = IsIn(k, "ERROR")
      BY <1>5, <1>8 DEF IsIn
    <2>3. QED
      BY <1>2, <1>4, <1>5, <1>6, <1>7, <1>8, <2>1, <2>2 DEF RSettles
  <1>9. CASE k = wanted[r]
    <2>1. /\ Holding(k)' = Holding(k) /\ Saving(k)' = Saving(k)
          /\ Held(k) \in Nat /\ Held(k)' \in Nat
          /\ Held(k)' + IsIn(k, "ERROR") <= Held(k) + IsIn(k, "ERROR")' + q
      BY <1>1, <1>9, RequestQueues DEF RequestMoves
    <2>2. IsIn(k, "ERROR")' + q + ChargeAt(step) + faults
             <= IsIn(k, "ERROR") + ChargeAt(pc[r]) + faults'
      BY <1>1, <1>2, <1>9 DEF RequestMoves, IsIn
    <2>3. ChargeAt(step) \in 0..1 /\ ChargeAt(pc[r]) \in 0..1
      BY DEF ChargeAt
    <2>4. Held(k)' + Cardinality(InCharge(k)') + faults
             <= Held(k) + Cardinality(InCharge(k)) + faults'
      BY <1>4, <1>6, <1>7, <1>9, <2>1, <2>2, <2>3
    <2>5. QED
      BY <1>2, <1>4, <1>5, <1>6, <2>1, <2>4 DEF RSettles
  <1>10. QED
    BY <1>8, <1>9

-----------------------------------------------------------------------------
(* The theorems.                                                           *)

\* What the pipeline's and the requests' steps do to a notification's hands.
LEMMA RNextSettles ==
    ASSUME RCoverInv, WorkInv, RNext, NEW k \in Key,
           IsFiniteSet(Holding(k)), IsFiniteSet(Saving(k)), IsFiniteSet(InCharge(k))
    PROVE  \/ RSettles(k)
           \/ /\ Next /\ Settles(k) /\ InCharge(k)' = InCharge(k)
              /\ Fresh(k) => InCharge(k) = {}
  <1>1. ASSUME NEW r \in Request, RequestStep(r) PROVE RSettles(k)
    BY <1>1, RequestSettles
  <1>2. CASE Next /\ UNCHANGED requestVars
    <2>1. TypeInv /\ TypeInv'
      BY <1>2, TypeInvStep DEF RCoverInv, RTypeOK, TypeInv
    <2>2. Settles(k)
      BY <1>2, <2>1, NextSettles
    <2>3. InCharge(k)' = InCharge(k)
      BY <1>2 DEF requestVars, InCharge
    <2>4. ASSUME Fresh(k), NEW r \in InCharge(k) PROVE FALSE
      <3>1. r \in Request /\ wanted[r] = k /\ docs[k] # "none"
        BY <2>4 DEF InCharge, RCoverInv, ClaimHasDocument
      <3>2. QED
        BY <2>4, <3>1 DEF WorkInv, Fresh
    <2>5. QED
      BY <1>2, <2>2, <2>3, <2>4
  <1>3. QED
    BY <1>1, <1>2 DEF RNext

LEMMA RCountStep ==
    ASSUME RCoverInv, WorkInv, RCountInv, RNext
    PROVE  RCountInv'
  <1> SUFFICES ASSUME NEW k \in Key
               PROVE  /\ IsFiniteSet(Holding(k)') /\ IsFiniteSet(Saving(k)')
                      /\ IsFiniteSet(InCharge(k)')
                      /\ Held(k)' + Cardinality(InCharge(k)') <= 1 + faults'
                      /\ Cardinality(Saving(k)') + IsIn(k, "SENT")' <= accepted'[k]
    BY DEF RCountInv
  <1>1. /\ IsFiniteSet(Holding(k)) /\ IsFiniteSet(Saving(k)) /\ IsFiniteSet(InCharge(k))
        /\ Held(k) + Cardinality(InCharge(k)) <= 1 + faults
        /\ Cardinality(Saving(k)) + IsIn(k, "SENT") <= accepted[k]
    BY DEF RCountInv
  <1>2. TypeInv /\ TypeInv'
    BY RCoverStep DEF RCoverInv, RTypeOK, TypeInv
  <1>3. /\ faults \in Nat /\ faults' \in Nat
        /\ accepted[k] \in Nat /\ accepted'[k] \in Nat
        /\ IsIn(k, "SENT") \in 0..1 /\ IsIn(k, "SENT")' \in 0..1
        /\ Cardinality(Saving(k)) \in Nat
    BY <1>1, <1>2, CountTypes, FS_CardinalityType
  <1>4. CASE RSettles(k)
    BY <1>1, <1>3, <1>4 DEF RSettles
  <1>5. CASE /\ Settles(k) /\ InCharge(k)' = InCharge(k)
             /\ Fresh(k) => InCharge(k) = {}
    <2>1. /\ Cardinality(InCharge(k)') = Cardinality(InCharge(k))
          /\ Cardinality(InCharge(k)) \in Nat
          /\ Fresh(k) => Cardinality(InCharge(k)) = 0
      BY <1>1, <1>5, FS_CardinalityType, FS_EmptySet
    <2>2. Held(k)' + Cardinality(InCharge(k)') <= 1 + faults'
      BY <1>1, <1>3, <1>5, <2>1 DEF Settles
    <2>3. Cardinality(Saving(k)') + IsIn(k, "SENT")' <= accepted'[k]
      BY <1>1, <1>3, <1>5 DEF Settles
    <2>4. QED
      BY <1>1, <1>5, <2>2, <2>3 DEF Settles
  <1>6. QED
    BY <1>1, <1>4, <1>5, RNextSettles

(* The two arguments hold together with manual retries: what is committed  *)
(* or claimed is carried on, and a request is one of the hands, of which   *)
(* only a fault makes one more.                                            *)
THEOREM RInductive == RSpec => []RInv
  <1>1. RInit => RInv
    <2> SUFFICES ASSUME RInit PROVE RInv
      OBVIOUS
    <2>1. RCoverInv /\ WorkInv /\ CountInv
      BY RCoverInit, CountInvInit DEF RInit
    <2>2. ASSUME NEW k \in Key
          PROVE  /\ IsFiniteSet(InCharge(k))
                 /\ Held(k) + Cardinality(InCharge(k)) <= 1 + faults
      <3>1. InCharge(k) = {}
        BY DEF RInit, InCharge
      <3>2. Held(k) <= 1 + faults /\ IsFiniteSet(Holding(k))
        BY <2>1 DEF CountInv
      <3>3. Held(k) \in Nat /\ faults \in Nat
        <4>1. TypeInv
          BY <2>1 DEF RCoverInv, RTypeOK, TypeInv
        <4>2. Cardinality(Holding(k)) \in Nat /\ Cardinality(Queued(k)) \in Nat
          BY <3>2, <4>1, QueuedFinite, FS_CardinalityType
        <4>3. accepted[k] \in Nat /\ faults \in Nat /\ IsIn(k, "ERROR") \in 0..1
          BY <4>1, IsInType DEF TypeInv, TypeOK
        <4>4. QED
          BY <4>2, <4>3 DEF Held
      <3>4. QED
        BY <3>1, <3>2, <3>3, FS_EmptySet
    <2>3. RCountInv
      BY <2>1, <2>2 DEF CountInv, RCountInv
    <2>4. RDocInv
      BY DEF RInit, Init, RDocInv, RetryHasDocument, BranchHasDocument
    <2>5. QED
      BY <2>1, <2>3, <2>4 DEF RInv
  <1>2. RInv /\ [RNext]_rvars => RInv'
    <2> SUFFICES ASSUME RInv, [RNext]_rvars PROVE RInv'
      OBVIOUS
    <2>1. RCoverInv /\ WorkInv /\ RCountInv /\ RDocInv /\ RCoverInv'
      BY RCoverStep DEF RInv
    <2>2. TypeInv /\ TypeInv'
      BY <2>1 DEF RCoverInv, RTypeOK, TypeInv
    <2>3. CASE RNext
      <3>1. WorkInv'
        BY <2>1, <2>2, <2>3, WorkInvStep, RequestWork DEF RNext
      <3>2. RCountInv'
        BY <2>1, <2>3, RCountStep
      <3>3. RDocInv'
        BY <2>1, <2>2, <2>3, NextHasDocument, RequestHasDocument DEF RNext
      <3>4. QED
        BY <2>1, <3>1, <3>2, <3>3 DEF RInv
    <2>4. CASE UNCHANGED rvars
      <3>1. UNCHANGED vars /\ UNCHANGED requestVars
        BY <2>4 DEF rvars
      <3>2. WorkInv'
        BY <2>1, <3>1 DEF vars, WorkInv, Rec, KeyOf
      <3>3. RCountInv'
        <4>1. \A k : /\ Holding(k)' = Holding(k) /\ Saving(k)' = Saving(k)
                     /\ Queued(k)' = Queued(k)
          BY <3>1 DEF vars, Holding, Saving, Queued, Deliverable, Targets, Rec
        <4>2. \A k : InCharge(k)' = InCharge(k)
          BY <3>1 DEF requestVars, InCharge
        <4>3. \A k : Held(k)' = Held(k) /\ IsIn(k, "SENT")' = IsIn(k, "SENT")
          BY <3>1, <4>1 DEF vars, Held, IsIn
        <4>4. QED
          BY <2>1, <3>1, <4>1, <4>2, <4>3 DEF vars, RCountInv
      <3>4. RDocInv'
        BY <2>1, <3>1 DEF vars, RDocInv, RetryHasDocument, BranchHasDocument, KeyOf, Rec
      <3>5. QED
        BY <2>1, <3>2, <3>3, <3>4 DEF RInv
    <2>5. QED BY <2>3, <2>4
  <1>3. QED
    BY <1>1, <1>2, PTL DEF RSpec

\* The numbers of one notification that the theorems compare.
LEMMA RBalance ==
    ASSUME RInv, NEW k \in Key
    PROVE  /\ TypeInv /\ faults \in Nat /\ accepted[k] \in Nat /\ IsIn(k, "ERROR") \in 0..1
           /\ IsFiniteSet(Holding(k)) /\ IsFiniteSet(Saving(k)) /\ IsFiniteSet(InCharge(k))
           /\ IsFiniteSet(Queued(k))
           /\ Cardinality(Holding(k)) \in Nat /\ Cardinality(Saving(k)) \in Nat
           /\ Cardinality(Queued(k)) \in Nat /\ Cardinality(InCharge(k)) \in Nat
           /\ accepted[k] + Cardinality(Holding(k)) + Cardinality(Queued(k))
                 + IsIn(k, "ERROR") + Cardinality(InCharge(k)) <= 1 + faults
           /\ Cardinality(Saving(k)) + IsIn(k, "SENT") <= accepted[k]
  <1>1. /\ TypeInv
        /\ IsFiniteSet(Holding(k)) /\ IsFiniteSet(Saving(k)) /\ IsFiniteSet(InCharge(k))
        /\ Held(k) + Cardinality(InCharge(k)) <= 1 + faults
        /\ Cardinality(Saving(k)) + IsIn(k, "SENT") <= accepted[k]
    BY DEF RInv, RCoverInv, RTypeOK, TypeInv, RCountInv
  <1>2. IsFiniteSet(Queued(k))
    BY <1>1, QueuedFinite
  <1>3. QED
    BY <1>1, <1>2, FS_CardinalityType, IsInType DEF Held, TypeInv, TypeOK

(* A notification is in one hand, a request's, a listener's or the topic's,*)
(* and in one more for each fault: a claim and a chain of retries exclude  *)
(* each other, for any number of requests and listeners.                   *)
THEOREM OneHand == RSpec => []OneHandAtATime
  <1>1. RInv => OneHandAtATime
    <2> SUFFICES ASSUME RInv, NEW k \in Key
                 PROVE  Cardinality(InCharge(k)) + Cardinality(Sending(k))
                            + Cardinality(Waiting(k)) <= 1 + faults
      BY DEF OneHandAtATime
    <2>1. /\ TypeInv /\ faults \in Nat /\ accepted[k] \in Nat /\ IsIn(k, "ERROR") \in 0..1
          /\ IsFiniteSet(Holding(k)) /\ IsFiniteSet(Saving(k)) /\ IsFiniteSet(InCharge(k))
          /\ IsFiniteSet(Queued(k))
          /\ Cardinality(Holding(k)) \in Nat /\ Cardinality(Saving(k)) \in Nat
          /\ Cardinality(Queued(k)) \in Nat /\ Cardinality(InCharge(k)) \in Nat
          /\ accepted[k] + Cardinality(Holding(k)) + Cardinality(Queued(k))
                + IsIn(k, "ERROR") + Cardinality(InCharge(k)) <= 1 + faults
          /\ Cardinality(Saving(k)) + IsIn(k, "SENT") <= accepted[k]
      BY RBalance
    <2>2. /\ Cardinality(Sending(k)) \in Nat
          /\ Cardinality(Sending(k)) <= Cardinality(Holding(k)) + Cardinality(Saving(k))
      <3>1. Sending(k) \subseteq Holding(k) \cup Saving(k)
        BY DEF Sending, Holding, Saving
      <3>2. /\ IsFiniteSet(Holding(k) \cup Saving(k))
            /\ Cardinality(Holding(k) \cup Saving(k)) =
                  Cardinality(Holding(k)) + Cardinality(Saving(k))
                      - Cardinality(Holding(k) \cap Saving(k))
            /\ Cardinality(Holding(k) \cap Saving(k)) \in Nat
        BY <2>1, FS_Union, FS_Intersection, FS_CardinalityType
      <3>3. /\ Cardinality(Sending(k)) \in Nat
            /\ Cardinality(Sending(k)) <= Cardinality(Holding(k) \cup Saving(k))
        BY <3>1, <3>2, Fewer
      <3>4. QED
        BY <2>1, <3>2, <3>3
    <2>3. Cardinality(Waiting(k)) \in Nat /\ Cardinality(Waiting(k)) <= Cardinality(Queued(k))
      <3>1. Waiting(k) \subseteq Queued(k)
        BY <2>1 DEF Waiting, Queued, Deliverable, TypeInv, TypeOK
      <3>2. QED
        BY <2>1, <3>1, Fewer
    <2>4. IsIn(k, "SENT") \in 0..1
      BY IsInType
    <2>5. QED
      BY <2>1, <2>2, <2>3, <2>4
  <1>2. QED
    BY <1>1, RInductive, PTL

(* Manual retries do not notify twice: a TPP takes a notification once, and*)
(* once more at most for each fault, whatever the number of requests.      *)
THEOREM RNotifiedOnce == RSpec => []ManualRetriesNotifyOnce
  <1>1. RInv => ManualRetriesNotifyOnce
    BY RBalance DEF ManualRetriesNotifyOnce
  <1>2. QED
    BY <1>1, RInductive, PTL

(* As long as nothing has failed, a SENT document stays SENT: no claim, no *)
(* release and no listener overwrites it, since its notification is in     *)
(* nobody's hand any more.                                                 *)
THEOREM SentStays == RSpec => SentIsFinal
  <1>1. RInv /\ [RNext]_rvars =>
            [\A k \in Key : faults' = 0 /\ docs[k] = "SENT" => docs'[k] = "SENT"]_rvars
    <2> SUFFICES ASSUME RInv, RNext, NEW k \in Key, faults' = 0, docs[k] = "SENT"
                 PROVE  docs'[k] = "SENT"
      OBVIOUS
    <2>1. RCoverInv /\ WorkInv /\ TypeInv
      BY DEF RInv, RCoverInv, RTypeOK, TypeInv
    <2>2. ASSUME NEW r \in Request, RequestStep(r) PROVE docs'[k] = "SENT"
      <3>1. PICK step \in RequestPc, q \in 0..1 : RequestMoves(r, step, q)
        BY <2>1, <2>2, RequestMovesOn
      <3>2. QED
        BY <2>1, <3>1 DEF RequestMoves, SetWanted, TypeInv, TypeOK
    <2>3. CASE Next /\ UNCHANGED requestVars
      <3>1. /\ faults \in Nat /\ IsFiniteSet(Holding(k)) /\ IsFiniteSet(Saving(k))
            /\ Held(k) + Cardinality(InCharge(k)) <= 1 + faults
            /\ Cardinality(InCharge(k)) \in Nat
            /\ Cardinality(Saving(k)) + IsIn(k, "SENT") <= accepted[k]
        BY RBalance DEF RInv, RCountInv
      <3>2. Settles(k)
        BY <2>1, <2>3, <3>1, NextSettles, TypeInvStep
      <3>3. Held(k) <= 1
        BY <3>1, <3>2 DEF Settles
      <3>4. ASSUME NEW s \in Listener, NEW t \in Tpp, BranchStep(s, t)
            PROVE  docs'[k] = docs[k]
        BY <2>1, <3>1, <3>3, <3>4, TerminalStep DEF Terminal
      <3>5. (\E s \in Listener : \E t \in Tpp : BranchStep(s, t)) \/ docs' = docs
        BY <2>3 DEF Next, RecordStep, Arrive, ArriveAgain, Poll, PollStale, Take, Crash,
             Rebalance, Acknowledge, Resolve, ResolveFails, Requeue, RequeueFails, storeVars
      <3>6. QED
        BY <3>4, <3>5
    <2>4. QED
      BY <2>2, <2>3 DEF RNext
  <1>2. QED
    BY <1>1, RInductive, PTL DEF RSpec, SentIsFinal

(* As long as nothing has failed, the release of a failed request finds the*)
(* state its own claim has left and gives ERROR back: a document that a    *)
(* listener has completed meanwhile would be in two hands.                 *)
THEOREM ErrorRestored == RSpec => FailedRequestRestoresError
  <1>1. RInv /\ [RNext]_rvars =>
            [\A r \in Request :
                faults' = 0 /\ pc[r] = "release" /\ pc'[r] = "answered" =>
                    docs'[wanted[r]] = "ERROR"]_rvars
    <2> SUFFICES ASSUME RInv, RNext, NEW r \in Request,
                        faults' = 0, pc[r] = "release", pc'[r] = "answered"
                 PROVE  docs'[wanted[r]] = "ERROR"
      OBVIOUS
    <2> DEFINE k == wanted[r]
    <2>1. /\ RTypeOK /\ k \in Key /\ docs \in [Key -> DocState] /\ docs[k] # "none"
          /\ faults \in Nat
      BY DEF RInv, RCoverInv, RTypeOK, TypeOK, ClaimHasDocument
    <2>2. PICK x \in Request : RequestStep(x)
      BY DEF RNext, requestVars
    <2>3. PICK step \in RequestPc, q \in 0..1 : RequestMoves(x, step, q)
      BY <2>2, RequestMovesOn DEF RInv
    <2>4. x = r /\ step = "answered" /\ faults = 0
      BY <2>1, <2>3 DEF RequestMoves, RTypeOK
    <2>5. Release(r)
      BY <2>1, <2>2, <2>4
         DEF RequestStep, Claim, ClaimFails, Exists, ExistsFails, GetConfig, PublishRetry,
             PublishRetryRefused, PublishRetryAnswerLost, ReleaseFails, Abandon, Fault
    <2>6. docs[k] # "SENT"
      <3>1. /\ IsFiniteSet(InCharge(k)) /\ Cardinality(InCharge(k)) \in Nat
            /\ accepted[k] + Cardinality(InCharge(k)) <= 1
            /\ IsIn(k, "SENT") <= accepted[k] /\ accepted[k] \in Nat
        BY <2>1, <2>4, RBalance, IsInType
      <3>2. r \in InCharge(k)
        BY DEF InCharge
      <3>3. Cardinality(InCharge(k)) # 0
        BY <3>1, <3>2, FS_EmptySet
      <3>4. QED
        BY <3>1, <3>3 DEF IsIn
    <2>7. QED
      BY <2>1, <2>5, <2>6 DEF Release, SetWanted, DocState
  <1>2. QED
    BY <1>1, RInductive, PTL DEF RSpec, FailedRequestRestoresError

-----------------------------------------------------------------------------
(* Pipeline and requests together implement RetryPromise.                  *)

\* What the pipeline does beside the requests keeps the promise of the one
\* kind in the view of the other: a request in charge only makes one owe more.
LEMMA PromisePledges ==
    ASSUME UNCHANGED requestVars, [Promise!PNext]_(Promise!pvars)
    PROVE  [Pledge!RetryNext]_(Pledge!pvars)
  <1> DEFINE C == {k \in Key : InCharge(k) # {}}
  <1>1. C' = C /\ ROwed = Owed \cup C /\ ROwed' = Owed' \cup C /\ stranded' = stranded
    BY DEF ROwed, InCharge, requestVars
  <1> HIDE DEF C
  <1>2. CASE UNCHANGED Promise!pvars
    BY <1>1, <1>2 DEF Promise!pvars, Pledge!pvars
  <1>3. ASSUME NEW K \in SUBSET Key, Promise!Charge(K) PROVE Pledge!Charge(K)
    BY <1>1, <1>3 DEF Promise!Charge, Pledge!Charge
  <1>4. ASSUME NEW K \in SUBSET Key, Promise!Waive(K) PROVE Pledge!Waive(K)
    BY <1>1, <1>4 DEF Promise!Waive, Pledge!Waive
  <1>5. ASSUME NEW K \in SUBSET Key, Promise!Discharge(K) PROVE Pledge!Discharge(K \ C)
    BY <1>1, <1>5 DEF Promise!Discharge, Pledge!Discharge, Promise!Completed, Pledge!Completed
  <1>6. ASSUME NEW k \in Key, Promise!Open(k) \/ Promise!Notify(k)
        PROVE  Pledge!Open(k) \/ Pledge!Notify(k)
    BY <1>1, <1>6 DEF Promise!Open, Pledge!Open, Promise!Notify, Pledge!Notify
  <1>7. ASSUME NEW k \in Key, NEW state \in {"SENT", "ERROR"}, Promise!Complete(k, state)
        PROVE  Pledge!Complete(k, state)
    BY <1>1, <1>7 DEF Promise!Complete, Pledge!Complete
  <1>8. CASE Promise!PNext
    <2>1. CASE \E K \in SUBSET Key :
                  Promise!Charge(K) \/ Promise!Waive(K) \/ Promise!Discharge(K)
      <3>1. PICK K \in SUBSET Key :
                Promise!Charge(K) \/ Promise!Waive(K) \/ Promise!Discharge(K)
        BY <2>1
      <3>2. Pledge!Charge(K) \/ Pledge!Waive(K) \/ Pledge!Discharge(K \ C)
        BY <1>3, <1>4, <1>5, <3>1
      <3>3. K \ C \in SUBSET Key
        OBVIOUS
      <3>4. QED
        BY <3>2, <3>3 DEF Pledge!RetryNext, Pledge!PNext
    <2>2. CASE \E k \in Key :
                  \/ Promise!Open(k) \/ Promise!Notify(k)
                  \/ \E state \in Promise!Completed : Promise!Complete(k, state)
      BY <1>6, <1>7, <2>2 DEF Promise!Completed, Pledge!Completed, Pledge!RetryNext, Pledge!PNext
    <2>3. QED
      BY <1>8, <2>1, <2>2 DEF Promise!PNext
  <1>9. QED
    BY <1>2, <1>8

\* A commit discharges what is completed, left out or stranded; what a request
\* has claimed stays owed.
LEMMA CommitPledges ==
    ASSUME RCoverInv, NEW s \in Listener, Acknowledge(s), UNCHANGED requestVars
    PROVE  \E K \in SUBSET Key : Pledge!Discharge(K)
  <1>0. /\ TypeInv /\ TypeOK /\ Complete(s)
        /\ UNCHANGED <<docs, log, omitted, accepted, stranded, wanted, pc>>
        /\ offset[s] \in DOMAIN log /\ Rec(s) \in Record
        /\ committed' = committed \/ committed' = committed \cup {offset[s]}
    BY RecordFacts
       DEF RCoverInv, RTypeOK, TypeInv, HoldsRecord, Acknowledge, Complete, storeVars,
           historyVars, requestVars
  <1> DEFINE K == ROwed \ ROwed'
  <1>1. ROwed' \subseteq ROwed /\ K \in SUBSET Key /\ ROwed' = ROwed \ K
    BY <1>0 DEF ROwed, Owed, InCharge
  <1>2. ASSUME NEW k \in K PROVE docs[k] \in Terminal \/ k \in omitted \cup stranded
    <2>1. k \in Key /\ InCharge(k) = {} /\ k \in Owed /\ k \notin Owed'
      BY <1>0, <1>2 DEF ROwed, Owed, InCharge
    <2>2. /\ ~(\E i \in DOMAIN log \ committed' : k \in Targets(log[i]))
          /\ \E i \in DOMAIN log \ committed : k \in Targets(log[i])
      BY <1>0, <2>1 DEF Owed
    <2>3. k \in Targets(Rec(s))
      BY <1>0, <2>2 DEF Rec
    <2>4. RCoveredAfter(offset[s], k)
      BY <1>0, <2>3, RCompleteCovers DEF RCoverInv
    <2>5. ~(\E j \in DOMAIN log \ committed : j > offset[s] /\ k \in Targets(log[j]))
      BY <1>0, <2>2 DEF TypeOK
    <2>6. QED
      BY <2>1, <2>4, <2>5 DEF RCoveredAfter, CoveredAfter
  <1>3. Pledge!Discharge(K)
    BY <1>0, <1>1, <1>2 DEF Pledge!Discharge, Pledge!Completed, Terminal, Notified
  <1>4. QED
    BY <1>1, <1>3

\* The pipeline's steps.
LEMMA PipelinePledges ==
    ASSUME RInv, Next, UNCHANGED requestVars
    PROVE  [Pledge!RetryNext]_(Pledge!pvars)
  <1>1. RCoverInv /\ RDocInv /\ TypeInv
    BY DEF RInv, RCoverInv, RTypeOK, TypeInv
  <1>2. ASSUME NEW s \in Listener, NEW t \in Tpp, BranchStep(s, t)
        PROVE  /\ branch[s][t] \in {"save", "enqueue"} => docs[KeyOf(s, t)] # "none"
               /\ branch[s][t] = "save" => accepted[KeyOf(s, t)] > 0
    <2>1. stage[s] = "send" /\ KeyOf(s, t) \in Key
      BY <1>1, <1>2, BranchStepShape, RecordFacts
    <2>2. ASSUME branch[s][t] = "save" PROVE accepted[KeyOf(s, t)] > 0
      <3> DEFINE k == KeyOf(s, t)
      <3>1. s \in Saving(k)
        BY <2>1, <2>2 DEF Saving, KeyOf
      <3>2. /\ IsFiniteSet(Saving(k)) /\ Cardinality(Saving(k)) \in Nat
            /\ Cardinality(Saving(k)) + IsIn(k, "SENT") <= accepted[k]
            /\ accepted[k] \in Nat
        BY <2>1, RBalance
      <3>3. Cardinality(Saving(k)) # 0
        BY <3>1, <3>2, FS_EmptySet
      <3>4. IsIn(k, "SENT") \in 0..1
        BY IsInType
      <3> HIDE DEF k
      <3>5. accepted[k] > 0
        BY <3>2, <3>3, <3>4
      <3>6. QED
        BY <3>5 DEF k
    <2>3. QED
      BY <1>1, <2>1, <2>2 DEF RDocInv, BranchHasDocument
  <1>3. CASE \E s \in Listener : Acknowledge(s)
    BY <1>1, <1>3, CommitPledges DEF Pledge!RetryNext, Pledge!PNext
  <1>4. CASE [Promise!PNext]_(Promise!pvars)
    BY <1>4, PromisePledges
  <1>5. QED
    BY <1>1, <1>2, <1>3, <1>4, RefineButCommit

\* What a request does to its own notification and to no other: it stops or
\* begins being in charge of it, or publishes a record about it.
LEMMA RequestView ==
    ASSUME RCoverInv, NEW r \in Request, RequestStep(r)
    PROVE  /\ wanted[r] \in Key /\ Notified' = Notified /\ omitted' = omitted
           /\ \A k \in Key : k # wanted[r] => (k \in ROwed' <=> k \in ROwed)
           /\ pc[r] \in Claimed => wanted[r] \in ROwed
           /\ pc'[r] \in Claimed \/ Publish(RetryFromStart(r)) => wanted[r] \in ROwed'
           /\ pc[r] \notin Claimed /\ pc'[r] \notin Claimed /\ log' = log =>
                 ROwed' = ROwed
  <1> DEFINE rec == RetryFromStart(r)
  <1>1. /\ TypeInv /\ rec \in Record /\ Targets(rec) = {wanted[r]} /\ wanted[r] \in Key
        /\ committed' = committed /\ accepted' = accepted
    BY RequestKeeps
  <1>2. /\ omitted' = omitted /\ wanted' = wanted
        /\ log' = log \/ Publish(rec)
        /\ pc \in [Request -> RequestPc]
        /\ \E step \in RequestPc : pc' = [pc EXCEPT ![r] = step]
    BY RequestSteps DEF Requests, RCoverInv, RTypeOK
  <1>3. \A x \in Request \ {r} : pc'[x] = pc[x]
    BY <1>2
  <1> HIDE DEF rec
  <1>4. /\ \A k \in Key : k # wanted[r] => (k \in Owed' <=> k \in Owed)
        /\ Publish(rec) => wanted[r] \in Owed'
        /\ log' = log => Owed' = Owed
    <2>1. CASE log' = log
      <3>1. Owed' = Owed
        BY <1>1, <2>1 DEF Owed
      <3>2. Publish(rec) => FALSE
        BY <1>1, <2>1, PublishType, AppendFacts DEF TypeInv, TypeOK
      <3>3. QED
        BY <3>1, <3>2
    <2>2. CASE Publish(rec)
      <3>1. /\ DOMAIN log = 1..Len(log) /\ DOMAIN log' = 1..(Len(log) + 1)
            /\ \A i \in DOMAIN log : log'[i] = log[i]
            /\ log'[Len(log) + 1] = rec /\ Len(log) \in Nat
            /\ committed \subseteq DOMAIN log
        BY <1>1, <2>2, PublishType, AppendFacts DEF TypeInv, TypeOK
      <3>2. DOMAIN log' \ committed' = (DOMAIN log \ committed) \cup {Len(log) + 1}
        BY <1>1, <3>1
      <3>3. \A k \in Key : k \in Owed' <=> k \in Owed \/ k \in Targets(rec)
        BY <3>1, <3>2 DEF Owed
      <3>4. log' # log
        BY <3>1
      <3>5. QED
        BY <1>1, <3>3, <3>4
    <2>3. QED
      BY <1>2, <2>1, <2>2
  <1>5. \A k \in Key : \A x \in Request :
            /\ k # wanted[r] \/ x # r => (x \in InCharge(k)' <=> x \in InCharge(k))
            /\ k = wanted[r] =>
                  /\ r \in InCharge(k) <=> pc[r] \in Claimed
                  /\ r \in InCharge(k)' <=> pc'[r] \in Claimed
    <2> SUFFICES ASSUME NEW k \in Key, NEW x \in Request
                 PROVE  /\ k # wanted[r] \/ x # r => (x \in InCharge(k)' <=> x \in InCharge(k))
                        /\ k = wanted[r] =>
                              /\ r \in InCharge(k) <=> pc[r] \in Claimed
                              /\ r \in InCharge(k)' <=> pc'[r] \in Claimed
      OBVIOUS
    <2>1. \A y \in Request : /\ y \in InCharge(k) <=> wanted[y] = k /\ pc[y] \in Claimed
                             /\ y \in InCharge(k)' <=> wanted[y] = k /\ pc'[y] \in Claimed
      BY <1>2 DEF InCharge, Claimed
    <2>2. QED
      BY <1>3, <2>1
  <1>6. \A k \in Key : InCharge(k) \subseteq Request /\ InCharge(k)' \subseteq Request
    BY DEF InCharge
  <1>7. /\ \A k \in Key : k # wanted[r] => InCharge(k)' = InCharge(k)
        /\ pc[r] \in Claimed => InCharge(wanted[r]) # {}
        /\ pc[r] \notin Claimed /\ pc'[r] \notin Claimed =>
              \A k \in Key : InCharge(k)' = InCharge(k)
    BY <1>1, <1>5, <1>6
  <1>8. ASSUME pc'[r] \in Claimed PROVE wanted[r] \in ROwed'
    <2>1. \A k \in Key : k = wanted[r] => InCharge(k)' # {}
      BY <1>5, <1>8
    <2>2. QED
      BY <1>1, <2>1 DEF ROwed
  <1>9. \A k \in Key : /\ k \in ROwed <=> k \in Owed \/ InCharge(k) # {}
                       /\ k \in ROwed' <=> k \in Owed' \/ InCharge(k)' # {}
    BY DEF ROwed
  <1>10. ASSUME pc[r] \notin Claimed, pc'[r] \notin Claimed, log' = log
         PROVE  ROwed' = ROwed
    <2>1. Owed' = Owed /\ \A k \in Key : InCharge(k)' = InCharge(k)
      BY <1>4, <1>7, <1>10
    <2>2. QED
      BY <2>1 DEF ROwed
  <1>11. wanted[r] \in Key /\ Notified' = Notified /\ omitted' = omitted
    BY <1>1, <1>2 DEF Notified
  <1>12. /\ \A k \in Key : k # wanted[r] => (k \in ROwed' <=> k \in ROwed)
         /\ pc[r] \in Claimed => wanted[r] \in ROwed
         /\ Publish(rec) => wanted[r] \in ROwed'
    BY <1>4, <1>7, <1>9, <1>11
  <1>13. QED
    BY <1>8, <1>10, <1>11, <1>12 DEF rec

\* A request's steps.
LEMMA RequestPledges ==
    ASSUME RCoverInv, NEW r \in Request, RequestStep(r)
    PROVE  [Pledge!RetryNext]_(Pledge!pvars)
  <1> DEFINE k == wanted[r]
  <1>1. /\ k \in Key /\ Notified' = Notified /\ omitted' = omitted
        /\ \A j \in Key : j # k => (j \in ROwed' <=> j \in ROwed)
        /\ pc[r] \in Claimed => k \in ROwed
        /\ pc'[r] \in Claimed \/ Publish(RetryFromStart(r)) => k \in ROwed'
        /\ pc[r] \notin Claimed /\ pc'[r] \notin Claimed /\ log' = log => ROwed' = ROwed
    BY RequestView
  <1>2. /\ ROwed \subseteq Key /\ ROwed' \subseteq Key
        /\ docs \in [Key -> DocState] /\ pc \in [Request -> RequestPc]
        /\ pc[r] \in Claimed => docs[k] # "none"
        /\ committed' = committed
    BY RequestKeeps
       DEF ROwed, Owed, RCoverInv, RTypeOK, TypeOK, ClaimHasDocument, Claimed
  <1>3. /\ k \in ROwed' => ROwed' = ROwed \cup {k}
        /\ k \notin ROwed' => ROwed' = ROwed \ {k}
        /\ k \in ROwed => ROwed' \in {ROwed, ROwed \ {k}}
    BY <1>1, <1>2
  <1> HIDE DEF k
  <1>4. SUFFICES \/ UNCHANGED Pledge!pvars
                 \/ Pledge!Discharge({k}) \/ Pledge!Reopen(k)
                 \/ Pledge!GiveUp(k) \/ Pledge!Strand(k)
    BY <1>1, <1>4 DEF Pledge!RetryNext, Pledge!PNext
  <1> USE DEF GoOn, Reply, Claimed, RequestPc
  <1>5. CASE Claim(r) /\ docs[k] = "ERROR"
    <2>1. /\ docs' = [docs EXCEPT ![k] = "IN_PROCESS"] /\ stranded' = stranded
          /\ pc'[r] \in Claimed
      BY <1>2, <1>5 DEF Claim, SetWanted, k
    <2>2. Pledge!Reopen(k)
      BY <1>1, <1>3, <1>5, <2>1 DEF Pledge!Reopen
    <2>3. QED BY <2>2
  <1>6. CASE (Claim(r) /\ docs[k] # "ERROR") \/ Exists(r) \/ ExistsFails(r)
    <2>1. /\ UNCHANGED <<docs, log, stranded>>
          /\ pc[r] \notin Claimed /\ pc'[r] \notin Claimed
      BY <1>2, <1>6 DEF Claim, Exists, ExistsFails, k
    <2>2. QED
      BY <1>1, <2>1 DEF Pledge!pvars
  <1>7. CASE ClaimFails(r)
    <2>1. /\ log' = log /\ pc[r] \notin Claimed /\ pc'[r] \notin Claimed
          /\ \/ UNCHANGED <<docs, stranded>>
             \/ /\ docs[k] = "ERROR"
                /\ docs' = [docs EXCEPT ![k] = "IN_PROCESS"]
                /\ stranded' = stranded \cup {k}
      BY <1>2, <1>7 DEF ClaimFails, SetWanted, k
    <2>2. CASE UNCHANGED <<docs, stranded>>
      BY <1>1, <2>1, <2>2 DEF Pledge!pvars
    <2>3. CASE /\ docs[k] = "ERROR"
               /\ docs' = [docs EXCEPT ![k] = "IN_PROCESS"]
               /\ stranded' = stranded \cup {k}
      <3>1. omitted' \cup stranded' = (omitted \cup stranded) \cup {k}
        BY <1>1, <2>3
      <3>2. Pledge!Reopen(k)
        BY <1>1, <2>1, <2>3, <3>1 DEF Pledge!Reopen
      <3>3. QED BY <3>2
    <2>4. QED
      BY <2>1, <2>2, <2>3
  <1>8. CASE GetConfig(r) \/ PublishRetryRefused(r)
    <2>1. /\ UNCHANGED <<docs, stranded>>
          /\ pc[r] \in Claimed /\ pc'[r] \in Claimed
      BY <1>2, <1>8 DEF GetConfig, PublishRetryRefused
    <2>2. QED
      BY <1>1, <1>3, <2>1 DEF Pledge!pvars
  <1>9. CASE PublishRetry(r) \/ PublishRetryAnswerLost(r)
    <2>1. /\ UNCHANGED <<docs, stranded>>
          /\ pc[r] \in Claimed /\ Publish(RetryFromStart(r))
      BY <1>2, <1>9 DEF PublishRetry, PublishRetryAnswerLost, Publish
    <2>2. QED
      BY <1>1, <1>3, <2>1 DEF Pledge!pvars
  <1>10. CASE Release(r) /\ docs[k] = "IN_PROCESS"
    <2>1. /\ docs' = [docs EXCEPT ![k] = "ERROR"] /\ stranded' = stranded
          /\ pc[r] \in Claimed
      BY <1>10 DEF Release, SetWanted, k
    <2>2. Pledge!GiveUp(k)
      BY <1>1, <1>3, <1>10, <2>1 DEF Pledge!GiveUp
    <2>3. QED BY <2>2
  <1>11. CASE Release(r) /\ docs[k] # "IN_PROCESS"
    <2>1. UNCHANGED <<docs, stranded>> /\ pc[r] \in Claimed
      BY <1>11 DEF Release, k
    <2>2. docs[k] \in Pledge!Completed
      BY <1>1, <1>2, <1>11, <2>1 DEF Pledge!Completed, DocState
    <2>3. CASE ROwed' = ROwed
      BY <1>1, <2>1, <2>3 DEF Pledge!pvars
    <2>4. CASE ROwed' = ROwed \ {k}
      BY <1>1, <2>1, <2>2, <2>4 DEF Pledge!Discharge
    <2>5. QED
      BY <1>1, <1>3, <2>1, <2>3, <2>4
  <1>12. CASE ReleaseFails(r) \/ Abandon(r)
    <2>1. /\ pc[r] \in Claimed
          /\ \/ docs' = docs /\ stranded' = stranded \cup {k}
             \/ /\ docs[k] = "IN_PROCESS" /\ docs' = [docs EXCEPT ![k] = "ERROR"]
                /\ stranded' = stranded
      BY <1>12 DEF ReleaseFails, Abandon, SetWanted, k
    <2>2. CASE docs' = docs /\ stranded' = stranded \cup {k}
      <3>1. omitted' \cup stranded' = (omitted \cup stranded) \cup {k}
        BY <1>1, <2>2
      <3>2. Pledge!Strand(k)
        BY <1>1, <1>3, <2>1, <2>2, <3>1 DEF Pledge!Strand
      <3>3. QED BY <3>2
    <2>3. CASE /\ docs[k] = "IN_PROCESS" /\ docs' = [docs EXCEPT ![k] = "ERROR"]
               /\ stranded' = stranded
      <3>1. Pledge!GiveUp(k)
        BY <1>1, <1>3, <2>1, <2>3 DEF Pledge!GiveUp
      <3>2. QED BY <3>1
    <2>4. QED
      BY <2>1, <2>2, <2>3
  <1>13. QED
    BY <1>5, <1>6, <1>7, <1>8, <1>9, <1>10, <1>11, <1>12 DEF RequestStep

(* Pipeline and requests together implement the promise with manual        *)
(* retries, for any number of requests, listeners and faults: a claim      *)
(* reopens only what is in ERROR and owes it at once, and no step lets go  *)
(* of a notification that is not completed, left out or stranded.          *)
THEOREM RetryRefinement == RSpec => ImplementsRetryPromise
  <1>1. RInit => Pledge!PInit
    <2> SUFFICES ASSUME RInit PROVE Pledge!PInit
      OBVIOUS
    <2>1. Owed = {} /\ Notified = {} /\ \A k \in Key : InCharge(k) = {}
      BY DEF RInit, Init, Owed, Notified, InCharge
    <2>2. ROwed = {} /\ omitted \cup stranded = {}
      BY <2>1 DEF ROwed, RInit, Init
    <2>3. QED
      BY <2>1, <2>2 DEF RInit, Init, Pledge!PInit
  <1>2. RInv /\ [RNext]_rvars => [Pledge!RetryNext]_(Pledge!pvars)
    <2> SUFFICES ASSUME RInv, [RNext]_rvars PROVE [Pledge!RetryNext]_(Pledge!pvars)
      OBVIOUS
    <2>1. CASE Next /\ UNCHANGED requestVars
      BY <2>1, PipelinePledges
    <2>2. ASSUME NEW r \in Request, RequestStep(r)
          PROVE  [Pledge!RetryNext]_(Pledge!pvars)
      BY <2>2, RequestPledges DEF RInv
    <2>3. CASE UNCHANGED rvars
      <3>1. UNCHANGED <<docs, log, committed, omitted, accepted, wanted, pc, stranded>>
        BY <2>3 DEF rvars, vars, requestVars
      <3>2. QED
        BY <3>1 DEF Pledge!pvars, ROwed, Owed, Notified, InCharge
    <2>4. QED
      BY <2>1, <2>2, <2>3 DEF RNext
  <1>3. QED
    BY <1>1, <1>2, RInductive, PTL DEF RSpec, ImplementsRetryPromise, Pledge!RetrySpec

===============================================================================
