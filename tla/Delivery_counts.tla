--------------------------- MODULE Delivery_counts ---------------------------
(***************************************************************************)
(* Theorems about Delivery that count: how often a TPP is notified and how *)
(* often a notification is tried, for every instance and number of faults. *)
(*                                                                         *)
(* The argument: every notification is in a number of hands, listeners and *)
(* records.  A step without a fault hands it on, a fault adds one hand.    *)
(* What the lemmas say of a step they say from TypeInv and WorkInv alone,  *)
(* so that they also serve the composition with manual retries.            *)
(***************************************************************************)
EXTENDS Delivery_proofs, Counting

USE DeliveryAssumption

-----------------------------------------------------------------------------
(* WorkInv is inductive.                                                   *)

\* The log only grows.
LogKept ==
    /\ DOMAIN log \subseteq DOMAIN log'
    /\ \A i \in DOMAIN log : log'[i] = log[i]

\* A step of a listener that keeps its record and goes on working.
Working(s) ==
    /\ UNCHANGED <<offset, owning>>
    /\ stage[s] # "idle" /\ stage'[s] # "idle"
    /\ \A x \in Listener \ {s} : Rests(x)

\* A message's records stay.
LEMMA ArrivedStays ==
    ASSUME LogKept, NEW m, \E i \in DOMAIN log : log[i].msg = m
    PROVE  \E i \in DOMAIN log' : log'[i].msg = m
  BY DEF LogKept

\* How the steps on one TPP leave the listener, and what they need of WorkInv:
\* a branch looks for its document only after an insert has found one.
LEMMA BranchWorking ==
    ASSUME TypeInv, NEW s \in Listener, NEW t \in Tpp, BranchStep(s, t)
    PROVE  /\ Working(s) /\ LogKept /\ stage[s] = "send"
           /\ \/ stage'[s] = "send"
              \/ stage'[s] \in {"resolve", "requeue"} /\ Rec(s).topic = "core"
           /\ stage'[s] = "send" =>
                 \A u \in Tpp : branch'[s][u] = "find" =>
                    \/ branch[s][u] = "find"
                    \/ u = t /\ docs[KeyOf(s, t)] # "none"
  <1>0. TypeOK /\ stage[s] = "send" /\ Rec(s).topic \in {"core", "notifyError"}
    BY BranchStepShape, RecordFacts DEF TypeInv
  <1>1. LogKept
    <2>1. CASE UNCHANGED kafkaVars
      BY <2>1 DEF kafkaVars, LogKept
    <2>2. ASSUME NEW n \in Nat, ~Exhausted(n), Publish(Retry(Rec(s).msg, t, n))
          PROVE  LogKept
      BY <1>0, <2>2, ProducedType, PublishType DEF LogKept
    <2>3. QED BY <2>1, <2>2, BranchStepShape
  <1>2. /\ branch \in [Listener -> [Tpp -> BranchPc]]
        /\ stage \in [Listener -> Stage]
    BY <1>0 DEF TypeOK
  <1>3. CASE RetryInPlace(s) \/ OtherError(s)
    <2>1. \/ stage' = [stage EXCEPT ![s] = StartStage(Rec(s))]
             /\ branch' = [branch EXCEPT ![s] = StartBranches(Rec(s))]
          \/ Rec(s).topic = "core" /\ stage' = [stage EXCEPT ![s] = "requeue"]
             /\ branch' = [branch EXCEPT ![s] = NoBranches]
      BY <1>3 DEF RetryInPlace, OtherError
    <2>2. UNCHANGED <<offset, owning, settled>>
      BY <1>3 DEF RetryInPlace, OtherError
    <2>3. \A x \in Listener \ {s} : Rests(x)
      BY <1>2, <2>1, <2>2 DEF Rests
    <2>4. /\ stage'[s] \in {"send", "resolve", "requeue"}
          /\ stage'[s] # "send" => Rec(s).topic = "core"
          /\ \A u \in Tpp : branch'[s][u] # "find"
      BY <1>0, <1>2, <2>1 DEF StartStage, StartBranches, NoBranches
    <2>5. QED
      BY <1>0, <1>1, <2>2, <2>3, <2>4 DEF Working
  <1>4. ASSUME NEW to \in BranchPc, Goto(s, t, to),
               to = "find" => docs[KeyOf(s, t)] # "none"
        PROVE  /\ Working(s) /\ stage'[s] = "send"
               /\ \A u \in Tpp : branch'[s][u] = "find" =>
                    \/ branch[s][u] = "find"
                    \/ u = t /\ docs[KeyOf(s, t)] # "none"
    BY <1>0, <1>2, <1>4 DEF Goto, Working, Rests
  <1>5. \/ RetryInPlace(s) \/ OtherError(s)
        \/ \E to \in BranchPc : Goto(s, t, to) /\ (to = "find" => docs[KeyOf(s, t)] # "none")
    BY DEF BranchStep, Insert, InsertFails, Find, FindFails, GetToken, GetTokenThrows,
           Post, PostAnswerLost, SaveSent, SaveSentFails, EnqueueNotify,
           EnqueueNotifyFails, BranchPc
  <1>6. QED
    BY <1>0, <1>1, <1>3, <1>4, <1>5

\* The documents and the counts change for the one key the step is about.
LEMMA BranchTouches ==
    ASSUME TypeInv, NEW s \in Listener, NEW t \in Tpp, BranchStep(s, t),
           NEW k \in Key, k # KeyOf(s, t)
    PROVE  docs'[k] = docs[k] /\ accepted'[k] = accepted[k] /\ attempts'[k] = attempts[k]
  <1>1. docs = [j \in Key |-> docs[j]] /\ accepted = [j \in Key |-> accepted[j]]
        /\ attempts = [j \in Key |-> attempts[j]]
    BY DEF TypeInv, TypeOK
  <1>2. docs'[k] = docs[k]
    BY <1>1, BranchStepShape DEF SetDoc
  <1>3. accepted'[k] = accepted[k]
    BY <1>1, BranchStepShape DEF CountPost
  <1>4. attempts'[k] = attempts[k]
    BY <1>1, BranchStepShape DEF CountAttempt
  <1>5. QED
    BY <1>2, <1>3, <1>4

\* How a step on a whole record leaves the listener.
LEMMA RecordWorking ==
    ASSUME TypeInv, NEW s \in Listener,
           Resolve(s) \/ ResolveFails(s) \/ Requeue(s) \/ RequeueFails(s)
    PROVE  /\ Working(s) /\ LogKept
           /\ stage[s] \in {"resolve", "requeue"}
           /\ UNCHANGED <<docs, accepted, attempts>>
           /\ stage'[s] = "send" =>
                 \/ stage[s] = "resolve"
                 \/ stage[s] = "requeue" /\ Rec(s).topic = "notifyError"
           /\ \A u \in Tpp : stage'[s] = "send" => branch'[s][u] # "find"
  <1> USE DEF storeVars, kafkaVars, historyVars
  <1>0. TypeOK /\ stage[s] \in {"resolve", "requeue"}
    BY DEF TypeInv, Resolve, ResolveFails, Requeue, RequeueFails
  <1>1. /\ branch \in [Listener -> [Tpp -> BranchPc]]
        /\ stage \in [Listener -> Stage]
        /\ stage[s] # "idle" /\ Rec(s) \in Record
        /\ Rec(s).topic \in {"core", "notifyError"}
    BY <1>0, RecordFacts DEF TypeOK
  <1>2. CASE Resolve(s) \/ ResolveFails(s)
    <2>1. PICK T : \/ stage' = [stage EXCEPT ![s] = "requeue"] /\ branch' = branch
                   \/ /\ stage' = [stage EXCEPT ![s] = "send"]
                      /\ branch' = [branch EXCEPT ![s] =
                                     [t \in Tpp |-> IF t \in T THEN "insert" ELSE "off"]]
      BY <1>2 DEF Resolve, ResolveFails
    <2>2. /\ stage[s] = "resolve"
          /\ UNCHANGED <<docs, log, committed, offset, owning, settled, accepted, attempts>>
      BY <1>2 DEF Resolve, ResolveFails
    <2>3. LogKept /\ \A x \in Listener \ {s} : Rests(x)
      BY <1>1, <2>1, <2>2 DEF Rests, LogKept
    <2>4. /\ stage'[s] # "idle"
          /\ \A u \in Tpp : stage'[s] = "send" => branch'[s][u] # "find"
      BY <1>1, <2>1
    <2>5. QED
      BY <1>1, <2>2, <2>3, <2>4 DEF Working
  <1>3. CASE Requeue(s) \/ RequeueFails(s)
    <2> DEFINE n == NextRetry(Rec(s).retry)
    <2>1. /\ stage[s] = "requeue"
          /\ UNCHANGED <<docs, accepted, attempts>>
          /\ UNCHANGED <<log, committed>> \/ (~Exhausted(n) /\ Publish(Core(Rec(s).msg, n)))
          /\ \/ RetryInPlace(s)
             \/ /\ stage' = [stage EXCEPT ![s] = "processed"]
                /\ UNCHANGED <<offset, owning, branch, settled>>
      BY <1>3 DEF Requeue, RequeueFails
    <2>2. LogKept
      BY <1>1, <2>1, ProducedType, NextRetryType, PublishType DEF LogKept
    <2>3. /\ UNCHANGED <<offset, owning, settled>>
          /\ stage'[s] # "idle"
          /\ \A x \in Listener \ {s} : Rests(x)
          /\ stage'[s] = "send" => Rec(s).topic = "notifyError"
          /\ \A u \in Tpp : stage'[s] = "send" => branch'[s][u] # "find"
      BY <1>1, <2>1 DEF RetryInPlace, StartStage, StartBranches, Rests
    <2>4. QED
      BY <1>1, <2>1, <2>2, <2>3 DEF Working
  <1>4. QED
    BY <1>2, <1>3

\* Every step of the pipeline preserves WorkInv.
LEMMA WorkInvStep ==
    ASSUME TypeInv, TypeInv', WorkInv, Next
    PROVE  WorkInv'
  <1> USE DEF storeVars, kafkaVars, listenerVars, historyVars
  <1>0. TypeOK
    BY DEF TypeInv
  <1>1. ASSUME LogKept, UNCHANGED <<docs, accepted, attempts>>
        PROVE  \A k \in Key :
                  docs'[k] # "none" \/ accepted'[k] > 0 \/ attempts'[k] > 0 =>
                      \E i \in DOMAIN log' : log'[i].msg = k[1]
    BY <1>1, ArrivedStays DEF WorkInv
  <1>2. ASSUME NEW s \in Listener, Working(s), LogKept
        PROVE  \A x \in Listener \ {s} :
                  /\ stage'[x] \notin {"idle", "send"} => Rec(x)'.topic = "core"
                  /\ \A t \in Tpp :
                        stage'[x] = "send" /\ branch'[x][t] = "find" =>
                            docs[KeyOf(x, t)] # "none" /\ KeyOf(x, t)' = KeyOf(x, t)
    <2> SUFFICES ASSUME NEW x \in Listener \ {s}, stage'[x] # "idle"
                 PROVE  /\ stage'[x] # "send" => Rec(x)'.topic = "core"
                        /\ \A t \in Tpp :
                              stage'[x] = "send" /\ branch'[x][t] = "find" =>
                                  docs[KeyOf(x, t)] # "none" /\ KeyOf(x, t)' = KeyOf(x, t)
      OBVIOUS
    <2>1. Rests(x) /\ offset[x] \in DOMAIN log /\ Rec(x)' = Rec(x)
      BY <1>2 DEF Working, Rests, TypeInv, HoldsRecord, LogKept, Rec
    <2>2. \A t \in Tpp : KeyOf(x, t)' = KeyOf(x, t)
      BY <2>1 DEF KeyOf
    <2>3. QED
      BY <2>1, <2>2 DEF Rests, WorkInv
  <1>3. ASSUME NEW s \in Listener, Working(s), LogKept
        PROVE  /\ \A x \in owning' : stage'[x] # "idle"
               /\ offset[s] \in DOMAIN log /\ Rec(s)' = Rec(s)
               /\ \A t \in Tpp : KeyOf(s, t)' = KeyOf(s, t) /\ KeyOf(s, t) \in Key
    BY <1>3, <1>0, RecordFacts
       DEF Working, Rests, TypeInv, TypeOK, HoldsRecord, LogKept, Rec, KeyOf, WorkInv
  <1>4. ASSUME NEW s \in Listener, NEW t \in Tpp, BranchStep(s, t) PROVE WorkInv'
    <2>1. /\ Working(s) /\ LogKept /\ stage[s] = "send"
          /\ \/ stage'[s] = "send"
             \/ stage'[s] \in {"resolve", "requeue"} /\ Rec(s).topic = "core"
          /\ stage'[s] = "send" =>
                \A u \in Tpp : branch'[s][u] = "find" =>
                   \/ branch[s][u] = "find"
                   \/ u = t /\ docs[KeyOf(s, t)] # "none"
      BY <1>4, BranchWorking
    <2>2. \A k \in Key : docs[k] # "none" => docs'[k] # "none"
      BY <1>4, BranchStepEffect, <1>0 DEF SetDoc, TypeOK
    <2>3. \A x \in Listener : \A u \in Tpp :
              stage'[x] = "send" /\ branch'[x][u] = "find" => docs'[KeyOf(x, u)'] # "none"
      <3> SUFFICES ASSUME NEW x \in Listener, NEW u \in Tpp,
                          stage'[x] = "send", branch'[x][u] = "find"
                   PROVE  docs'[KeyOf(x, u)'] # "none"
        OBVIOUS
      <3>1. docs[KeyOf(x, u)] # "none" /\ KeyOf(x, u)' = KeyOf(x, u)
        BY <1>2, <1>3, <2>1 DEF WorkInv
      <3>2. KeyOf(x, u) \in Key
        BY <2>1, RecordFacts DEF Working, Rests
      <3>3. QED BY <2>2, <3>1, <3>2
    <2>4. \A x \in Listener : stage'[x] \notin {"idle", "send"} => Rec(x)'.topic = "core"
      BY <1>2, <1>3, <2>1
    <2>5. \A k \in Key :
              docs'[k] # "none" \/ accepted'[k] > 0 \/ attempts'[k] > 0 =>
                  \E i \in DOMAIN log' : log'[i].msg = k[1]
      <3> SUFFICES ASSUME NEW k \in Key,
                          docs'[k] # "none" \/ accepted'[k] > 0 \/ attempts'[k] > 0
                   PROVE  \E i \in DOMAIN log : log[i].msg = k[1]
        BY <2>1, ArrivedStays
      <3>1. CASE k = KeyOf(s, t)
        BY <1>3, <2>1, <3>1 DEF KeyOf, Rec
      <3>2. CASE k # KeyOf(s, t)
        BY <1>4, <3>2, BranchTouches DEF WorkInv
      <3>3. QED BY <3>1, <3>2
    <2>6. QED
      BY <1>3, <2>1, <2>3, <2>4, <2>5 DEF WorkInv
  <1>5. ASSUME NEW s \in Listener,
               Resolve(s) \/ ResolveFails(s) \/ Requeue(s) \/ RequeueFails(s)
        PROVE  WorkInv'
    <2>1. /\ Working(s) /\ LogKept
          /\ stage[s] \in {"resolve", "requeue"}
          /\ UNCHANGED <<docs, accepted, attempts>>
          /\ \A u \in Tpp : stage'[s] = "send" => branch'[s][u] # "find"
      BY <1>5, RecordWorking
    <2>2. Rec(s).topic = "core"
      BY <2>1 DEF WorkInv
    <2>3. \A x \in Listener : stage'[x] \notin {"idle", "send"} => Rec(x)'.topic = "core"
      BY <1>2, <1>3, <2>1, <2>2
    <2>4. \A x \in Listener : \A u \in Tpp :
              stage'[x] = "send" /\ branch'[x][u] = "find" => docs'[KeyOf(x, u)'] # "none"
      BY <1>2, <2>1
    <2>5. QED
      BY <1>1, <1>3, <2>1, <2>3, <2>4 DEF WorkInv
  <1>6. ASSUME NEW m \in Message, Arrive(m) \/ ArriveAgain(m) PROVE WorkInv'
    <2>1. /\ Publish(Core(m, 0)) /\ Core(m, 0) \in Record
          /\ UNCHANGED <<docs, stage, offset, owning, branch, settled, accepted, attempts>>
      BY <1>6 DEF Arrive, ArriveAgain, Core, Record, CoreRecord
    <2>2. LogKept
      BY <2>1, PublishType DEF LogKept
    <2>3. \A x \in Listener : stage[x] # "idle" =>
              Rec(x)' = Rec(x) /\ \A t \in Tpp : KeyOf(x, t)' = KeyOf(x, t)
      BY <2>1, <2>2 DEF TypeInv, HoldsRecord, LogKept, Rec, KeyOf
    <2>4. QED
      BY <1>1, <2>1, <2>2, <2>3 DEF WorkInv
  <1>7. ASSUME NEW s \in Listener, Crash(s) \/ Rebalance(s) \/ Acknowledge(s) PROVE WorkInv'
    <2>1. /\ UNCHANGED <<docs, log, accepted, attempts>>
          /\ \A x \in Listener \ {s} : Rests(x)
          /\ owning' = owning \ {s}
          /\ stage'[s] = "idle" \/ Rests(s)
      BY <1>0, <1>7 DEF Crash, Rebalance, Acknowledge, Leave, Rests, TypeOK
    <2>2. LogKept
      BY <2>1 DEF LogKept
    <2>3. \A x \in Listener : stage'[x] # "idle" =>
              /\ Rests(x) /\ Rec(x)' = Rec(x)
              /\ \A t \in Tpp : KeyOf(x, t)' = KeyOf(x, t)
      BY <2>1 DEF Rests, Rec, KeyOf
    <2>4. \A x \in owning' : stage'[x] # "idle"
      BY <1>0, <2>1 DEF Rests, WorkInv, TypeOK
    <2>5. QED
      BY <1>1, <2>1, <2>2, <2>3, <2>4 DEF WorkInv, Rests
  <1>8. ASSUME NEW s \in Listener, NEW i \in DOMAIN log, Poll(s, i) \/ PollStale(s, i)
        PROVE  WorkInv'
    <2>1. Take(s, i) /\ owning' \subseteq owning \cup {s}
      BY <1>8 DEF Poll, PollStale
    <2>2. /\ UNCHANGED <<docs, log, accepted, attempts>>
          /\ \A x \in Listener \ {s} : Rests(x)
          /\ stage'[s] = StartStage(log[i]) /\ offset'[s] = i
          /\ branch'[s] = StartBranches(log[i])
      BY <1>0, <2>1 DEF Take, Rests, TypeOK
    <2>3. LogKept
      BY <2>2 DEF LogKept
    <2>4. \A x \in Listener \ {s} :
              Rec(x)' = Rec(x) /\ \A t \in Tpp : KeyOf(x, t)' = KeyOf(x, t)
      BY <2>2 DEF Rests, Rec, KeyOf
    <2>5. Rec(s)' = log[i] /\ stage'[s] # "idle"
      BY <2>2 DEF Rec, StartStage
    <2>6. /\ stage'[s] # "send" => Rec(s)'.topic = "core"
          /\ \A t \in Tpp : branch'[s][t] # "find"
      BY <2>2, <2>5 DEF StartStage, StartBranches
    <2>7. \A x \in owning' : stage'[x] # "idle"
      BY <1>0, <2>1, <2>2, <2>5 DEF Rests, WorkInv, TypeOK
    <2>8. QED
      BY <1>1, <2>2, <2>3, <2>4, <2>6, <2>7 DEF WorkInv, Rests
  <1>9. QED
    BY <1>4, <1>5, <1>6, <1>7, <1>8 DEF Next, RecordStep

-----------------------------------------------------------------------------
(* The hands of a listener.                                                *)

\* What listener s is for notification k: a hand that may send it, with so
\* many tries, or one that has sent it.
HoldOne(s, k) == IF s \in Holding(k) THEN 1 ELSE 0
SaveOne(s, k) == IF s \in Saving(k) THEN 1 ELSE 0
TryOne(s, k)  == IF s \in Holding(k) THEN TriesLeft(s, k) ELSE 0

LEMMA TriesOfType ==
    ASSUME NEW r \in Record
    PROVE  TriesOf(r) \in 1..(MaxTry + 1)
  BY DEF TriesOf, Record, CoreRecord, RetryRecord

\* A listener counts for a notification only while it works on its message.
LEMMA ListenerOneType ==
    ASSUME TypeInv, NEW s \in Listener, NEW k \in Key
    PROVE  /\ HoldOne(s, k) \in 0..1 /\ SaveOne(s, k) \in 0..1
           /\ HoldOne(s, k) + SaveOne(s, k) <= 1
           /\ TryOne(s, k) \in 0..(MaxTry + 1)
           /\ s \in Holding(k) \/ s \in Saving(k) =>
                 stage[s] # "idle" /\ Rec(s) \in Record /\ Rec(s).msg = k[1]
           /\ s \in Holding(k) => TriesLeft(s, k) \in 0..(MaxTry + 1)
  <1>1. s \in Holding(k) \/ s \in Saving(k) => stage[s] # "idle"
    BY DEF Holding, Saving
  <1>2. stage[s] # "idle" => Rec(s) \in Record /\ TriesOf(Rec(s)) \in 1..(MaxTry + 1)
    BY RecordFacts, TriesOfType
  <1>3. s \in Holding(k) \/ s \in Saving(k) => Rec(s).msg = k[1]
    BY <1>1, <1>2, TargetsFacts DEF Holding, Saving
  <1>4. stage[s] # "idle" => TriesLeft(s, k) \in 0..(MaxTry + 1)
    BY <1>2 DEF TriesLeft
  <1>5. ~(s \in Holding(k) /\ s \in Saving(k))
    BY DEF Holding, Saving
  <1>6. QED
    BY <1>1, <1>2, <1>3, <1>4, <1>5 DEF HoldOne, SaveOne, TryOne

\* A listener that rests counts for what it did.
LEMMA RestsCounts ==
    ASSUME TypeInv, LogKept, NEW x \in Listener, Rests(x), NEW k \in Key
    PROVE  /\ x \in Holding(k)' <=> x \in Holding(k)
           /\ x \in Saving(k)' <=> x \in Saving(k)
           /\ x \in Holding(k) => TriesLeft(x, k)' = TriesLeft(x, k)
  <1>1. CASE stage[x] = "idle"
    BY <1>1 DEF Rests, Holding, Saving
  <1>2. CASE stage[x] # "idle"
    <2>1. Rec(x)' = Rec(x) /\ stage'[x] = stage[x] /\ branch'[x] = branch[x]
      BY <1>2 DEF Rests, LogKept, TypeInv, HoldsRecord, Rec
    <2>2. Targets(Rec(x))' = Targets(Rec(x)) /\ TriesOf(Rec(x))' = TriesOf(Rec(x))
      BY <2>1 DEF Targets, TriesOf
    <2>3. QED
      BY <2>1, <2>2 DEF Holding, Saving, TriesLeft
  <1>3. QED
    BY <1>1, <1>2

LEMMA HeldFinite ==
    ASSUME NEW k, IsFiniteSet(Holding(k))
    PROVE  IsFiniteSet(HeldTries(k)) /\ Cardinality(HeldTries(k)) \in Nat
  <1>1. IsFiniteSet(1..(MaxTry + 1))
    BY FS_Interval
  <1>2. IsFiniteSet(Holding(k) \X (1..(MaxTry + 1)))
    BY <1>1, FS_Product
  <1>3. HeldTries(k) \subseteq Holding(k) \X (1..(MaxTry + 1))
    BY DEF HeldTries
  <1>4. QED
    BY <1>2, <1>3, FS_Subset, FS_CardinalityType

\* One listener has moved: how the numbers of hands and of tries change.
LEMMA ListenerCounts ==
    ASSUME TypeInv, TypeInv', LogKept, NEW s \in Listener, NEW k \in Key,
           \A x \in Listener \ {s} : Rests(x),
           IsFiniteSet(Holding(k)), IsFiniteSet(Saving(k))
    PROVE  /\ IsFiniteSet(Holding(k)') /\ IsFiniteSet(Saving(k)')
           /\ Cardinality(Holding(k)) \in Nat /\ Cardinality(Holding(k)') \in Nat
           /\ Cardinality(Saving(k)) \in Nat /\ Cardinality(Saving(k)') \in Nat
           /\ Cardinality(HeldTries(k)) \in Nat /\ Cardinality(HeldTries(k)') \in Nat
           /\ Cardinality(Holding(k)') + HoldOne(s, k) =
                 Cardinality(Holding(k)) + HoldOne(s, k)'
           /\ Cardinality(Saving(k)') + SaveOne(s, k) =
                 Cardinality(Saving(k)) + SaveOne(s, k)'
           /\ Cardinality(HeldTries(k)') + TryOne(s, k) =
                 Cardinality(HeldTries(k)) + TryOne(s, k)'
  <1>1. /\ Holding(k)' \ {s} = Holding(k) \ {s}
        /\ Saving(k)' \ {s} = Saving(k) \ {s}
    <2>1. \A x \in Listener \ {s} : /\ x \in Holding(k)' <=> x \in Holding(k)
                                    /\ x \in Saving(k)' <=> x \in Saving(k)
      BY RestsCounts
    <2>2. /\ Holding(k) \subseteq Listener /\ Holding(k)' \subseteq Listener
          /\ Saving(k) \subseteq Listener /\ Saving(k)' \subseteq Listener
      BY DEF Holding, Saving
    <2>3. QED BY <2>1, <2>2
  <1>2. /\ IsFiniteSet(Holding(k)')
        /\ Cardinality(Holding(k)) \in Nat /\ Cardinality(Holding(k)') \in Nat
        /\ Cardinality(Holding(k)') + HoldOne(s, k) =
              Cardinality(Holding(k)) + HoldOne(s, k)'
    BY <1>1, OneSwings DEF HoldOne
  <1>3. /\ IsFiniteSet(Saving(k)')
        /\ Cardinality(Saving(k)) \in Nat /\ Cardinality(Saving(k)') \in Nat
        /\ Cardinality(Saving(k)') + SaveOne(s, k) =
              Cardinality(Saving(k)) + SaveOne(s, k)'
    BY <1>1, OneSwings DEF SaveOne
  <1> DEFINE M == MaxTry + 1
             v == TryOne(s, k)
             w == TryOne(s, k)'
  <1>4. v \in 0..M /\ w \in 0..M /\ M \in Nat
    <2>1. v \in 0..M /\ M \in Nat
      BY ListenerOneType
    <2>2. s \in Holding(k)' => TriesLeft(s, k)' \in 0..M
      <3>1. s \in Holding(k)' => stage'[s] # "idle"
        BY DEF Holding
      <3>2. stage'[s] # "idle" => Rec(s)' \in Record
        BY DEF TypeInv, TypeOK, HoldsRecord, Rec
      <3>3. stage'[s] # "idle" => TriesOf(Rec(s)') \in 1..M
        BY <3>2, TriesOfType
      <3>4. QED
        BY <3>1, <3>3 DEF TriesLeft, TriesOf
    <2>3. w \in 0..M
      BY <2>1, <2>2 DEF TryOne
    <2>4. QED BY <2>1, <2>3
  <1>5. IsFiniteSet(HeldTries(k))
    BY HeldFinite
  <1>6. Resized(HeldTries(k), HeldTries(k)', s, v, w)
    <2>1. Block(s, v) \subseteq HeldTries(k)
      BY <1>4 DEF Block, HeldTries, TryOne
    <2>2. Block(s, w) \subseteq HeldTries(k)'
      BY <1>4 DEF Block, HeldTries, TryOne
    <2>3. \A p : p \in HeldTries(k) \ Block(s, v) <=>
                    /\ p \in (Holding(k) \ {s}) \X (1..M)
                    /\ p[2] <= TriesLeft(p[1], k)
      BY <1>4 DEF Block, HeldTries, TryOne
    <2>4. \A p : p \in HeldTries(k)' \ Block(s, w) <=>
                    /\ p \in (Holding(k)' \ {s}) \X (1..M)
                    /\ p[2] <= TriesLeft(p[1], k)'
      BY <1>4 DEF Block, HeldTries, TryOne
    <2>5. \A x \in Holding(k) \ {s} : TriesLeft(x, k)' = TriesLeft(x, k)
      BY RestsCounts DEF Holding
    <2>6. QED
      BY <1>1, <2>1, <2>2, <2>3, <2>4, <2>5 DEF Resized
  <1>7. /\ Cardinality(HeldTries(k)) \in Nat /\ Cardinality(HeldTries(k)') \in Nat
        /\ Cardinality(HeldTries(k)') + v = Cardinality(HeldTries(k)) + w
    <2>1. v \in Nat /\ w \in Nat
      BY <1>4
    <2> HIDE DEF v, w
    <2>2. QED
      BY <1>5, <1>6, <2>1, BlockSwings
  <1>8. QED
    BY <1>2, <1>3, <1>7

-----------------------------------------------------------------------------
(* The records that wait.                                                  *)

LEMMA QueuedFinite ==
    ASSUME TypeInv, NEW k \in Key
    PROVE  /\ IsFiniteSet(Queued(k)) /\ IsFiniteSet(QueuedTries(k))
           /\ Queued(k) \subseteq DOMAIN log /\ log \in Seq(Record)
  <1>1. log \in Seq(Record) /\ DOMAIN log = 1..Len(log) /\ Len(log) \in Nat
    BY AppendFacts DEF TypeInv, TypeOK
  <1>2. IsFiniteSet(DOMAIN log) /\ IsFiniteSet(1..(MaxTry + 1))
    BY <1>1, FS_Interval
  <1>3. Queued(k) \subseteq DOMAIN log
    BY DEF Queued
  <1>4. IsFiniteSet(Queued(k))
    BY <1>2, <1>3, FS_Subset
  <1>5. IsFiniteSet(Queued(k) \X (1..(MaxTry + 1)))
    BY <1>2, <1>4, FS_Product
  <1>6. QueuedTries(k) \subseteq Queued(k) \X (1..(MaxTry + 1))
    BY DEF QueuedTries
  <1>7. IsFiniteSet(QueuedTries(k))
    BY <1>5, <1>6, FS_Subset
  <1>8. QED
    BY <1>1, <1>3, <1>4, <1>7

\* A record fewer, or one more.
LEMMA QueueShrinks ==
    ASSUME TypeInv, LogKept, NEW k \in Key, Queued(k)' \subseteq Queued(k)
    PROVE  /\ Cardinality(Queued(k)) \in Nat /\ Cardinality(Queued(k)') \in Nat
           /\ Cardinality(QueuedTries(k)) \in Nat /\ Cardinality(QueuedTries(k)') \in Nat
           /\ Cardinality(Queued(k)') <= Cardinality(Queued(k))
           /\ Cardinality(QueuedTries(k)') <= Cardinality(QueuedTries(k))
  <1>1. \A i \in Queued(k) : log'[i] = log[i]
    BY DEF Queued, LogKept
  <1>2. QueuedTries(k)' \subseteq QueuedTries(k)
    BY <1>1 DEF QueuedTries, TriesOf
  <1>3. QED
    BY <1>2, QueuedFinite, Fewer

LEMMA QueueGrows ==
    ASSUME TypeInv, TypeInv', LogKept, NEW k \in Key, NEW i \in DOMAIN log',
           Queued(k)' \subseteq Queued(k) \cup {i}
    PROVE  /\ Cardinality(Queued(k)) \in Nat /\ Cardinality(Queued(k)') \in Nat
           /\ Cardinality(QueuedTries(k)) \in Nat /\ Cardinality(QueuedTries(k)') \in Nat
           /\ TriesOf(log'[i]) \in 1..(MaxTry + 1)
           /\ Cardinality(Queued(k)') <= Cardinality(Queued(k)) + 1
           /\ Cardinality(QueuedTries(k)') <=
                 Cardinality(QueuedTries(k)) + TriesOf(log'[i])
  <1> DEFINE w == TriesOf(log'[i])
  <1>1. \A j \in Queued(k) : log'[j] = log[j]
    BY DEF Queued, LogKept
  <1>2. log'[i] \in Record
    BY DEF TypeInv, TypeOK
  <1>3. w \in 1..(MaxTry + 1) /\ w \in Nat
    BY <1>2, TriesOfType
  <1>4. QueuedTries(k)' \subseteq QueuedTries(k) \cup Block(i, w)
    <2> SUFFICES ASSUME NEW p \in QueuedTries(k)'
                 PROVE  p \in QueuedTries(k) \cup Block(i, w)
      OBVIOUS
    <2>1. /\ p \in Queued(k)' \X (1..(MaxTry + 1))
          /\ p[2] <= TriesOf(log'[p[1]])
      BY DEF QueuedTries, TriesOf
    <2>2. CASE p[1] = i
      BY <1>3, <2>1, <2>2 DEF Block
    <2>3. CASE p[1] # i
      BY <1>1, <2>1, <2>3 DEF QueuedTries
    <2>4. QED BY <2>2, <2>3
  <1> HIDE DEF w
  <1>5. /\ Cardinality(QueuedTries(k)) \in Nat /\ Cardinality(QueuedTries(k)') \in Nat
        /\ Cardinality(QueuedTries(k)') <= Cardinality(QueuedTries(k)) + w
    BY <1>3, <1>4, QueuedFinite, OneBlockMore
  <1>6. /\ Cardinality(Queued(k)) \in Nat /\ Cardinality(Queued(k)') \in Nat
        /\ Cardinality(Queued(k)') <= Cardinality(Queued(k)) + 1
    BY QueuedFinite, OneMore
  <1>7. QED
    BY <1>3, <1>5, <1>6 DEF w

LEMMA QueueYields ==
    ASSUME TypeInv, LogKept, NEW k \in Key, NEW i \in Queued(k),
           Queued(k)' \subseteq Queued(k) \ {i}
    PROVE  /\ Cardinality(Queued(k)) \in Nat /\ Cardinality(Queued(k)') \in Nat
           /\ Cardinality(QueuedTries(k)) \in Nat /\ Cardinality(QueuedTries(k)') \in Nat
           /\ TriesOf(log[i]) \in 1..(MaxTry + 1)
           /\ Cardinality(Queued(k)') + 1 <= Cardinality(Queued(k))
           /\ Cardinality(QueuedTries(k)') + TriesOf(log[i]) <=
                 Cardinality(QueuedTries(k))
  <1> DEFINE w == TriesOf(log[i])
  <1>1. \A j \in Queued(k) : log'[j] = log[j]
    BY DEF Queued, LogKept
  <1>2. log[i] \in Record
    BY DEF TypeInv, TypeOK, Queued
  <1>3. w \in 1..(MaxTry + 1) /\ w \in Nat
    BY <1>2, TriesOfType
  <1>4. Block(i, w) \subseteq QueuedTries(k)
    BY <1>3 DEF QueuedTries, Block
  <1>5. QueuedTries(k)' \subseteq QueuedTries(k) \ Block(i, w)
    <2> SUFFICES ASSUME NEW p \in QueuedTries(k)'
                 PROVE  p \in QueuedTries(k) \ Block(i, w)
      OBVIOUS
    <2>1. /\ p \in Queued(k)' \X (1..(MaxTry + 1))
          /\ p[2] <= TriesOf(log'[p[1]])
      BY DEF QueuedTries, TriesOf
    <2>2. p[1] # i /\ p[1] \in Queued(k) /\ log'[p[1]] = log[p[1]]
      BY <1>1, <2>1
    <2>3. QED
      BY <2>1, <2>2 DEF QueuedTries, Block
  <1> HIDE DEF w
  <1>6. /\ Cardinality(QueuedTries(k)) \in Nat /\ Cardinality(QueuedTries(k)') \in Nat
        /\ Cardinality(QueuedTries(k)') + w <= Cardinality(QueuedTries(k))
    <2> DEFINE T == QueuedTries(k)
               R == T \ Block(i, w)
               S == QueuedTries(k)'
    <2>1. IsFiniteSet(T) /\ w \in Nat /\ Block(i, w) \subseteq T /\ S \subseteq R
      BY <1>3, <1>4, <1>5, QueuedFinite
    <2> HIDE DEF S, T
    <2>2. /\ IsFiniteSet(R) /\ Cardinality(R) \in Nat /\ Cardinality(T) \in Nat
          /\ Cardinality(R) + w <= Cardinality(T)
      BY <2>1, OneBlockFewer
    <2>3. Cardinality(S) \in Nat /\ Cardinality(S) <= Cardinality(R)
      BY <2>1, <2>2, Fewer
    <2>4. QED
      BY <2>1, <2>2, <2>3 DEF S, T
  <1>7. /\ Cardinality(Queued(k)) \in Nat /\ Cardinality(Queued(k)') \in Nat
        /\ Cardinality(Queued(k)') <= Cardinality(Queued(k)) - 1
    BY QueuedFinite, OneFewer
  <1>8. QED
    BY <1>3, <1>6, <1>7 DEF w

\* No listener begins or leaves a record.
Serving ==
    /\ owning' = owning
    /\ \A x \in Listener : /\ offset'[x] = offset[x]
                           /\ stage'[x] = "idle" <=> stage[x] = "idle"

\* Which records wait after a step that publishes, or does not.
LEMMA QueueServing ==
    ASSUME TypeInv, Serving, NEW k \in Key
    PROVE  /\ UNCHANGED <<log, committed>> => Queued(k)' \subseteq Queued(k)
           /\ \A r \in Record : Publish(r) =>
                 /\ LogKept
                 /\ Len(log) + 1 \in DOMAIN log' /\ log'[Len(log) + 1] = r
                 /\ Queued(k)' \subseteq Queued(k) \cup {Len(log) + 1}
                 /\ k \notin Targets(r) => Queued(k)' \subseteq Queued(k)
  <1>1. \A i \in DOMAIN log : i \notin committed' /\ Deliverable(i)' /\ committed' = committed
                                  => Deliverable(i)
    BY DEF Deliverable, Serving, TypeInv, TypeOK
  <1>2. ASSUME UNCHANGED <<log, committed>> PROVE Queued(k)' \subseteq Queued(k)
    BY <1>1, <1>2 DEF Queued, Deliverable, Targets
  <1>3. ASSUME NEW r \in Record, Publish(r)
        PROVE  /\ LogKept
               /\ Len(log) + 1 \in DOMAIN log' /\ log'[Len(log) + 1] = r
               /\ Queued(k)' \subseteq Queued(k) \cup {Len(log) + 1}
               /\ k \notin Targets(r) => Queued(k)' \subseteq Queued(k)
    <2>1. /\ LogKept /\ committed' = committed
          /\ log'[Len(log) + 1] = r /\ Len(log) + 1 \in DOMAIN log'
          /\ DOMAIN log' = DOMAIN log \cup {Len(log) + 1}
      <3>1. /\ DOMAIN log' = 1..(Len(log) + 1) /\ log'[Len(log) + 1] = r
            /\ DOMAIN log \subseteq DOMAIN log' /\ committed' = committed
            /\ \A i \in DOMAIN log : log'[i] = log[i]
        BY <1>3, PublishType
      <3>2. Len(log) \in Nat /\ DOMAIN log = 1..Len(log)
        BY DEF TypeInv, TypeOK
      <3>3. 1..(Len(log) + 1) = 1..Len(log) \cup {Len(log) + 1}
        BY <3>2
      <3>4. QED
        BY <3>1, <3>2, <3>3 DEF LogKept
    <2>2. \A i \in Queued(k)' : i \in DOMAIN log => i \in Queued(k)
      BY <1>1, <2>1 DEF Queued, Deliverable, LogKept, Targets
    <2>3. Queued(k)' \subseteq DOMAIN log'
      BY DEF Queued
    <2>4. Len(log) + 1 \in Queued(k)' => k \in Targets(r)
      BY <2>1 DEF Queued, Targets
    <2>5. QED
      BY <2>1, <2>2, <2>3, <2>4
  <1>4. QED
    BY <1>2, <1>3

-----------------------------------------------------------------------------
(* The balance of a step.                                                  *)

\* How the counts of k change when listener s moves, with q more records of
\* w tries on the topics.
Moved(s, k, q, w) ==
    /\ IsFiniteSet(Holding(k)') /\ IsFiniteSet(Saving(k)')
    /\ Held(k) \in Nat /\ Held(k)' \in Nat /\ Tries(k) \in Nat /\ Tries(k)' \in Nat
    /\ Cardinality(Saving(k)) \in Nat /\ Cardinality(Saving(k)') \in Nat
    /\ Held(k)' + accepted[k] + HoldOne(s, k) + IsIn(k, "ERROR")
          <= Held(k) + accepted'[k] + HoldOne(s, k)' + IsIn(k, "ERROR")' + q
    /\ Tries(k)' + attempts[k] + TryOne(s, k)
          <= Tries(k) + attempts'[k] + TryOne(s, k)' + w
    /\ Cardinality(Saving(k)') + SaveOne(s, k) = Cardinality(Saving(k)) + SaveOne(s, k)'

LEMMA IsInType ==
    ASSUME NEW k, NEW state
    PROVE  IsIn(k, state) \in 0..1 /\ IsIn(k, state)' \in 0..1
  BY DEF IsIn

LEMMA ListenerOneNext ==
    ASSUME TypeInv', NEW s \in Listener, NEW k \in Key
    PROVE  /\ HoldOne(s, k)' \in 0..1 /\ SaveOne(s, k)' \in 0..1
           /\ TryOne(s, k)' \in 0..(MaxTry + 1)
  <1>1. s \in Holding(k)' => Rec(s)' \in Record
    <2>1. s \in Holding(k)' => stage'[s] # "idle"
      BY DEF Holding
    <2>2. stage'[s] # "idle" => offset'[s] \in DOMAIN log'
      BY DEF TypeInv, HoldsRecord
    <2>3. \A i \in DOMAIN log' : log'[i] \in Record
      BY DEF TypeInv, TypeOK
    <2>4. QED
      BY <2>1, <2>2, <2>3 DEF Rec
  <1>2. s \in Holding(k)' => TriesOf(Rec(s)') \in 1..(MaxTry + 1)
    BY <1>1, TriesOfType
  <1>3. QED
    BY <1>2 DEF HoldOne, SaveOne, TryOne, TriesLeft, TriesOf

LEMMA StepCounts ==
    ASSUME TypeInv, TypeInv', LogKept, NEW s \in Listener, NEW k \in Key,
           \A x \in Listener \ {s} : Rests(x),
           IsFiniteSet(Holding(k)), IsFiniteSet(Saving(k)),
           NEW q \in Int, NEW w \in Int,
           Cardinality(Queued(k)) \in Nat, Cardinality(Queued(k)') \in Nat,
           Cardinality(QueuedTries(k)) \in Nat, Cardinality(QueuedTries(k)') \in Nat,
           Cardinality(Queued(k)') <= Cardinality(Queued(k)) + q,
           Cardinality(QueuedTries(k)') <= Cardinality(QueuedTries(k)) + w
    PROVE  Moved(s, k, q, w)
  <1>1. /\ accepted[k] \in Nat /\ accepted'[k] \in Nat
        /\ attempts[k] \in Nat /\ attempts'[k] \in Nat
    BY DEF TypeInv, TypeOK
  <1>2. /\ IsIn(k, "ERROR") \in 0..1 /\ IsIn(k, "ERROR")' \in 0..1
        /\ HoldOne(s, k) \in 0..1 /\ HoldOne(s, k)' \in 0..1
        /\ TryOne(s, k) \in Nat
    BY IsInType, ListenerOneType DEF HoldOne
  <1>3. TryOne(s, k)' \in Int
    BY ListenerOneNext
  <1>4. /\ IsFiniteSet(Holding(k)') /\ IsFiniteSet(Saving(k)')
        /\ Cardinality(Holding(k)) \in Nat /\ Cardinality(Holding(k)') \in Nat
        /\ Cardinality(Saving(k)) \in Nat /\ Cardinality(Saving(k)') \in Nat
        /\ Cardinality(HeldTries(k)) \in Nat /\ Cardinality(HeldTries(k)') \in Nat
        /\ Cardinality(Holding(k)') + HoldOne(s, k) =
              Cardinality(Holding(k)) + HoldOne(s, k)'
        /\ Cardinality(Saving(k)') + SaveOne(s, k) =
              Cardinality(Saving(k)) + SaveOne(s, k)'
        /\ Cardinality(HeldTries(k)') + TryOne(s, k) =
              Cardinality(HeldTries(k)) + TryOne(s, k)'
    BY ListenerCounts
  <1>5. /\ Held(k) = accepted[k] + Cardinality(Holding(k)) + Cardinality(Queued(k))
                        + IsIn(k, "ERROR")
        /\ Held(k)' = accepted'[k] + Cardinality(Holding(k)') + Cardinality(Queued(k)')
                        + IsIn(k, "ERROR")'
        /\ Tries(k) = attempts[k] + Cardinality(HeldTries(k)) + Cardinality(QueuedTries(k))
        /\ Tries(k)' = attempts'[k] + Cardinality(HeldTries(k)')
                        + Cardinality(QueuedTries(k)')
    BY DEF Held, Tries
  <1>6. QED
    BY <1>1, <1>2, <1>3, <1>4, <1>5 DEF Moved

\* The listener works on without publishing, or publishes a record.
LEMMA QuietCounts ==
    ASSUME TypeInv, TypeInv', NEW s \in Listener, NEW k \in Key, Working(s),
           UNCHANGED <<log, committed>>, IsFiniteSet(Holding(k)), IsFiniteSet(Saving(k))
    PROVE  Moved(s, k, 0, 0)
  <1>1. Serving
    BY DEF Working, Serving, Rests
  <1>2. LogKept /\ \A x \in Listener \ {s} : Rests(x)
    BY DEF LogKept, Working
  <1>3. Queued(k)' \subseteq Queued(k)
    BY <1>1, QueueServing
  <1>4. /\ Cardinality(Queued(k)) \in Nat /\ Cardinality(Queued(k)') \in Nat
        /\ Cardinality(QueuedTries(k)) \in Nat /\ Cardinality(QueuedTries(k)') \in Nat
        /\ Cardinality(Queued(k)') <= Cardinality(Queued(k)) + 0
        /\ Cardinality(QueuedTries(k)') <= Cardinality(QueuedTries(k)) + 0
    BY <1>2, <1>3, QueueShrinks
  <1>5. QED
    BY <1>2, <1>4, StepCounts

LEMMA LoudCounts ==
    ASSUME TypeInv, TypeInv', NEW s \in Listener, NEW k \in Key, Working(s),
           NEW r \in Record, Publish(r), IsFiniteSet(Holding(k)), IsFiniteSet(Saving(k))
    PROVE  /\ k \notin Targets(r) => Moved(s, k, 0, 0)
           /\ k \in Targets(r) => Moved(s, k, 1, TriesOf(r))
  <1>1. Serving
    BY DEF Working, Serving, Rests
  <1>2. /\ LogKept /\ \A x \in Listener \ {s} : Rests(x)
        /\ Len(log) + 1 \in DOMAIN log' /\ log'[Len(log) + 1] = r
        /\ Queued(k)' \subseteq Queued(k) \cup {Len(log) + 1}
        /\ k \notin Targets(r) => Queued(k)' \subseteq Queued(k)
    BY <1>1, QueueServing DEF Working
  <1>3. ASSUME k \notin Targets(r) PROVE Moved(s, k, 0, 0)
    <2>1. /\ Cardinality(Queued(k)) \in Nat /\ Cardinality(Queued(k)') \in Nat
          /\ Cardinality(QueuedTries(k)) \in Nat /\ Cardinality(QueuedTries(k)') \in Nat
          /\ Cardinality(Queued(k)') <= Cardinality(Queued(k)) + 0
          /\ Cardinality(QueuedTries(k)') <= Cardinality(QueuedTries(k)) + 0
      BY <1>2, <1>3, QueueShrinks
    <2>2. QED
      BY <1>2, <2>1, StepCounts
  <1>4. Moved(s, k, 1, TriesOf(r))
    <2>1. /\ Cardinality(Queued(k)) \in Nat /\ Cardinality(Queued(k)') \in Nat
          /\ Cardinality(QueuedTries(k)) \in Nat /\ Cardinality(QueuedTries(k)') \in Nat
          /\ Cardinality(Queued(k)') <= Cardinality(Queued(k)) + 1
          /\ Cardinality(QueuedTries(k)') <= Cardinality(QueuedTries(k)) + TriesOf(r)
      BY <1>2, QueueGrows
    <2>2. TriesOf(r) \in Int
      BY TriesOfType
    <2>3. QED
      BY <1>2, <2>1, <2>2, StepCounts
  <1>5. QED
    BY <1>3, <1>4

\* What a listener at a TPP counts for.
HoldAt(pc) == IF pc \in {"insert", "find", "token", "post", "enqueue"} THEN 1 ELSE 0
SaveAt(pc) == IF pc = "save" THEN 1 ELSE 0
TryAt(pc, n) ==
    IF pc \in {"insert", "find", "token"} THEN n
    ELSE IF pc \in {"post", "enqueue"} THEN n - 1 ELSE 0

Weighs(pc, n, hold, save, try) ==
    hold = HoldAt(pc) /\ save = SaveAt(pc) /\ try = TryAt(pc, n)

LEMMA Standing ==
    ASSUME NEW s \in Listener, NEW k \in Key, stage[s] = "send", Rec(s).msg = k[1],
           TriesOf(Rec(s)) \in Int
    PROVE  Weighs(branch[s][k[2]], TriesOf(Rec(s)), HoldOne(s, k), SaveOne(s, k), TryOne(s, k))
  BY DEF Weighs, HoldAt, SaveAt, TryAt, HoldOne, SaveOne, TryOne, Holding, Saving, TriesLeft

LEMMA StandingNext ==
    ASSUME NEW s \in Listener, NEW k \in Key, stage'[s] = "send", Rec(s)'.msg = k[1],
           TriesOf(Rec(s)') \in Int
    PROVE  Weighs(branch'[s][k[2]], TriesOf(Rec(s)'),
                  HoldOne(s, k)', SaveOne(s, k)', TryOne(s, k)')
  <1>1. TriesOf(Rec(s))' = TriesOf(Rec(s)')
    BY DEF TriesOf
  <1>2. QED
    BY <1>1 DEF Weighs, HoldAt, SaveAt, TryAt, HoldOne, SaveOne, TryOne, Holding, Saving, TriesLeft

\* A step to another place of the branch.
LEMMA GotoWeighs ==
    ASSUME TypeInv, LogKept, NEW s \in Listener, NEW t \in Tpp, stage[s] = "send",
           NEW to \in BranchPc, Goto(s, t, to), NEW k \in Key
    PROVE  LET w == TriesOf(Rec(s))
           IN  /\ k = KeyOf(s, t) =>
                     /\ w \in 1..(MaxTry + 1)
                     /\ Weighs(branch[s][t], w, HoldOne(s, k), SaveOne(s, k), TryOne(s, k))
                     /\ Weighs(to, w, HoldOne(s, k)', SaveOne(s, k)', TryOne(s, k)')
               /\ k # KeyOf(s, t) =>
                     /\ HoldOne(s, k)' = HoldOne(s, k) /\ SaveOne(s, k)' = SaveOne(s, k)
                     /\ TryOne(s, k)' = TryOne(s, k)
  <1>1. /\ Rec(s) \in Record /\ Rec(s)' = Rec(s) /\ stage'[s] = "send"
        /\ branch'[s][t] = to /\ \A u \in Tpp \ {t} : branch'[s][u] = branch[s][u]
    BY RecordFacts DEF TypeInv, TypeOK, HoldsRecord, LogKept, Goto, Rec
  <1>2. TriesOf(Rec(s)) \in 1..(MaxTry + 1) /\ TriesOf(Rec(s))' = TriesOf(Rec(s))
    BY <1>1, TriesOfType DEF TriesOf
  <1>3. ASSUME k = KeyOf(s, t)
        PROVE  /\ Weighs(branch[s][t], TriesOf(Rec(s)),
                         HoldOne(s, k), SaveOne(s, k), TryOne(s, k))
               /\ Weighs(to, TriesOf(Rec(s)), HoldOne(s, k)', SaveOne(s, k)', TryOne(s, k)')
    <2>1. k[1] = Rec(s).msg /\ k[2] = t
      BY <1>3 DEF KeyOf
    <2>2. QED
      BY <1>1, <1>2, <2>1, Standing, StandingNext
  <1>4. ASSUME k # KeyOf(s, t)
        PROVE  /\ HoldOne(s, k)' = HoldOne(s, k) /\ SaveOne(s, k)' = SaveOne(s, k)
               /\ TryOne(s, k)' = TryOne(s, k)
    <2>1. k[1] # Rec(s).msg \/ branch'[s][k[2]] = branch[s][k[2]]
      BY <1>1, <1>4 DEF KeyOf, Key
    <2>2. QED
      BY <1>1, <1>2, <2>1 DEF HoldOne, SaveOne, TryOne, Holding, Saving, TriesLeft
  <1>5. QED
    BY <1>2, <1>3, <1>4

\* The record is begun again: the listener has lost what it had sent.
LEMMA RestartWeighs ==
    ASSUME TypeInv, TypeInv', NEW s \in Listener, stage[s] # "idle",
           RetryInPlace(s) \/ OtherError(s), NEW k \in Key
    PROVE  /\ HoldOne(s, k)' \in 0..1 /\ TryOne(s, k)' \in 0..(MaxTry + 1)
           /\ SaveOne(s, k)' = 0
           /\ HoldOne(s, k) \in 0..1 /\ SaveOne(s, k) \in 0..1
           /\ TryOne(s, k) \in 0..(MaxTry + 1)
  <1>1. \A u \in Tpp : branch'[s][u] # "save"
    <2>1. branch \in [Listener -> [Tpp -> BranchPc]]
      BY DEF TypeInv, TypeOK
    <2>2. branch'[s] = StartBranches(Rec(s)) \/ branch'[s] = NoBranches
      BY <2>1 DEF RetryInPlace, OtherError
    <2>3. QED
      BY <2>2 DEF StartBranches, NoBranches
  <1>2. SaveOne(s, k)' = 0
    BY <1>1 DEF SaveOne, Saving, Key
  <1>3. HoldOne(s, k)' \in 0..1 /\ TryOne(s, k)' \in 0..(MaxTry + 1)
    BY ListenerOneNext
  <1>4. /\ HoldOne(s, k) \in 0..1 /\ SaveOne(s, k) \in 0..1
        /\ TryOne(s, k) \in 0..(MaxTry + 1)
    BY ListenerOneType
  <1>5. QED
    BY <1>2, <1>3, <1>4

\* The balance of a whole step for k: hands and tries are only handed on, or
\* a fault pays for one more hand with all its tries, or k's message is new.
\* A listener that stops saving has recorded SENT or has stopped for good.
Fresh(k) == \A i \in DOMAIN log : log[i].msg # k[1]

Settles(k) ==
    /\ IsFiniteSet(Holding(k)') /\ IsFiniteSet(Saving(k)')
    /\ Held(k) \in Nat /\ Held(k)' \in Nat /\ Tries(k) \in Nat /\ Tries(k)' \in Nat
    /\ Cardinality(Saving(k)) \in Nat /\ Cardinality(Saving(k)') \in Nat
    /\ \/ faults' = faults /\ Held(k)' <= Held(k) /\ Tries(k)' <= Tries(k)
       \/ /\ faults' = faults + 1
          /\ Held(k)' <= Held(k) + 1 /\ Tries(k)' <= Tries(k) + MaxTry + 1
       \/ /\ Fresh(k) /\ faults' = faults
          /\ Held(k)' <= 1 /\ Tries(k)' <= MaxTry + 1
    /\ Cardinality(Saving(k)') + IsIn(k, "SENT")' + accepted[k]
          <= Cardinality(Saving(k)) + IsIn(k, "SENT") + accepted'[k]

\* Numbers that are there, so that a step's balance is a matter of sums.
LEMMA CountTypes ==
    ASSUME TypeInv, TypeInv', NEW k \in Key
    PROVE  /\ accepted[k] \in Nat /\ accepted'[k] \in Nat
           /\ attempts[k] \in Nat /\ attempts'[k] \in Nat
           /\ faults \in Nat /\ faults' \in Nat
           /\ \A st : IsIn(k, st) \in 0..1 /\ IsIn(k, st)' \in 0..1
           /\ docs'[k] = docs[k] => \A st : IsIn(k, st)' = IsIn(k, st)
  BY DEF TypeInv, TypeOK, IsIn

\* A step that fails and begins the record again.
LEMMA RestartSettles ==
    ASSUME TypeInv, TypeInv', NEW s \in Listener, stage[s] # "idle",
           RetryInPlace(s) \/ OtherError(s), faults' = faults + 1, NEW k \in Key,
           NEW q \in Nat, NEW w \in Nat, Moved(s, k, q, w),
           accepted'[k] = accepted[k], IsIn(k, "SENT")' <= IsIn(k, "SENT"),
           IsIn(k, "ERROR")' + HoldOne(s, k)' + q <= IsIn(k, "ERROR") + HoldOne(s, k) + 1,
           attempts'[k] + w <= attempts[k] + TryOne(s, k)
    PROVE  Settles(k)
  <1>1. /\ HoldOne(s, k)' \in 0..1 /\ TryOne(s, k)' \in 0..(MaxTry + 1)
        /\ SaveOne(s, k)' = 0
        /\ HoldOne(s, k) \in 0..1 /\ SaveOne(s, k) \in 0..1
        /\ TryOne(s, k) \in 0..(MaxTry + 1)
    BY RestartWeighs
  <1>2. QED
    BY <1>1, CountTypes DEF Moved, Settles

\* A step that keeps the balance.
LEMMA EvenSettles ==
    ASSUME TypeInv, TypeInv', NEW s \in Listener, NEW k \in Key, Moved(s, k, 0, 0),
           faults' = faults \/ faults' = faults + 1,
           HoldOne(s, k)' = HoldOne(s, k), SaveOne(s, k)' = SaveOne(s, k),
           TryOne(s, k)' = TryOne(s, k),
           docs'[k] = docs[k], accepted'[k] = accepted[k], attempts'[k] = attempts[k]
    PROVE  Settles(k)
  BY CountTypes, ListenerOneType DEF Moved, Settles

\* A step of a branch that goes on keeps the balance of hands and of tries,
\* with one hand and its tries more for a fault, and that of what was sent.
HandsBalance(k, from, to, q) ==
    accepted'[k] + HoldAt(to) + IsIn(k, "ERROR")' + q + faults
        <= accepted[k] + HoldAt(from) + IsIn(k, "ERROR") + faults'
TriesBalance(k, n, from, to, w) ==
    \/ attempts'[k] + TryAt(to, n) + w <= attempts[k] + TryAt(from, n)
    \/ /\ faults' = faults + 1
       /\ attempts'[k] + TryAt(to, n) + w <= attempts[k] + TryAt(from, n) + MaxTry + 1
SentBalance(k, from, to) ==
    SaveAt(to) + IsIn(k, "SENT")' + accepted[k]
        <= SaveAt(from) + IsIn(k, "SENT") + accepted'[k]

LEMMA GotoSettles ==
    ASSUME TypeInv, TypeInv', LogKept, NEW s \in Listener, NEW t \in Tpp, stage[s] = "send",
           NEW from \in BranchPc, branch[s][t] = from,
           NEW to \in BranchPc, Goto(s, t, to), NEW k \in Key, k = KeyOf(s, t),
           NEW q \in Nat, NEW w \in Nat, Moved(s, k, q, w),
           faults' = faults \/ faults' = faults + 1,
           HandsBalance(k, from, to, q), TriesBalance(k, TriesOf(Rec(s)), from, to, w),
           SentBalance(k, from, to)
    PROVE  Settles(k)
  <1> DEFINE n == TriesOf(Rec(s))
  <1>1. /\ n \in 1..(MaxTry + 1)
        /\ Weighs(from, n, HoldOne(s, k), SaveOne(s, k), TryOne(s, k))
        /\ Weighs(to, n, HoldOne(s, k)', SaveOne(s, k)', TryOne(s, k)')
    BY GotoWeighs
  <1>2. TriesBalance(k, n, from, to, w)
    OBVIOUS
  <1> HIDE DEF n
  <1>3. \A pc : HoldAt(pc) \in 0..1 /\ SaveAt(pc) \in 0..1 /\ TryAt(pc, n) \in 0..(MaxTry + 1)
    BY <1>1 DEF HoldAt, SaveAt, TryAt
  <1>4. QED
    BY <1>1, <1>2, <1>3, CountTypes
       DEF Weighs, HandsBalance, TriesBalance, SentBalance, Moved, Settles

\* The steps on one TPP keep the balance of every notification.
LEMMA BranchSettles ==
    ASSUME TypeInv, TypeInv', WorkInv, NEW s \in Listener, NEW t \in Tpp, BranchStep(s, t),
           NEW k \in Key, IsFiniteSet(Holding(k)), IsFiniteSet(Saving(k))
    PROVE  Settles(k)
  <1> DEFINE n == NextRetry(SendRetry(s))
             r == Retry(Rec(s).msg, t, n)
             w == TriesOf(Rec(s))
  <1> USE DEF storeVars, kafkaVars, historyVars
  <1>0. /\ Working(s) /\ LogKept /\ stage[s] = "send" /\ stage[s] # "idle"
        /\ Rec(s) \in Record /\ KeyOf(s, t) \in Key
        /\ w \in 1..(MaxTry + 1) /\ n \in Nat
        /\ faults' = faults \/ faults' = faults + 1
    BY BranchWorking, BranchStepShape, RecordFacts, TriesOfType, NextRetryType DEF Fault
  <1>1. ~Exhausted(n) => /\ r \in Record /\ Targets(r) = {KeyOf(s, t)}
                         /\ TriesOf(r) = w - 1
    <2>1. SendRetry(s) \in 0..MaxTry /\ w = MaxTry + 1 - SendRetry(s)
      BY <1>0, RecordFacts DEF SendRetry, TriesOf
    <2>2. ~Exhausted(n) => r \in Record
      BY <1>0, ProducedType
    <2>3. Targets(r) = {KeyOf(s, t)} /\ r.topic = "notifyError" /\ r.retry = n
      BY DEF Targets, Retry, KeyOf
    <2>4. TriesOf(r) = w - 1
      BY <2>1, <2>3 DEF TriesOf, NextRetry
    <2>5. QED BY <2>2, <2>3, <2>4
  <1>2. UNCHANGED <<log, committed>> => Moved(s, k, 0, 0)
    BY <1>0, QuietCounts
  <1>3. ~Exhausted(n) /\ Publish(r) =>
            /\ k # KeyOf(s, t) => Moved(s, k, 0, 0)
            /\ k = KeyOf(s, t) => Moved(s, k, 1, w - 1)
    BY <1>0, <1>1, LoudCounts
  <1>4. \/ UNCHANGED <<log, committed>>
        \/ branch[s][t] = "enqueue" /\ ~Exhausted(n) /\ Publish(r)
    BY BranchStepTries
  <1>t. /\ accepted[k] \in Nat /\ accepted'[k] \in Nat
        /\ attempts[k] \in Nat /\ attempts'[k] \in Nat
        /\ faults \in Nat /\ faults' \in Nat
        /\ \A st : IsIn(k, st) \in 0..1 /\ IsIn(k, st)' \in 0..1
        /\ docs'[k] = docs[k] => \A st : IsIn(k, st)' = IsIn(k, st)
        /\ docs'[k] \in DocState /\ docs[k] \in DocState
    BY CountTypes DEF TypeInv, TypeOK
  <1>r. /\ HoldOne(s, k) \in 0..1 /\ HoldOne(s, k)' \in 0..1
        /\ TryOne(s, k) \in 0..(MaxTry + 1)
    BY ListenerOneType, ListenerOneNext
  <1>5. Find(s, t) => docs[KeyOf(s, t)] # "none"
    BY <1>0 DEF Find, At, WorkInv
  <1>6. \/ faults' = faults + 1 /\ (RetryInPlace(s) \/ OtherError(s))
        \/ \E to \in BranchPc : Goto(s, t, to)
    BY <1>5 DEF BranchStep, Insert, InsertFails, Find, FindFails, GetToken,
           GetTokenThrows, Post, PostAnswerLost, SaveSent, SaveSentFails, EnqueueNotify,
           EnqueueNotifyFails, Fault, BranchPc
  <1>7. CASE k # KeyOf(s, t)
    <2>1. docs'[k] = docs[k] /\ accepted'[k] = accepted[k] /\ attempts'[k] = attempts[k]
      BY <1>7, BranchTouches
    <2>2. Moved(s, k, 0, 0)
      BY <1>2, <1>3, <1>4, <1>7
    <2>3. CASE \E to \in BranchPc : Goto(s, t, to)
      <3>1. /\ HoldOne(s, k)' = HoldOne(s, k) /\ SaveOne(s, k)' = SaveOne(s, k)
            /\ TryOne(s, k)' = TryOne(s, k)
        BY <1>0, <1>7, <2>3, GotoWeighs
      <3>2. QED
        BY <1>0, <2>1, <2>2, <3>1, EvenSettles
    <2>4. CASE faults' = faults + 1 /\ (RetryInPlace(s) \/ OtherError(s))
      <3>1. /\ IsIn(k, "SENT")' <= IsIn(k, "SENT")
            /\ IsIn(k, "ERROR")' + HoldOne(s, k)' + 0 <= IsIn(k, "ERROR") + HoldOne(s, k) + 1
            /\ attempts'[k] + 0 <= attempts[k] + TryOne(s, k)
        BY <1>t, <1>r, <2>1
      <3>2. QED
        BY <1>0, <2>1, <2>2, <2>4, <3>1, RestartSettles
    <2>5. QED BY <1>6, <2>3, <2>4
  <1>8. CASE k = KeyOf(s, t)
    <2> DEFINE from == branch[s][t]
    <2>0. /\ docs = [docs EXCEPT ![k] = docs[k]] /\ k \in Key
          /\ docs \in [Key -> DocState]
          /\ \A st : SetDoc(s, t, st) => docs'[k] = st
          /\ UNCHANGED docs => docs'[k] = docs[k]
          /\ UNCHANGED accepted => accepted'[k] = accepted[k]
          /\ UNCHANGED attempts => attempts'[k] = attempts[k]
          /\ CountPost(s, t) => accepted'[k] = accepted[k] + 1
          /\ CountAttempt(s, t) => attempts'[k] = attempts[k] + 1
      BY <1>8 DEF TypeInv, TypeOK, SetDoc, CountPost, CountAttempt
    <2>g. ASSUME NEW pc \in BranchPc, branch[s][t] = pc
          PROVE  /\ HoldOne(s, k) = HoldAt(pc) /\ TryOne(s, k) = TryAt(pc, w)
      <3>1. k[1] = Rec(s).msg /\ k[2] = t
        BY <1>8 DEF KeyOf
      <3>2. QED
        BY <1>0, <2>g, <3>1, Standing DEF Weighs
    <2>1. CASE Insert(s, t) \/ Find(s, t)
      <3>1. PICK pc \in {"insert", "find"}, to \in {"find", "token", "done"} :
                /\ branch[s][t] = pc /\ Goto(s, t, to)
        BY <1>5, <2>1 DEF Insert, Find, At
      <3>2. /\ UNCHANGED <<log, committed, accepted, attempts, faults>>
            /\ UNCHANGED docs \/ (docs[k] = "none" /\ SetDoc(s, t, "IN_PROCESS"))
        BY <1>8, <2>1 DEF Insert, Find
      <3>3. IsIn(k, "SENT")' = IsIn(k, "SENT") /\ IsIn(k, "ERROR")' = IsIn(k, "ERROR")
        BY <2>0, <3>2 DEF IsIn
      <3>4. /\ HandsBalance(k, pc, to, 0) /\ TriesBalance(k, w, pc, to, 0)
            /\ SentBalance(k, pc, to)
        BY <1>0, <1>t, <3>1, <3>2, <3>3
           DEF HandsBalance, TriesBalance, SentBalance, HoldAt, TryAt, SaveAt
      <3>5. pc \in BranchPc /\ to \in BranchPc
        BY DEF BranchPc
      <3>6. QED
        BY <1>0, <1>2, <1>8, <3>1, <3>2, <3>4, <3>5, GotoSettles
    <2>i. /\ docs'[k] = "SENT" => IsIn(k, "SENT")' = 1 /\ IsIn(k, "ERROR")' = 0
          /\ docs'[k] = "ERROR" => IsIn(k, "SENT")' = 0 /\ IsIn(k, "ERROR")' = 1
          /\ docs'[k] = "IN_PROCESS" => IsIn(k, "SENT")' = 0 /\ IsIn(k, "ERROR")' = 0
          /\ docs'[k] = docs[k] => IsIn(k, "SENT")' = IsIn(k, "SENT")
                                   /\ IsIn(k, "ERROR")' = IsIn(k, "ERROR")
      BY DEF IsIn
    <2>p. {"insert", "find", "token", "post", "save", "enqueue", "done"} \subseteq BranchPc
      BY DEF BranchPc
    <2>2. CASE InsertFails(s, t) \/ FindFails(s, t)
      <3>1. /\ UNCHANGED <<log, committed, accepted, attempts>>
            /\ faults' = faults + 1 /\ RetryInPlace(s)
            /\ UNCHANGED docs \/ (docs[k] = "none" /\ SetDoc(s, t, "IN_PROCESS"))
        BY <1>8, <2>2 DEF InsertFails, FindFails, Fault
      <3>2. IsIn(k, "SENT")' = IsIn(k, "SENT") /\ IsIn(k, "ERROR")' = IsIn(k, "ERROR")
        BY <2>0, <3>1 DEF IsIn
      <3>3. /\ IsIn(k, "SENT")' <= IsIn(k, "SENT")
            /\ IsIn(k, "ERROR")' + HoldOne(s, k)' + 0 <= IsIn(k, "ERROR") + HoldOne(s, k) + 1
            /\ attempts'[k] + 0 <= attempts[k] + TryOne(s, k)
        BY <1>t, <1>r, <2>0, <3>1, <3>2
      <3>4. QED
        BY <1>0, <1>2, <2>0, <3>1, <3>3, RestartSettles
    <2>3. CASE GetToken(s, t)
      <3>1. PICK to \in {"post", "enqueue"} :
                /\ branch[s][t] = "token" /\ Goto(s, t, to)
                /\ UNCHANGED <<docs, log, committed, accepted, faults>>
                /\ CountAttempt(s, t)
        BY <2>3 DEF GetToken, At
      <3>2. /\ HandsBalance(k, "token", to, 0) /\ TriesBalance(k, w, "token", to, 0)
            /\ SentBalance(k, "token", to)
        BY <1>0, <1>t, <2>0, <2>i, <3>1
           DEF HandsBalance, TriesBalance, SentBalance, HoldAt, TryAt, SaveAt
      <3>3. QED
        BY <1>0, <1>2, <1>8, <2>p, <3>1, <3>2, GotoSettles
    <2>4. CASE GetTokenThrows(s, t)
      <3>1. /\ branch[s][t] = "token" /\ OtherError(s) /\ faults' = faults + 1
            /\ UNCHANGED <<docs, log, committed, accepted>>
            /\ CountAttempt(s, t)
        BY <2>4 DEF GetTokenThrows, At, Fault
      <3>2. HoldOne(s, k) = 1 /\ TryOne(s, k) = w
        BY <2>g, <2>p, <3>1 DEF HoldAt, TryAt
      <3>3. /\ IsIn(k, "SENT")' <= IsIn(k, "SENT")
            /\ IsIn(k, "ERROR")' + HoldOne(s, k)' + 0 <= IsIn(k, "ERROR") + HoldOne(s, k) + 1
            /\ attempts'[k] + 0 <= attempts[k] + TryOne(s, k)
        BY <1>0, <1>t, <1>r, <2>0, <2>i, <3>1, <3>2
      <3>4. QED
        BY <1>0, <1>2, <2>0, <3>1, <3>3, RestartSettles
    <2>5. CASE Post(s, t) \/ PostAnswerLost(s, t)
      <3>1. PICK to \in {"save", "enqueue"} :
                /\ branch[s][t] = "post" /\ Goto(s, t, to)
                /\ UNCHANGED <<docs, log, committed, attempts>>
                /\ \/ to = "save" /\ CountPost(s, t) /\ faults' = faults
                   \/ to = "enqueue" /\ UNCHANGED accepted /\ faults' = faults
                   \/ to = "enqueue" /\ CountPost(s, t) /\ faults' = faults + 1
        BY <2>5 DEF Post, PostAnswerLost, At, Fault
      <3>2. /\ HandsBalance(k, "post", to, 0) /\ TriesBalance(k, w, "post", to, 0)
            /\ SentBalance(k, "post", to)
        BY <1>0, <1>t, <2>0, <2>i, <3>1
           DEF HandsBalance, TriesBalance, SentBalance, HoldAt, TryAt, SaveAt
      <3>3. QED
        BY <1>0, <1>2, <1>8, <2>p, <3>1, <3>2, GotoSettles
    <2>6. CASE SaveSent(s, t) \/ SaveSentFails(s, t)
      <3>1. PICK to \in {"done", "enqueue"} :
                /\ branch[s][t] = "save" /\ Goto(s, t, to)
                /\ UNCHANGED <<log, committed, accepted, attempts>>
                /\ \/ to = "done" /\ SetDoc(s, t, "SENT") /\ faults' = faults
                   \/ /\ to = "enqueue" /\ faults' = faults + 1
                      /\ SetDoc(s, t, "SENT") \/ UNCHANGED docs
        BY <2>6 DEF SaveSent, SaveSentFails, At, Fault
      <3>2. /\ HandsBalance(k, "save", to, 0) /\ TriesBalance(k, w, "save", to, 0)
            /\ SentBalance(k, "save", to)
        BY <1>0, <1>t, <2>0, <2>i, <3>1
           DEF HandsBalance, TriesBalance, SentBalance, HoldAt, TryAt, SaveAt
      <3>3. QED
        BY <1>0, <1>2, <1>8, <2>p, <3>1, <3>2, GotoSettles
    <2>7. CASE EnqueueNotify(s, t)
      <3>1. /\ branch[s][t] = "enqueue" /\ Goto(s, t, "done")
            /\ UNCHANGED <<accepted, attempts, faults>>
            /\ \/ SetDoc(s, t, "ERROR") /\ UNCHANGED <<log, committed>>
               \/ ~Exhausted(n) /\ Publish(r) /\ UNCHANGED docs
        BY <2>7 DEF EnqueueNotify, At
      <3>2. CASE SetDoc(s, t, "ERROR") /\ UNCHANGED <<log, committed>>
        <4>1. /\ HandsBalance(k, "enqueue", "done", 0) /\ TriesBalance(k, w, "enqueue", "done", 0)
              /\ SentBalance(k, "enqueue", "done")
          BY <1>0, <1>t, <2>0, <2>i, <3>1, <3>2
             DEF HandsBalance, TriesBalance, SentBalance, HoldAt, TryAt, SaveAt
        <4>2. QED
          BY <1>0, <1>2, <1>8, <2>p, <3>1, <3>2, <4>1, GotoSettles
      <3>3. CASE ~Exhausted(n) /\ Publish(r) /\ UNCHANGED docs
        <4>1. /\ HandsBalance(k, "enqueue", "done", 1)
              /\ TriesBalance(k, w, "enqueue", "done", w - 1)
              /\ SentBalance(k, "enqueue", "done")
          BY <1>0, <1>t, <2>0, <2>i, <3>1, <3>3
             DEF HandsBalance, TriesBalance, SentBalance, HoldAt, TryAt, SaveAt
        <4>2. Moved(s, k, 1, w - 1) /\ w - 1 \in Nat
          BY <1>0, <1>3, <1>8, <3>3
        <4>3. QED
          BY <1>0, <1>8, <2>p, <3>1, <4>1, <4>2, GotoSettles
      <3>4. QED BY <3>1, <3>2, <3>3
    <2>8. CASE EnqueueNotifyFails(s, t)
      <3>1. /\ branch[s][t] = "enqueue" /\ OtherError(s) /\ faults' = faults + 1
            /\ UNCHANGED <<accepted, attempts>>
            /\ \/ UNCHANGED <<docs, log, committed>>
               \/ SetDoc(s, t, "ERROR") /\ UNCHANGED <<log, committed>>
               \/ ~Exhausted(n) /\ Publish(r) /\ UNCHANGED docs
        BY <2>8 DEF EnqueueNotifyFails, At, Fault
      <3>2. HoldOne(s, k) = 1 /\ TryOne(s, k) = w - 1
        BY <2>g, <2>p, <3>1 DEF HoldAt, TryAt
      <3>3. CASE UNCHANGED <<log, committed>>
        <4>1. /\ IsIn(k, "SENT")' <= IsIn(k, "SENT")
              /\ IsIn(k, "ERROR")' + HoldOne(s, k)' + 0
                    <= IsIn(k, "ERROR") + HoldOne(s, k) + 1
              /\ attempts'[k] + 0 <= attempts[k] + TryOne(s, k)
          BY <1>0, <1>t, <1>r, <2>0, <2>i, <3>1, <3>2, <3>3
        <4>2. QED
          BY <1>0, <1>2, <2>0, <3>1, <3>3, <4>1, RestartSettles
      <3>4. CASE ~Exhausted(n) /\ Publish(r) /\ UNCHANGED docs
        <4>1. /\ IsIn(k, "SENT")' <= IsIn(k, "SENT")
              /\ IsIn(k, "ERROR")' + HoldOne(s, k)' + 1
                    <= IsIn(k, "ERROR") + HoldOne(s, k) + 1
              /\ attempts'[k] + (w - 1) <= attempts[k] + TryOne(s, k)
          BY <1>0, <1>t, <1>r, <2>0, <2>i, <3>1, <3>2, <3>4
        <4>2. Moved(s, k, 1, w - 1) /\ w - 1 \in Nat
          BY <1>0, <1>3, <1>8, <3>4
        <4>3. QED
          BY <1>0, <2>0, <3>1, <4>1, <4>2, RestartSettles
      <3>5. QED BY <3>1, <3>3, <3>4
    <2>9. QED
      BY <2>1, <2>2, <2>3, <2>4, <2>5, <2>6, <2>7, <2>8 DEF BranchStep
  <1>9. QED
    BY <1>7, <1>8

\* A step that changes nothing of k but the hands it is in.
LEMMA HandsSettle ==
    ASSUME TypeInv, TypeInv', NEW s \in Listener, NEW k \in Key,
           NEW q \in Int, NEW w \in Int, Moved(s, k, q, w),
           docs'[k] = docs[k], accepted'[k] = accepted[k], attempts'[k] = attempts[k],
           SaveOne(s, k)' <= SaveOne(s, k),
           \/ /\ faults' = faults
              /\ HoldOne(s, k)' + q <= HoldOne(s, k) /\ TryOne(s, k)' + w <= TryOne(s, k)
           \/ /\ faults' = faults + 1
              /\ HoldOne(s, k)' + q <= HoldOne(s, k) + 1
              /\ TryOne(s, k)' + w <= TryOne(s, k) + MaxTry + 1
    PROVE  Settles(k)
  BY CountTypes, ListenerOneType, ListenerOneNext DEF Moved, Settles

\* A listener that works on a core record as a whole is a hand for every TPP.
LEMMA WholeRecord ==
    ASSUME TypeInv, NEW s \in Listener, stage[s] \in {"resolve", "requeue"},
           Rec(s).topic = "core", NEW k \in Key
    PROVE  /\ SaveOne(s, k) = 0
           /\ k[1] = Rec(s).msg =>
                 HoldOne(s, k) = 1 /\ TryOne(s, k) = MaxTry + 1
           /\ k[1] # Rec(s).msg => HoldOne(s, k) = 0 /\ TryOne(s, k) = 0
  <1>1. Rec(s) \in Record /\ (k \in Targets(Rec(s)) <=> k[1] = Rec(s).msg)
    BY RecordFacts DEF Targets, Key
  <1>2. QED
    BY <1>1 DEF HoldOne, SaveOne, TryOne, Holding, Saving, TriesLeft, TriesOf

LEMMA WholeRecordNext ==
    ASSUME TypeInv', NEW s \in Listener, stage'[s] \in {"resolve", "requeue"},
           Rec(s)'.topic = "core", NEW k \in Key
    PROVE  /\ SaveOne(s, k)' = 0
           /\ k[1] = Rec(s)'.msg =>
                 HoldOne(s, k)' = 1 /\ TryOne(s, k)' = MaxTry + 1
           /\ k[1] # Rec(s)'.msg => HoldOne(s, k)' = 0 /\ TryOne(s, k)' = 0
  <1>1. k \in Targets(Rec(s))' <=> k[1] = Rec(s)'.msg
    BY DEF Targets, Key
  <1>2. QED
    BY <1>1 DEF HoldOne, SaveOne, TryOne, Holding, Saving, TriesLeft, TriesOf

\* A listener with nothing to send.
LEMMA NoHand ==
    ASSUME NEW s \in Listener, NEW k \in Key
    PROVE  /\ stage[s] \in {"idle", "processed"} =>
                 HoldOne(s, k) = 0 /\ SaveOne(s, k) = 0 /\ TryOne(s, k) = 0
           /\ stage'[s] \in {"idle", "processed"} =>
                 HoldOne(s, k)' = 0 /\ SaveOne(s, k)' = 0 /\ TryOne(s, k)' = 0
  BY DEF HoldOne, SaveOne, TryOne, Holding, Saving

\* The steps on a whole core record.
LEMMA RecordSettles ==
    ASSUME TypeInv, TypeInv', WorkInv, NEW s \in Listener,
           Resolve(s) \/ ResolveFails(s) \/ Requeue(s) \/ RequeueFails(s),
           NEW k \in Key, IsFiniteSet(Holding(k)), IsFiniteSet(Saving(k))
    PROVE  Settles(k)
  <1> DEFINE n == NextRetry(Rec(s).retry)
             r == Core(Rec(s).msg, n)
  <1> USE DEF storeVars, kafkaVars, historyVars
  <1>0. /\ Working(s) /\ LogKept /\ stage[s] \in {"resolve", "requeue"} /\ stage[s] # "idle"
        /\ Rec(s) \in Record /\ Rec(s)' = Rec(s) /\ Rec(s).topic = "core" /\ n \in Nat
        /\ docs'[k] = docs[k] /\ accepted'[k] = accepted[k] /\ attempts'[k] = attempts[k]
    <2>1. /\ Working(s) /\ LogKept /\ stage[s] \in {"resolve", "requeue"}
          /\ UNCHANGED <<docs, accepted, attempts>>
      BY RecordWorking
    <2>2. stage[s] # "idle" /\ Rec(s).topic = "core"
      BY <2>1 DEF WorkInv
    <2>3. Rec(s)' = Rec(s)
      BY <2>1, <2>2 DEF Working, LogKept, TypeInv, HoldsRecord, Rec
    <2>4. QED
      BY <2>1, <2>2, <2>3, RecordFacts, NextRetryType
  <1>1. UNCHANGED <<log, committed>> => Moved(s, k, 0, 0)
    BY <1>0, QuietCounts
  <1>2. ASSUME ~Exhausted(n), Publish(r)
        PROVE  /\ k[1] # Rec(s).msg => Moved(s, k, 0, 0)
               /\ k[1] = Rec(s).msg => Moved(s, k, 1, MaxTry + 1)
    <2>1. r \in Record /\ TriesOf(r) = MaxTry + 1
      BY <1>0, <1>2, ProducedType DEF Core, TriesOf
    <2>2. k \in Targets(r) <=> k[1] = Rec(s).msg
      BY DEF Core, Targets, Key
    <2>3. QED
      BY <1>0, <1>2, <2>1, <2>2, LoudCounts
  <1>3. /\ SaveOne(s, k) = 0
        /\ k[1] = Rec(s).msg => HoldOne(s, k) = 1 /\ TryOne(s, k) = MaxTry + 1
        /\ k[1] # Rec(s).msg => HoldOne(s, k) = 0 /\ TryOne(s, k) = 0
    BY <1>0, WholeRecord
  <1>4. /\ HoldOne(s, k)' \in 0..1 /\ SaveOne(s, k)' \in 0..1
        /\ TryOne(s, k)' \in 0..(MaxTry + 1)
    BY ListenerOneNext
  <1>5. stage'[s] \in {"resolve", "requeue"} =>
            /\ SaveOne(s, k)' = 0 /\ HoldOne(s, k)' = HoldOne(s, k)
            /\ TryOne(s, k)' = TryOne(s, k)
    BY <1>0, <1>3, WholeRecordNext
  <1>6. CASE Resolve(s)
    <2>1. /\ UNCHANGED <<log, committed>> /\ faults' = faults /\ stage'[s] = "send"
          /\ \A u \in Tpp : branch'[s][u] # "save"
      BY <1>6 DEF Resolve, TypeInv, TypeOK
    <2>2. SaveOne(s, k)' = 0
      BY <2>1 DEF SaveOne, Saving, Key
    <2>3. k[1] # Rec(s).msg => HoldOne(s, k)' = 0 /\ TryOne(s, k)' = 0
      BY <1>0, <2>1 DEF HoldOne, TryOne, Holding
    <2>4. QED
      BY <1>0, <1>1, <1>3, <1>4, <2>1, <2>2, <2>3, HandsSettle
  <1>7. CASE ResolveFails(s)
    <2>1. UNCHANGED <<log, committed>> /\ faults' = faults /\ stage'[s] = "requeue"
      BY <1>7 DEF ResolveFails, TypeInv, TypeOK
    <2>2. QED
      BY <1>0, <1>1, <1>3, <1>4, <1>5, <2>1, HandsSettle
  <1>8. CASE Requeue(s)
    <2>1. CASE Exhausted(n)
      <3>1. UNCHANGED <<log, committed>> /\ faults' = faults /\ stage'[s] = "resolve"
        BY <1>0, <1>8, <2>1 DEF Requeue, RetryInPlace, StartStage, TypeInv, TypeOK
      <3>2. /\ Moved(s, k, 0, 0)
            /\ SaveOne(s, k)' <= SaveOne(s, k)
            /\ HoldOne(s, k)' + 0 <= HoldOne(s, k) /\ TryOne(s, k)' + 0 <= TryOne(s, k)
        BY <1>1, <1>3, <1>4, <1>5, <3>1
      <3>3. QED
        BY <1>0, <3>1, <3>2, HandsSettle
    <2>2. CASE ~Exhausted(n)
      <3>1. Publish(r) /\ faults' = faults /\ stage'[s] = "processed"
        BY <1>8, <2>2 DEF Requeue, TypeInv, TypeOK
      <3>2. HoldOne(s, k)' = 0 /\ SaveOne(s, k)' = 0 /\ TryOne(s, k)' = 0
        BY <3>1, NoHand
      <3>3. CASE k[1] = Rec(s).msg
        BY <1>0, <1>2, <1>3, <2>2, <3>1, <3>2, <3>3, HandsSettle
      <3>4. CASE k[1] # Rec(s).msg
        BY <1>0, <1>2, <1>3, <2>2, <3>1, <3>2, <3>4, HandsSettle
      <3>5. QED BY <3>3, <3>4
    <2>3. QED BY <2>1, <2>2
  <1>9. CASE RequeueFails(s)
    <2>1. /\ ~Exhausted(n) /\ faults' = faults + 1 /\ stage'[s] = "resolve"
          /\ UNCHANGED <<log, committed>> \/ Publish(r)
      BY <1>0, <1>9 DEF RequeueFails, Fault, RetryInPlace, StartStage, TypeInv, TypeOK
    <2>2. Moved(s, k, 0, 0) \/ Moved(s, k, 1, MaxTry + 1)
      BY <1>1, <1>2, <2>1
    <2>3. QED
      BY <1>0, <1>3, <1>4, <1>5, <2>1, <2>2, HandsSettle
  <1>10. QED
    BY <1>6, <1>7, <1>8, <1>9

\* A record is committed, given up or taken away.
LEMMA LeaveSettles ==
    ASSUME TypeInv, TypeInv', WorkInv, NEW s \in Listener,
           Acknowledge(s) \/ Crash(s) \/ Rebalance(s),
           NEW k \in Key, IsFiniteSet(Holding(k)), IsFiniteSet(Saving(k))
    PROVE  Settles(k)
  <1> USE DEF storeVars, kafkaVars, historyVars
  <1>0. TypeOK /\ stage[s] # "idle" /\ offset[s] \in DOMAIN log
    BY DEF TypeInv, HoldsRecord, Acknowledge, Complete, Crash, Rebalance
  <1>1. /\ UNCHANGED <<docs, log, accepted, attempts>>
        /\ \A x \in Listener \ {s} : Rests(x)
        /\ owning' = owning \ {s}
        /\ stage'[s] = "idle" \/ Rests(s)
    BY <1>0 DEF Crash, Rebalance, Acknowledge, Leave, Rests, TypeOK
  <1>2. LogKept
    BY <1>1 DEF LogKept
  <1>3. \A x \in owning' : stage'[x] = stage[x] /\ offset'[x] = offset[x] /\ x \in owning
    BY <1>0, <1>1 DEF Rests, TypeOK
  <1>4. /\ HoldOne(s, k)' \in {0, HoldOne(s, k)} /\ SaveOne(s, k)' \in {0, SaveOne(s, k)}
        /\ TryOne(s, k)' \in {0, TryOne(s, k)}
    <2>1. CASE stage'[s] = "idle"
      BY <2>1, NoHand
    <2>2. CASE Rests(s)
      BY <1>2, <2>2, RestsCounts DEF HoldOne, SaveOne, TryOne
    <2>3. QED BY <1>1, <2>1, <2>2
  <1>5. /\ HoldOne(s, k) \in 0..1 /\ SaveOne(s, k) \in 0..1
        /\ TryOne(s, k) \in 0..(MaxTry + 1)
    BY ListenerOneType
  <1>6. CASE Acknowledge(s)
    <2>1. /\ faults' = faults
          /\ committed' = IF s \in owning THEN committed \cup {offset[s]} ELSE committed
      BY <1>6 DEF Acknowledge
    <2>2. Queued(k)' \subseteq Queued(k)
      BY <1>1, <1>3, <2>1 DEF Queued, Deliverable, Targets
    <2>3. /\ Cardinality(Queued(k)) \in Nat /\ Cardinality(Queued(k)') \in Nat
          /\ Cardinality(QueuedTries(k)) \in Nat /\ Cardinality(QueuedTries(k)') \in Nat
          /\ Cardinality(Queued(k)') <= Cardinality(Queued(k)) + 0
          /\ Cardinality(QueuedTries(k)') <= Cardinality(QueuedTries(k)) + 0
      BY <1>2, <2>2, QueueShrinks
    <2>4. Moved(s, k, 0, 0)
      BY <1>1, <1>2, <2>3, StepCounts
    <2>5. /\ SaveOne(s, k)' <= SaveOne(s, k)
          /\ HoldOne(s, k)' + 0 <= HoldOne(s, k) /\ TryOne(s, k)' + 0 <= TryOne(s, k)
      BY <1>4, <1>5
    <2>6. QED
      BY <1>1, <2>1, <2>4, <2>5, HandsSettle
  <1>7. CASE Crash(s) \/ Rebalance(s)
    <2>1. faults' = faults + 1 /\ committed' = committed
      BY <1>7 DEF Crash, Rebalance, Fault
    <2>2. Queued(k)' \subseteq Queued(k) \cup {offset[s]}
      BY <1>1, <1>3, <2>1 DEF Queued, Deliverable, Targets
    <2>3. /\ Cardinality(Queued(k)) \in Nat /\ Cardinality(Queued(k)') \in Nat
          /\ Cardinality(QueuedTries(k)) \in Nat /\ Cardinality(QueuedTries(k)') \in Nat
          /\ TriesOf(log'[offset[s]]) \in 1..(MaxTry + 1)
          /\ Cardinality(Queued(k)') <= Cardinality(Queued(k)) + 1
          /\ Cardinality(QueuedTries(k)') <=
                Cardinality(QueuedTries(k)) + TriesOf(log'[offset[s]])
      BY <1>0, <1>1, <1>2, <2>2, QueueGrows
    <2>4. PICK w \in 1..(MaxTry + 1) : w = TriesOf(log'[offset[s]])
      BY <2>3
    <2>5. Moved(s, k, 1, w)
      BY <1>1, <1>2, <2>3, <2>4, StepCounts
    <2>6. /\ SaveOne(s, k)' <= SaveOne(s, k)
          /\ HoldOne(s, k)' + 1 <= HoldOne(s, k) + 1
          /\ TryOne(s, k)' + w <= TryOne(s, k) + MaxTry + 1
      BY <1>4, <1>5, <2>4
    <2>7. QED
      BY <1>1, <2>1, <2>5, <2>6, HandsSettle
  <1>8. QED
    BY <1>6, <1>7

\* A listener takes up a record: what waited is in its hand now; a record of
\* a batch it no longer owns is one hand more.
LEMMA PollSettles ==
    ASSUME TypeInv, TypeInv', WorkInv, NEW s \in Listener, NEW i \in DOMAIN log,
           Poll(s, i) \/ PollStale(s, i),
           NEW k \in Key, IsFiniteSet(Holding(k)), IsFiniteSet(Saving(k))
    PROVE  Settles(k)
  <1> USE DEF storeVars, kafkaVars, historyVars
  <1>0. TypeOK /\ Take(s, i) /\ stage[s] = "idle" /\ log[i] \in Record
    BY DEF TypeInv, TypeOK, Poll, PollStale, Take
  <1>1. /\ UNCHANGED <<docs, log, committed, accepted, attempts>>
        /\ \A x \in Listener \ {s} : Rests(x)
        /\ stage'[s] = StartStage(log[i]) /\ offset'[s] = i
        /\ branch'[s] = StartBranches(log[i])
    BY <1>0 DEF Take, Rests, TypeOK
  <1>2. LogKept
    BY <1>1 DEF LogKept
  <1>3. HoldOne(s, k) = 0 /\ SaveOne(s, k) = 0 /\ TryOne(s, k) = 0
    BY <1>0, NoHand
  <1>4. /\ SaveOne(s, k)' = 0 /\ HoldOne(s, k)' \in 0..1 /\ TryOne(s, k)' \in 0..(MaxTry + 1)
        /\ k \notin Targets(log[i]) => HoldOne(s, k)' = 0 /\ TryOne(s, k)' = 0
        /\ TryOne(s, k)' <= TriesOf(log[i])
    <2>1. Rec(s)' = log[i]
      BY <1>1 DEF Rec
    <2>2. SaveOne(s, k)' = 0
      BY <1>1 DEF SaveOne, Saving, StartBranches, Key
    <2>3. k \notin Targets(log[i]) => s \notin Holding(k)'
      BY <1>0, <1>1, <2>1, TargetsFacts
         DEF Holding, StartStage, StartBranches, Targets, Key, Record, CoreRecord, RetryRecord
    <2>4. TriesOf(log[i]) \in 1..(MaxTry + 1)
      BY <1>0, TriesOfType
    <2>5. TryOne(s, k)' <= TriesOf(log[i])
      BY <2>1, <2>4 DEF TryOne, TriesLeft, TriesOf
    <2>6. QED
      BY <2>2, <2>3, <2>5, ListenerOneNext DEF HoldOne, TryOne
  <1>5. CASE Poll(s, i)
    <2>1. /\ faults' = faults /\ owning' = owning \cup {s} /\ Deliverable(i)
      BY <1>5 DEF Poll
    <2>2. Queued(k)' \subseteq Queued(k) \ {i}
      <3> SUFFICES ASSUME NEW j \in Queued(k)' PROVE j \in Queued(k) \ {i}
        OBVIOUS
      <3>1. /\ j \in DOMAIN log \ committed /\ k \in Targets(log[j])
            /\ \A x \in owning \cup {s} : stage'[x] = "idle" \/ offset'[x] # j
        BY <1>1, <2>1 DEF Queued, Deliverable, Targets
      <3>2. j # i
        BY <1>1, <3>1 DEF StartStage
      <3>3. \A x \in owning : stage[x] = "idle" \/ offset[x] # j
        BY <1>0, <1>1, <3>1 DEF Rests, TypeOK
      <3>4. QED
        BY <3>1, <3>2, <3>3 DEF Queued, Deliverable
    <2>3. CASE k \in Targets(log[i])
      <3>1. i \in Queued(k)
        BY <2>1, <2>3 DEF Queued
      <3>2. PICK w \in 1..(MaxTry + 1) : w = TriesOf(log[i])
        BY <1>0, TriesOfType
      <3>3. /\ Cardinality(Queued(k)) \in Nat /\ Cardinality(Queued(k)') \in Nat
            /\ Cardinality(QueuedTries(k)) \in Nat /\ Cardinality(QueuedTries(k)') \in Nat
            /\ Cardinality(Queued(k)') + 1 <= Cardinality(Queued(k))
            /\ Cardinality(QueuedTries(k)') + w <= Cardinality(QueuedTries(k))
        BY <1>2, <2>2, <3>1, <3>2, QueueYields
      <3>4. /\ -1 \in Int /\ -w \in Int
            /\ Cardinality(Queued(k)') <= Cardinality(Queued(k)) + (-1)
            /\ Cardinality(QueuedTries(k)') <= Cardinality(QueuedTries(k)) + (-w)
        BY <3>2, <3>3
      <3>5. Moved(s, k, -1, -w)
        BY <1>1, <1>2, <3>3, <3>4, StepCounts
      <3>6. /\ SaveOne(s, k)' <= SaveOne(s, k)
            /\ HoldOne(s, k)' + (-1) <= HoldOne(s, k)
            /\ TryOne(s, k)' + (-w) <= TryOne(s, k)
        BY <1>3, <1>4, <3>2
      <3>7. QED
        BY <1>1, <2>1, <3>4, <3>5, <3>6, HandsSettle
    <2>4. CASE k \notin Targets(log[i])
      <3>1. /\ Cardinality(Queued(k)) \in Nat /\ Cardinality(Queued(k)') \in Nat
            /\ Cardinality(QueuedTries(k)) \in Nat /\ Cardinality(QueuedTries(k)') \in Nat
            /\ Cardinality(Queued(k)') <= Cardinality(Queued(k)) + 0
            /\ Cardinality(QueuedTries(k)') <= Cardinality(QueuedTries(k)) + 0
        BY <1>2, <2>2, QueueShrinks
      <3>2. Moved(s, k, 0, 0)
        BY <1>1, <1>2, <3>1, StepCounts
      <3>3. QED
        BY <1>1, <1>3, <1>4, <2>1, <2>4, <3>2, HandsSettle
    <2>5. QED BY <2>3, <2>4
  <1>6. CASE PollStale(s, i)
    <2>1. faults' = faults + 1 /\ owning' = owning /\ s \notin owning
      BY <1>0, <1>6 DEF PollStale, Fault, WorkInv
    <2>2. Queued(k)' \subseteq Queued(k)
      BY <1>0, <1>1, <2>1 DEF Queued, Deliverable, Targets, Rests, TypeOK
    <2>3. /\ Cardinality(Queued(k)) \in Nat /\ Cardinality(Queued(k)') \in Nat
          /\ Cardinality(QueuedTries(k)) \in Nat /\ Cardinality(QueuedTries(k)') \in Nat
          /\ Cardinality(Queued(k)') <= Cardinality(Queued(k)) + 0
          /\ Cardinality(QueuedTries(k)') <= Cardinality(QueuedTries(k)) + 0
      BY <1>2, <2>2, QueueShrinks
    <2>4. Moved(s, k, 0, 0)
      BY <1>1, <1>2, <2>3, StepCounts
    <2>5. QED
      BY <1>1, <1>3, <1>4, <2>1, <2>4, HandsSettle
  <1>7. QED
    BY <1>5, <1>6

\* A message arrives: a hand for each TPP, the first one or a fault's.
LEMMA ArriveSettles ==
    ASSUME TypeInv, TypeInv', WorkInv, NEW m \in Message, Arrive(m) \/ ArriveAgain(m),
           NEW k \in Key, IsFiniteSet(Holding(k)), IsFiniteSet(Saving(k))
    PROVE  Settles(k)
  <1> USE DEF storeVars, kafkaVars, listenerVars, historyVars
  <1> DEFINE r == Core(m, 0)
             M == MaxTry + 1
  <1>0. /\ r \in Record /\ Publish(r) /\ TriesOf(r) = M /\ M \in Nat
        /\ k \in Targets(r) <=> k[1] = m
        /\ UNCHANGED <<docs, stage, offset, owning, branch, settled, accepted, attempts>>
        /\ (faults' = faults /\ Arrive(m)) \/ faults' = faults + 1
    BY DEF Arrive, ArriveAgain, Core, Record, CoreRecord, TriesOf, Targets, Key, Fault
  <1>1. Serving /\ \A x \in Listener : Rests(x)
    BY <1>0 DEF Serving, Rests
  <1>2. /\ LogKept
        /\ Len(log) + 1 \in DOMAIN log' /\ log'[Len(log) + 1] = r
        /\ Queued(k)' \subseteq Queued(k) \cup {Len(log) + 1}
        /\ k \notin Targets(r) => Queued(k)' \subseteq Queued(k)
    BY <1>0, <1>1, QueueServing
  <1>3. /\ Holding(k)' = Holding(k) /\ Saving(k)' = Saving(k)
        /\ HeldTries(k)' = HeldTries(k)
    <2>1. \A x \in Listener : /\ x \in Holding(k)' <=> x \in Holding(k)
                              /\ x \in Saving(k)' <=> x \in Saving(k)
                              /\ x \in Holding(k) => TriesLeft(x, k)' = TriesLeft(x, k)
      BY <1>1, <1>2, RestsCounts
    <2>2. /\ Holding(k) \subseteq Listener /\ Holding(k)' \subseteq Listener
          /\ Saving(k) \subseteq Listener /\ Saving(k)' \subseteq Listener
      BY DEF Holding, Saving
    <2>3. Holding(k)' = Holding(k) /\ Saving(k)' = Saving(k)
      BY <2>1, <2>2
    <2>4. QED
      BY <2>1, <2>2, <2>3 DEF HeldTries
  <1>4. /\ Cardinality(Queued(k)) \in Nat /\ Cardinality(Queued(k)') \in Nat
        /\ Cardinality(QueuedTries(k)) \in Nat /\ Cardinality(QueuedTries(k)') \in Nat
        /\ Cardinality(Queued(k)') <= Cardinality(Queued(k)) + 1
        /\ Cardinality(QueuedTries(k)') <= Cardinality(QueuedTries(k)) + M
        /\ k[1] # m => /\ Cardinality(Queued(k)') <= Cardinality(Queued(k))
                       /\ Cardinality(QueuedTries(k)') <= Cardinality(QueuedTries(k))
    <2>1. k \notin Targets(r) =>
             /\ Cardinality(Queued(k)') <= Cardinality(Queued(k))
             /\ Cardinality(QueuedTries(k)') <= Cardinality(QueuedTries(k))
      BY <1>2, QueueShrinks
    <2>2. QED
      BY <1>0, <1>2, <2>1, QueueGrows
  <1>5. /\ Cardinality(Holding(k)) \in Nat /\ Cardinality(Saving(k)) \in Nat
        /\ Cardinality(HeldTries(k)) \in Nat
    BY HeldFinite, FS_CardinalityType
  <1> HIDE DEF M
  <1>6. /\ Held(k) = accepted[k] + Cardinality(Holding(k)) + Cardinality(Queued(k))
                        + IsIn(k, "ERROR")
        /\ Held(k)' = accepted[k] + Cardinality(Holding(k)) + Cardinality(Queued(k)')
                        + IsIn(k, "ERROR")
        /\ Tries(k) = attempts[k] + Cardinality(HeldTries(k)) + Cardinality(QueuedTries(k))
        /\ Tries(k)' = attempts[k] + Cardinality(HeldTries(k)) + Cardinality(QueuedTries(k)')
        /\ IsIn(k, "SENT")' = IsIn(k, "SENT") /\ accepted'[k] = accepted[k]
    BY <1>0, <1>3 DEF Held, Tries, IsIn
  <1>7. ASSUME Arrive(m), k[1] = m
        PROVE  /\ Fresh(k) /\ accepted[k] = 0 /\ attempts[k] = 0 /\ IsIn(k, "ERROR") = 0
               /\ Cardinality(Holding(k)) = 0 /\ Cardinality(Queued(k)) = 0
               /\ Cardinality(HeldTries(k)) = 0 /\ Cardinality(QueuedTries(k)) = 0
    <2>1. Fresh(k)
      BY <1>7 DEF Arrive, Fresh
    <2>2. accepted[k] = 0 /\ attempts[k] = 0 /\ IsIn(k, "ERROR") = 0
      BY <2>1, CountTypes DEF WorkInv, Fresh, IsIn
    <2>3. Holding(k) = {}
      <3> SUFFICES ASSUME NEW x \in Holding(k) PROVE FALSE
        OBVIOUS
      <3>1. x \in Listener /\ stage[x] # "idle" /\ Rec(x).msg = k[1]
        BY ListenerOneType DEF Holding
      <3>2. QED
        BY <2>1, <3>1 DEF Fresh, Rec, TypeInv, HoldsRecord
    <2>4. Queued(k) = {}
      <3> SUFFICES ASSUME NEW i \in Queued(k) PROVE FALSE
        OBVIOUS
      <3>1. i \in DOMAIN log /\ log[i] \in Record /\ k \in Targets(log[i])
        BY DEF Queued, TypeInv, TypeOK
      <3>2. QED
        BY <2>1, <3>1, TargetsFacts DEF Fresh
    <2>5. HeldTries(k) = {} /\ QueuedTries(k) = {}
      BY <2>3, <2>4 DEF HeldTries, QueuedTries
    <2>6. QED
      BY <2>1, <2>2, <2>3, <2>4, <2>5, FS_EmptySet
  <1>8. M = MaxTry + 1
    BY DEF M
  <1>9. IsFiniteSet(Holding(k)') /\ IsFiniteSet(Saving(k)')
    BY <1>3
  <1>10. /\ Cardinality(Saving(k)') = Cardinality(Saving(k))
         /\ M \in Nat /\ Cardinality(Saving(k)') \in Nat
    BY <1>0, <1>3, <1>5
  <1>11. CASE faults' = faults + 1
    BY <1>4, <1>5, <1>6, <1>8, <1>9, <1>10, <1>11, CountTypes DEF Settles
  <1>12. CASE faults' = faults /\ Arrive(m)
    <2>1. CASE k[1] = m
      BY <1>4, <1>5, <1>6, <1>7, <1>8, <1>9, <1>10, <1>12, <2>1, CountTypes DEF Settles
    <2>2. CASE k[1] # m
      BY <1>4, <1>5, <1>6, <1>8, <1>9, <1>10, <1>12, <2>2, CountTypes DEF Settles
    <2>3. QED BY <2>1, <2>2
  <1>13. QED
    BY <1>0, <1>11, <1>12

\* Every step of the pipeline keeps the balance of every notification.
LEMMA NextSettles ==
    ASSUME TypeInv, TypeInv', WorkInv, Next,
           NEW k \in Key, IsFiniteSet(Holding(k)), IsFiniteSet(Saving(k))
    PROVE  Settles(k)
  <1>1. ASSUME NEW m \in Message, Arrive(m) \/ ArriveAgain(m) PROVE Settles(k)
    BY <1>1, ArriveSettles
  <1>2. ASSUME NEW s \in Listener, NEW i \in DOMAIN log, Poll(s, i) \/ PollStale(s, i)
        PROVE  Settles(k)
    BY <1>2, PollSettles
  <1>3. ASSUME NEW s \in Listener, Acknowledge(s) \/ Crash(s) \/ Rebalance(s)
        PROVE  Settles(k)
    BY <1>3, LeaveSettles
  <1>4. ASSUME NEW s \in Listener,
               Resolve(s) \/ ResolveFails(s) \/ Requeue(s) \/ RequeueFails(s)
        PROVE  Settles(k)
    BY <1>4, RecordSettles
  <1>5. ASSUME NEW s \in Listener, NEW t \in Tpp, BranchStep(s, t) PROVE Settles(k)
    BY <1>5, BranchSettles
  <1>6. QED
    BY <1>1, <1>2, <1>3, <1>4, <1>5 DEF Next, RecordStep

-----------------------------------------------------------------------------
(* The theorems.                                                           *)

LEMMA CountInvStep ==
    ASSUME TypeInv, TypeInv', WorkInv, CountInv, Next
    PROVE  CountInv'
  <1> SUFFICES ASSUME NEW k \in Key
               PROVE  /\ IsFiniteSet(Holding(k)') /\ IsFiniteSet(Saving(k)')
                      /\ Held(k)' <= 1 + faults'
                      /\ Cardinality(Saving(k)') + IsIn(k, "SENT")' <= accepted'[k]
                      /\ Tries(k)' <= (MaxTry + 1) * (1 + faults')
    BY DEF CountInv
  <1>1. /\ IsFiniteSet(Holding(k)) /\ IsFiniteSet(Saving(k))
        /\ Held(k) <= 1 + faults
        /\ Cardinality(Saving(k)) + IsIn(k, "SENT") <= accepted[k]
        /\ Tries(k) <= (MaxTry + 1) * (1 + faults)
    BY DEF CountInv
  <1>2. Settles(k)
    BY <1>1, NextSettles
  <1>3. faults \in Nat /\ faults' \in Nat /\ MaxTry \in Nat
        /\ accepted[k] \in Nat /\ accepted'[k] \in Nat
        /\ IsIn(k, "SENT") \in 0..1 /\ IsIn(k, "SENT")' \in 0..1
    BY CountTypes
  <1>4. \A f \in Nat : /\ (MaxTry + 1) * (1 + (f + 1)) = (MaxTry + 1) * (1 + f) + (MaxTry + 1)
                       /\ (MaxTry + 1) * (1 + f) >= MaxTry + 1
                       /\ (MaxTry + 1) * (1 + f) \in Nat
    BY <1>3
  <1>5. Tries(k)' <= (MaxTry + 1) * (1 + faults')
    <2> DEFINE B(f) == (MaxTry + 1) * (1 + f)
    <2>1. B(faults + 1) = B(faults) + (MaxTry + 1) /\ B(faults) >= MaxTry + 1
          /\ B(faults) \in Nat /\ B(faults') >= MaxTry + 1 /\ B(faults') \in Nat
      BY <1>3, <1>4
    <2>2. Tries(k) <= B(faults) /\ Tries(k) \in Nat /\ Tries(k)' \in Nat
      BY <1>1, <1>2 DEF Settles
    <2> HIDE DEF B
    <2>3. ASSUME faults' = faults /\ Tries(k)' <= Tries(k)
          PROVE  Tries(k)' <= B(faults')
      BY <2>1, <2>2, <2>3
    <2>4. ASSUME faults' = faults + 1 /\ Tries(k)' <= Tries(k) + MaxTry + 1
          PROVE  Tries(k)' <= B(faults')
      BY <1>3, <2>1, <2>2, <2>4
    <2>5. ASSUME Tries(k)' <= MaxTry + 1
          PROVE  Tries(k)' <= B(faults')
      BY <1>3, <2>1, <2>2, <2>5
    <2>6. Tries(k)' <= B(faults')
      BY <1>2, <2>3, <2>4, <2>5 DEF Settles
    <2>7. QED BY <2>6 DEF B
  <1>6. /\ Held(k)' <= 1 + faults'
        /\ Cardinality(Saving(k)') + IsIn(k, "SENT")' <= accepted'[k]
    BY <1>1, <1>2, <1>3 DEF Settles
  <1>7. QED
    BY <1>2, <1>5, <1>6 DEF Settles

LEMMA CountInvInit == Init => WorkInv /\ CountInv
  <1> SUFFICES ASSUME Init PROVE WorkInv /\ CountInv
    OBVIOUS
  <1>1. WorkInv
    BY DEF Init, WorkInv, NoBranches
  <1>2. ASSUME NEW k \in Key
        PROVE  /\ Holding(k) = {} /\ Saving(k) = {} /\ Queued(k) = {}
               /\ HeldTries(k) = {} /\ QueuedTries(k) = {}
               /\ accepted[k] = 0 /\ attempts[k] = 0
               /\ IsIn(k, "ERROR") = 0 /\ IsIn(k, "SENT") = 0
    BY DEF Init, Holding, Saving, Queued, HeldTries, QueuedTries, IsIn
  <1>3. faults = 0 /\ MaxTry \in Nat
    BY DEF Init
  <1>4. CountInv
    BY <1>2, <1>3, FS_EmptySet DEF CountInv, Held, Tries
  <1>5. QED
    BY <1>1, <1>4

(* The three arguments are inductive together: what is committed is        *)
(* covered, no retry record is ahead of the attempts, and hands and tries  *)
(* are only handed on, or paid for by a fault.                             *)
THEOREM Inductive == Spec => []IInv
  <1>1. Init => IInv
    <2>1. Init => AttemptsInv
      BY DEF Init, AttemptsInv, RetriesWereTried, BranchWasTried, ErrorOnlyAfterAllAttempts
    <2>2. QED
      BY <2>1, CoverInvInit, CountInvInit DEF IInv
  <1>2. IInv /\ [Next]_vars => IInv'
    <2> SUFFICES ASSUME IInv, [Next]_vars PROVE IInv'
      OBVIOUS
    <2>1. TypeInv /\ TypeInv'
      BY TypeInvStep DEF IInv, CoverInv
    <2>2. CoverInv' /\ AttemptsInv'
      BY CoverInvStep, AttemptsInvStep DEF IInv
    <2>3. CASE Next
      BY <2>1, <2>2, <2>3, WorkInvStep, CountInvStep DEF IInv
    <2>4. CASE UNCHANGED vars
      <3>1. WorkInv'
        BY <2>4 DEF vars, IInv, WorkInv, Rec, KeyOf
      <3>2. CountInv'
        <4>1. \A k : /\ Holding(k)' = Holding(k) /\ Saving(k)' = Saving(k)
                     /\ Queued(k)' = Queued(k)
          BY <2>4 DEF vars, Holding, Saving, Queued, Deliverable, Targets, Rec
        <4>2. \A k : HeldTries(k)' = HeldTries(k) /\ QueuedTries(k)' = QueuedTries(k)
          BY <2>4, <4>1 DEF vars, HeldTries, QueuedTries, TriesLeft, TriesOf, Rec
        <4>3. \A k : /\ Held(k)' = Held(k) /\ Tries(k)' = Tries(k)
                     /\ IsIn(k, "SENT")' = IsIn(k, "SENT")
          BY <2>4, <4>1, <4>2 DEF vars, Held, Tries, IsIn
        <4>4. QED
          BY <2>4, <4>1, <4>3 DEF vars, IInv, CountInv
      <3>3. QED
        BY <2>2, <3>1, <3>2 DEF IInv
    <2>5. QED BY <2>3, <2>4
  <1>3. QED
    BY <1>1, <1>2, PTL DEF Spec

(* A TPP takes a notification once, and at most once more for each fault:  *)
(* without a crash, a rebalance, a lost answer, a failed write or a        *)
(* repeated message nobody is notified twice, on any topic, by any         *)
(* listener, after any number of retries.                                  *)
THEOREM NotifiedOnce == Spec => []DuplicatesPaidByFaults
  <1>1. IInv => DuplicatesPaidByFaults
    <2> SUFFICES ASSUME IInv, NEW k \in Key PROVE accepted[k] <= 1 + faults
      BY DEF DuplicatesPaidByFaults
    <2>1. TypeInv /\ Held(k) <= 1 + faults /\ IsFiniteSet(Holding(k))
      BY DEF IInv, CoverInv, CountInv
    <2>2. Cardinality(Holding(k)) \in Nat /\ Cardinality(Queued(k)) \in Nat
      BY <2>1, QueuedFinite, FS_CardinalityType
    <2>3. accepted[k] \in Nat /\ faults \in Nat /\ IsIn(k, "ERROR") \in 0..1
      BY <2>1, IsInType DEF TypeInv, TypeOK
    <2>4. QED
      BY <2>1, <2>2, <2>3 DEF Held
  <1>2. QED
    BY <1>1, Inductive, PTL

(* A notification is tried MaxTry + 1 times at most, and at most as often  *)
(* again for each fault.                                                   *)
THEOREM TriesBounded == Spec => []AttemptsBounded
  <1>1. IInv => AttemptsBounded
    <2> SUFFICES ASSUME IInv, NEW k \in Key
                 PROVE  attempts[k] <= (MaxTry + 1) * (1 + faults)
      BY DEF AttemptsBounded
    <2>1. TypeInv /\ Tries(k) <= (MaxTry + 1) * (1 + faults) /\ IsFiniteSet(Holding(k))
      BY DEF IInv, CoverInv, CountInv
    <2>2. IsFiniteSet(HeldTries(k))
      BY <2>1, HeldFinite
    <2>3. Cardinality(HeldTries(k)) \in Nat /\ Cardinality(QueuedTries(k)) \in Nat
      BY <2>1, <2>2, QueuedFinite, FS_CardinalityType
    <2>4. attempts[k] \in Nat /\ faults \in Nat
      BY <2>1 DEF TypeInv, TypeOK
    <2>5. QED
      <3> DEFINE bound == (MaxTry + 1) * (1 + faults)
      <3>1. bound \in Nat /\ Tries(k) <= bound
        BY <2>1, <2>4
      <3> HIDE DEF bound
      <3>2. attempts[k] <= bound
        BY <2>3, <2>4, <3>1 DEF Tries
      <3>3. QED BY <3>2 DEF bound
  <1>2. QED
    BY <1>1, Inductive, PTL

\* While nothing has failed, a completed document is in nobody's hand: whoever
\* could write it would be one hand too many.
LEMMA TerminalStep ==
    ASSUME TypeInv, NEW s \in Listener, NEW t \in Tpp, BranchStep(s, t),
           NEW k \in Key, docs[k] \in Terminal,
           IsFiniteSet(Holding(k)), IsFiniteSet(Saving(k)), Held(k) <= 1,
           Cardinality(Saving(k)) + IsIn(k, "SENT") <= accepted[k]
    PROVE  docs'[k] = docs[k]
  <1>0. /\ TypeOK /\ stage[s] = "send" /\ Rec(s) \in Record
    BY BranchStepShape, RecordFacts DEF TypeInv
  <1>1. CASE k # KeyOf(s, t)
    BY <1>1, BranchTouches
  <1>2. CASE k = KeyOf(s, t)
    <2>1. k[1] = Rec(s).msg /\ k[2] = t
      BY <1>2 DEF KeyOf
    <2>2. /\ branch[s][t] = "save" => s \in Saving(k)
          /\ branch[s][t] = "enqueue" => s \in Holding(k)
      BY <1>0, <2>1 DEF Saving, Holding
    <2>3. /\ Cardinality(Holding(k)) \in Nat /\ Cardinality(Saving(k)) \in Nat
          /\ Cardinality(Queued(k)) \in Nat /\ accepted[k] \in Nat
          /\ IsIn(k, "ERROR") \in 0..1
          /\ s \in Holding(k) => Cardinality(Holding(k)) # 0
          /\ s \in Saving(k) => Cardinality(Saving(k)) # 0
      BY <1>0, QueuedFinite, FS_CardinalityType, FS_EmptySet, IsInType DEF TypeOK
    <2>4. docs[k] = "ERROR" => branch[s][t] \notin {"save", "enqueue"}
      BY <1>0, <2>2, <2>3 DEF Held, IsIn
    <2>5. docs[k] = "SENT" => branch[s][t] # "enqueue"
      BY <1>0, <2>2, <2>3 DEF Held, IsIn
    <2>6. \A st \in DocState : SetDoc(s, t, st) => docs'[k] = st
      BY <1>0, <1>2 DEF SetDoc, TypeOK
    <2>7. \/ docs' = docs
          \/ SetDoc(s, t, "IN_PROCESS") /\ docs[k] = "none"
          \/ SetDoc(s, t, "SENT") /\ branch[s][t] = "save"
          \/ SetDoc(s, t, "ERROR") /\ branch[s][t] = "enqueue"
      BY <1>2, BranchStepEffect
    <2>8. QED
      BY <2>4, <2>5, <2>6, <2>7 DEF Terminal, DocState
  <1>3. QED
    BY <1>1, <1>2

(* As long as nothing has failed, a completed document is never written    *)
(* again, whatever the listeners still do: no second chain of retries for  *)
(* one notification is alive when the first has ended.                     *)
THEOREM CompletedStays == Spec => TerminalIsFinal
  <1>1. IInv /\ [Next]_vars =>
            [\A k \in Key : docs[k] \in Terminal /\ faults = 0 => docs'[k] = docs[k]]_vars
    <2> SUFFICES ASSUME IInv, Next, NEW k \in Key, docs[k] \in Terminal, faults = 0
                 PROVE  docs'[k] = docs[k]
      OBVIOUS
    <2>0. /\ TypeInv /\ IsFiniteSet(Holding(k)) /\ IsFiniteSet(Saving(k)) /\ Held(k) <= 1
          /\ Cardinality(Saving(k)) + IsIn(k, "SENT") <= accepted[k]
      BY DEF IInv, CoverInv, CountInv
    <2>1. ASSUME NEW s \in Listener, NEW t \in Tpp, BranchStep(s, t)
          PROVE  docs'[k] = docs[k]
      BY <2>0, <2>1, TerminalStep
    <2>2. (\E s \in Listener : \E t \in Tpp : BranchStep(s, t)) \/ docs' = docs
      BY DEF Next, RecordStep, Arrive, ArriveAgain, Poll, PollStale, Take, Crash, Rebalance,
             Acknowledge, Resolve, ResolveFails, Requeue, RequeueFails, storeVars
    <2>3. QED
      BY <2>1, <2>2
  <1>2. QED
    BY <1>1, Inductive, PTL DEF Spec, TerminalIsFinal

=============================================================================
