------------------------- MODULE KafkaConsumer_proofs -------------------------
(***************************************************************************)
(* Theorems about KafkaConsumer, for every number of listeners and         *)
(* records, every batch size and every number of disruptions.              *)
(***************************************************************************)
EXTENDS KafkaConsumer, Counting

USE KafkaConsumerAssumption

-----------------------------------------------------------------------------
LEMMA InitOrder == Init => OrderInv
  BY DEF Init, OrderInv, TypeOK, ListenerInv, CommittedWereProcessed, ProcessedInOrder,
         Settled, Stage

\* Nothing that was settled becomes unsettled.
Keeps == kind' = kind /\ processed \subseteq processed'

LEMMA SettledKeeps ==
    ASSUME Keeps
    PROVE  Settled \subseteq Settled'
  BY DEF Keeps, Settled

\* A listener that does not move keeps what it knows.
LEMMA OthersKeep ==
    ASSUME OrderInv, NEW x \in Listener, Keeps,
           stage'[x] = stage[x], position'[x] = position[x], last'[x] = last[x],
           x \in assigned' => x \in assigned /\ committed' = committed
    PROVE  ListenerInv(x)'
  BY SettledKeeps DEF OrderInv, ListenerInv

\* The steps that leave processed and committed alone keep the two facts
\* about settled records.
LEMMA RecordsKeep ==
    ASSUME OrderInv, kind' = kind, processed' = processed, committed' = committed
    PROVE  CommittedWereProcessed' /\ ProcessedInOrder'
  <1>1. Settled' = Settled
    BY DEF Settled
  <1>2. QED
    BY <1>1 DEF OrderInv, CommittedWereProcessed, ProcessedInOrder

\* Steps of the container: nothing is processed, nothing committed.
LEMMA ContainerInv ==
    ASSUME OrderInv, NEW l \in Listener,
           \/ Assign(l) \/ Fetch(l) \/ Rebalance(l) \/ PollIntervalExpires(l) \/ Crash(l)
    PROVE  OrderInv'
  <1> USE DEF listenerVars, historyVars
  <1>1. Keeps /\ processed' = processed /\ committed' = committed
    BY DEF Keeps, Assign, Fetch, Rebalance, PollIntervalExpires, Crash
  <1>2. CommittedWereProcessed' /\ ProcessedInOrder'
    BY <1>1, RecordsKeep DEF Keeps
  <1>3. TypeOK
    BY DEF OrderInv
  <1>4. CASE Assign(l)
    <2>1. TypeOK'
      BY <1>3, <1>4 DEF Assign, TypeOK
    <2>2. ASSUME NEW x \in Listener PROVE ListenerInv(x)'
      <3>1. CASE x = l
        <4>1. stage'[l] = "polling" /\ position'[l] = committed /\ last'[l] = committed - 1
          BY <1>3, <1>4 DEF Assign, TypeOK
        <4>2. 1..(committed - 1) \subseteq Settled'
          BY <1>1, <1>2 DEF CommittedWereProcessed
        <4>3. QED
          BY <1>1, <1>3, <3>1, <4>1, <4>2 DEF ListenerInv, TypeOK
      <3>2. CASE x # l
        BY <1>1, <1>3, <1>4, <3>2, OthersKeep DEF Assign, TypeOK
      <3>3. QED BY <3>1, <3>2
    <2>3. QED
      BY <1>2, <1>4, <2>1, <2>2 DEF OrderInv, Assign
  <1>5. CASE Fetch(l)
    <2>1. PICK n \in position[l]..N : last' = [last EXCEPT ![l] = n]
      BY <1>5 DEF Fetch
    <2>2. n \in Nat /\ position[l] <= n /\ n <= N
      BY <1>3, <2>1 DEF TypeOK
    <2>3. TypeOK'
      BY <1>3, <1>5, <2>1, <2>2 DEF Fetch, TypeOK
    <2>4. ASSUME NEW x \in Listener PROVE ListenerInv(x)'
      <3>1. CASE x = l
        BY <1>1, <1>3, <1>5, <2>1, <2>2, <3>1, SettledKeeps
           DEF Fetch, OrderInv, ListenerInv, TypeOK
      <3>2. CASE x # l
        BY <1>1, <1>3, <1>5, <2>1, <3>2, OthersKeep DEF Fetch, TypeOK
      <3>3. QED BY <3>1, <3>2
    <2>5. QED
      BY <1>2, <1>5, <2>3, <2>4 DEF OrderInv, Fetch
  <1>6. CASE Rebalance(l) \/ PollIntervalExpires(l)
    <2>1. TypeOK'
      <3>1. /\ assigned' = {} /\ UNCHANGED <<kind, committed, listenerVars, processed, repeats>>
            /\ disruptions' \in 0..MaxDisruptions
        BY <1>3, <1>6 DEF Rebalance, PollIntervalExpires, Disrupt, TypeOK
      <3>2. QED
        BY <1>3, <3>1 DEF TypeOK
    <2>2. \A x \in Listener : ListenerInv(x)'
      BY <1>1, <1>6, OthersKeep DEF Rebalance, PollIntervalExpires
    <2>3. QED
      BY <1>2, <1>6, <2>1, <2>2 DEF OrderInv, Rebalance, PollIntervalExpires
  <1>7. CASE Crash(l)
    <2>1. TypeOK'
      BY <1>3, <1>7 DEF Crash, Disrupt, TypeOK, Stage
    <2>2. ASSUME NEW x \in Listener PROVE ListenerInv(x)'
      <3>1. CASE x = l
        <4>1. stage'[l] = "polling" /\ position'[l] = 1 /\ last'[l] = 0 /\ l \notin assigned'
          BY <1>3, <1>7 DEF Crash, TypeOK
        <4>2. QED
          BY <3>1, <4>1 DEF ListenerInv
      <3>2. CASE x # l
        BY <1>1, <1>3, <1>7, <3>2, OthersKeep DEF Crash, TypeOK
      <3>3. QED BY <3>1, <3>2
    <2>3. QED
      BY <1>2, <1>7, <2>1, <2>2 DEF OrderInv, Crash
  <1>8. QED
    BY <1>4, <1>5, <1>6, <1>7

\* The listener starts, fails or tries again: only its stage changes.
LEMMA StageInv ==
    ASSUME OrderInv, NEW l \in Listener, Begin(l) \/ Fail(l) \/ Resume(l)
    PROVE  OrderInv'
  <1> USE DEF listenerVars, historyVars
  <1>1. /\ Keeps /\ UNCHANGED <<processed, committed, assigned, position, last>>
        /\ TypeOK
    BY DEF Keeps, Begin, Fail, Resume, OrderInv
  <1>2. CommittedWereProcessed' /\ ProcessedInOrder'
    BY <1>1, RecordsKeep DEF Keeps
  <1>3. TypeOK'
    BY <1>1 DEF Begin, Fail, Resume, TypeOK, Stage
  <1>4. position[l] <= last[l] /\ position[l] \in 1..N
    BY <1>1 DEF Begin, Fail, Resume, OrderInv, ListenerInv, TypeOK
  <1>5. /\ \A x \in Listener \ {l} : stage'[x] = stage[x]
        /\ stage'[l] = "acking" => kind[position[l]] = "foreign"
    BY <1>1 DEF Begin, Fail, Resume, TypeOK
  <1>6. ASSUME NEW x \in Listener PROVE ListenerInv(x)'
    <2>1. CASE x = l
      <3>1. stage'[l] = "acking" => position[l] \in Settled'
        BY <1>1, <1>4, <1>5 DEF Keeps, Settled
      <3>2. 1..(position[l] - 1) \subseteq Settled'
        BY <1>1, SettledKeeps DEF OrderInv, ListenerInv
      <3>3. l \in assigned => committed <= position[l] + 1
        BY DEF OrderInv, ListenerInv
      <3>4. position[l] <= last[l] + 1
        BY <1>1, <1>4 DEF TypeOK
      <3>5. QED
        BY <1>1, <1>4, <2>1, <3>1, <3>2, <3>3, <3>4 DEF ListenerInv
    <2>2. CASE x # l
      BY <1>1, <1>5, <2>2, OthersKeep
    <2>3. QED BY <2>1, <2>2
  <1>7. QED
    BY <1>1, <1>2, <1>3, <1>6 DEF OrderInv

\* A success: the record is settled, after all those in front of it.
LEMMA SucceedInv ==
    ASSUME OrderInv, NEW l \in Listener, Succeed(l)
    PROVE  OrderInv'
  <1>1. /\ Keeps /\ UNCHANGED <<committed, assigned, position, last, disruptions>>
        /\ TypeOK
        /\ processed' = processed \cup {position[l]}
    BY DEF Keeps, Succeed, OrderInv
  <1>2. position[l] <= last[l] /\ position[l] \in 1..N
    BY <1>1 DEF Succeed, OrderInv, ListenerInv, TypeOK
  <1>3. TypeOK'
    <2>1. kind' = kind /\ repeats' \in Nat /\ stage' \in [Listener -> Stage]
      BY <1>1 DEF Keeps, Succeed, TypeOK, Stage
    <2>2. QED
      BY <1>1, <1>2, <2>1 DEF TypeOK
  <1>4. Settled \subseteq Settled' /\ position[l] \in Settled'
    BY <1>1, SettledKeeps DEF Settled
  <1>5. CommittedWereProcessed'
    BY <1>1, <1>4 DEF OrderInv, CommittedWereProcessed
  <1>6. ProcessedInOrder'
    BY <1>1, <1>4 DEF OrderInv, ProcessedInOrder, ListenerInv
  <1>7. ASSUME NEW x \in Listener PROVE ListenerInv(x)'
    <2>1. CASE x = l
      BY <1>1, <1>2, <1>4, <2>1 DEF OrderInv, ListenerInv, TypeOK
    <2>2. CASE x # l
      BY <1>1, <2>2, OthersKeep DEF Succeed, TypeOK
    <2>3. QED BY <2>1, <2>2
  <1>8. QED
    BY <1>1, <1>3, <1>5, <1>6, <1>7 DEF OrderInv

\* The listener's commit is made, refused or fails.
LEMMA AcknowledgeInv ==
    ASSUME OrderInv, NEW l \in Listener,
           Acknowledge(l) \/ AcknowledgeRefused(l) \/ AcknowledgeFails(l)
    PROVE  /\ OrderInv'
           /\ committed' >= committed
  <1> USE DEF listenerVars, historyVars, MoveOn
  <1>1. /\ Keeps /\ UNCHANGED <<processed, assigned>>
        /\ stage[l] = "acking"
        /\ TypeOK
    BY DEF Keeps, Acknowledge, AcknowledgeRefused, AcknowledgeFails, OrderInv
  <1>2. /\ position[l] <= last[l] /\ position[l] \in 1..N
        /\ position[l] \in Settled /\ 1..(position[l] - 1) \subseteq Settled
        /\ l \in assigned => committed <= position[l] + 1
    BY <1>1 DEF OrderInv, ListenerInv, TypeOK
  <1>3. /\ stage' = [stage EXCEPT ![l] = "polling"]
        /\ position' = position \/ position' = [position EXCEPT ![l] = @ + 1]
        /\ last' = last \/ last' = [last EXCEPT ![l] = position[l]]
        /\ last' = last \/ position' = [position EXCEPT ![l] = @ + 1]
        /\ disruptions' \in 0..MaxDisruptions
        /\ repeats' = repeats
    BY <1>1 DEF Acknowledge, AcknowledgeRefused, AcknowledgeFails, Disrupt, TypeOK
  <1>4. \/ committed' = committed
        \/ committed' = position[l] + 1 /\ l \in assigned
    BY DEF Acknowledge, AcknowledgeRefused, AcknowledgeFails
  <1>5. TypeOK'
    <2>1. position[l] + 1 \in 1..(N + 1) /\ position[l] \in 0..N
      BY <1>2
    <2>2. stage' \in [Listener -> Stage]
      BY <1>1, <1>3 DEF TypeOK, Stage
    <2>3. position' \in [Listener -> 1..(N + 1)]
      BY <1>1, <1>3, <2>1 DEF TypeOK
    <2>4. last' \in [Listener -> 0..N]
      BY <1>1, <1>3, <2>1 DEF TypeOK
    <2>5. committed' \in 1..(N + 1)
      BY <1>1, <1>4, <2>1 DEF TypeOK
    <2>6. QED
      BY <1>1, <1>3, <2>2, <2>3, <2>4, <2>5 DEF Keeps, TypeOK
  <1>6. committed' >= committed
    BY <1>1, <1>2, <1>4 DEF TypeOK
  <1>7. Settled' = Settled /\ 1..position[l] \subseteq Settled
    BY <1>1, <1>2 DEF Keeps, Settled
  <1>8. CommittedWereProcessed' /\ ProcessedInOrder'
    BY <1>1, <1>2, <1>4, <1>7 DEF OrderInv, CommittedWereProcessed, ProcessedInOrder
  <1>9. ASSUME NEW x \in Listener PROVE ListenerInv(x)'
    <2>1. CASE x = l
      <3>1. /\ stage'[l] = "polling" /\ position'[l] \in {position[l], position[l] + 1}
            /\ position'[l] <= last'[l] + 1
        BY <1>1, <1>2, <1>3 DEF TypeOK
      <3>2. 1..(position'[l] - 1) \subseteq Settled'
        BY <1>2, <1>7, <3>1
      <3>3. l \in assigned' => committed' <= position'[l] + 1
        BY <1>1, <1>2, <1>4, <3>1 DEF TypeOK
      <3>4. QED
        BY <2>1, <3>1, <3>2, <3>3 DEF ListenerInv
    <2>2. CASE x # l
      <3>1. x \in assigned' => x \in assigned /\ committed' = committed
        BY <1>1, <1>4, <2>2 DEF OrderInv
      <3>2. QED
        BY <1>1, <1>3, <2>2, <3>1, OthersKeep DEF TypeOK
    <2>3. QED BY <2>1, <2>2
  <1>10. QED
    BY <1>1, <1>5, <1>6, <1>8, <1>9 DEF OrderInv

LEMMA OrderStep == OrderInv /\ [Next]_vars => OrderInv' /\ committed' >= committed
  <1> SUFFICES ASSUME OrderInv, [Next]_vars PROVE OrderInv' /\ committed' >= committed
    OBVIOUS
  <1>0. committed \in Nat
    BY DEF OrderInv, TypeOK
  <1>1. ASSUME NEW l \in Listener,
               \/ Assign(l) \/ Fetch(l) \/ Rebalance(l) \/ PollIntervalExpires(l)
               \/ Crash(l) \/ Begin(l) \/ Fail(l) \/ Resume(l) \/ Succeed(l)
        PROVE  OrderInv' /\ committed' >= committed
    <2>1. committed' = committed
      BY <1>1 DEF Assign, Fetch, Rebalance, PollIntervalExpires, Crash,
                  Begin, Fail, Resume, Succeed
    <2>2. QED
      BY <1>0, <1>1, <2>1, ContainerInv, StageInv, SucceedInv
  <1>2. ASSUME NEW l \in Listener,
               Acknowledge(l) \/ AcknowledgeRefused(l) \/ AcknowledgeFails(l)
        PROVE  OrderInv' /\ committed' >= committed
    BY <1>2, AcknowledgeInv
  <1>3. CASE UNCHANGED vars
    <2>1. Keeps /\ TypeOK' /\ \A x \in Listener : ListenerInv(x)'
      BY <1>3, OthersKeep DEF vars, Keeps, OrderInv, TypeOK
    <2>2. QED
      BY <1>0, <1>3, <2>1, RecordsKeep DEF vars, OrderInv
  <1>4. QED
    BY <1>1, <1>2, <1>3 DEF Next, ListenerStep

-----------------------------------------------------------------------------
(* The repetitions that were made or can still be made.                    *)

\* Ahead is a set of records of the partition.
LEMMA AheadFinite ==
    ASSUME OrderInv
    PROVE  IsFiniteSet(Ahead) /\ Cardinality(Ahead) \in Nat
  <1>1. Ahead \subseteq 1..N
    BY DEF OrderInv, TypeOK, Ahead
  <1>2. IsFiniteSet(1..N)
    BY FS_Interval
  <1>3. QED
    BY <1>1, <1>2, Fewer

\* A step that repeats nothing and makes nothing new repeatable.
LEMMA QuietStep ==
    ASSUME OrderInv, CountInv, repeats' = repeats,
           disruptions' = disruptions,
           Ahead' \subseteq Ahead, StaleRunners' \subseteq StaleRunners
    PROVE  CountInv'
  <1>1. IsFiniteSet(Ahead) /\ IsFiniteSet(StaleRunners)
    BY AheadFinite DEF CountInv
  <1>2. /\ Cardinality(Ahead') \in Nat /\ Cardinality(Ahead) \in Nat
        /\ Cardinality(Ahead') <= Cardinality(Ahead)
    BY <1>1, Fewer
  <1>3. /\ Cardinality(StaleRunners') \in Nat /\ Cardinality(StaleRunners) \in Nat
        /\ Cardinality(StaleRunners') <= Cardinality(StaleRunners)
        /\ IsFiniteSet(StaleRunners')
    BY <1>1, Fewer
  <1>4. repeats \in Nat /\ disruptions \in Nat
    BY DEF OrderInv, TypeOK
  <1>5. QED
    BY <1>2, <1>3, <1>4 DEF CountInv

\* A disruption makes one record repeatable: the one that was about to be
\* committed, or the one the listener goes on with.
LEMMA PaidStep ==
    ASSUME OrderInv, CountInv, repeats' = repeats,
           disruptions' = disruptions + 1, NEW x, NEW y,
           \/ Ahead' \subseteq Ahead \cup {x} /\ StaleRunners' \subseteq StaleRunners
           \/ Ahead' \subseteq Ahead /\ StaleRunners' \subseteq StaleRunners \cup {y}
    PROVE  CountInv'
  <1>1. IsFiniteSet(Ahead) /\ IsFiniteSet(StaleRunners)
    BY AheadFinite DEF CountInv
  <1>2. repeats \in Nat /\ disruptions \in Nat
    BY DEF OrderInv, TypeOK
  <1>3. CASE Ahead' \subseteq Ahead \cup {x} /\ StaleRunners' \subseteq StaleRunners
    <2>1. /\ Cardinality(Ahead') \in Nat /\ Cardinality(Ahead) \in Nat
          /\ Cardinality(Ahead') <= Cardinality(Ahead) + 1
      BY <1>1, <1>3, OneMore
    <2>2. /\ Cardinality(StaleRunners') \in Nat /\ Cardinality(StaleRunners) \in Nat
          /\ Cardinality(StaleRunners') <= Cardinality(StaleRunners)
          /\ IsFiniteSet(StaleRunners')
      BY <1>1, <1>3, Fewer
    <2>3. QED
      BY <1>2, <2>1, <2>2 DEF CountInv
  <1>4. CASE Ahead' \subseteq Ahead /\ StaleRunners' \subseteq StaleRunners \cup {y}
    <2>1. /\ Cardinality(Ahead') \in Nat /\ Cardinality(Ahead) \in Nat
          /\ Cardinality(Ahead') <= Cardinality(Ahead)
      BY <1>1, <1>4, Fewer
    <2>2. /\ Cardinality(StaleRunners') \in Nat /\ Cardinality(StaleRunners) \in Nat
          /\ Cardinality(StaleRunners') <= Cardinality(StaleRunners) + 1
          /\ IsFiniteSet(StaleRunners')
      BY <1>1, <1>4, OneMore
    <2>3. QED
      BY <1>2, <2>1, <2>2 DEF CountInv
  <1>5. QED
    BY <1>3, <1>4

\* What the owner alone decides: a record is ahead of the committed offset or
\* of the owner (here and one step later).
LEMMA AheadOwner ==
    ASSUME OrderInv
    PROVE  /\ assigned = {} => Ahead = {i \in processed : i >= committed}
           /\ \A l \in assigned :
                 Ahead = {i \in processed :
                             /\ i >= committed \/ i >= position[l]
                             /\ stage[l] = "acking" => i # position[l]}
  <1>1. ASSUME NEW l \in assigned PROVE assigned = {l}
    BY <1>1 DEF OrderInv
  <1>2. QED
    BY <1>1 DEF Ahead

LEMMA AheadOwnerNext ==
    ASSUME OrderInv'
    PROVE  /\ assigned' = {} => Ahead' = {i \in processed' : i >= committed'}
           /\ \A l \in assigned' :
                 Ahead' = {i \in processed' :
                             /\ i >= committed' \/ i >= position'[l]
                             /\ stage'[l] = "acking" => i # position'[l]}
  <1>1. ASSUME NEW l \in assigned' PROVE assigned' = {l}
    BY <1>1 DEF OrderInv
  <1>2. QED
    BY <1>1 DEF Ahead

\* The container's steps.
LEMMA ContainerCount ==
    ASSUME OrderInv, OrderInv', CountInv, NEW l \in Listener,
           \/ Assign(l) \/ Fetch(l) \/ Rebalance(l) \/ PollIntervalExpires(l) \/ Crash(l)
    PROVE  CountInv'
  <1> USE DEF listenerVars, historyVars
  <1>1. TypeOK /\ TypeOK' /\ processed \subseteq Nat
    BY DEF OrderInv, TypeOK
  <1>2. CASE Assign(l)
    <2>1. Ahead = {i \in processed : i >= committed}
      BY <1>2, AheadOwner, AheadOwnerNext DEF Assign
    <2>2. /\ Ahead' = {i \in processed : i >= committed \/ i >= position'[l]}
          /\ position'[l] = committed
      <3>1. position'[l] = committed /\ stage'[l] # "acking" /\ l \in assigned'
        BY <1>1, <1>2 DEF Assign, TypeOK
      <3>2. QED
        BY <1>2, <3>1, AheadOwner, AheadOwnerNext DEF Assign
    <2>3. StaleRunners' \subseteq StaleRunners
      BY <1>1, <1>2 DEF Assign, StaleRunners, TypeOK
    <2>4. QED
      BY <1>2, <2>1, <2>2, <2>3, QuietStep DEF Assign
  <1>3. CASE Fetch(l)
    <2>1. Ahead' = Ahead
      BY <1>3 DEF Fetch, Ahead
    <2>2. StaleRunners' \subseteq StaleRunners
      <3>1. PICK n : last' = [last EXCEPT ![l] = n]
        BY <1>3 DEF Fetch
      <3>2. QED
        BY <1>1, <1>3, <3>1 DEF Fetch, StaleRunners, TypeOK
    <2>3. QED
      BY <1>3, <2>1, <2>2, QuietStep DEF Fetch
  <1>4. CASE Rebalance(l)
    <2>1. /\ Ahead = {i \in processed : /\ i >= committed \/ i >= position[l]
                                        /\ stage[l] = "acking" => i # position[l]}
          /\ Ahead' = {i \in processed : i >= committed}
      BY <1>4, AheadOwner, AheadOwnerNext DEF Rebalance
    <2>2. CASE stage[l] = "acking"
      <3>1. Ahead' \subseteq Ahead \cup {position[l]}
        BY <2>1
      <3>2. StaleRunners' \subseteq StaleRunners
        <4>1. ASSUME NEW x \in StaleRunners' PROVE x \in StaleRunners
          BY <1>4, <2>2, <4>1 DEF Rebalance, StaleRunners, OrderInv
        <4>2. QED BY <4>1
      <3>3. QED
        BY <1>4, <3>1, <3>2, PaidStep DEF Rebalance, Disrupt
    <2>3. CASE stage[l] # "acking"
      <3>1. Ahead' \subseteq Ahead
        BY <2>1, <2>3
      <3>2. StaleRunners' \subseteq StaleRunners \cup {l}
        BY <1>4 DEF Rebalance, StaleRunners, OrderInv
      <3>3. QED
        BY <1>4, <3>1, <3>2, PaidStep DEF Rebalance, Disrupt
    <2>4. QED BY <2>2, <2>3
  <1>5. CASE PollIntervalExpires(l)
    <2>1. Ahead' \subseteq Ahead
      BY <1>5, AheadOwner, AheadOwnerNext DEF PollIntervalExpires
    <2>2. StaleRunners' \subseteq StaleRunners
      BY <1>5 DEF PollIntervalExpires, StaleRunners, OrderInv, Unprocessable
    <2>3. QED
      BY <1>5, <2>1, <2>2, QuietStep DEF PollIntervalExpires
  <1>6. CASE Crash(l)
    <2>1. StaleRunners' \subseteq StaleRunners
      <3>1. position'[l] = 1 /\ last'[l] = 0
        BY <1>1, <1>6 DEF Crash, TypeOK
      <3>2. ASSUME NEW x \in StaleRunners' PROVE x \in StaleRunners
        <4>1. x # l
          BY <3>1, <3>2 DEF StaleRunners
        <4>2. QED
          BY <1>1, <1>6, <3>2, <4>1 DEF Crash, StaleRunners, TypeOK
      <3>3. QED BY <3>2
    <2>2. Ahead' \subseteq Ahead \cup {position[l]}
      <3>1. CASE l \in assigned
        <4>1. assigned' = {}
          BY <1>6, <3>1 DEF Crash, OrderInv
        <4>2. QED
          BY <1>6, <3>1, <4>1, AheadOwner, AheadOwnerNext DEF Crash
      <3>2. CASE l \notin assigned
        <4>1. /\ assigned' = assigned
              /\ \A x \in assigned : position'[x] = position[x] /\ stage'[x] = stage[x]
          BY <1>1, <1>6, <3>2 DEF Crash, TypeOK
        <4>2. QED
          BY <1>6, <4>1 DEF Crash, Ahead
      <3>3. QED BY <3>1, <3>2
    <2>3. QED
      BY <1>6, <2>1, <2>2, PaidStep DEF Crash, Disrupt
  <1>7. QED
    BY <1>2, <1>3, <1>4, <1>5, <1>6

\* The listener starts, fails, tries again or has its commit made or refused.
LEMMA ListenerCount ==
    ASSUME OrderInv, OrderInv', CountInv, NEW l \in Listener,
           \/ Begin(l) \/ Fail(l) \/ Resume(l)
           \/ Acknowledge(l) \/ AcknowledgeRefused(l)
    PROVE  CountInv'
  <1> USE DEF listenerVars, historyVars, MoveOn
  <1>1. TypeOK /\ TypeOK' /\ processed \subseteq Nat /\ processed' = processed
    <2>1. TypeOK /\ TypeOK'
      BY DEF OrderInv
    <2>2. processed \subseteq Nat
      BY <2>1 DEF TypeOK
    <2>3. processed' = processed
      BY DEF Begin, Fail, Resume, Acknowledge, AcknowledgeRefused
    <2>4. QED
      BY <2>1, <2>2, <2>3
  <1>2. repeats' = repeats /\ disruptions' = disruptions /\ kind' = kind /\ assigned' = assigned
    BY DEF Begin, Fail, Resume, Acknowledge, AcknowledgeRefused
  <1>3. StaleRunners' \subseteq StaleRunners
    <2>1. ASSUME NEW x \in StaleRunners', x # l PROVE x \in StaleRunners
      BY <1>1, <1>2, <2>1
         DEF Begin, Fail, Resume, Acknowledge, AcknowledgeRefused, StaleRunners, TypeOK
    <2>2. ASSUME l \in StaleRunners' PROVE l \in StaleRunners
      <3>1. CASE Begin(l) \/ Fail(l) \/ Resume(l)
        <4>1. stage[l] # "acking" /\ position' = position /\ last' = last
          BY <3>1 DEF Begin, Fail, Resume
        <4>2. QED
          BY <1>2, <2>2, <4>1 DEF StaleRunners
      <3>2. CASE Acknowledge(l)
        BY <1>2, <2>2, <3>2 DEF Acknowledge, StaleRunners
      <3>3. CASE AcknowledgeRefused(l)
        <4>1. position'[l] = position[l] + 1 /\ last'[l] = position[l] /\ position[l] \in Nat
          BY <1>1, <3>3 DEF AcknowledgeRefused, TypeOK
        <4>2. QED
          BY <2>2, <4>1 DEF StaleRunners
      <3>4. QED BY <3>1, <3>2, <3>3
    <2>3. QED BY <2>1, <2>2
  <1>4. Ahead' \subseteq Ahead
    <2>1. CASE l \notin assigned
      <3>1. /\ committed' = committed
            /\ \A x \in assigned : position'[x] = position[x] /\ stage'[x] = stage[x]
        BY <1>1, <2>1 DEF Begin, Fail, Resume, Acknowledge, AcknowledgeRefused, TypeOK
      <3>2. QED
        BY <1>1, <1>2, <3>1 DEF Ahead
    <2>2. CASE l \in assigned
      <3>1. /\ Ahead = {i \in processed : /\ i >= committed \/ i >= position[l]
                                          /\ stage[l] = "acking" => i # position[l]}
            /\ Ahead' = {i \in processed : /\ i >= committed' \/ i >= position'[l]
                                           /\ stage'[l] = "acking" => i # position'[l]}
        BY <1>1, <1>2, <2>2, AheadOwner, AheadOwnerNext
      <3>2. CASE Begin(l) \/ Fail(l) \/ Resume(l)
        <4>1. stage[l] # "acking" /\ position' = position /\ committed' = committed
          BY <3>2 DEF Begin, Fail, Resume
        <4>2. QED BY <3>1, <4>1
      <3>3. CASE Acknowledge(l)
        <4>1. /\ position'[l] = position[l] + 1 /\ committed' = position[l] + 1
              /\ position[l] \in Nat /\ committed \in Nat
          BY <1>1, <3>3 DEF Acknowledge, TypeOK
        <4>2. \A i \in processed : i >= position[l] + 1 => i >= position[l] /\ i # position[l]
          BY <1>1, <4>1
        <4>3. QED BY <3>1, <4>1, <4>2
      <3>4. QED
        BY <2>2, <3>2, <3>3 DEF AcknowledgeRefused
    <2>3. QED BY <2>1, <2>2
  <1>5. QED
    BY <1>2, <1>3, <1>4, QuietStep

\* A success repeats what the owner had ahead of it, or uses up the listener
\* without the partition.
LEMMA SucceedCount ==
    ASSUME OrderInv, OrderInv', CountInv, NEW l \in Listener, Succeed(l)
    PROVE  CountInv'
  <1> DEFINE p == position[l]
  <1>1. TypeOK /\ TypeOK' /\ processed \subseteq Nat /\ processed' = processed \cup {p}
    BY DEF OrderInv, TypeOK, Succeed
  <1>2. /\ UNCHANGED <<kind, assigned, committed, position, last, disruptions>>
        /\ stage' = [stage EXCEPT ![l] = "acking"] /\ stage[l] = "running" /\ kind[p] = "valid"
        /\ repeats' = IF p \in processed THEN repeats + 1 ELSE repeats
    BY DEF Succeed
  <1>3. stage'[l] = "acking" /\ \A x \in Listener \ {l} : stage'[x] = stage[x]
    BY <1>1, <1>2 DEF TypeOK
  <1>4. p \in Nat /\ p <= last[l] /\ repeats \in Nat /\ disruptions \in Nat
    BY <1>1, <1>2 DEF OrderInv, ListenerInv, TypeOK
  <1>5. IsFiniteSet(Ahead) /\ IsFiniteSet(StaleRunners)
    BY AheadFinite DEF CountInv
  <1>6. repeats + Cardinality(Ahead) + Cardinality(StaleRunners) <= disruptions
    BY DEF CountInv
  <1>7. CASE l \in assigned
    <2>1. /\ Ahead = {i \in processed : i >= committed \/ i >= p}
          /\ Ahead' = {i \in processed' : (i >= committed \/ i >= p) /\ i # p}
      BY <1>2, <1>3, <1>7, AheadOwner, AheadOwnerNext
    <2>2. StaleRunners' \subseteq StaleRunners
      BY <1>2, <1>3, <1>7 DEF StaleRunners
    <2>3. /\ IsFiniteSet(StaleRunners')
          /\ Cardinality(StaleRunners') <= Cardinality(StaleRunners)
          /\ Cardinality(StaleRunners') \in Nat /\ Cardinality(StaleRunners) \in Nat
      BY <1>5, <2>2, Fewer
    <2>4. CASE p \in processed
      <3>1. p \in Ahead /\ Ahead' \subseteq Ahead \ {p}
        BY <1>1, <1>4, <2>1, <2>4
      <3>2. /\ Cardinality(Ahead') <= Cardinality(Ahead) - 1
            /\ Cardinality(Ahead') \in Nat /\ Cardinality(Ahead) \in Nat
        BY <1>5, <3>1, OneFewer
      <3>3. repeats' = repeats + 1 /\ disruptions' = disruptions
        BY <1>2, <2>4
      <3>4. QED
        BY <1>4, <1>6, <2>3, <3>2, <3>3 DEF CountInv
    <2>5. CASE p \notin processed
      <3>1. Ahead' \subseteq Ahead
        BY <1>1, <2>1
      <3>2. QED
        BY <1>2, <2>2, <2>5, <3>1, QuietStep
    <2>6. QED BY <2>4, <2>5
  <1>8. CASE l \notin assigned
    <2>1. l \in StaleRunners /\ StaleRunners' \subseteq StaleRunners \ {l}
      BY <1>2, <1>3, <1>4, <1>8 DEF StaleRunners
    <2>2. /\ IsFiniteSet(StaleRunners')
          /\ Cardinality(StaleRunners') <= Cardinality(StaleRunners) - 1
          /\ Cardinality(StaleRunners') \in Nat /\ Cardinality(StaleRunners) \in Nat
      BY <1>5, <2>1, OneFewer
    <2>3. Ahead' \subseteq Ahead \cup (IF p \in processed THEN {} ELSE {p})
      <3>1. \A x \in assigned : stage'[x] = stage[x]
        BY <1>1, <1>3, <1>8 DEF TypeOK
      <3>2. QED
        BY <1>1, <1>2, <3>1 DEF Ahead
    <2>4. CASE p \in processed
      <3>1. /\ Cardinality(Ahead') <= Cardinality(Ahead)
            /\ Cardinality(Ahead') \in Nat /\ Cardinality(Ahead) \in Nat
        BY <1>5, <2>3, <2>4, Fewer
      <3>2. repeats' = repeats + 1 /\ disruptions' = disruptions
        BY <1>2, <2>4
      <3>3. QED
        BY <1>4, <1>6, <2>2, <3>1, <3>2 DEF CountInv
    <2>5. CASE p \notin processed
      <3>1. /\ Cardinality(Ahead') <= Cardinality(Ahead) + 1
            /\ Cardinality(Ahead') \in Nat /\ Cardinality(Ahead) \in Nat
        BY <1>5, <2>3, <2>5, OneMore
      <3>2. repeats' = repeats /\ disruptions' = disruptions
        BY <1>2, <2>5
      <3>3. QED
        BY <1>4, <1>6, <2>2, <3>1, <3>2 DEF CountInv
    <2>6. QED BY <2>4, <2>5
  <1>9. QED BY <1>7, <1>8

\* A failed commit leaves at most the record it was about ahead.
LEMMA FailedCommitCount ==
    ASSUME OrderInv, OrderInv', CountInv, NEW l \in Listener, AcknowledgeFails(l)
    PROVE  CountInv'
  <1>1. TypeOK /\ TypeOK' /\ processed \subseteq Nat
    BY DEF OrderInv, TypeOK
  <1>2. /\ l \in assigned /\ stage[l] = "acking" /\ UNCHANGED <<kind, assigned, last, processed, repeats>>
        /\ stage' = [stage EXCEPT ![l] = "polling"]
        /\ committed' \in {committed, position[l] + 1}
        /\ position' = position \/ position' = [position EXCEPT ![l] = @ + 1]
        /\ disruptions' = disruptions + 1
    BY DEF AcknowledgeFails, Disrupt
  <1>3. /\ stage'[l] = "polling" /\ position'[l] >= position[l] /\ committed' >= committed
        /\ position[l] \in Nat /\ position'[l] \in Nat /\ committed \in Nat /\ committed' \in Nat
    BY <1>1, <1>2 DEF OrderInv, ListenerInv, TypeOK
  <1>4. /\ Ahead = {i \in processed : (i >= committed \/ i >= position[l]) /\ i # position[l]}
        /\ Ahead' = {i \in processed : i >= committed' \/ i >= position'[l]}
    BY <1>2, <1>3, AheadOwner, AheadOwnerNext
  <1>5. \A i \in processed : (i >= committed' \/ i >= position'[l])
                              => (i >= committed \/ i >= position[l])
    BY <1>1, <1>3
  <1>6. Ahead' \subseteq Ahead \cup {position[l]}
    BY <1>4, <1>5
  <1>7. StaleRunners' \subseteq StaleRunners
    <2>1. ASSUME NEW x \in StaleRunners' PROVE x \in StaleRunners
      <3>1. x # l /\ x \in Listener
        BY <1>2, <2>1 DEF StaleRunners
      <3>2. stage'[x] = stage[x] /\ position'[x] = position[x]
        BY <1>1, <1>2, <3>1 DEF TypeOK
      <3>3. QED
        BY <1>2, <2>1, <3>2 DEF StaleRunners
    <2>2. QED BY <2>1
  <1>8. QED
    BY <1>2, <1>6, <1>7, PaidStep

LEMMA CountStep == IInv /\ [Next]_vars => CountInv'
  <1> SUFFICES ASSUME OrderInv, CountInv, [Next]_vars PROVE CountInv'
    BY DEF IInv
  <1>1. OrderInv'
    BY OrderStep
  <1>2. CASE UNCHANGED vars
    BY <1>2, QuietStep DEF vars, Ahead, StaleRunners
  <1>3. CASE Next
    BY <1>1, <1>3, ContainerCount, ListenerCount, SucceedCount, FailedCommitCount
       DEF Next, ListenerStep
  <1>4. QED BY <1>2, <1>3

LEMMA StepInv == IInv /\ [Next]_vars => IInv' /\ committed' >= committed
  BY OrderStep, CountStep DEF IInv

LEMMA InitInv == Init => IInv
  <1> SUFFICES ASSUME Init PROVE CountInv
    BY InitOrder DEF IInv
  <1>1. Ahead = {} /\ StaleRunners = {}
    BY DEF Init, Ahead, StaleRunners
  <1>2. QED
    BY <1>1, FS_EmptySet DEF Init, CountInv

-----------------------------------------------------------------------------
(* What the listeners know of the records in front of them, in every       *)
(* reachable state of every group.                                         *)
THEOREM Inductive == Spec => []IInv
  BY InitInv, StepInv, PTL DEF Spec

(* The committed offset never passes a record that was not processed,      *)
(* whoever crashes, is rebalanced or fails to commit.                      *)
THEOREM CommitAfterProcessing == Spec => []CommittedWereProcessed
  <1>1. IInv => CommittedWereProcessed
    BY DEF IInv, OrderInv
  <1>2. QED
    BY <1>1, Inductive, PTL

(* Records are processed in the order of the partition, also by listeners  *)
(* that have lost it.                                                      *)
THEOREM InOrder == Spec => []ProcessedInOrder
  <1>1. IInv => ProcessedInOrder
    BY DEF IInv, OrderInv
  <1>2. QED
    BY <1>1, Inductive, PTL

(* The late commit of a listener never moves the committed offset back.    *)
THEOREM NoRewind == Spec => CommitNeverRewinds
  <1>1. IInv /\ [Next]_vars => [committed' >= committed]_vars
    BY StepInv
  <1>2. QED
    BY <1>1, Inductive, PTL DEF Spec, CommitNeverRewinds

(* A crash, a rebalance or a failed commit costs at most one repeated      *)
(* processing, whatever the size of the batch and of the group.            *)
THEOREM RepeatsPaid == Spec => []RepeatsPaidByDisruptions
  <1>1. ASSUME IInv PROVE RepeatsPaidByDisruptions
    <2>1. Cardinality(Ahead) \in Nat /\ Cardinality(StaleRunners) \in Nat
      BY <1>1, AheadFinite, FS_CardinalityType DEF IInv, CountInv
    <2>2. repeats \in Nat /\ disruptions \in Nat
      BY <1>1 DEF IInv, OrderInv, TypeOK
    <2>3. QED
      BY <1>1, <2>1, <2>2 DEF IInv, CountInv, RepeatsPaidByDisruptions
  <1>2. QED
    BY <1>1, Inductive, PTL

=============================================================================
