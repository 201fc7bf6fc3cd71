---------------------------- MODULE KafkaConsumer ----------------------------
(***************************************************************************)
(* BaseKafkaConsumer on one partition, for both topics: one record at a    *)
(* time on the listener thread, the offset committed after its processing, *)
(* a failed record retried in place for ever.                              *)
(*                                                                         *)
(* The container around it (Kafka client and Spring binder: polls of at    *)
(* most max.poll.records, ackMode MANUAL_IMMEDIATE, max.poll.interval.ms,  *)
(* assignment of the partition) is external: it is modelled from the       *)
(* configuration in application.yml and from what the tests of             *)
(* BaseKafkaConsumer rely on.  A listener that loses the partition while   *)
(* it blocks in execute() goes on with its record; its commit is refused   *)
(* and the rest of its batch is dropped.                                   *)
(*                                                                         *)
(* What a processing does is not modelled here (see Delivery), only that   *)
(* it succeeds or fails; the records of the partition are there from the   *)
(* start.                                                                  *)
(***************************************************************************)
EXTENDS Naturals, FiniteSets

CONSTANTS Listener,       \* the listener threads of the consumer group
          N,              \* the number of records in the partition
          MaxPoll,        \* max.poll.records
          MaxDisruptions  \* bound: crashes, rebalances and failed commits

ASSUME KafkaConsumerAssumption ==
    N \in Nat /\ MaxPoll \in Nat \ {0} /\ MaxDisruptions \in Nat

VARIABLES
    kind,        \* [1..N -> Kind]: what the records are
    assigned,    \* the listener the partition is assigned to: one or none
    committed,   \* the group's committed offset: the next record to deliver
    stage,       \* [Listener -> Stage]
    position,    \* [Listener -> the record it is at]
    last,        \* [Listener -> the last record of the batch it has polled]
    processed,   \* history: the records whose processing has succeeded
    repeats,     \* history: successes on a record that had succeeded before
    disruptions  \* history: number of disruptions so far

listenerVars == <<stage, position, last>>
historyVars  == <<processed, repeats, disruptions>>
vars == <<kind, assigned, committed, stage, position, last,
          processed, repeats, disruptions>>

\* "foreign" carries another application's name in its retry header;
\* "malformed" cannot be deserialized; "noHeader" has no retry count.
Kind  == {"valid", "foreign", "malformed", "noHeader"}
Stage == {"polling", "running", "backoff", "acking"}

Unprocessable == {"malformed", "noHeader"}

Disrupt ==
    /\ disruptions < MaxDisruptions
    /\ disruptions' = disruptions + 1

-----------------------------------------------------------------------------
(* The container.                                                          *)

\* The partition goes to a listener that polls: from the committed offset on.
Assign(l) ==
    /\ assigned = {}
    /\ stage[l] = "polling" /\ position[l] > last[l]
    /\ assigned' = {l}
    /\ position' = [position EXCEPT ![l] = committed]
    /\ last' = [last EXCEPT ![l] = committed - 1]
    /\ UNCHANGED <<kind, committed, stage, historyVars>>

\* A poll returns some of the next records.
Fetch(l) ==
    /\ l \in assigned
    /\ stage[l] = "polling" /\ position[l] > last[l]
    /\ \E n \in position[l]..N :
          /\ n < position[l] + MaxPoll
          /\ last' = [last EXCEPT ![l] = n]
    /\ UNCHANGED <<kind, assigned, committed, stage, position, historyVars>>

\* The group takes the partition away: another member joins, a session or
\* the poll interval expires.
Rebalance(l) ==
    /\ l \in assigned
    /\ Disrupt
    /\ assigned' = {}
    /\ UNCHANGED <<kind, committed, listenerVars, processed, repeats>>

\* The poll interval expires on a record that can never be processed.
PollIntervalExpires(l) ==
    /\ l \in assigned
    /\ stage[l] \in {"running", "backoff"}
    /\ kind[position[l]] \in Unprocessable
    /\ assigned' = {}
    /\ UNCHANGED <<kind, committed, listenerVars, historyVars>>

\* The pod stops; its listener starts again with nothing polled.
Crash(l) ==
    /\ Disrupt
    /\ assigned' = assigned \ {l}
    /\ stage' = [stage EXCEPT ![l] = "polling"]
    /\ position' = [position EXCEPT ![l] = 1]
    /\ last' = [last EXCEPT ![l] = 0]
    /\ UNCHANGED <<kind, committed, processed, repeats>>

-----------------------------------------------------------------------------
(* BaseKafkaConsumer.execute.                                              *)

\* The next record of the batch, which the listener may have polled before
\* it lost the partition.  Another application's retry is acknowledged as is.
BeginSkipping(l) ==
    /\ stage[l] = "polling" /\ position[l] <= last[l]
    /\ stage' = [stage EXCEPT ![l] =
                    IF kind[position[l]] = "valid" THEN "running" ELSE "acking"]
    /\ UNCHANGED <<kind, assigned, committed, position, last, historyVars>>
BeginAll(l) ==
    /\ stage[l] = "polling" /\ position[l] <= last[l]
    /\ stage' = [stage EXCEPT ![l] = "running"]
    /\ UNCHANGED <<kind, assigned, committed, position, last, historyVars>>
Begin(l) ==
    /\ stage[l] = "polling" /\ position[l] <= last[l]
    /\ stage' = [stage EXCEPT ![l] =
                    IF kind[position[l]] = "foreign" THEN "acking" ELSE "running"]
    /\ UNCHANGED <<kind, assigned, committed, position, last, historyVars>>

\* The processing completes with a value.
Succeed(l) ==
    /\ stage[l] = "running" /\ kind[position[l]] = "valid"
    /\ stage' = [stage EXCEPT ![l] = "acking"]
    /\ processed' = processed \cup {position[l]}
    /\ repeats' = IF position[l] \in processed THEN repeats + 1 ELSE repeats
    /\ UNCHANGED <<kind, assigned, committed, position, last, disruptions>>

\* It fails or completes empty, the record cannot be deserialized or has no
\* retry header: always an UncommittableError, so the record waits its backoff.
FailMovesOn(l) ==
    /\ stage[l] = "running"
    /\ stage' = [stage EXCEPT ![l] = "polling"]
    /\ position' = [position EXCEPT ![l] = @ + 1]
    /\ UNCHANGED <<kind, assigned, committed, last, historyVars>>
Fail(l) ==
    /\ stage[l] = "running"
    /\ stage' = [stage EXCEPT ![l] = "backoff"]
    /\ UNCHANGED <<kind, assigned, committed, position, last, historyVars>>

\* retryWhen subscribes again, with no limit on the number of attempts.
Resume(l) ==
    /\ stage[l] = "backoff"
    /\ stage' = [stage EXCEPT ![l] = "running"]
    /\ UNCHANGED <<kind, assigned, committed, position, last, historyVars>>

MoveOn(l) ==
    /\ stage' = [stage EXCEPT ![l] = "polling"]
    /\ position' = [position EXCEPT ![l] = @ + 1]

\* acknowledge() commits the offset at once.
AcknowledgeUnowned(l) ==
    /\ stage[l] = "acking"
    /\ committed' = position[l] + 1
    /\ MoveOn(l)
    /\ UNCHANGED <<kind, assigned, last, historyVars>>
AcknowledgeBatch(l) ==
    /\ stage[l] = "acking" /\ l \in assigned
    /\ committed' = IF position[l] = last[l] THEN position[l] + 1 ELSE committed
    /\ MoveOn(l)
    /\ UNCHANGED <<kind, assigned, last, historyVars>>
Acknowledge(l) ==
    /\ stage[l] = "acking" /\ l \in assigned
    /\ committed' = position[l] + 1
    /\ MoveOn(l)
    /\ UNCHANGED <<kind, assigned, last, historyVars>>

\* The partition is no longer this listener's: the commit is refused and the
\* listener polls anew.
AcknowledgeRefused(l) ==
    /\ stage[l] = "acking" /\ l \notin assigned
    /\ MoveOn(l)
    /\ last' = [last EXCEPT ![l] = position[l]]
    /\ UNCHANGED <<kind, assigned, committed, historyVars>>

\* The commit fails, applied or not, and acknowledge() throws out of execute():
\* the binder calls it again with the record or goes on to the next one.
AcknowledgeFails(l) ==
    /\ stage[l] = "acking" /\ l \in assigned
    /\ Disrupt
    /\ committed' \in {committed, position[l] + 1}
    /\ stage' = [stage EXCEPT ![l] = "polling"]
    /\ UNCHANGED position \/ position' = [position EXCEPT ![l] = @ + 1]
    /\ UNCHANGED <<kind, assigned, last, processed, repeats>>

-----------------------------------------------------------------------------
Init ==
    /\ kind \in [1..N -> Kind]
    /\ assigned = {}
    /\ committed = 1
    /\ stage = [l \in Listener |-> "polling"]
    /\ position = [l \in Listener |-> 1]
    /\ last = [l \in Listener |-> 0]
    /\ processed = {}
    /\ repeats = 0
    /\ disruptions = 0

\* What a listener does by itself with its batch.
ListenerStep(l) ==
    \/ Begin(l) \/ Succeed(l) \/ Fail(l) \/ Resume(l)
    \/ Acknowledge(l) \/ AcknowledgeRefused(l)

Next ==
    \E l \in Listener :
        \/ Assign(l) \/ Fetch(l) \/ ListenerStep(l)
        \/ Rebalance(l) \/ PollIntervalExpires(l) \/ Crash(l) \/ AcknowledgeFails(l)

Spec == Init /\ [][Next]_vars

\* The group assigns the partition, a listener polls, works and, when a record
\* keeps it too long, loses the partition; a processing that is tried for ever
\* succeeds in the end (the services and the store come back).
Fairness ==
    /\ WF_vars(\E l \in Listener : Assign(l))
    /\ \A l \in Listener :
          /\ WF_vars(Fetch(l))
          /\ WF_vars(ListenerStep(l))
          /\ SF_vars(Succeed(l))
          /\ SF_vars(PollIntervalExpires(l))

LiveSpec == Spec /\ Fairness

-----------------------------------------------------------------------------
(* Safety.                                                                 *)

TypeOK ==
    /\ kind \in [1..N -> Kind]
    /\ assigned \in SUBSET Listener
    /\ committed \in 1..(N + 1)
    /\ stage \in [Listener -> Stage]
    /\ position \in [Listener -> 1..(N + 1)]
    /\ last \in [Listener -> 0..N]
    /\ processed \in SUBSET (1..N)
    /\ repeats \in Nat
    /\ disruptions \in 0..MaxDisruptions

\* The records that need nothing more.
Settled == processed \cup {i \in 1..N : kind[i] = "foreign"}

(* Every record below the committed offset has been processed, or is       *)
(* another application's: no failure, rebalance, crash or failed commit    *)
(* makes the group pass a record that was not processed (the class's       *)
(* purpose: "Processing failed; offset is not committed").                 *)
CommittedWereProcessed == 1..(committed - 1) \subseteq Settled

(* A record is never processed before all records in front of it are       *)
(* settled: one record at a time, in order, whoever owns the partition.    *)
ProcessedInOrder == \A i \in processed : 1..(i - 1) \subseteq Settled

(* The committed offset never moves back, although listeners that have     *)
(* lost the partition still try to commit.                                 *)
CommitNeverRewinds == [][committed' >= committed]_vars

(* A record is processed again at most once for each disruption: a crash   *)
(* or a rebalance repeats one record, never the whole batch.               *)
RepeatsPaidByDisruptions == repeats <= disruptions

(* The inductive invariant, in two parts.  What every listener, with or    *)
(* without the partition, knows of the records in front of it: the         *)
(* committed offset is at most one past the owner's position, since a      *)
(* failed commit may have been applied.  This is why no acknowledgment     *)
(* rewinds it.                                                             *)
ListenerInv(l) ==
    /\ position[l] <= last[l] + 1
    /\ stage[l] # "polling" => position[l] <= last[l]
    /\ 1..(position[l] - 1) \subseteq Settled
    /\ stage[l] = "acking" => position[l] \in Settled
    /\ l \in assigned => committed <= position[l] + 1

OrderInv ==
    /\ TypeOK
    /\ \A x, y \in assigned : x = y
    /\ \A l \in Listener : ListenerInv(l)
    /\ CommittedWereProcessed
    /\ ProcessedInOrder

(* What can still be processed again: a processed record that is ahead of  *)
(* the committed offset or of the owner, unless the owner is about to      *)
(* commit it; and whatever a listener without the partition is working on. *)
Ahead ==
    {i \in processed : i >= committed \/ \E l \in assigned : i >= position[l]}
      \ {position[l] : l \in {x \in assigned : stage[x] = "acking"}}
StaleRunners ==
    {l \in Listener \ assigned :
        /\ position[l] <= last[l] /\ kind[position[l]] = "valid"
        /\ stage[l] # "acking"}

\* Each repetition that was made or can still be made has been paid.
CountInv ==
    /\ IsFiniteSet(StaleRunners)
    /\ repeats + Cardinality(Ahead) + Cardinality(StaleRunners) <= disruptions

IInv == OrderInv /\ CountInv

-----------------------------------------------------------------------------
(* Liveness.                                                               *)

\* The first record that can never be processed, or N + 1.
Blocked(i)   == i = N + 1 \/ kind[i] \in Unprocessable
FirstBlocked == CHOOSE i \in 1..(N + 1) : Blocked(i) /\ \A j \in 1..(i - 1) : ~Blocked(j)

(* Every record in front of the first unprocessable one is settled in the  *)
(* end, and stays so (with CommittedWereProcessed: the group consumes the  *)
(* healthy prefix and nothing behind it).                                  *)
HealthyPrefixIsConsumed == <>[](1..(FirstBlocked - 1) \subseteq Settled)

(* One unprocessable record stops every listener of the group: each in     *)
(* turn gets the partition, blocks on the record, loses the partition to   *)
(* the next one and never polls again (retryWhen has no limit and          *)
(* execute() blocks the listener thread).                                  *)
UnprocessableStopsEveryListener ==
    FirstBlocked <= N =>
        <>[](\A l \in Listener : position[l] = FirstBlocked
                                  /\ stage[l] \in {"running", "backoff"})

=============================================================================
