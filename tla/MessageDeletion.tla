--------------------------- MODULE MessageDeletion ---------------------------
(***************************************************************************)
(* NotifyServiceImpl.deleteMessages, run by the weekly batch of every pod  *)
(* and by the bulk-delete endpoint, beside the deliveries that write the   *)
(* same documents.                                                         *)
(*                                                                         *)
(* A sweep reads the documents its filter matches from a cursor, collects  *)
(* them in batches and deletes the batches one after the other, the        *)
(* documents of a batch concurrently, each by its _id.  Meanwhile a        *)
(* delivery inserts the document of its key (messageId, entityId) or       *)
(* resumes it, and saves the copy it holds, by _id again: save() replaces  *)
(* the document, and inserts it when it is not there.                      *)
(*                                                                         *)
(* Delivery and ManualRetry have the pipeline and the requests in full and *)
(* no deletions; here a delivery is reduced to what touches a document,    *)
(* from the insert, or from the claim of a manual retry, through its chain *)
(* of retry records to the last save.  Dates: a document is old (it was    *)
(* there at the start) or new.                                             *)
(***************************************************************************)
EXTENDS Naturals, Sequences, FiniteSets, Functions

CONSTANTS Key,       \* the natural keys (messageId, entityId)
          Writer,    \* the deliveries of core records and the manual
                     \* retries, one of a key each
          Sweep,     \* the calls of deleteMessages
          BatchSize, \* delete.batchSize
          MaxTry,    \* app.retry.max-retry
          MaxFaults  \* bound: failed deletions and counts

ASSUME MessageDeletionAssumption ==
    BatchSize \in Nat \ {0} /\ MaxTry \in Nat \ {0} /\ MaxFaults \in Nat

VARIABLES
    store,    \* the collection: a set of documents, see Doc
    born,     \* [Key -> number of records of the key ever stored]
    key,      \* [Writer -> Key]
    pc,       \* [Writer -> WriterPc]
    copy,     \* [Writer -> the generation of the copy it holds; 0: none yet]
    tries,    \* [Writer -> the retry count of its record]
    phase,    \* [Sweep -> Phase]
    range,    \* [Sweep -> the ages its filter matches]
    due,      \* [Sweep -> the records that matched when its cursor was opened]
    seen,     \* [Sweep -> the records that cursor has returned]
    fetched,  \* [Sweep -> all records handed on to the batches, in order]
    left,     \* [Sweep -> positions in fetched: the batch, still to delete]
    count,    \* [Sweep -> deletedCount]
    removed,  \* history: [Sweep -> the records it has really removed]
    faults    \* history: number of faults so far

writerVars == <<key, pc, copy, tries>>
sweepVars  == <<phase, range, due, seen, fetched, left, count, removed>>
vars == <<store, born, key, pc, copy, tries,
          phase, range, due, seen, fetched, left, count, removed, faults>>

-----------------------------------------------------------------------------
(* Documents.  A document's _id is its key and the generation in which it  *)
(* was inserted; rec tells apart the records in which the collection has   *)
(* stored it: a save that puts a deleted document back stores a new one.   *)

Doc(k, g, r, s) == [key |-> k, gen |-> g, rec |-> r, state |-> s]
RecordOf(d)     == [key |-> d.key, gen |-> d.gen, rec |-> d.rec]
Records         == {RecordOf(d) : d \in store}
Of(k)           == {d \in store : d.key = k}

Terminal == {"SENT", "ERROR"}
Age      == {"old", "new"}
\* A writer in charge of the document it holds a copy of.
Working  == {"send", "save", "enqueue", "exhausted", "publish", "release"}
WriterPc == {"insert", "find", "claim", "done"} \cup Working
Phase    == {"idle", "reading", "read", "answered", "notFound", "failed"}

\* The registration date is set when a document is inserted and stays with it.
AgeOf(d) == IF d.gen = 1 THEN "old" ELSE "new"

\* findByMessageRegistrationDateBetween, or findAll.
Matching(ages) == {d \in Records : AgeOf(d) \in ages}

Fault ==
    /\ faults < MaxFaults
    /\ faults' = faults + 1

-----------------------------------------------------------------------------
(* A delivery and its chain of retry records.                              *)

Step(w, next) ==
    /\ pc' = [pc EXCEPT ![w] = next]
    /\ UNCHANGED <<key, sweepVars, faults>>

\* insert(): the unique index lets one document of a key in.
Insert(w) ==
    /\ pc[w] = "insert"
    /\ IF Of(key[w]) # {}
       THEN Step(w, "find") /\ UNCHANGED <<store, born, copy>>
       ELSE LET n == born[key[w]] + 1
            IN  /\ store' = store \cup {Doc(key[w], n, n, "IN_PROCESS")}
                /\ born' = [born EXCEPT ![key[w]] = n]
                /\ copy' = [copy EXCEPT ![w] = n]
                /\ Step(w, "send")
    /\ UNCHANGED tries

FindGoneIsDone(w) ==
    /\ pc[w] = "find"
    /\ IF Of(key[w]) = {}
       THEN Step(w, "done") /\ UNCHANGED copy
       ELSE \E d \in Of(key[w]) :
               IF d.state \in Terminal
               THEN Step(w, "done") /\ UNCHANGED copy
               ELSE Step(w, "send") /\ copy' = [copy EXCEPT ![w] = d.gen]
    /\ UNCHANGED <<store, born, tries>>

\* After a duplicate: resume an IN_PROCESS document, skip a completed one; a
\* document deleted since then makes the record start again.
Find(w) ==
    /\ pc[w] = "find"
    /\ IF Of(key[w]) = {}
       THEN Step(w, "insert") /\ UNCHANGED copy
       ELSE \E d \in Of(key[w]) :
               IF d.state \in Terminal
               THEN Step(w, "done") /\ UNCHANGED copy
               ELSE Step(w, "send") /\ copy' = [copy EXCEPT ![w] = d.gen]
    /\ UNCHANGED <<store, born, tries>>

\* Token and POST: the TPP takes the notification or not.
Send(w) ==
    /\ pc[w] = "send"
    /\ \E next \in {"save", "enqueue"} : Step(w, next)
    /\ UNCHANGED <<store, born, copy, tries>>

\* save() by _id is refused by the unique index when the key has another
\* document by now.
RefusedIfGone(w) == \A d \in Of(key[w]) : d.gen # copy[w]
Refused(w) == \E d \in Of(key[w]) : d.gen # copy[w]

\* It replaces the document, or puts it back.
Put(w, state) ==
    IF Of(key[w]) = {}
    THEN LET n == born[key[w]] + 1
         IN  /\ store' = store \cup {Doc(key[w], copy[w], n, state)}
             /\ born' = [born EXCEPT ![key[w]] = n]
    ELSE /\ store' = {IF d.key = key[w] THEN [d EXCEPT !.state = state] ELSE d : d \in store}
         /\ UNCHANGED born

SaveSent(w) ==
    /\ pc[w] = "save"
    /\ IF Refused(w)
       THEN Step(w, "enqueue") /\ UNCHANGED <<store, born>>
       ELSE Step(w, "done") /\ Put(w, "SENT")
    /\ UNCHANGED <<copy, tries>>

\* enqueueNotify: one more record that carries the copy, up to the limit.
Enqueue(w) ==
    /\ pc[w] = "enqueue"
    /\ IF tries[w] + 1 > MaxTry
       THEN Step(w, "exhausted") /\ UNCHANGED tries
       ELSE Step(w, "send") /\ tries' = [tries EXCEPT ![w] = @ + 1]
    /\ UNCHANGED <<store, born, copy>>

\* State ERROR; a refused save makes the consumer process the record again.
SaveError(w) ==
    /\ pc[w] = "exhausted"
    /\ IF Refused(w)
       THEN Step(w, "send") /\ UNCHANGED <<store, born>>
       ELSE Step(w, "done") /\ Put(w, "ERROR")
    /\ UNCHANGED <<copy, tries>>

-----------------------------------------------------------------------------
(* A manual retry: retryFailedMessage, up to its retry record, which is    *)
(* then sent as any other.                                                 *)

SetState(k, from, to) ==
    {IF d.key = k /\ d.state = from THEN [d EXCEPT !.state = to] ELSE d : d \in store}

\* claimErroredMessage, by natural key and state.
Claim(w) ==
    /\ pc[w] = "claim"
    /\ \/ /\ \A d \in Of(key[w]) : d.state # "ERROR"
          /\ Step(w, "done")
          /\ UNCHANGED <<store, copy>>
       \/ \E d \in Of(key[w]) :
             /\ d.state = "ERROR"
             /\ store' = SetState(key[w], "ERROR", "IN_PROCESS")
             /\ copy' = [copy EXCEPT ![w] = d.gen]
             /\ Step(w, "publish")
    /\ UNCHANGED <<born, tries>>

\* The record is published with retry count 0; or the TPP's configuration
\* cannot be had, or the record not be published.
PublishRetryForgets(w) ==
    /\ pc[w] = "publish"
    /\ \E next \in {"send", "done"} : Step(w, next)
    /\ UNCHANGED <<store, born, copy, tries>>
PublishRetry(w) ==
    /\ pc[w] = "publish"
    /\ \E next \in {"send", "release"} : Step(w, next)
    /\ UNCHANGED <<store, born, copy, tries>>

\* releaseManualRetryClaim, by natural key and state again: it may hit a
\* document inserted since the claim.
Release(w) ==
    /\ pc[w] = "release"
    /\ store' = SetState(key[w], "IN_PROCESS", "ERROR")
    /\ Step(w, "done")
    /\ UNCHANGED <<born, copy, tries>>

-----------------------------------------------------------------------------
(* A sweep: deleteMessages.                                                *)

Enter(s, p) == phase' = [phase EXCEPT ![s] = p]

\* The query is subscribed.
Begin(s) ==
    /\ phase[s] = "idle"
    /\ \E ages \in SUBSET Age \ {{}} :
          /\ range' = [range EXCEPT ![s] = ages]
          /\ due' = [due EXCEPT ![s] = Matching(ages)]
    /\ Enter(s, "reading")
    /\ UNCHANGED <<store, born, writerVars, seen, fetched, left, count, removed, faults>>

\* A cursor returns a record at most once, in any order; a document stored
\* after it was opened may be returned.
Fetch(s) ==
    /\ phase[s] = "reading"
    /\ \E d \in Matching(range[s]) \ seen[s] :
          /\ seen' = [seen EXCEPT ![s] = @ \cup {d}]
          /\ fetched' = [fetched EXCEPT ![s] = Append(@, d)]
    /\ UNCHANGED <<store, born, writerVars, phase, range, due, left, count, removed, faults>>

\* The cursor is throttled: retryWhen subscribes to the query again, and what
\* the first cursor has returned stays in the batches.
CursorRestarts(s) ==
    /\ phase[s] = "reading"
    /\ Fault
    /\ due' = [due EXCEPT ![s] = Matching(range[s])]
    /\ seen' = [seen EXCEPT ![s] = {}]
    /\ UNCHANGED <<store, born, writerVars, phase, range, fetched, left, count, removed>>

\* The cursor ends: what matched when it was opened and is still there has been
\* returned.  Nothing at all: MESSAGES_NOT_FOUND.
EndOfCursor(s) ==
    /\ phase[s] = "reading"
    /\ due[s] \cap Records \subseteq seen[s]
    /\ Enter(s, IF fetched[s] = << >> THEN "notFound" ELSE "read")
    /\ UNCHANGED <<store, born, writerVars, range, due, seen, fetched, left, count, removed, faults>>

\* buffer(batchSize): a full batch, or the rest once the cursor has ended.
BatchEnd(s) == IF count[s] + BatchSize <= Len(fetched[s])
               THEN count[s] + BatchSize
               ELSE Len(fetched[s])
FullBatch(s) == count[s] + BatchSize <= Len(fetched[s])
BatchReady(s) ==
    \/ count[s] + BatchSize <= Len(fetched[s])
    \/ phase[s] = "read" /\ count[s] < Len(fetched[s])

\* concatMap: the next batch, when the one before it is finished.
BeginBatch(s) ==
    /\ phase[s] \in {"reading", "read"}
    /\ left[s] = {}
    /\ BatchReady(s)
    /\ left' = [left EXCEPT ![s] = (count[s] + 1)..BatchEnd(s)]
    /\ UNCHANGED <<store, born, writerVars, phase, range, due, seen, fetched, count, removed, faults>>

\* delete(msg) removes the document with this _id and completes if there is
\* none; the batch counts in full when its last deletion has completed.
SameKey(d, f) == d.key = f.key
SameId(d, f)  == d.key = f.key /\ d.gen = f.gen

Remove(s, p) ==
    LET gone == {d \in store : SameId(d, fetched[s][p])}
    IN  /\ store' = store \ gone
        /\ removed' = [removed EXCEPT ![s] = @ \cup {RecordOf(d) : d \in gone}]

DeleteFirstOnly(s, p) ==
    /\ p \in left[s]
    /\ Remove(s, p)
    /\ left' = [left EXCEPT ![s] = {}]
    /\ count' = [count EXCEPT ![s] = BatchEnd(s)]
    /\ UNCHANGED <<born, writerVars, phase, range, due, seen, fetched, faults>>
DeleteCountsBatchSize(s, p) ==
    /\ p \in left[s]
    /\ Remove(s, p)
    /\ left' = [left EXCEPT ![s] = @ \ {p}]
    /\ count' = [count EXCEPT ![s] = IF left[s] = {p} THEN @ + BatchSize ELSE @]
    /\ UNCHANGED <<born, writerVars, phase, range, due, seen, fetched, faults>>
Delete(s, p) ==
    /\ p \in left[s]
    /\ Remove(s, p)
    /\ left' = [left EXCEPT ![s] = @ \ {p}]
    /\ count' = [count EXCEPT ![s] = IF left[s] = {p} THEN BatchEnd(s) ELSE @]
    /\ UNCHANGED <<born, writerVars, phase, range, due, seen, fetched, faults>>

DeleteFailsIgnored(s, p) ==
    /\ p \in left[s]
    /\ Fault
    /\ left' = [left EXCEPT ![s] = @ \ {p}]
    /\ count' = [count EXCEPT ![s] = IF left[s] = {p} THEN BatchEnd(s) ELSE @]
    /\ UNCHANGED <<store, born, writerVars, phase, range, due, seen, fetched, removed>>

\* A deletion fails, applied or not: the rest of the sweep is cancelled.
DeleteFails(s, p) ==
    /\ p \in left[s]
    /\ Fault
    /\ Remove(s, p) \/ UNCHANGED <<store, removed>>
    /\ Enter(s, "failed")
    /\ left' = [left EXCEPT ![s] = {}]
    /\ UNCHANGED <<born, writerVars, range, due, seen, fetched, count>>

\* reduce, then count(): the answer.
Answer(s) ==
    /\ phase[s] = "read"
    /\ left[s] = {}
    /\ count[s] >= Len(fetched[s])
    /\ Enter(s, "answered")
    /\ UNCHANGED <<store, born, writerVars, range, due, seen, fetched, left, count, removed, faults>>

\* block(20s) expires, the caller hangs up, a query fails or the pod stops:
\* the sweep ends between two deletions.
Abort(s) ==
    /\ phase[s] \in {"reading", "read"}
    /\ Enter(s, "failed")
    /\ left' = [left EXCEPT ![s] = {}]
    /\ UNCHANGED <<store, born, writerVars, range, due, seen, fetched, count, removed, faults>>

-----------------------------------------------------------------------------
\* The collection holds old documents in any state: completed, or left
\* IN_PROCESS by a delivery of long ago.
Init ==
    /\ \E K \in SUBSET Key :
          \E state \in [K -> Terminal \cup {"IN_PROCESS"}] :
              store = {Doc(k, 1, 1, state[k]) : k \in K}
    /\ born = [k \in Key |-> 1]
    /\ key \in [Writer -> Key]
    /\ pc \in [Writer -> {"insert", "claim"}]
    /\ copy = [w \in Writer |-> 0]
    /\ tries = [w \in Writer |-> 0]
    /\ phase = [s \in Sweep |-> "idle"]
    /\ range = [s \in Sweep |-> {}]
    /\ due = [s \in Sweep |-> {}]
    /\ seen = [s \in Sweep |-> {}]
    /\ fetched = [s \in Sweep |-> << >>]
    /\ left = [s \in Sweep |-> {}]
    /\ count = [s \in Sweep |-> 0]
    /\ removed = [s \in Sweep |-> {}]
    /\ faults = 0

WriterStep(w) ==
    \/ Insert(w) \/ Find(w) \/ Send(w) \/ SaveSent(w) \/ Enqueue(w) \/ SaveError(w)
    \/ Claim(w) \/ PublishRetry(w) \/ Release(w)

SweepStep(s) ==
    \/ Fetch(s) \/ EndOfCursor(s) \/ BeginBatch(s) \/ Answer(s)
    \/ \E p \in left[s] : Delete(s, p)

Next ==
    \/ \E w \in Writer : WriterStep(w)
    \/ \E s \in Sweep :
          \/ Begin(s) \/ CursorRestarts(s) \/ SweepStep(s) \/ Abort(s)
          \/ \E p \in left[s] : DeleteFails(s, p)

Spec == Init /\ [][Next]_vars

\* Deliveries and sweeps that have begun go on.
Fairness ==
    /\ \A w \in Writer : WF_vars(WriterStep(w))
    /\ \A s \in Sweep : WF_vars(SweepStep(s))

LiveSpec == Spec /\ Fairness

-----------------------------------------------------------------------------
Record   == [key : Key, gen : Nat, rec : Nat]
Document == [key : Key, gen : Nat, rec : Nat, state : Terminal \cup {"IN_PROCESS"}]

TypeOK ==
    /\ store \subseteq Document
    /\ \A d, e \in store : d.key = e.key => d = e
    /\ born \in [Key -> Nat]
    /\ key \in [Writer -> Key]
    /\ pc \in [Writer -> WriterPc]
    /\ copy \in [Writer -> Nat]
    /\ tries \in [Writer -> 0..MaxTry]
    /\ phase \in [Sweep -> Phase]
    /\ range \in [Sweep -> SUBSET Age]
    /\ due \in [Sweep -> SUBSET Record]
    /\ seen \in [Sweep -> SUBSET Record]
    /\ fetched \in [Sweep -> Seq(Record)]
    /\ left \in [Sweep -> SUBSET Nat]
    /\ count \in [Sweep -> Nat]
    /\ removed \in [Sweep -> SUBSET Record]
    /\ \A s \in Sweep : left[s] \subseteq DOMAIN fetched[s] /\ count[s] <= Len(fetched[s])
    /\ faults \in 0..MaxFaults

(* When a sweep has answered, each record that matched when its query was  *)
(* made, or that it has fetched, is gone: a document of one of them that  *)
(* is there has been put back by a delivery that held a copy of it.        *)
AnsweredSweepLeavesNothing ==
    \A s \in Sweep : phase[s] = "answered" =>
        (due[s] \cup Range(fetched[s])) \cap Records = {}

(* A sweep removes only documents of the age its filter asks for: not the  *)
(* new document of a key whose old one it has read (delete is by _id).     *)
OnlyMatchingAreRemoved ==
    \A s \in Sweep : \A d \in removed[s] : AgeOf(d) \in range[s]

(* A document IN_PROCESS that a delivery or a manual retry has held is     *)
(* still held by one that works on it, whatever was deleted, inserted anew *)
(* or put back in between: no order of these steps leaves it IN_PROCESS    *)
(* for good, where neither a redelivery nor a manual retry would send it.  *)
InProcessIsHeld ==
    \A d \in store : d.state = "IN_PROCESS" =>
        LET Holder == {w \in Writer : key[w] = d.key /\ copy[w] = d.gen}
        IN  Holder # {} => \E w \in Holder : pc[w] \in Working

(* A delivery is over (its record's offset is committed) only when the     *)
(* collection has its document SENT or ERROR: a deletion between its steps *)
(* makes it insert the document anew, or put it back with its last save,   *)
(* and is never taken for a completed document.                            *)
DeliveryEndsCompleted ==
    [][\A w \in Writer :
          /\ pc[w] \notin {"claim", "release", "done"}
          /\ pc'[w] = "done"
          => \E d \in Of(key[w])' : d.state \in Terminal]_vars

(* deletedCount is exact for a sweep that ran alone and whose cursor was   *)
(* not restarted, however the batches divide and whatever the deliveries   *)
(* do.  Beside another sweep it may count what the other one has removed.  *)
CountIsExactWhenAlone ==
    \A s \in Sweep :
        /\ phase[s] = "answered"
        /\ \A x \in Sweep \ {s} : removed[x] = {}
        /\ IsInjective(fetched[s])
        => count[s] = Cardinality(removed[s])

\* Positions in fetched whose record the sweep has not dealt with yet.
BatchDone(s)   == IF left[s] = {} THEN count[s] ELSE BatchEnd(s)
Outstanding(s) == {i \in DOMAIN fetched[s] : i \in left[s] \/ i > BatchDone(s)}
Active == {"reading", "read", "answered"}

\* Whatever anybody knows of has been stored; a record put back is a new one.
Known(s) == due[s] \cup seen[s] \cup Range(fetched[s]) \cup removed[s]
Numbered ==
    /\ \A d \in store : d.gen \in 1..born[d.key] /\ d.rec <= born[d.key]
    /\ \A w \in Writer :
          /\ copy[w] <= born[key[w]]
          /\ pc[w] \in {"insert", "find", "claim"} => copy[w] = 0
          /\ pc[w] \in Working => copy[w] # 0
    /\ \A s \in Sweep : \A r \in Known(s) : r.rec <= born[r.key]

BatchInv(s) ==
    /\ left[s] \subseteq (count[s] + 1)..BatchEnd(s)
    /\ left[s] # {} => phase[s] = "read" \/ (phase[s] = "reading" /\ FullBatch(s))
    /\ phase[s] = "answered" => left[s] = {} /\ count[s] = Len(fetched[s])

SweepInv(s) ==
    /\ phase[s] = "idle" =>
          fetched[s] = << >> /\ seen[s] = {} /\ removed[s] = {} /\ count[s] = 0
    /\ \A r \in Range(fetched[s]) \cup removed[s] : AgeOf(r) \in range[s]
    /\ seen[s] \subseteq Range(fetched[s])
    /\ phase[s] \in {"read", "answered"} => due[s] \cap Records \subseteq Range(fetched[s])
    /\ phase[s] \in Active =>
          \A i \in DOMAIN fetched[s] : fetched[s][i] \in Records => i \in Outstanding(s)

\* A sweep that is alone has removed what it has dealt with, and nothing else.
Alone(s) == IsInjective(fetched[s]) /\ \A x \in Sweep \ {s} : removed[x] = {}
CountInv(s) ==
    phase[s] \in Active /\ Alone(s) =>
        /\ removed[s] = {fetched[s][i] : i \in DOMAIN fetched[s] \ Outstanding(s)}
        /\ \A i \in Outstanding(s) : fetched[s][i] \in Records

(* The inductive invariant behind the properties of the deletion: what     *)
(* deliveries and sweeps know was stored before, a batch is within what    *)
(* was fetched, and what a sweep has dealt with is gone for good.          *)
IInv ==
    /\ TypeOK /\ Numbered /\ InProcessIsHeld
    /\ \A s \in Sweep : BatchInv(s) /\ SweepInv(s) /\ CountInv(s)

(* What README.md says of deleteMessages: "Returns number of deleted       *)
(* messages", and its comment, that "a single query is executed" so that   *)
(* no "incorrect counts" arise.  A throttled cursor is read anew from its  *)
(* start: a single sweep, alone, counts the same document twice.           *)
DeletedCountIsExact ==
    Cardinality(Sweep) = 1 =>
        \A s \in Sweep : phase[s] = "answered" => count[s] = Cardinality(removed[s])

(* A sweep that has begun ends, with or without an answer, although        *)
(* deliveries add and put back documents while it reads.                   *)
EverySweepEnds ==
    \A s \in Sweep : phase[s] = "reading" ~> phase[s] \in {"answered", "notFound", "failed"}

(* A delivery whose document is deleted on the way still ends: its last    *)
(* save puts the document back.  Unless another delivery has inserted the  *)
(* key anew in between.                                                    *)
EveryChainEnds ==
    \A w \in Writer :
        <>(pc[w] = "done" \/ (copy[w] # 0 /\ \E d \in Of(key[w]) : d.gen # copy[w]))

(* What NotifyErrorProducerServiceImpl says: "Messages exceeding max       *)
(* retries are persisted in state ERROR".  Not when the document was       *)
(* deleted and its key inserted anew: each save is refused, the record is  *)
(* processed again for ever and the TPP notified each time.                *)
ExhaustedIsPersisted ==
    \A w \in Writer : pc[w] = "exhausted" ~> pc[w] = "done"

=============================================================================
