------------------------ MODULE MessageDeletion_proofs ------------------------
(* What a sweep leaves, removes and counts, and that no document is left   *)
(* IN_PROCESS by nobody: for any number of keys, deliveries, manual        *)
(* retries and sweeps, every batch size, retry limit and number of faults. *)
EXTENDS MessageDeletion, FiniteSetTheorems, TLAPS

(* Nothing has been fetched and nobody holds a copy at the start.          *)
LEMMA InitIInv == Init => IInv
<1> SUFFICES ASSUME Init PROVE IInv
  OBVIOUS
<1> USE MessageDeletionAssumption DEF MessageDeletionAssumption
<1>1. PICK K \in SUBSET Key :
         \E state \in [K -> Terminal \cup {"IN_PROCESS"}] :
             store = {Doc(k, 1, 1, state[k]) : k \in K}
  BY DEF Init
<1>2. PICK state \in [K -> Terminal \cup {"IN_PROCESS"}] :
         store = {Doc(k, 1, 1, state[k]) : k \in K}
  BY <1>1
<1>3. store \subseteq Document /\ \A d, e \in store : d.key = e.key => d = e
  BY <1>2 DEF Doc, Document
<1>4. \A d \in store : d.gen = 1 /\ d.rec = 1
  BY <1>2 DEF Doc
<1>5. TypeOK
  BY <1>3 DEF Init, TypeOK, WriterPc, Working, Phase, Record
<1>6. Numbered
  BY <1>3, <1>4 DEF Init, Numbered, Working, Known, Range, Document
<1>7. InProcessIsHeld
  BY <1>4 DEF Init, InProcessIsHeld
<1>8. ASSUME NEW s \in Sweep PROVE BatchInv(s) /\ SweepInv(s) /\ CountInv(s)
  BY DEF Init, BatchInv, SweepInv, CountInv, Range, Active, BatchEnd, FullBatch
<1> QED
  BY <1>5, <1>6, <1>7, <1>8 DEF IInv

-----------------------------------------------------------------------------
(* Writers: deliveries and manual retries.                                 *)

\* The collection after a step of writer w: documents of its key only, still
\* one of each key, and records nobody has known before.
Grows(w) ==
    /\ store' \subseteq Document
    /\ \A d, e \in store' : d.key = e.key => d = e
    /\ \A d \in store' : d.key # key[w] => d \in store
    /\ born' \in [Key -> Nat]
    /\ \A k \in Key : born[k] <= born'[k]
    /\ Records \subseteq Records'
    /\ \A r \in Records' \ Records : r.rec > born[r.key]
    /\ \A d \in store' : d.gen \in 1..born'[d.key] /\ d.rec <= born'[d.key]

(* Nothing stored.                                                         *)
LEMMA SameStoreGrows ==
    ASSUME TypeOK, Numbered, NEW w \in Writer, UNCHANGED <<store, born>>
    PROVE  Grows(w)
  BY DEF Grows, TypeOK, Numbered, Records, Document

(* A change of state only.                                                 *)
LEMMA SetStateGrows ==
    ASSUME TypeOK, Numbered, NEW w \in Writer,
           NEW from, NEW to \in Terminal \cup {"IN_PROCESS"},
           store' = SetState(key[w], from, to), UNCHANGED born
    PROVE  Grows(w)
<1> DEFINE New(d) == IF d.key = key[w] /\ d.state = from THEN [d EXCEPT !.state = to] ELSE d
<1>1. store' = {New(d) : d \in store}
  BY DEF SetState
<1>2. ASSUME NEW d \in store
      PROVE  /\ New(d) \in Document /\ RecordOf(New(d)) = RecordOf(d)
             /\ New(d).key = d.key /\ New(d).gen = d.gen /\ New(d).rec = d.rec
             /\ d.key # key[w] => New(d) = d
  <2>1. d \in Document
    BY DEF TypeOK
  <2> QED
    BY <2>1 DEF Document, RecordOf
<1> HIDE DEF New
<1>3. store' \subseteq Document
  BY <1>1, <1>2
<1>4. \A d, e \in store' : d.key = e.key => d = e
  BY <1>1, <1>2 DEF TypeOK
<1>5. Records' = Records
  BY <1>1, <1>2 DEF Records
<1>6. \A d \in store' : d.gen \in 1..born'[d.key] /\ d.rec <= born'[d.key]
  BY <1>1, <1>2 DEF Numbered
<1>7. \A d \in store' : d.key # key[w] => d \in store
  BY <1>1, <1>2
<1> QED
  BY <1>3, <1>4, <1>5, <1>6, <1>7 DEF Grows, TypeOK

(* A new record of a key that has no document.                             *)
LEMMA AddGrows ==
    ASSUME TypeOK, Numbered, NEW w \in Writer, NEW k \in Key, k = key[w], Of(k) = {},
           NEW g \in 1..(born[k] + 1), NEW state \in Terminal \cup {"IN_PROCESS"},
           store' = store \cup {Doc(k, g, born[k] + 1, state)},
           born' = [born EXCEPT ![k] = born[k] + 1]
    PROVE  Grows(w)
<1> DEFINE d0 == Doc(k, g, born[k] + 1, state)
<1>1. born[k] \in Nat /\ born' \in [Key -> Nat]
  BY DEF TypeOK
<1>2. d0 \in Document /\ d0.key = k /\ d0.gen = g /\ d0.rec = born[k] + 1
  BY <1>1 DEF Doc, Document
<1>3. RecordOf(d0).key = k /\ RecordOf(d0).rec = born[k] + 1
  BY <1>2 DEF RecordOf
<1> HIDE DEF d0
<1>4. store' = store \cup {d0}
  BY DEF d0
<1>5. \A d \in store : d.key # k
  BY DEF Of
<1>6. store' \subseteq Document
  BY <1>2, <1>4 DEF TypeOK
<1>7. \A d, e \in store' : d.key = e.key => d = e
  BY <1>2, <1>4, <1>5 DEF TypeOK
<1>8. Records' = Records \cup {RecordOf(d0)}
  BY <1>4 DEF Records
<1>9. \A d \in store' : d.gen \in 1..born'[d.key] /\ d.rec <= born'[d.key]
  <2> SUFFICES ASSUME NEW d \in store'
               PROVE  d.gen \in 1..born'[d.key] /\ d.rec <= born'[d.key]
    OBVIOUS
  <2>1. CASE d = d0
    BY <2>1, <1>1, <1>2 DEF TypeOK
  <2>2. CASE d \in store
    BY <2>2, <1>5 DEF TypeOK, Numbered, Document
  <2> QED
    BY <2>1, <2>2, <1>4
<1>10. \A x \in Key : born[x] <= born'[x]
  BY <1>1 DEF TypeOK
<1>11. \A r \in Records' \ Records : r.rec > born[r.key]
  BY <1>1, <1>3, <1>8
<1>12. Records \subseteq Records'
  BY <1>8
<1>13. \A d \in store' : d.key # key[w] => d \in store
  BY <1>2, <1>4
<1> QED
  BY <1>1, <1>6, <1>7, <1>9, <1>10, <1>11, <1>12, <1>13 DEF Grows

(* save() of a copy that is not refused.                                   *)
LEMMA PutGrows ==
    ASSUME TypeOK, Numbered, NEW w \in Writer, pc[w] \in Working, ~Refused(w),
           NEW state \in Terminal, Put(w, state)
    PROVE  Grows(w) /\ \A d \in store' : d.key = key[w] => d.state = state
<1>1. key[w] \in Key /\ born[key[w]] \in Nat /\ copy[w] \in 1..born[key[w]]
  BY DEF TypeOK, Numbered
<1>2. CASE Of(key[w]) = {}
  <2>1. /\ store' = store \cup {Doc(key[w], copy[w], born[key[w]] + 1, state)}
        /\ born' = [born EXCEPT ![key[w]] = born[key[w]] + 1]
    BY <1>2 DEF Put
  <2>2. copy[w] \in 1..(born[key[w]] + 1) /\ state \in Terminal \cup {"IN_PROCESS"}
    BY <1>1
  <2>4. Grows(w)
    BY <1>1, <1>2, <2>1, <2>2, AddGrows
  <2>3. \A d \in store' : d.key = key[w] => d.state = state
    BY <1>2, <2>1 DEF Of, Doc
  <2> QED
    BY <2>3, <2>4
<1>3. CASE Of(key[w]) # {}
  <2> DEFINE New(d) == IF d.key = key[w] THEN [d EXCEPT !.state = state] ELSE d
  <2>1. store' = {New(d) : d \in store} /\ UNCHANGED born
    BY <1>3 DEF Put
  <2>2. ASSUME NEW d \in store
        PROVE  /\ New(d) \in Document /\ RecordOf(New(d)) = RecordOf(d)
               /\ New(d).key = d.key /\ New(d).gen = d.gen /\ New(d).rec = d.rec
               /\ d.key = key[w] => New(d).state = state
               /\ d.key # key[w] => New(d) = d
    <3>1. d \in Document
      BY DEF TypeOK
    <3> QED
      BY <3>1 DEF Document, RecordOf
  <2> HIDE DEF New
  <2>3. store' \subseteq Document
    BY <2>1, <2>2
  <2>4. \A d, e \in store' : d.key = e.key => d = e
    BY <2>1, <2>2 DEF TypeOK
  <2>5. Records' = Records
    BY <2>1, <2>2 DEF Records
  <2>6. \A d \in store' : d.gen \in 1..born'[d.key] /\ d.rec <= born'[d.key]
    BY <2>1, <2>2 DEF Numbered
  <2>7. \A d \in store' : d.key = key[w] => d.state = state
    BY <2>1, <2>2
  <2>8. \A d \in store' : d.key # key[w] => d \in store
    BY <2>1, <2>2
  <2> QED
    BY <2>1, <2>3, <2>4, <2>5, <2>6, <2>7, <2>8 DEF Grows, TypeOK
<1> QED
  BY <1>2, <1>3

\* What a step of a delivery or of a manual retry does to what it knows.
Knows(w, next, c, n) ==
    /\ pc' = [pc EXCEPT ![w] = next] /\ next \in WriterPc
    /\ copy' = [copy EXCEPT ![w] = c] /\ c \in 0..born'[key[w]]
    /\ next \in {"insert", "find", "claim"} => c = 0
    /\ next \in Working => c # 0
    /\ tries' = [tries EXCEPT ![w] = n] /\ n \in 0..MaxTry
    /\ UNCHANGED <<key, sweepVars, faults>>

\* A document IN_PROCESS of its key: w works on it from now on, or it is as it
\* was and w had and has no copy of it.
Keeps(w, next, c) ==
    \A d \in store' : d.key = key[w] /\ d.state = "IN_PROCESS" =>
        \/ c = d.gen /\ next \in Working
        \/ c # d.gen /\ copy[w] # d.gen /\ d \in store

Does(w) == \E next \in WriterPc, c \in Nat, n \in 0..MaxTry :
               Knows(w, next, c, n) /\ Keeps(w, next, c)

(* The same copy, the collection as it was.                                *)
LEMMA StepDoes ==
    ASSUME TypeOK, Numbered, NEW w \in Writer, NEW next \in Working, pc[w] \in Working,
           Step(w, next), UNCHANGED <<store, born, copy>>,
           NEW n \in 0..MaxTry, tries' = [tries EXCEPT ![w] = n]
    PROVE  Grows(w) /\ Does(w)
<1>1. key[w] \in Key /\ copy[w] \in Nat /\ born[key[w]] \in Nat
  BY DEF TypeOK
<1>2. Knows(w, next, copy[w], n)
  BY <1>1 DEF Knows, Step, TypeOK, Numbered, WriterPc, Working
<1>3. Keeps(w, next, copy[w])
  BY DEF Keeps
<1>4. Grows(w)
  BY SameStoreGrows
<1> QED
  BY <1>1, <1>2, <1>3, <1>4 DEF Does, WriterPc

(* A save: nothing of its key is left IN_PROCESS, unless it is refused.    *)
LEMMA SaveDoes ==
    ASSUME TypeOK, Numbered, NEW w \in Writer, pc[w] \in Working, ~Refused(w),
           NEW state \in Terminal, Put(w, state), Step(w, "done"), UNCHANGED <<copy, tries>>
    PROVE  Grows(w) /\ Does(w)
<1>1. Grows(w) /\ \A d \in store' : d.key = key[w] => d.state = state
  BY PutGrows
<1>2. key[w] \in Key /\ copy[w] \in Nat /\ born[key[w]] \in Nat /\ born'[key[w]] \in Nat
      /\ tries[w] \in 0..MaxTry
  BY <1>1 DEF TypeOK, Grows
<1>3. copy[w] \in 0..born'[key[w]]
  BY <1>1, <1>2 DEF Grows, Numbered
<1>4. Knows(w, "done", copy[w], tries[w])
  BY <1>2, <1>3 DEF Knows, Step, TypeOK, WriterPc, Working
<1>5. Keeps(w, "done", copy[w])
  BY <1>1 DEF Keeps, Terminal
<1> QED
  BY <1>1, <1>2, <1>4, <1>5 DEF Does, WriterPc

(* Every step of a delivery or of a manual retry.                          *)
LEMMA WriterDoes ==
    ASSUME TypeOK, Numbered, NEW w \in Writer, WriterStep(w)
    PROVE  Grows(w) /\ Does(w)
<1> USE MessageDeletionAssumption DEF MessageDeletionAssumption
<1>1. /\ key[w] \in Key /\ copy[w] \in Nat /\ tries[w] \in 0..MaxTry
      /\ born[key[w]] \in Nat /\ copy[w] <= born[key[w]]
      /\ pc[w] \in {"insert", "find", "claim"} => copy[w] = 0
      /\ pc[w] \in Working => copy[w] # 0
      /\ copy = [copy EXCEPT ![w] = copy[w]] /\ tries = [tries EXCEPT ![w] = tries[w]]
  BY DEF TypeOK, Numbered
<1>2. \A d \in store : /\ d \in Document /\ d.gen \in 1..born[d.key]
                       /\ \A e \in store : d.key = e.key => d = e
  BY DEF TypeOK, Numbered
<1>3. CASE Insert(w) /\ Of(key[w]) # {}
  <2>1. Knows(w, "find", 0, tries[w])
    BY <1>1, <1>3 DEF Insert, Step, Knows, WriterPc, Working
  <2>2. Keeps(w, "find", 0)
    BY <1>1, <1>2, <1>3 DEF Insert, Keeps
  <2> QED
    BY <1>1, <1>3, <2>1, <2>2, SameStoreGrows DEF Insert, Does, WriterPc
<1>4. CASE Insert(w) /\ Of(key[w]) = {}
  <2> DEFINE n == born[key[w]] + 1
  <2>1. /\ store' = store \cup {Doc(key[w], n, n, "IN_PROCESS")}
        /\ born' = [born EXCEPT ![key[w]] = n]
        /\ copy' = [copy EXCEPT ![w] = n]
        /\ Step(w, "send") /\ UNCHANGED tries
    BY <1>4 DEF Insert
  <2>2. n \in 1..(born[key[w]] + 1) /\ born'[key[w]] = n
    BY <1>1, <2>1 DEF TypeOK
  <2>3. Grows(w)
    <3>1. "IN_PROCESS" \in Terminal \cup {"IN_PROCESS"}
      OBVIOUS
    <3> QED
      BY <1>1, <1>4, <2>1, <2>2, <3>1, AddGrows
  <2>4. Knows(w, "send", n, tries[w])
    BY <1>1, <2>1, <2>2 DEF Step, Knows, WriterPc, Working
  <2>5. Keeps(w, "send", n)
    BY <1>4, <2>1 DEF Keeps, Of, Doc, Working
  <2> QED
    BY <1>1, <2>3, <2>4, <2>5 DEF Does, WriterPc, Working
<1>5. CASE Find(w) /\ Of(key[w]) = {}
  <2>1. Knows(w, "insert", 0, tries[w])
    BY <1>1, <1>5 DEF Find, Step, Knows, WriterPc, Working
  <2>2. Keeps(w, "insert", 0)
    BY <1>1, <1>5 DEF Find, Keeps, Of
  <2> QED
    BY <1>1, <1>5, <2>1, <2>2, SameStoreGrows DEF Find, Does, WriterPc
<1>6. CASE Find(w) /\ Of(key[w]) # {}
  <2>1. PICK d \in Of(key[w]) :
               IF d.state \in Terminal
               THEN Step(w, "done") /\ UNCHANGED copy
               ELSE Step(w, "send") /\ copy' = [copy EXCEPT ![w] = d.gen]
    BY <1>6 DEF Find
  <2>2. d \in store /\ d.key = key[w] /\ d.gen \in 1..born[key[w]]
    BY <1>2 DEF Of
  <2>3. Grows(w) /\ UNCHANGED <<store, born, tries>>
    BY <1>6, SameStoreGrows DEF Find
  <2>4. CASE d.state \in Terminal
    <3>1. Knows(w, "done", 0, tries[w])
      BY <1>1, <1>6, <2>1, <2>3, <2>4 DEF Find, Step, Knows, WriterPc, Working
    <3>2. Keeps(w, "done", 0)
      BY <1>2, <2>2, <2>3, <2>4 DEF Keeps, Terminal
    <3> QED
      BY <1>1, <2>3, <3>1, <3>2 DEF Does, WriterPc
  <2>5. CASE d.state \notin Terminal
    <3>1. Knows(w, "send", d.gen, tries[w])
      BY <1>1, <2>1, <2>2, <2>3, <2>5 DEF Step, Knows, WriterPc, Working
    <3>2. Keeps(w, "send", d.gen)
      BY <1>2, <2>2, <2>3 DEF Keeps, Working
    <3> QED
      BY <1>1, <2>2, <2>3, <3>1, <3>2 DEF Does, WriterPc, Working
  <2> QED
    BY <2>4, <2>5
<1>7. CASE Send(w)
  <2>1. PICK next \in {"save", "enqueue"} : Step(w, next)
    BY <1>7 DEF Send
  <2> QED
    BY <1>1, <1>7, <2>1, StepDoes DEF Send, Working
<1>8. CASE SaveSent(w)
  <2>1. CASE Refused(w)
    BY <1>1, <1>8, <2>1, StepDoes DEF SaveSent, Working
  <2>2. CASE ~Refused(w)
    BY <1>1, <1>8, <2>2, SaveDoes DEF SaveSent, Working, Terminal
  <2> QED
    BY <2>1, <2>2
<1>9. CASE Enqueue(w)
  <2>1. CASE tries[w] + 1 > MaxTry
    BY <1>1, <1>9, <2>1, StepDoes DEF Enqueue, Working
  <2>2. CASE ~(tries[w] + 1 > MaxTry)
    <3>1. tries[w] + 1 \in 0..MaxTry /\ tries' = [tries EXCEPT ![w] = tries[w] + 1]
      BY <1>1, <1>9, <2>2 DEF Enqueue
    <3> QED
      BY <1>1, <1>9, <2>2, <3>1, StepDoes DEF Enqueue, Working
  <2> QED
    BY <2>1, <2>2
<1>10. CASE SaveError(w)
  <2>1. CASE Refused(w)
    BY <1>1, <1>10, <2>1, StepDoes DEF SaveError, Working
  <2>2. CASE ~Refused(w)
    BY <1>1, <1>10, <2>2, SaveDoes DEF SaveError, Working, Terminal
  <2> QED
    BY <2>1, <2>2
<1>11. CASE Claim(w)
  <2>0. pc[w] = "claim" /\ copy[w] = 0 /\ UNCHANGED <<born, tries>>
    BY <1>1, <1>11 DEF Claim
  <2>1. CASE Step(w, "done") /\ UNCHANGED <<store, copy>>
    <3>1. Knows(w, "done", 0, tries[w])
      BY <1>1, <2>0, <2>1 DEF Step, Knows, WriterPc, Working
    <3>2. Keeps(w, "done", 0)
      BY <1>2, <2>0, <2>1 DEF Keeps
    <3> QED
      BY <1>1, <2>0, <2>1, <3>1, <3>2, SameStoreGrows DEF Does, WriterPc
  <2>2. CASE \E d \in Of(key[w]) :
                /\ d.state = "ERROR"
                /\ store' = SetState(key[w], "ERROR", "IN_PROCESS")
                /\ copy' = [copy EXCEPT ![w] = d.gen]
                /\ Step(w, "publish")
    <3>1. PICK d \in Of(key[w]) :
                /\ d.state = "ERROR"
                /\ store' = SetState(key[w], "ERROR", "IN_PROCESS")
                /\ copy' = [copy EXCEPT ![w] = d.gen]
                /\ Step(w, "publish")
      BY <2>2
    <3>2. d \in store /\ d.key = key[w] /\ d.gen \in 1..born[key[w]]
      BY <1>2 DEF Of
    <3>3. Grows(w)
      BY <2>0, <3>1, SetStateGrows
    <3>4. Knows(w, "publish", d.gen, tries[w])
      BY <1>1, <2>0, <3>1, <3>2 DEF Step, Knows, WriterPc, Working
    <3>5. \A e \in store' : e.key = key[w] => e.gen = d.gen
      <4>1. ASSUME NEW x \in store
            PROVE  [x EXCEPT !.state = "IN_PROCESS"].key = x.key
                   /\ [x EXCEPT !.state = "IN_PROCESS"].gen = x.gen
        BY <1>2 DEF Document
      <4>2. ASSUME NEW e \in store', e.key = key[w] PROVE e.gen = d.gen
        <5>1. PICK x \in store : e = IF x.key = key[w] /\ x.state = "ERROR"
                                     THEN [x EXCEPT !.state = "IN_PROCESS"] ELSE x
          BY <3>1 DEF SetState
        <5>2. e.key = x.key /\ e.gen = x.gen
          BY <4>1, <5>1
        <5> QED
          BY <1>2, <3>2, <4>2, <5>2
      <4> QED
        BY <4>2
    <3>6. Keeps(w, "publish", d.gen)
      BY <3>5 DEF Keeps, Working
    <3> QED
      BY <1>1, <3>2, <3>3, <3>4, <3>6 DEF Does, WriterPc, Working
  <2> QED
    BY <1>11, <2>1, <2>2 DEF Claim
<1>12. CASE PublishRetry(w)
  <2>1. PICK next \in {"send", "release"} : Step(w, next)
    BY <1>12 DEF PublishRetry
  <2> QED
    BY <1>1, <1>12, <2>1, StepDoes DEF PublishRetry, Working
<1>13. CASE Release(w)
  <2>1. /\ store' = SetState(key[w], "IN_PROCESS", "ERROR")
        /\ Step(w, "done") /\ UNCHANGED <<born, copy, tries>>
    BY <1>13 DEF Release
  <2>2. Grows(w)
    BY <2>1, SetStateGrows DEF Terminal
  <2>3. Knows(w, "done", copy[w], tries[w])
    BY <1>1, <2>1 DEF Step, Knows, WriterPc, Working
  <2>4. Keeps(w, "done", copy[w])
    BY <1>2, <2>1 DEF SetState, Keeps, Document
  <2> QED
    BY <1>1, <2>2, <2>3, <2>4 DEF Does, WriterPc
<1> QED
  BY <1>3, <1>4, <1>5, <1>6, <1>7, <1>8, <1>9, <1>10, <1>11, <1>12, <1>13 DEF WriterStep

(* The writers' part of the invariant: the copies are of what was stored,  *)
(* and what is IN_PROCESS is held by one who works on it.                  *)
LEMMA WriterInv ==
    ASSUME TypeOK, Numbered, InProcessIsHeld, NEW w \in Writer, Grows(w), Does(w)
    PROVE  TypeOK' /\ Numbered' /\ InProcessIsHeld'
<1>1. PICK next \in WriterPc, c \in Nat, n \in 0..MaxTry :
          Knows(w, next, c, n) /\ Keeps(w, next, c)
  BY DEF Does
<1>2. TypeOK'
  BY <1>1 DEF TypeOK, Grows, Knows, sweepVars
<1>3. \A x \in Writer : /\ key[x] \in Key /\ born[key[x]] <= born'[key[x]]
                        /\ born[key[x]] \in Nat /\ born'[key[x]] \in Nat /\ copy[x] \in Nat
                        /\ copy'[x] = (IF x = w THEN c ELSE copy[x])
                        /\ pc'[x] = (IF x = w THEN next ELSE pc[x])
                        /\ key'[x] = key[x]
  BY <1>1 DEF TypeOK, Grows, Knows
<1>4. Numbered'
  <2>1. \A d \in store' : d.gen \in 1..born'[d.key] /\ d.rec <= born'[d.key]
    BY DEF Grows
  <2>2. \A x \in Writer :
          /\ copy'[x] <= born'[key'[x]]
          /\ pc'[x] \in {"insert", "find", "claim"} => copy'[x] = 0
          /\ pc'[x] \in Working => copy'[x] # 0
    BY <1>1, <1>3 DEF Numbered, Knows
  <2>3. ASSUME NEW s \in Sweep, NEW r \in Known(s)'
        PROVE  r.rec <= born'[r.key]
    <3>1. r \in Known(s)
      BY <1>1, <2>3 DEF Known, Knows, sweepVars
    <3>2. r \in Record
      BY <3>1 DEF Known, TypeOK, Range
    <3> QED
      BY <3>1, <3>2 DEF Numbered, Grows, TypeOK, Record
  <2> QED
    BY <2>1, <2>2, <2>3 DEF Numbered
<1>5. InProcessIsHeld'
  <2> SUFFICES ASSUME NEW d \in store', d.state = "IN_PROCESS",
                      NEW y \in Writer, key'[y] = d.key, copy'[y] = d.gen
               PROVE  \E x \in Writer : key'[x] = d.key /\ copy'[x] = d.gen /\ pc'[x] \in Working
    BY DEF InProcessIsHeld
  <2>1. CASE d.key # key[w]
    <3>1. d \in store /\ y # w
      BY <1>3, <2>1 DEF Grows
    <3>2. PICK x \in Writer : key[x] = d.key /\ copy[x] = d.gen /\ pc[x] \in Working
      BY <1>3, <3>1 DEF InProcessIsHeld
    <3> QED
      BY <1>3, <2>1, <3>2
  <2>2. CASE d.key = key[w] /\ c = d.gen /\ next \in Working
    BY <1>3, <2>2
  <2>3. CASE d.key = key[w] /\ c # d.gen /\ copy[w] # d.gen /\ d \in store
    <3>1. y # w
      BY <1>3, <2>3
    <3>2. PICK x \in Writer : key[x] = d.key /\ copy[x] = d.gen /\ pc[x] \in Working
      BY <1>3, <2>3, <3>1 DEF InProcessIsHeld
    <3> QED
      BY <1>3, <2>3, <3>2
  <2> QED
    BY <1>1, <2>1, <2>2, <2>3 DEF Keeps
<1> QED
  BY <1>2, <1>4, <1>5

(* The sweeps' part: what is stored anew is a record no sweep knows.       *)
LEMMA SweepsUnderWriter ==
    ASSUME TypeOK, Numbered, NEW w \in Writer, Grows(w), UNCHANGED sweepVars,
           NEW s \in Sweep, BatchInv(s), SweepInv(s), CountInv(s)
    PROVE  BatchInv(s)' /\ SweepInv(s)' /\ CountInv(s)'
<1>1. Known(s) \cap Records' \subseteq Records
  <2> SUFFICES ASSUME NEW r \in Known(s), r \in Records', r \notin Records PROVE FALSE
    OBVIOUS
  <2>1. r \in Record
    BY DEF Known, TypeOK, Range
  <2> QED
    BY <2>1 DEF Grows, Numbered, TypeOK, Record
<1>2. /\ phase' = phase /\ range' = range /\ due' = due /\ seen' = seen
      /\ fetched' = fetched /\ left' = left /\ count' = count /\ removed' = removed
  BY DEF sweepVars
<1>3. BatchInv(s)'
  BY <1>2 DEF BatchInv, BatchEnd, FullBatch
<1>4. Outstanding(s)' = Outstanding(s) /\ Alone(s)' = Alone(s)
  BY <1>2 DEF Outstanding, BatchDone, BatchEnd, Alone
<1>5. SweepInv(s)'
  <2>1. due[s] \cap Records' \subseteq due[s] \cap Records
    BY <1>1 DEF Known
  <2>2. \A i \in DOMAIN fetched[s] : fetched[s][i] \in Records' => fetched[s][i] \in Records
    BY <1>1 DEF Known, Range
  <2> QED
    BY <1>2, <1>4, <2>1, <2>2 DEF SweepInv, AgeOf
<1>6. CountInv(s)'
  BY <1>2, <1>4 DEF CountInv, Grows
<1> QED
  BY <1>3, <1>5, <1>6

-----------------------------------------------------------------------------
(* Sweeps.                                                                 *)

\* What a step of sweep s leaves alone: it adds nothing to the collection, and
\* what it takes out of it it counts as removed.
Sweeps(s) ==
    /\ store' \subseteq store /\ UNCHANGED <<born, writerVars>>
    /\ store' = store \/ removed'[s] # {}
    /\ removed[s] \subseteq removed'[s]
    /\ \A x \in Sweep \ {s} :
          /\ phase'[x] = phase[x] /\ range'[x] = range[x] /\ due'[x] = due[x]
          /\ seen'[x] = seen[x] /\ fetched'[x] = fetched[x] /\ left'[x] = left[x]
          /\ count'[x] = count[x] /\ removed'[x] = removed[x]
    /\ Known(s)' \subseteq Known(s) \cup Records

(* The writers' part of the invariant, and what is known.                  *)
LEMMA WritersUnderSweep ==
    ASSUME TypeOK, Numbered, InProcessIsHeld, NEW s \in Sweep, Sweeps(s)
    PROVE  Numbered' /\ InProcessIsHeld'
<1>1. \A d \in store' : d.gen \in 1..born'[d.key] /\ d.rec <= born'[d.key]
  BY DEF Sweeps, Numbered
<1>2. \A w \in Writer : /\ copy'[w] <= born'[key'[w]]
                        /\ pc'[w] \in {"insert", "find", "claim"} => copy'[w] = 0
                        /\ pc'[w] \in Working => copy'[w] # 0
  BY DEF Sweeps, Numbered, writerVars
<1>3. ASSUME NEW x \in Sweep, NEW r \in Known(x)' PROVE r.rec <= born'[r.key]
  <2>1. CASE x = s
    <3>1. r \in Known(s) \/ \E d \in store : r.key = d.key /\ r.rec = d.rec
      BY <1>3, <2>1 DEF Sweeps, Records, RecordOf
    <3> QED
      BY <3>1 DEF Sweeps, Numbered
  <2>2. CASE x # s
    BY <1>3, <2>2 DEF Sweeps, Known, Numbered
  <2> QED
    BY <2>1, <2>2
<1>4. Numbered'
  BY <1>1, <1>2, <1>3 DEF Numbered
<1>5. InProcessIsHeld'
  BY DEF Sweeps, InProcessIsHeld, writerVars
<1> QED
  BY <1>4, <1>5

(* Another sweep: it has been alone only if nothing has been removed.      *)
LEMMA OthersUnderSweep ==
    ASSUME NEW s \in Sweep, Sweeps(s), NEW x \in Sweep, x # s,
           BatchInv(x), SweepInv(x), CountInv(x)
    PROVE  BatchInv(x)' /\ SweepInv(x)' /\ CountInv(x)'
<1>1. /\ phase'[x] = phase[x] /\ range'[x] = range[x] /\ due'[x] = due[x]
      /\ seen'[x] = seen[x] /\ fetched'[x] = fetched[x] /\ left'[x] = left[x]
      /\ count'[x] = count[x] /\ removed'[x] = removed[x]
  BY DEF Sweeps
<1>2. Records' \subseteq Records
  BY DEF Sweeps, Records
<1>3. BatchInv(x)'
  BY <1>1 DEF BatchInv, BatchEnd, FullBatch
<1>4. Outstanding(x)' = Outstanding(x)
  BY <1>1 DEF Outstanding, BatchDone, BatchEnd
<1>5. SweepInv(x)'
  BY <1>1, <1>2, <1>4 DEF SweepInv, AgeOf
<1>6. CountInv(x)'
  <2> SUFFICES ASSUME phase'[x] \in Active, Alone(x)' PROVE CountInv(x)'
    BY DEF CountInv, Active
  <2>1. removed'[s] = {} /\ Records' = Records
    BY DEF Alone, Sweeps, Records
  <2>2. Alone(x)
    BY <1>1, <2>1 DEF Alone, Sweeps
  <2> QED
    BY <1>1, <1>4, <2>1, <2>2 DEF CountInv
<1> QED
  BY <1>3, <1>5, <1>6

\* The sweep's own part of the invariant after its step.
Own(s) == BatchInv(s)' /\ SweepInv(s)' /\ CountInv(s)'

(* The type of what a sweep keeps, of s alone.                             *)
LEMMA SweepTypes ==
    ASSUME TypeOK, NEW s \in Sweep
    PROVE  /\ phase[s] \in Phase /\ range[s] \subseteq Age
           /\ due[s] \subseteq Record /\ seen[s] \subseteq Record
           /\ fetched[s] \in Seq(Record) /\ DOMAIN fetched[s] = 1..Len(fetched[s])
           /\ Len(fetched[s]) \in Nat /\ count[s] \in 0..Len(fetched[s])
           /\ left[s] \subseteq 1..Len(fetched[s]) /\ removed[s] \subseteq Record
           /\ Range(fetched[s]) \subseteq Record
<1>1. fetched[s] \in Seq(Record) /\ left[s] \subseteq DOMAIN fetched[s]
      /\ count[s] \in Nat /\ count[s] <= Len(fetched[s])
  BY DEF TypeOK
<1>2. phase[s] \in Phase /\ range[s] \subseteq Age /\ due[s] \subseteq Record
      /\ seen[s] \subseteq Record /\ removed[s] \subseteq Record
  BY DEF TypeOK
<1> QED
  BY <1>1, <1>2 DEF Range

(* The end of a batch is within what was fetched.                          *)
LEMMA BatchEnds ==
    ASSUME TypeOK, NEW s \in Sweep
    PROVE  BatchEnd(s) \in count[s]..Len(fetched[s])
  BY SweepTypes, MessageDeletionAssumption DEF MessageDeletionAssumption, BatchEnd

(* The query is subscribed.                                                *)
LEMMA BeginOwn ==
    ASSUME TypeOK, NEW s \in Sweep, BatchInv(s), SweepInv(s), CountInv(s), Begin(s)
    PROVE  TypeOK' /\ Sweeps(s) /\ Own(s)
<1>1. PICK ages \in SUBSET Age \ {{}} : /\ range' = [range EXCEPT ![s] = ages]
                                       /\ due' = [due EXCEPT ![s] = Matching(ages)]
  BY DEF Begin
<1>2. phase[s] = "idle" /\ phase' = [phase EXCEPT ![s] = "reading"]
      /\ UNCHANGED <<store, born, writerVars, seen, fetched, left, count, removed, faults>>
  BY DEF Begin, Enter
<1>3. Matching(ages) \subseteq Records /\ Records \subseteq Record
  BY DEF Matching, TypeOK, Records, RecordOf, Document, Record
<1>4. TypeOK'
  BY <1>1, <1>2, <1>3 DEF TypeOK, Phase, writerVars
<1>5. phase'[s] = "reading" /\ due'[s] = Matching(ages)
  BY <1>1, <1>2 DEF TypeOK
<1>6. Sweeps(s)
  BY <1>1, <1>2, <1>3, <1>5 DEF Sweeps, Known
<1>7. fetched[s] = << >> /\ seen[s] = {} /\ removed[s] = {} /\ count[s] = 0 /\ left[s] = {}
  BY <1>2, SweepTypes DEF SweepInv
<1>8. /\ fetched'[s] = << >> /\ seen'[s] = {} /\ removed'[s] = {}
      /\ count'[s] = 0 /\ left'[s] = {} /\ DOMAIN fetched'[s] = {}
  BY <1>2, <1>7
<1>9. BatchInv(s)'
  BY <1>5, <1>8 DEF BatchInv
<1>10. SweepInv(s)'
  BY <1>5, <1>8 DEF SweepInv, Range
<1>11. CountInv(s)'
  BY <1>8 DEF CountInv, Outstanding
<1> QED
  BY <1>4, <1>6, <1>9, <1>10, <1>11 DEF Own

(* One more record, which is still to delete.                              *)
LEMMA FetchOwn ==
    ASSUME TypeOK, NEW s \in Sweep, BatchInv(s), SweepInv(s), CountInv(s), Fetch(s)
    PROVE  TypeOK' /\ Sweeps(s) /\ Own(s)
<1> USE MessageDeletionAssumption DEF MessageDeletionAssumption
<1> DEFINE f == fetched[s]
           n == Len(fetched[s])
<1>1. PICK d \in Matching(range[s]) \ seen[s] :
          /\ seen' = [seen EXCEPT ![s] = @ \cup {d}]
          /\ fetched' = [fetched EXCEPT ![s] = Append(@, d)]
  BY DEF Fetch
<1>2. phase[s] = "reading"
      /\ UNCHANGED <<store, born, writerVars, phase, range, due, left, count, removed, faults>>
  BY DEF Fetch
<1>3. d \in Records /\ d \in Record /\ AgeOf(d) \in range[s]
  BY DEF Matching, TypeOK, Records, RecordOf, Document, Record
<1>4. /\ f \in Seq(Record) /\ n \in Nat /\ count[s] \in 0..n /\ DOMAIN f = 1..n
      /\ left[s] \subseteq 1..n
  BY SweepTypes
<1>5. fetched'[s] = Append(f, d) /\ seen'[s] = seen[s] \cup {d}
  BY <1>1 DEF TypeOK
<1>6. /\ Append(f, d) \in Seq(Record) /\ Len(fetched'[s]) = n + 1
      /\ DOMAIN fetched'[s] = 1..(n + 1)
      /\ \A i \in 1..n : fetched'[s][i] = f[i]
      /\ fetched'[s][n + 1] = d
  BY <1>3, <1>4, <1>5
<1>7. TypeOK'
  <2>1. fetched' \in [Sweep -> Seq(Record)] /\ seen' \in [Sweep -> SUBSET Record]
    BY <1>1, <1>3, <1>6 DEF TypeOK
  <2>2. \A x \in Sweep : left'[x] \subseteq DOMAIN fetched'[x] /\ count'[x] <= Len(fetched'[x])
    <3> SUFFICES ASSUME NEW x \in Sweep
                 PROVE  left'[x] \subseteq DOMAIN fetched'[x] /\ count'[x] <= Len(fetched'[x])
      OBVIOUS
    <3>1. CASE x = s
      BY <1>2, <1>4, <1>6, <3>1
    <3>2. CASE x # s
      BY <1>1, <1>2, <3>2 DEF TypeOK
    <3> QED
      BY <3>1, <3>2
  <2> QED
    BY <1>2, <2>1, <2>2 DEF TypeOK, writerVars
<1>8. Range(fetched'[s]) = Range(f) \cup {d}
  BY <1>4, <1>6 DEF Range
<1>9. Sweeps(s)
  BY <1>1, <1>2, <1>3, <1>5, <1>8 DEF Sweeps, Known
<1>10. left[s] # {} => BatchEnd(s) = count[s] + BatchSize /\ BatchEnd(s)' = BatchEnd(s)
                       /\ FullBatch(s)'
  BY <1>2, <1>4, <1>6 DEF BatchInv, BatchEnd, FullBatch
<1>11. BatchInv(s)'
  BY <1>2, <1>10 DEF BatchInv
<1>12. BatchDone(s)' = BatchDone(s) /\ BatchDone(s) \in 0..n
  BY <1>2, <1>4, <1>10, BatchEnds DEF BatchDone
<1>13. Outstanding(s)' = Outstanding(s) \cup {n + 1} /\ Outstanding(s) \subseteq 1..n
  BY <1>2, <1>4, <1>6, <1>12 DEF Outstanding
<1>14. SweepInv(s)'
  <2>1. \A r \in Range(fetched'[s]) \cup removed'[s] : AgeOf(r) \in range'[s]
    BY <1>2, <1>3, <1>8 DEF SweepInv, AgeOf
  <2>2. seen'[s] \subseteq Range(fetched'[s])
    BY <1>5, <1>8 DEF SweepInv
  <2>3. \A i \in DOMAIN fetched'[s] : fetched'[s][i] \in Records' => i \in Outstanding(s)'
    BY <1>2, <1>4, <1>6, <1>13 DEF SweepInv, Active, Records
  <2> QED
    BY <1>2, <2>1, <2>2, <2>3 DEF SweepInv
<1>15. CountInv(s)'
  <2> SUFFICES ASSUME Alone(s)'
               PROVE  /\ removed'[s] = {fetched'[s][i] : i \in DOMAIN fetched'[s] \ Outstanding(s)'}
                      /\ \A i \in Outstanding(s)' : fetched'[s][i] \in Records'
    BY DEF CountInv
  <2>1. Alone(s)
    <3>1. \A i, j \in 1..n : f[i] = f[j] => i = j
      BY <1>4, <1>6 DEF Alone, IsInjective
    <3> QED
      BY <1>2, <1>4, <3>1 DEF Alone, IsInjective
  <2>2. removed[s] = {f[i] : i \in 1..n \ Outstanding(s)} /\ \A i \in Outstanding(s) : f[i] \in Records
    BY <1>2, <1>4, <2>1 DEF CountInv, Active
  <2>3. DOMAIN fetched'[s] \ Outstanding(s)' = 1..n \ Outstanding(s)
    BY <1>4, <1>6, <1>13
  <2>4. removed'[s] = {fetched'[s][i] : i \in DOMAIN fetched'[s] \ Outstanding(s)'}
    BY <1>2, <1>6, <2>2, <2>3
  <2>5. \A i \in Outstanding(s)' : fetched'[s][i] \in Records'
    BY <1>2, <1>3, <1>6, <1>13, <2>2 DEF Records
  <2> QED
    BY <2>4, <2>5
<1> QED
  BY <1>7, <1>9, <1>11, <1>14, <1>15 DEF Own

(* The query is made anew: the batches keep what they have.                *)
LEMMA CursorRestartsOwn ==
    ASSUME TypeOK, NEW s \in Sweep, BatchInv(s), SweepInv(s), CountInv(s), CursorRestarts(s)
    PROVE  TypeOK' /\ Sweeps(s) /\ Own(s)
<1>1. /\ phase[s] = "reading" /\ Fault
      /\ due' = [due EXCEPT ![s] = Matching(range[s])]
      /\ seen' = [seen EXCEPT ![s] = {}]
      /\ UNCHANGED <<store, born, writerVars, phase, range, fetched, left, count, removed>>
  BY DEF CursorRestarts
<1>2. Matching(range[s]) \subseteq Records /\ Records \subseteq Record
  BY DEF Matching, TypeOK, Records, RecordOf, Document, Record
<1>3. faults' \in 0..MaxFaults
  BY <1>1, MessageDeletionAssumption DEF Fault, TypeOK, MessageDeletionAssumption
<1>4. TypeOK'
  BY <1>1, <1>2, <1>3 DEF TypeOK, writerVars
<1>5. due'[s] = Matching(range[s]) /\ seen'[s] = {}
  BY <1>1 DEF TypeOK
<1>6. Sweeps(s)
  BY <1>1, <1>2, <1>5 DEF Sweeps, Known
<1>7. Outstanding(s)' = Outstanding(s) /\ Records' = Records /\ Alone(s)' = Alone(s)
  BY <1>1 DEF Outstanding, BatchDone, BatchEnd, Records, Alone
<1>8. BatchInv(s)'
  BY <1>1 DEF BatchInv, BatchEnd, FullBatch
<1>9. SweepInv(s)'
  BY <1>1, <1>5, <1>7 DEF SweepInv, AgeOf
<1>10. CountInv(s)'
  BY <1>1, <1>7 DEF CountInv
<1> QED
  BY <1>4, <1>6, <1>8, <1>9, <1>10 DEF Own

(* What matched and is still there has been fetched.                       *)
LEMMA EndOfCursorOwn ==
    ASSUME TypeOK, NEW s \in Sweep, BatchInv(s), SweepInv(s), CountInv(s), EndOfCursor(s)
    PROVE  TypeOK' /\ Sweeps(s) /\ Own(s)
<1> DEFINE p == IF fetched[s] = << >> THEN "notFound" ELSE "read"
<1>1. /\ phase[s] = "reading" /\ due[s] \cap Records \subseteq seen[s]
      /\ phase' = [phase EXCEPT ![s] = p]
      /\ UNCHANGED <<store, born, writerVars, range, due, seen, fetched, left, count, removed, faults>>
  BY DEF EndOfCursor, Enter
<1>2. TypeOK'
  BY <1>1 DEF TypeOK, Phase, writerVars
<1>3. phase'[s] = p
  BY <1>1 DEF TypeOK
<1>4. Sweeps(s)
  BY <1>1 DEF Sweeps, Known
<1>5. Outstanding(s)' = Outstanding(s) /\ Records' = Records /\ Alone(s)' = Alone(s)
  BY <1>1 DEF Outstanding, BatchDone, BatchEnd, Records, Alone
<1>6. fetched[s] = << >> => left[s] = {}
  BY SweepTypes
<1>7. BatchInv(s)'
  BY <1>1, <1>3, <1>6 DEF BatchInv, BatchEnd, FullBatch
<1>8. SweepInv(s)'
  <2>1. due[s] \cap Records \subseteq Range(fetched[s])
    BY <1>1 DEF SweepInv
  <2> QED
    BY <1>1, <1>3, <1>5, <2>1 DEF SweepInv, AgeOf, Active
<1>9. CountInv(s)'
  BY <1>1, <1>3, <1>5 DEF CountInv, Active
<1> QED
  BY <1>2, <1>4, <1>7, <1>8, <1>9 DEF Own

(* A batch is what was not dealt with before: nothing changes but who is   *)
(* to delete it.                                                           *)
LEMMA BeginBatchOwn ==
    ASSUME TypeOK, NEW s \in Sweep, BatchInv(s), SweepInv(s), CountInv(s), BeginBatch(s)
    PROVE  TypeOK' /\ Sweeps(s) /\ Own(s)
<1>1. /\ phase[s] \in {"reading", "read"} /\ left[s] = {} /\ BatchReady(s)
      /\ left' = [left EXCEPT ![s] = (count[s] + 1)..BatchEnd(s)]
      /\ UNCHANGED <<store, born, writerVars, phase, range, due, seen, fetched, count, removed, faults>>
  BY DEF BeginBatch
<1>2. /\ count[s] \in 0..Len(fetched[s]) /\ Len(fetched[s]) \in Nat
      /\ DOMAIN fetched[s] = 1..Len(fetched[s])
  BY SweepTypes
<1>3. BatchEnd(s) \in count[s]..Len(fetched[s]) /\ BatchEnd(s) \in Nat /\ BatchEnd(s)' = BatchEnd(s)
      /\ FullBatch(s)' = FullBatch(s)
  BY <1>1, <1>2, BatchEnds DEF BatchEnd, FullBatch
<1>4. BatchEnd(s) > count[s] /\ (phase[s] = "reading" => FullBatch(s))
  BY <1>1, <1>2, MessageDeletionAssumption
     DEF BatchReady, BatchEnd, FullBatch, MessageDeletionAssumption
<1>5. left'[s] = (count[s] + 1)..BatchEnd(s) /\ left'[s] # {}
  <2>1. left'[s] = (count[s] + 1)..BatchEnd(s)
    BY <1>1 DEF TypeOK
  <2>2. count[s] + 1 \in (count[s] + 1)..BatchEnd(s)
    BY <1>2, <1>3, <1>4
  <2> QED
    BY <2>1, <2>2
<1>6. TypeOK'
  <2>1. left' \in [Sweep -> SUBSET Nat]
    BY <1>1, <1>2, <1>3 DEF TypeOK
  <2>2. \A x \in Sweep : left'[x] \subseteq DOMAIN fetched[x]
    <3> SUFFICES ASSUME NEW x \in Sweep PROVE left'[x] \subseteq DOMAIN fetched[x]
      OBVIOUS
    <3>1. CASE x = s
      BY <1>2, <1>3, <1>5, <3>1
    <3>2. CASE x # s
      BY <1>1, <3>2 DEF TypeOK
    <3> QED
      BY <3>1, <3>2
  <2> QED
    BY <1>1, <2>1, <2>2 DEF TypeOK, writerVars
<1>7. Sweeps(s)
  BY <1>1 DEF Sweeps, Known
<1>8. BatchDone(s) = count[s] /\ BatchDone(s)' = BatchEnd(s)
  BY <1>1, <1>3, <1>5 DEF BatchDone
<1>9. Outstanding(s)' = Outstanding(s) /\ Records' = Records /\ Alone(s)' = Alone(s)
  <2>1. Outstanding(s)' = Outstanding(s)
    BY <1>1, <1>2, <1>3, <1>5, <1>8 DEF Outstanding
  <2> QED
    BY <1>1, <2>1 DEF Records, Alone
<1>10. BatchInv(s)'
  BY <1>1, <1>3, <1>4, <1>5 DEF BatchInv
<1>11. SweepInv(s)'
  BY <1>1, <1>9 DEF SweepInv, AgeOf
<1>12. CountInv(s)'
  BY <1>1, <1>9 DEF CountInv
<1> QED
  BY <1>6, <1>7, <1>10, <1>11, <1>12 DEF Own

(* The answer.                                                             *)
LEMMA AnswerOwn ==
    ASSUME TypeOK, NEW s \in Sweep, BatchInv(s), SweepInv(s), CountInv(s), Answer(s)
    PROVE  TypeOK' /\ Sweeps(s) /\ Own(s)
<1>1. /\ phase[s] = "read" /\ left[s] = {} /\ count[s] >= Len(fetched[s])
      /\ phase' = [phase EXCEPT ![s] = "answered"]
      /\ UNCHANGED <<store, born, writerVars, range, due, seen, fetched, left, count, removed, faults>>
  BY DEF Answer, Enter
<1>2. TypeOK'
  BY <1>1 DEF TypeOK, Phase, writerVars
<1>3. phase'[s] = "answered" /\ count[s] = Len(fetched[s])
  BY <1>1, SweepTypes DEF TypeOK
<1>4. Sweeps(s)
  BY <1>1 DEF Sweeps, Known
<1>5. Outstanding(s)' = Outstanding(s) /\ Records' = Records /\ Alone(s)' = Alone(s)
  BY <1>1 DEF Outstanding, BatchDone, BatchEnd, Records, Alone
<1>6. BatchInv(s)'
  BY <1>1, <1>3 DEF BatchInv
<1>7. SweepInv(s)'
  BY <1>1, <1>3, <1>5 DEF SweepInv, AgeOf, Active
<1>8. CountInv(s)'
  BY <1>1, <1>3, <1>5 DEF CountInv, Active
<1> QED
  BY <1>2, <1>4, <1>6, <1>7, <1>8 DEF Own

(* A sweep that ends without an answer.                                    *)
LEMMA FailedOwn ==
    ASSUME NEW s \in Sweep, SweepInv(s), phase'[s] = "failed", left'[s] = {},
           range'[s] = range[s], seen'[s] = seen[s], fetched'[s] = fetched[s],
           \A r \in removed'[s] : AgeOf(r) \in range[s]
    PROVE  Own(s)
<1>1. BatchInv(s)'
  BY DEF BatchInv
<1>2. SweepInv(s)'
  BY DEF SweepInv, AgeOf, Active
<1>3. CountInv(s)'
  BY DEF CountInv, Active
<1> QED
  BY <1>1, <1>2, <1>3 DEF Own

LEMMA AbortOwn ==
    ASSUME TypeOK, NEW s \in Sweep, SweepInv(s), Abort(s)
    PROVE  TypeOK' /\ Sweeps(s) /\ Own(s)
<1>1. /\ phase' = [phase EXCEPT ![s] = "failed"] /\ left' = [left EXCEPT ![s] = {}]
      /\ UNCHANGED <<store, born, writerVars, range, due, seen, fetched, count, removed, faults>>
  BY DEF Abort, Enter
<1>2. TypeOK'
  BY <1>1 DEF TypeOK, Phase, writerVars
<1>3. Sweeps(s)
  BY <1>1 DEF Sweeps, Known
<1>4. Own(s)
  BY <1>1, FailedOwn DEF TypeOK, SweepInv
<1> QED
  BY <1>2, <1>3, <1>4

-----------------------------------------------------------------------------
(* Deletions.                                                              *)

(* A deletion by _id: the record it was fetched for is gone, and what is   *)
(* gone has that _id.                                                      *)
LEMMA Removes ==
    ASSUME TypeOK, NEW s \in Sweep, NEW p \in left[s], Remove(s, p)
    PROVE  /\ store' \subseteq store
           /\ removed' \in [Sweep -> SUBSET Record]
           /\ removed[s] \subseteq removed'[s] /\ removed'[s] \subseteq removed[s] \cup Records
           /\ store' = store \/ removed'[s] # {}
           /\ \A x \in Sweep \ {s} : removed'[x] = removed[x]
           /\ \A r \in removed'[s] \ removed[s] : AgeOf(r) = AgeOf(fetched[s][p])
           /\ Records' \subseteq Records /\ fetched[s][p] \notin Records'
           /\ fetched[s][p] \in Records =>
                 /\ removed'[s] = removed[s] \cup {fetched[s][p]}
                 /\ \A r \in Records : r # fetched[s][p] => r \in Records'
<1> DEFINE f == fetched[s][p]
           gone == {d \in store : SameId(d, f)}
           out == {RecordOf(d) : d \in gone}
<1>1. store' = store \ gone /\ removed' = [removed EXCEPT ![s] = @ \cup out]
  BY DEF Remove
<1>2. /\ \A d \in store : /\ RecordOf(d) \in Record /\ RecordOf(d) \in Records
                          /\ RecordOf(d).key = d.key /\ RecordOf(d).gen = d.gen
      /\ \A d, e \in store : d.key = e.key => d = e
  BY DEF TypeOK, Document, Record, RecordOf, Records
<1>3. removed \in [Sweep -> SUBSET Record]
  BY DEF TypeOK
<1>4. out \subseteq Records /\ out \subseteq Record /\ removed'[s] = removed[s] \cup out
      /\ removed' \in [Sweep -> SUBSET Record]
      /\ \A x \in Sweep \ {s} : removed'[x] = removed[x]
  <2>1. out \subseteq Records /\ out \subseteq Record
    BY <1>2
  <2> HIDE DEF out
  <2> QED
    BY <1>1, <1>3, <2>1
<1>5. store' = store \/ removed'[s] # {}
  BY <1>1, <1>4
<1>6. \A r \in out : r.key = f.key /\ r.gen = f.gen
  BY <1>2 DEF SameId
<1>7. \A r \in removed'[s] \ removed[s] : AgeOf(r) = AgeOf(f)
  BY <1>4, <1>6 DEF AgeOf
<1>8. Records' \subseteq Records
  BY <1>1 DEF Records
<1>9. f \notin Records'
  <2> SUFFICES ASSUME NEW d \in store', f = RecordOf(d) PROVE FALSE
    BY DEF Records
  <2> QED
    BY <1>1, <1>2 DEF SameId
<1>10. ASSUME f \in Records
       PROVE  out = {f} /\ \A r \in Records : r # f => r \in Records'
  <2>1. PICK e \in store : f = RecordOf(e)
    BY <1>10 DEF Records
  <2>2. gone = {e}
    BY <1>2, <2>1 DEF SameId
  <2>3. out = {f}
    BY <2>1, <2>2
  <2>4. ASSUME NEW r \in Records, r # f PROVE r \in Records'
    <3>1. PICK d \in store : r = RecordOf(d)
      BY DEF Records
    <3>2. d \in store'
      BY <1>1, <2>1, <2>2, <2>4, <3>1
    <3> QED
      BY <3>1, <3>2 DEF Records
  <2> QED
    BY <2>3, <2>4
<1> QED
  BY <1>1, <1>4, <1>5, <1>7, <1>8, <1>9, <1>10

(* One record less to delete; the last of a batch counts the batch.        *)
LEMMA DeleteOwn ==
    ASSUME TypeOK, NEW s \in Sweep, BatchInv(s), SweepInv(s), CountInv(s),
           NEW p \in left[s], Delete(s, p)
    PROVE  TypeOK' /\ Sweeps(s) /\ Own(s)
<1> DEFINE f == fetched[s]
           n == Len(fetched[s])
<1>1. /\ Remove(s, p)
      /\ left' = [left EXCEPT ![s] = @ \ {p}]
      /\ count' = [count EXCEPT ![s] = IF left[s] = {p} THEN BatchEnd(s) ELSE @]
      /\ UNCHANGED <<born, writerVars, phase, range, due, seen, fetched, faults>>
  BY DEF Delete
<1>2. /\ f \in Seq(Record) /\ n \in Nat /\ DOMAIN f = 1..n /\ count[s] \in 0..n
      /\ left[s] \subseteq 1..n /\ BatchEnd(s) \in count[s]..n
  BY SweepTypes, BatchEnds
<1>3. /\ left'[s] = left[s] \ {p}
      /\ count'[s] = IF left[s] = {p} THEN BatchEnd(s) ELSE count[s]
  BY <1>1 DEF TypeOK
<1>4. /\ store' \subseteq store
      /\ removed' \in [Sweep -> SUBSET Record]
      /\ removed[s] \subseteq removed'[s] /\ removed'[s] \subseteq removed[s] \cup Records
      /\ store' = store \/ removed'[s] # {}
      /\ \A x \in Sweep \ {s} : removed'[x] = removed[x]
      /\ \A r \in removed'[s] \ removed[s] : AgeOf(r) = AgeOf(f[p])
      /\ Records' \subseteq Records /\ f[p] \notin Records'
  BY <1>1, Removes
<1>5. f[p] \in Records => /\ removed'[s] = removed[s] \cup {f[p]}
                          /\ \A r \in Records : r # f[p] => r \in Records'
  BY <1>1, Removes
<1>6. TypeOK'
  <2>1. left' \in [Sweep -> SUBSET Nat] /\ count' \in [Sweep -> Nat]
    BY <1>1, <1>2 DEF TypeOK
  <2>2. \A x \in Sweep : left'[x] \subseteq DOMAIN fetched[x] /\ count'[x] <= Len(fetched[x])
    <3> SUFFICES ASSUME NEW x \in Sweep
                 PROVE  left'[x] \subseteq DOMAIN fetched[x] /\ count'[x] <= Len(fetched[x])
      OBVIOUS
    <3>1. CASE x = s
      BY <1>2, <1>3, <3>1
    <3>2. CASE x # s
      BY <1>1, <3>2 DEF TypeOK
    <3> QED
      BY <3>1, <3>2
  <2>3. store' \subseteq Document /\ \A d, e \in store' : d.key = e.key => d = e
    BY <1>4 DEF TypeOK
  <2> QED
    BY <1>1, <1>4, <2>1, <2>2, <2>3 DEF TypeOK, writerVars
<1>7. Sweeps(s)
  <2>1. Known(s)' \subseteq Known(s) \cup Records
    BY <1>1, <1>4 DEF Known
  <2>2. \A x \in Sweep \ {s} : left'[x] = left[x] /\ count'[x] = count[x]
    BY <1>1 DEF TypeOK
  <2> QED
    BY <1>1, <1>4, <2>1, <2>2 DEF Sweeps
<1>8. BatchDone(s) = BatchEnd(s) /\ BatchDone(s)' = BatchEnd(s)
  <2>1. CASE left[s] = {p}
    BY <1>3, <2>1 DEF BatchDone
  <2>2. CASE left[s] # {p}
    <3>1. left'[s] # {} /\ count'[s] = count[s]
      BY <1>3, <2>2
    <3> QED
      BY <1>1, <3>1 DEF BatchDone, BatchEnd
  <2> QED
    BY <2>1, <2>2
<1>9. p <= BatchEnd(s)
  BY <1>2 DEF BatchInv
<1>10. Outstanding(s)' = Outstanding(s) \ {p} /\ p \in Outstanding(s)
  BY <1>1, <1>2, <1>3, <1>8, <1>9 DEF Outstanding
<1>11. phase[s] = "read" \/ phase[s] = "reading"
  BY DEF BatchInv
<1>12. BatchInv(s)'
  <2>1. CASE left[s] = {p}
    BY <1>1, <1>3, <1>11, <2>1 DEF BatchInv
  <2>2. CASE left[s] # {p}
    <3>1. count'[s] = count[s] /\ BatchEnd(s)' = BatchEnd(s) /\ FullBatch(s)' = FullBatch(s)
      BY <1>1, <1>3, <2>2 DEF BatchEnd, FullBatch
    <3> QED
      BY <1>1, <1>3, <1>11, <3>1 DEF BatchInv
  <2> QED
    BY <2>1, <2>2
<1>13. SweepInv(s)'
  <2>1. \A r \in Range(fetched'[s]) \cup removed'[s] : AgeOf(r) \in range'[s]
    <3>1. f[p] \in Range(f)
      BY <1>2 DEF Range
    <3> QED
      BY <1>1, <1>4, <3>1 DEF SweepInv, AgeOf
  <2>2. due'[s] \cap Records' \subseteq due[s] \cap Records
    BY <1>1, <1>4
  <2>3. \A i \in DOMAIN f : f[i] \in Records' => i \in Outstanding(s)'
    <3> SUFFICES ASSUME NEW i \in DOMAIN f, f[i] \in Records' PROVE i \in Outstanding(s)'
      OBVIOUS
    <3>1. i # p /\ f[i] \in Records
      BY <1>4
    <3> QED
      BY <1>10, <1>11, <3>1 DEF SweepInv, Active
  <2> QED
    BY <1>1, <1>11, <2>1, <2>2, <2>3 DEF SweepInv
<1>14. CountInv(s)'
  <2> SUFFICES ASSUME Alone(s)'
               PROVE  /\ removed'[s] = {f[i] : i \in DOMAIN f \ Outstanding(s)'}
                      /\ \A i \in Outstanding(s)' : f[i] \in Records'
    BY <1>1 DEF CountInv
  <2>1. IsInjective(f) /\ Alone(s)
    BY <1>1, <1>4 DEF Alone
  <2>2. removed[s] = {f[i] : i \in DOMAIN f \ Outstanding(s)}
        /\ \A i \in Outstanding(s) : f[i] \in Records
    BY <1>11, <2>1 DEF CountInv, Active
  <2>3. removed'[s] = removed[s] \cup {f[p]}
    BY <1>5, <1>10, <2>2
  <2>4. DOMAIN f \ Outstanding(s)' = (DOMAIN f \ Outstanding(s)) \cup {p}
    BY <1>2, <1>10
  <2>5. removed'[s] = {f[i] : i \in DOMAIN f \ Outstanding(s)'}
    BY <2>2, <2>3, <2>4
  <2>6. ASSUME NEW i \in Outstanding(s)' PROVE f[i] \in Records'
    <3>1. i \in Outstanding(s) /\ i # p /\ i \in DOMAIN f /\ p \in DOMAIN f
      BY <1>10, <1>2 DEF Outstanding
    <3>2. f[i] # f[p]
      BY <2>1, <3>1 DEF IsInjective
    <3> QED
      BY <1>5, <1>10, <2>2, <3>1, <3>2
  <2> QED
    BY <2>5, <2>6
<1> QED
  BY <1>6, <1>7, <1>12, <1>13, <1>14 DEF Own

(* A failed deletion ends the sweep, whether it was applied or not.        *)
LEMMA DeleteFailsOwn ==
    ASSUME TypeOK, NEW s \in Sweep, SweepInv(s), NEW p \in left[s], DeleteFails(s, p)
    PROVE  TypeOK' /\ Sweeps(s) /\ Own(s)
<1>1. /\ Remove(s, p) \/ UNCHANGED <<store, removed>>
      /\ phase' = [phase EXCEPT ![s] = "failed"] /\ left' = [left EXCEPT ![s] = {}]
      /\ UNCHANGED <<born, writerVars, range, due, seen, fetched, count>>
  BY DEF DeleteFails, Enter
<1>2. p \in DOMAIN fetched[s]
  BY DEF TypeOK
<1>3. /\ store' \subseteq store
      /\ removed' \in [Sweep -> SUBSET Record]
      /\ removed[s] \subseteq removed'[s] /\ removed'[s] \subseteq removed[s] \cup Records
      /\ store' = store \/ removed'[s] # {}
      /\ \A x \in Sweep \ {s} : removed'[x] = removed[x]
      /\ \A r \in removed'[s] \ removed[s] : AgeOf(r) = AgeOf(fetched[s][p])
  <2>1. CASE Remove(s, p)
    BY <2>1, Removes
  <2>2. CASE UNCHANGED <<store, removed>>
    BY <2>2 DEF TypeOK
  <2> QED
    BY <1>1, <2>1, <2>2
<1>4. faults' \in 0..MaxFaults
  BY MessageDeletionAssumption
     DEF DeleteFails, Fault, TypeOK, MessageDeletionAssumption
<1>5. TypeOK'
  <2>1. store' \subseteq Document /\ \A d, e \in store' : d.key = e.key => d = e
    BY <1>3 DEF TypeOK
  <2>2. phase' \in [Sweep -> Phase] /\ left' \in [Sweep -> SUBSET Nat]
        /\ \A x \in Sweep : left'[x] \subseteq DOMAIN fetched[x]
    BY <1>1 DEF TypeOK, Phase
  <2> QED
    BY <1>1, <1>3, <1>4, <2>1, <2>2 DEF TypeOK, writerVars
<1>6. Sweeps(s)
  <2>1. Known(s)' \subseteq Known(s) \cup Records
    BY <1>1, <1>3 DEF Known
  <2>2. \A x \in Sweep \ {s} : left'[x] = left[x] /\ phase'[x] = phase[x]
    BY <1>1 DEF TypeOK
  <2> QED
    BY <1>1, <1>3, <2>1, <2>2 DEF Sweeps
<1>7. Own(s)
  <2>1. \A r \in removed'[s] : AgeOf(r) \in range[s]
    <3>1. fetched[s][p] \in Range(fetched[s])
      BY <1>2 DEF Range
    <3> QED
      BY <1>3, <3>1 DEF SweepInv
  <2> QED
    BY <1>1, <2>1, FailedOwn DEF TypeOK
<1> QED
  BY <1>5, <1>6, <1>7

-----------------------------------------------------------------------------
(* Every step of a sweep.                                                  *)
LEMMA SweepOwn ==
    ASSUME TypeOK, NEW s \in Sweep, BatchInv(s), SweepInv(s), CountInv(s),
           \/ Begin(s) \/ CursorRestarts(s) \/ SweepStep(s) \/ Abort(s)
           \/ \E p \in left[s] : DeleteFails(s, p)
    PROVE  TypeOK' /\ Sweeps(s) /\ Own(s)
<1>1. CASE Begin(s)
  BY <1>1, BeginOwn
<1>2. CASE CursorRestarts(s)
  BY <1>2, CursorRestartsOwn
<1>3. CASE Fetch(s)
  BY <1>3, FetchOwn
<1>4. CASE EndOfCursor(s)
  BY <1>4, EndOfCursorOwn
<1>5. CASE BeginBatch(s)
  BY <1>5, BeginBatchOwn
<1>6. CASE Answer(s)
  BY <1>6, AnswerOwn
<1>7. ASSUME NEW p \in left[s], Delete(s, p) PROVE TypeOK' /\ Sweeps(s) /\ Own(s)
  BY <1>7, DeleteOwn
<1>8. CASE Abort(s)
  BY <1>8, AbortOwn
<1>9. ASSUME NEW p \in left[s], DeleteFails(s, p) PROVE TypeOK' /\ Sweeps(s) /\ Own(s)
  BY <1>9, DeleteFailsOwn
<1> QED
  BY <1>1, <1>2, <1>3, <1>4, <1>5, <1>6, <1>7, <1>8, <1>9 DEF SweepStep

(* IInv is an invariant: whatever a delivery, a manual retry or another    *)
(* sweep does between two steps of a sweep, what the sweep has dealt with  *)
(* is gone, and what is IN_PROCESS is held.                                *)
THEOREM Inductive == Spec => []IInv
<1>1. Init => IInv
  BY InitIInv
<1>2. IInv /\ [Next]_vars => IInv'
  <2> SUFFICES ASSUME IInv, [Next]_vars PROVE IInv'
    OBVIOUS
  <2>0. /\ TypeOK /\ Numbered /\ InProcessIsHeld
        /\ \A s \in Sweep : BatchInv(s) /\ SweepInv(s) /\ CountInv(s)
    BY DEF IInv
  <2>1. ASSUME NEW w \in Writer, WriterStep(w) PROVE IInv'
    <3>1. Grows(w) /\ Does(w)
      BY <2>0, <2>1, WriterDoes
    <3>2. TypeOK' /\ Numbered' /\ InProcessIsHeld'
      BY <2>0, <3>1, WriterInv
    <3>3. UNCHANGED sweepVars
      BY <3>1 DEF Does, Knows
    <3>4. \A s \in Sweep : BatchInv(s)' /\ SweepInv(s)' /\ CountInv(s)'
      BY <2>0, <3>1, <3>3, SweepsUnderWriter
    <3> QED
      BY <3>2, <3>4 DEF IInv
  <2>2. ASSUME NEW s \in Sweep,
               \/ Begin(s) \/ CursorRestarts(s) \/ SweepStep(s) \/ Abort(s)
               \/ \E p \in left[s] : DeleteFails(s, p)
        PROVE  IInv'
    <3>1. TypeOK' /\ Sweeps(s) /\ Own(s)
      BY <2>0, <2>2, SweepOwn
    <3>2. Numbered' /\ InProcessIsHeld'
      BY <2>0, <3>1, WritersUnderSweep
    <3>3. \A x \in Sweep : BatchInv(x)' /\ SweepInv(x)' /\ CountInv(x)'
      BY <2>0, <3>1, OthersUnderSweep DEF Own
    <3> QED
      BY <3>1, <3>2, <3>3 DEF IInv
  <2>3. CASE UNCHANGED vars
    <3>1. TypeOK'
      BY <2>0, <2>3 DEF TypeOK, vars
    <3>2. Numbered' /\ InProcessIsHeld'
      BY <2>0, <2>3 DEF Numbered, Known, InProcessIsHeld, vars
    <3>3. ASSUME NEW s \in Sweep PROVE BatchInv(s)' /\ SweepInv(s)' /\ CountInv(s)'
      <4>1. BatchInv(s)'
        BY <2>0, <2>3 DEF BatchInv, BatchEnd, FullBatch, vars
      <4>2. Outstanding(s)' = Outstanding(s) /\ Records' = Records /\ Alone(s)' = Alone(s)
        BY <2>3 DEF Outstanding, BatchDone, BatchEnd, Records, Alone, vars
      <4>3. SweepInv(s)'
        BY <2>0, <2>3, <4>2 DEF SweepInv, AgeOf, vars
      <4>4. CountInv(s)'
        BY <2>0, <2>3, <4>2 DEF CountInv, vars
      <4> QED
        BY <4>1, <4>3, <4>4
    <3> QED
      BY <3>1, <3>2, <3>3 DEF IInv
  <2> QED
    BY <2>1, <2>2, <2>3 DEF Next
<1> QED
  BY <1>1, <1>2, PTL DEF Spec

(* What a sweep has read is not there when it answers, unless a delivery   *)
(* has put it back under a new record.                                     *)
THEOREM AnsweredLeavesNothing == Spec => []AnsweredSweepLeavesNothing
<1>1. IInv => AnsweredSweepLeavesNothing
  <2> SUFFICES ASSUME IInv, NEW s \in Sweep, phase[s] = "answered",
                      NEW r \in due[s] \cup Range(fetched[s]), r \in Records
               PROVE  FALSE
    BY DEF AnsweredSweepLeavesNothing
  <2>1. TypeOK /\ BatchInv(s) /\ SweepInv(s)
    BY DEF IInv
  <2>2. r \in Range(fetched[s])
    BY <2>1 DEF SweepInv
  <2>3. PICK i \in DOMAIN fetched[s] : r = fetched[s][i]
    BY <2>2 DEF Range
  <2>4. i \in Outstanding(s)
    BY <2>1, <2>3 DEF SweepInv, Active
  <2>5. left[s] = {} /\ count[s] = Len(fetched[s])
    BY <2>1 DEF BatchInv
  <2>6. i \in 1..Len(fetched[s]) /\ Len(fetched[s]) \in Nat
    BY <2>1, SweepTypes
  <2> QED
    BY <2>4, <2>5, <2>6 DEF Outstanding, BatchDone
<1> QED
  BY <1>1, Inductive, PTL

(* Nothing but documents of the ages it was asked for.                     *)
THEOREM OnlyMatching == Spec => []OnlyMatchingAreRemoved
<1>1. IInv => OnlyMatchingAreRemoved
  BY DEF IInv, SweepInv, OnlyMatchingAreRemoved
<1> QED
  BY <1>1, Inductive, PTL

(* No document that somebody has worked on is left IN_PROCESS by all.      *)
THEOREM Held == Spec => []InProcessIsHeld
<1>1. IInv => InProcessIsHeld
  BY DEF IInv
<1> QED
  BY <1>1, Inductive, PTL

(* A save that is not refused leaves the document in the collection.       *)
LEMMA PutStores ==
    ASSUME TypeOK, NEW w \in Writer, NEW state \in Terminal, Put(w, state), UNCHANGED key
    PROVE  \E d \in Of(key[w])' : d.state \in Terminal
<1>1. CASE Of(key[w]) = {}
  <2> DEFINE d0 == Doc(key[w], copy[w], born[key[w]] + 1, state)
  <2>1. d0 \in store' /\ d0.key = key'[w] /\ d0.state = state
    BY <1>1 DEF Put, Doc
  <2> QED
    BY <2>1 DEF Of
<1>2. CASE Of(key[w]) # {}
  <2>1. PICK e \in store : e.key = key[w]
    BY <1>2 DEF Of
  <2> DEFINE d0 == [e EXCEPT !.state = state]
  <2>2. d0.key = key'[w] /\ d0.state = state
    BY <2>1 DEF TypeOK, Document
  <2>3. d0 \in store'
    BY <1>2, <2>1 DEF Put
  <2> QED
    BY <2>2, <2>3 DEF Of
<1> QED
  BY <1>1, <1>2

(* No delivery ends over a deleted document, whichever sweep has removed   *)
(* it and between whichever of its steps.                                  *)
THEOREM EndsCompleted == Spec => DeliveryEndsCompleted
<1> DEFINE Completed == \A w \in Writer :
              /\ pc[w] \notin {"claim", "release", "done"}
              /\ pc'[w] = "done"
              => \E d \in Of(key[w])' : d.state \in Terminal
<1>1. TypeOK /\ [Next]_vars => [Completed]_vars
  <2> SUFFICES ASSUME TypeOK, Next, NEW w \in Writer,
                      pc[w] \notin {"claim", "release", "done"}, pc'[w] = "done"
               PROVE  \E d \in Of(key[w])' : d.state \in Terminal
    OBVIOUS
  <2>1. WriterStep(w)
    <3>1. ASSUME NEW x \in Writer, WriterStep(x), x # w PROVE FALSE
      <4>1. \E next \in WriterPc : Step(x, next)
        BY <3>1 DEF WriterStep, Insert, Find, Send, SaveSent, Enqueue, SaveError, Claim,
                    PublishRetry, Release, WriterPc, Working
      <4> QED
        BY <3>1, <4>1 DEF Step, TypeOK
    <3>2. ASSUME NEW s \in Sweep, UNCHANGED pc PROVE FALSE
      BY <3>2
    <3> QED
      BY <3>1, <3>2 DEF Next, Begin, CursorRestarts, SweepStep, Abort, DeleteFails, Fetch,
                        EndOfCursor, BeginBatch, Answer, Delete, writerVars
  <2>2. Find(w) \/ (SaveSent(w) /\ ~Refused(w)) \/ (SaveError(w) /\ ~Refused(w))
    BY <2>1 DEF WriterStep, Insert, Find, Send, SaveSent, Enqueue, SaveError, Claim,
                PublishRetry, Release, Step, TypeOK
  <2>3. CASE Find(w)
    <3>1. PICK d \in Of(key[w]) : d.state \in Terminal
      BY <2>3 DEF Find, Step, TypeOK
    <3>2. UNCHANGED <<store, key>>
      BY <2>3 DEF Find, Step
    <3> QED
      BY <3>1, <3>2 DEF Of
  <2>4. CASE SaveSent(w) /\ ~Refused(w)
    BY <2>4, PutStores DEF SaveSent, Step, Terminal
  <2>5. CASE SaveError(w) /\ ~Refused(w)
    BY <2>5, PutStores DEF SaveError, Step, Terminal
  <2> QED
    BY <2>2, <2>3, <2>4, <2>5
<1>2. IInv => TypeOK
  BY DEF IInv
<1> QED
  BY <1>1, <1>2, Inductive, PTL DEF Spec, DeliveryEndsCompleted

(* An injective sequence has as many elements as it is long.               *)
LEMMA InjectiveRange ==
    ASSUME NEW S, NEW f \in Seq(S), IsInjective(f)
    PROVE  Cardinality({f[i] : i \in DOMAIN f}) = Len(f)
<1> DEFINE n == Len(f)
           R == {f[i] : i \in 1..n}
           g == [i \in 1..n |-> f[i]]
<1>1. n \in Nat /\ DOMAIN f = 1..n
  OBVIOUS
<1>2. g \in Bijection(1..n, R)
  <2>1. g \in [1..n -> R]
    OBVIOUS
  <2>2. \A i, j \in 1..n : g[i] = g[j] => i = j
    BY <1>1 DEF IsInjective
  <2>3. \A r \in R : \E i \in 1..n : g[i] = r
    OBVIOUS
  <2> QED
    BY <2>1, <2>2, <2>3 DEF Bijection, Injection, Surjection, IsInjective
<1>3. ExistsBijection(1..n, R)
  BY <1>2 DEF ExistsBijection
<1>4. Cardinality(R) = n
  <2>1. IsFiniteSet(1..n) /\ Cardinality(1..n) = n
    BY <1>1, FS_Interval
  <2> QED
    BY <1>3, <2>1, FS_Bijection
<1> QED
  BY <1>1, <1>4

(* deletedCount is what one sweep, alone and with one cursor, has removed. *)
THEOREM CountExactWhenAlone == Spec => []CountIsExactWhenAlone
<1>1. IInv => CountIsExactWhenAlone
  <2> SUFFICES ASSUME IInv, NEW s \in Sweep, phase[s] = "answered", Alone(s)
               PROVE  count[s] = Cardinality(removed[s])
    BY DEF CountIsExactWhenAlone, Alone
  <2>1. TypeOK /\ BatchInv(s) /\ CountInv(s)
    BY DEF IInv
  <2>2. left[s] = {} /\ count[s] = Len(fetched[s])
    BY <2>1 DEF BatchInv
  <2>3. /\ fetched[s] \in Seq(Record) /\ DOMAIN fetched[s] = 1..Len(fetched[s])
        /\ Len(fetched[s]) \in Nat
    BY <2>1, SweepTypes
  <2>4. Outstanding(s) = {}
    BY <2>2, <2>3 DEF Outstanding, BatchDone
  <2>5. removed[s] = {fetched[s][i] : i \in DOMAIN fetched[s]}
    BY <2>1, <2>4 DEF CountInv, Active
  <2>6. IsInjective(fetched[s])
    BY DEF Alone
  <2> QED
    BY <2>2, <2>3, <2>5, <2>6, InjectiveRange
<1> QED
  BY <1>1, Inductive, PTL

=============================================================================
