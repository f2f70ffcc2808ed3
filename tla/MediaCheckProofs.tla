-------------------------- MODULE MediaCheckProofs --------------------------
(***************************************************************************)
(* Proofs about MediaCheck, for any items, paths, disks and number of      *)
(* runs: what is published is true of the disk or marked as not found out, *)
(* a scheduled check that counts as clean has seen every item, and /health *)
(* and the mails speak of the same run.                                    *)
(***************************************************************************)
EXTENDS MediaCheck, FiniteSetTheorems, TLAPS

(* While a run goes on, what a flight has for those who join it is an error *)
(* or was true of the path, now or before, as far as this run may rely on.  *)
FlightsTrue ==
  pc # "idle" => \A k \in Keys : /\ Truth(k) \in held[k]
                                 /\ flight[k].answer \in {"none", "error"} \cup held[k]

(* A worker that saw no failure has found each of the paths before its own  *)
(* absent.                                                                  *)
RuledOut(i) == \A n \in 1 .. item[i].ref - 1 : "absent" \in held[Refs[i][n]]

(* A verdict that needs no excuse. *)
Sure(i) == item[i].verdict = "stat_error" \/ Found(i, item[i].verdict)

(* A number of copies that an incomplete index got wrong. *)
Cut(i, verdict) == Miscounted(i, verdict) /\ index.at = "ready" /\ ~index.complete

WorkerTrue(i) ==
  /\ item[i].at \in {"match", "wait", "index"} /\ ~item[i].failed => RuledOut(i)
  /\ item[i].at = "wait" => /\ item[i].ref <= Len(Refs[i])
                            /\ item[i].answer \in {"none", "error"} \cup held[Key(i)]
  /\ item[i].at = "index" => /\ ~item[i].failed /\ disk.indexed
                             /\ item[i].ref > Len(Refs[i])
  /\ IF item[i].at = "done" THEN Sure(i) \/ Cut(i, item[i].verdict)
                            ELSE item[i].verdict = "none"

(* An index that is cut short has some of the files. *)
Part(seen, copies) == seen.name <= copies.name /\ seen.other <= copies.other

IndexTrue ==
  /\ index.at # "ready" => index.complete
  /\ index.at = "ready" => IF index.complete THEN index.seen = disk.copies
                           ELSE \A i \in Items : Part(index.seen[i], disk.copies[i])

(* Workers work while the run matches, none is left from an earlier run; a  *)
(* run without an error of its own publishes when they are all done and     *)
(* none had to do with an index that lacked files.                          *)
Phases ==
  /\ pc \in {"idle", "fetch", "open"} => \A i \in Items : item[i].at = "idle"
  /\ pc # "match" => \A i \in Items : item[i].at \in {"idle", "done"}
  /\ pc = "publish" /\ ~run.error => \A i \in Items : item[i].at = "done" /\ Sure(i)
  /\ pc = "notify" => lastResult = lastScheduled

Inv == /\ TypeOK /\ FlightsTrue /\ (\A i \in Items : WorkerTrue(i)) /\ IndexTrue /\ Phases
       /\ HealthAgreesWithMail

Workers == [at : {"idle", "match", "wait", "index", "done"}, ref : Nat \ {0},
            failed : BOOLEAN, answer : Answers, verdict : Verdicts]
Flights == [state : {"none", "spawned", "stat", "read", "done"}, run : Ids, answer : Answers]
Indexes == [at : {"none", "building", "ready"}, complete : BOOLEAN, seen : [Items -> Hits]]
Runs == [id : Ids, scheduled : BOOLEAN, root : {"up", "down", "closed"}, error : BOOLEAN]

USE MediaAssumption DEF MediaAssumption

-----------------------------------------------------------------------------
LEMMA RefsTyped ==
  ASSUME NEW i \in Items
  PROVE  /\ Len(Refs[i]) \in Nat /\ DOMAIN Refs[i] = 1 .. Len(Refs[i])
         /\ \A n \in 1 .. Len(Refs[i]) : Refs[i][n] \in Keys
<1>1. Refs[i] \in Seq(Keys)
  OBVIOUS
<1>2. QED
  BY <1>1

LEMMA HitsTyped ==
  ASSUME NEW h \in Hits
  PROVE  h.name \in Nat /\ h.other \in Nat
  BY DEF Hits

LEMMA CopiesTyped == ASSUME TypeOK, NEW i \in Items PROVE disk.copies[i] \in Hits
<1>1. disk.copies \in [Items -> Hits]
  BY DEF TypeOK
<1>2. QED
  BY <1>1

LEMMA LookupTyped ==
  ASSUME NEW h \in Hits, NEW complete \in BOOLEAN
  PROVE  Lookup(h, complete) \in Verdicts \ {"none"}
<1>1. h.name \in Nat /\ h.other \in Nat
  BY HitsTyped
<1>2. QED
  BY <1>1 DEF Lookup, Verdicts

LEMMA Verdict ==
  ASSUME TypeOK, NEW i \in Items PROVE InIndex(i) \in {"present", "ambiguous", "missing"}
<1>1. disk.copies[i].name \in Nat /\ disk.copies[i].other \in Nat
  BY CopiesTyped, HitsTyped
<1>2. QED
  BY <1>1 DEF InIndex, Lookup

(* An index that is cut short admits that it does not know, or it has found *)
(* the item, perhaps with the wrong number of copies.                       *)
LEMMA LookupPart ==
  ASSUME NEW copies \in Hits, NEW seen \in Hits, Part(seen, copies)
  PROVE  \/ Lookup(seen, FALSE) = "stat_error" \/ Lookup(seen, FALSE) = Lookup(copies, TRUE)
         \/ {Lookup(seen, FALSE), Lookup(copies, TRUE)} = {"present", "ambiguous"}
<1>1. /\ copies.name \in Nat /\ copies.other \in Nat
      /\ seen.name \in Nat /\ seen.other \in Nat
  BY HitsTyped
<1>2. CASE seen.name = 0 /\ seen.other = 0
  BY <1>2 DEF Lookup
<1>3. CASE ~(seen.name = 0 /\ seen.other = 0)
  <2>1. Lookup(seen, FALSE) \in {"present", "ambiguous"}
    BY <1>1, <1>3 DEF Lookup
  <2>2. Lookup(copies, TRUE) \in {"present", "ambiguous"}
    BY <1>1, <1>3 DEF Part, Lookup
  <2>3. QED
    BY <2>1, <2>2
<1>4. QED
  BY <1>2, <1>3

(* Both counts of a result agree on whether there is a problem. *)
LEMMA SameProblems ==
  ASSUME NEW r \in Results
  PROVE  NotifyProblems(r) # {} <=> ProblemCount(r) > 0
<1> DEFINE S == {i \in Items : r.verdict[i] \in Bad}
<1>1. IsFiniteSet(S) /\ Cardinality(S) \in Nat /\ (Cardinality(S) = 0 <=> S = {})
  BY FS_Subset, FS_CardinalityType, FS_EmptySet
<1>2. S = {} <=> {r.verdict[i] : i \in Items} \cap Bad = {}
  OBVIOUS
<1>3. QED
  BY <1>1, <1>2 DEF NotifyProblems, ProblemCount

-----------------------------------------------------------------------------
LEMMA InitInv == Init => Inv
<1> SUFFICES ASSUME Init PROVE Inv
    OBVIOUS
<1>1. \A i \in Items : item[i] = Idle
  BY DEF Init
<1>2. Nothing \in Results
  BY DEF Nothing, Results, Ids, Verdicts
<1>3. TypeOK
  <2>1. item \in [Items -> Workers]
    BY DEF Init, Idle, Workers, Answers, Verdicts
  <2>2. \A i \in Items : item[i].ref <= Len(Refs[i]) + 1
    BY <1>1, RefsTyped DEF Idle
  <2>3. index \in Indexes
    BY DEF Init, NoIndex, NoHits, Hits, Indexes
  <2>4. flight \in [Keys -> Flights]
    BY DEF Init, NoFlight, Flights, Ids, Answers
  <2>5. run \in Runs /\ runID \in Ids /\ completedRunID \in Ids
    BY DEF Init, NoRun, Runs, Ids
  <2>6. QED
    BY <1>2, <2>1, <2>2, <2>3, <2>4, <2>5 DEF Init, TypeOK, Workers, Indexes, Flights, Runs
<1>4. FlightsTrue
  BY DEF Init, FlightsTrue
<1>5. \A i \in Items : WorkerTrue(i)
  BY <1>1 DEF WorkerTrue, Idle
<1>6. IndexTrue /\ Phases
  BY <1>1 DEF Init, IndexTrue, Phases, NoIndex, Idle
<1>7. HealthAgreesWithMail
  <2>1. NotifyProblems(Nothing) = {}
    BY DEF NotifyProblems, Nothing, Bad
  <2>2. ~(ProblemCount(Nothing) > 0)
    BY <1>2, <2>1, SameProblems
  <2>3. QED
    BY <2>2 DEF Init, HealthAgreesWithMail
<1>8. QED
  BY <1>3, <1>4, <1>5, <1>6, <1>7 DEF Inv

-----------------------------------------------------------------------------
(* What was found stays found: a run forgets nothing of what it may rely on. *)
LEMMA StaysFound ==
  ASSUME \A k \in Keys : held[k] \subseteq held'[k], UNCHANGED disk,
         NEW i \in Items, NEW v
  PROVE  /\ Found(i, v) => Found(i, v)' /\ InIndex(i)' = InIndex(i)
         /\ Miscounted(i, v) => Miscounted(i, v)'
<1>1. InIndex(i)' = InIndex(i)
  BY DEF InIndex
<1>2. (OnDrive(i) => OnDrive(i)') /\ (OffDrive(i) => OffDrive(i)')
  BY RefsTyped DEF OnDrive, OffDrive
<1>3. QED
  BY <1>1, <1>2 DEF Found, Miscounted

LEMMA SureStays ==
  ASSUME \A k \in Keys : held[k] \subseteq held'[k], UNCHANGED disk,
         NEW i \in Items, item'[i].verdict = item[i].verdict, Sure(i)
  PROVE  Sure(i)'
<1>1. PICK v : v = item[i].verdict
  OBVIOUS
<1>2. v = "stat_error" \/ Found(i, v)
  BY <1>1 DEF Sure
<1>3. v = "stat_error" \/ Found(i, v)'
  BY <1>2, StaysFound
<1>4. QED
  BY <1>1, <1>3 DEF Sure

(* A worker that rests, while others may answer, change the disk or, if it  *)
(* has no verdict, build the index.                                         *)
LEMMA WorkerRests ==
  ASSUME Inv, NEW i \in Items, item'[i] = item[i], UNCHANGED disk,
         \A k \in Keys : held[k] \subseteq held'[k],
         index.at = "ready" => index' = index
  PROVE  WorkerTrue(i)'
<1>1. WorkerTrue(i)
  BY DEF Inv
<1>2. item[i].ref \in Nat \ {0} /\ item[i].ref <= Len(Refs[i]) + 1
  BY DEF Inv, TypeOK
<1>3. RuledOut(i) => RuledOut(i)'
  <2> SUFFICES ASSUME RuledOut(i), NEW n \in 1 .. item[i].ref - 1
               PROVE  "absent" \in held'[Refs[i][n]]
      BY DEF RuledOut
  <2>1. n \in 1 .. Len(Refs[i])
    BY <1>2, RefsTyped
  <2>2. QED
    BY <2>1, RefsTyped DEF RuledOut
<1>4. CASE item[i].at = "wait"
  <2>1. Key(i) \in Keys /\ Key(i)' = Key(i)
    BY <1>1, <1>2, <1>4, RefsTyped DEF Key, WorkerTrue
  <2>2. QED
    BY <1>1, <1>3, <1>4, <2>1 DEF WorkerTrue
<1>5. CASE item[i].at = "done"
  <2>1. Sure(i) => Sure(i)'
    BY SureStays
  <2>2. Cut(i, item[i].verdict) => Cut(i, item[i].verdict)'
    BY StaysFound DEF Cut
  <2>3. QED
    BY <1>1, <1>5, <2>1, <2>2 DEF WorkerTrue
<1>6. CASE item[i].at \notin {"wait", "done"}
  BY <1>1, <1>3, <1>6 DEF WorkerTrue
<1>7. QED
  BY <1>4, <1>5, <1>6

(* A step of one worker, which may begin the index but not change one that  *)
(* is there.                                                                *)
LEMMA WorkerMoves ==
  ASSUME Inv, NEW i \in Items, item[i].at \in {"match", "wait", "index"},
         NEW w \in Workers, w.ref <= Len(Refs[i]) + 1, item' = [item EXCEPT ![i] = w],
         UNCHANGED <<pc, published, run, prevFailed, world>>,
         index' \in Indexes, index.at = "ready" => index' = index, IndexTrue',
         flight' \in [Keys -> Flights], FlightsTrue',
         WorkerTrue(i)'
  PROVE  Inv'
<1>1. /\ UNCHANGED <<pc, run, prevFailed, disk, paths, held>>
      /\ UNCHANGED <<runID, completedRunID, lastResult, lastScheduled>>
  BY DEF published, world
<1>2. TypeOK
  BY DEF Inv
<1>3. /\ item' \in [Items -> Workers] /\ item'[i] = w
      /\ \A j \in Items \ {i} : item'[j] = item[j]
  BY <1>2 DEF TypeOK, Workers
<1>4. TypeOK'
  <2>1. \A j \in Items : item'[j].ref <= Len(Refs[j]) + 1
    BY <1>2, <1>3 DEF TypeOK
  <2>2. QED
    BY <1>1, <1>2, <1>3, <2>1 DEF TypeOK, Workers, Indexes, Flights
<1>5. ASSUME NEW j \in Items PROVE WorkerTrue(j)'
  <2>1. CASE j = i
    BY <2>1
  <2>2. CASE j # i
    BY <1>1, <1>3, <2>2, WorkerRests
  <2>3. QED
    BY <2>1, <2>2
<1>6. Phases'
  <2>1. pc = "match"
    BY DEF Inv, Phases
  <2>2. QED
    BY <1>1, <2>1 DEF Phases
<1>7. HealthAgreesWithMail'
  BY <1>1 DEF Inv, HealthAgreesWithMail, ProblemCount
<1>8. QED
  BY <1>4, <1>5, <1>6, <1>7 DEF Inv

(* What is known while index and flights rest. *)
LEMMA AtRest ==
  ASSUME Inv, UNCHANGED <<pc, index, flight, world>>
  PROVE  /\ index' \in Indexes /\ IndexTrue'
         /\ flight' \in [Keys -> Flights] /\ FlightsTrue'
<1>1. UNCHANGED <<disk, paths, held>>
  BY DEF world
<1>2. \A k \in Keys : Truth(k)' = Truth(k)
  BY <1>1 DEF Truth
<1>3. QED
  BY <1>1, <1>2 DEF Inv, TypeOK, Indexes, Flights, IndexTrue, FlightsTrue

(* The next path of an item whose last one does not exist or is unknown. *)
LEMMA GoesOn ==
  ASSUME Inv, NEW i \in Items, item[i].at \in {"match", "wait"}, item[i].ref <= Len(Refs[i]),
         NEW failed \in BOOLEAN, failed \/ "absent" \in held[Refs[i][item[i].ref]],
         item' = [item EXCEPT ![i] = NextRef(i, failed)], UNCHANGED world
  PROVE  /\ NextRef(i, failed) \in Workers /\ NextRef(i, failed).ref <= Len(Refs[i]) + 1
         /\ WorkerTrue(i)'
<1> DEFINE w == NextRef(i, failed)
<1>1. item \in [Items -> Workers] /\ item[i] \in Workers
  BY DEF Inv, TypeOK, Workers
<1>3. WorkerTrue(i) /\ item[i].verdict = "none" /\ UNCHANGED held
  BY DEF Inv, WorkerTrue, world
<1>2. /\ w.at = "match" /\ w.ref = item[i].ref + 1 /\ w.answer = "none"
      /\ w.failed <=> item[i].failed \/ failed
      /\ w.verdict = item[i].verdict /\ w \in Workers
  <2>1. item[i].ref + 1 \in Nat \ {0} /\ (item[i].failed \/ failed) \in BOOLEAN
    BY <1>1 DEF Workers
  <2>2. w \in Workers
    BY <2>1 DEF NextRef, Workers, Answers, Verdicts
  <2>3. QED
    BY <1>3, <2>2 DEF NextRef
<1>4. item'[i] = w
  BY <1>1
<1>5. ~w.failed => RuledOut(i)'
  <2> SUFFICES ASSUME ~w.failed, NEW n \in 1 .. w.ref - 1 PROVE "absent" \in held'[Refs[i][n]]
      BY <1>4 DEF RuledOut
  <2>1. RuledOut(i) /\ ~failed
    BY <1>2, <1>3 DEF WorkerTrue
  <2>2. n = item[i].ref \/ n \in 1 .. item[i].ref - 1
    BY <1>1, <1>2 DEF Workers
  <2>3. QED
    BY <1>3, <2>1, <2>2 DEF RuledOut
<1>6. WorkerTrue(i)'
  BY <1>2, <1>3, <1>4, <1>5 DEF WorkerTrue
<1>7. QED
  BY <1>1, <1>2, <1>6, RefsTyped DEF Workers

(* A worker that is done with a verdict. *)
LEMMA Settles ==
  ASSUME Inv, NEW i \in Items, NEW v \in Verdicts, item' = [item EXCEPT ![i] = Decided(i, v)],
         v = "stat_error" \/ Found(i, v)' \/ Cut(i, v)'
  PROVE  /\ Decided(i, v) \in Workers /\ Decided(i, v).ref <= Len(Refs[i]) + 1
         /\ WorkerTrue(i)'
<1>1. item \in [Items -> Workers]
  BY DEF Inv, TypeOK, Workers
<1>2. /\ Decided(i, v) \in Workers /\ Decided(i, v).ref = 1
      /\ Decided(i, v).at = "done" /\ Decided(i, v).verdict = v
  <2>1. Idle \in Workers /\ Idle.ref = 1
    BY DEF Idle, Workers, Answers, Verdicts
  <2>2. QED
    BY <2>1 DEF Decided, Workers
<1>3. item'[i] = Decided(i, v)
  BY <1>1
<1>4. WorkerTrue(i)'
  BY <1>2, <1>3 DEF WorkerTrue, Sure
<1>5. QED
  BY <1>2, <1>4, RefsTyped

LEMMA StatRefStep == ASSUME Inv, NEW i \in Items, StatRef(i) PROVE Inv'
<1>1. /\ item[i].at = "match" /\ item[i].ref <= Len(Refs[i])
      /\ UNCHANGED <<pc, published, run, index, prevFailed, world>>
      /\ UNCHANGED <<disk, paths, held>>
  BY DEF StatRef, world
<1>2. item \in [Items -> Workers] /\ item[i] \in Workers /\ WorkerTrue(i) /\ pc # "idle"
  BY <1>1 DEF Inv, TypeOK, Workers, Phases
<1>3. CASE item' = [item EXCEPT ![i] = NextRef(i, TRUE)] /\ UNCHANGED flight
  <2>1. /\ NextRef(i, TRUE) \in Workers /\ NextRef(i, TRUE).ref <= Len(Refs[i]) + 1
        /\ WorkerTrue(i)'
    BY <1>1, <1>3, GoesOn
  <2>2. QED
    BY <1>1, <1>3, <2>1, AtRest, WorkerMoves DEF Inv, TypeOK, Indexes
<1>4. CASE /\ flight' = IF flight[Key(i)].state # "none" THEN flight
                        ELSE [flight EXCEPT ![Key(i)] = [NoFlight EXCEPT !.state = "spawned",
                                                                         !.run = run.id]]
           /\ item' = [item EXCEPT ![i].at = "wait", ![i].answer = Heard(Key(i))]
  <2> DEFINE w == [item[i] EXCEPT !.at = "wait", !.answer = Heard(Key(i))]
  <2>1. Key(i) \in Keys
    BY <1>1, <1>2, RefsTyped DEF Key, Workers
  <2>2. flight \in [Keys -> Flights] /\ flight[Key(i)] \in Flights /\ run.id \in Ids
    BY <2>1 DEF Inv, TypeOK, Flights
  <2>3. item' = [item EXCEPT ![i] = w]
    BY <1>2, <1>4
  <2>4. Heard(Key(i)) \in Answers /\ Heard(Key(i)) \in {"none", flight[Key(i)].answer}
    BY <2>2 DEF Heard, Flights, Answers
  <2>5. /\ w.at = "wait" /\ w.ref = item[i].ref /\ w.failed = item[i].failed
        /\ w.answer = Heard(Key(i)) /\ w.verdict = item[i].verdict
        /\ w \in Workers
    BY <1>2, <2>4 DEF Workers
  <2>6. /\ flight' \in [Keys -> Flights]
        /\ \A k \in Keys : flight'[k].answer \in {flight[k].answer, "none"}
    BY <1>4, <2>1, <2>2 DEF NoFlight, Flights, Answers
  <2>7. FlightsTrue'
    BY <1>1, <2>6 DEF Inv, FlightsTrue, Truth
  <2>8. item'[i] = w
    BY <1>2, <2>3
  <2>9. WorkerTrue(i)'
    <3>1. Key(i)' = Key(i) /\ RuledOut(i)' = RuledOut(i)
      BY <1>1, <2>5, <2>8 DEF Key, RuledOut
    <3>2. w.answer \in {"none", "error"} \cup held[Key(i)]
      BY <1>2, <2>1, <2>4, <2>5 DEF Inv, FlightsTrue
    <3>3. QED
      BY <1>1, <1>2, <2>5, <2>8, <3>1, <3>2 DEF WorkerTrue
  <2>10. w.ref <= Len(Refs[i]) + 1
    BY <2>5 DEF Inv, TypeOK
  <2>11. index' \in Indexes /\ IndexTrue'
    BY <1>1 DEF Inv, TypeOK, Indexes, IndexTrue
  <2> HIDE DEF w
  <2>12. QED
    BY <1>1, <2>3, <2>5, <2>6, <2>7, <2>9, <2>10, <2>11, WorkerMoves
<1>5. QED
  BY <1>3, <1>4 DEF StatRef

LEMMA AnsweredStep == ASSUME Inv, NEW i \in Items, Answered(i) \/ GiveUp(i) PROVE Inv'
<1>1. /\ item[i].at = "wait"
      /\ UNCHANGED <<pc, published, run, index, flight, prevFailed, world>>
      /\ UNCHANGED <<disk, paths, held>>
  BY DEF Answered, GiveUp, world
<1>2. /\ item[i] \in Workers /\ WorkerTrue(i)
      /\ item[i].ref <= Len(Refs[i]) /\ item[i].answer \in {"none", "error"} \cup held[Key(i)]
  BY <1>1 DEF Inv, TypeOK, Workers, WorkerTrue
<1>3. Key(i) = Refs[i][item[i].ref] /\ item[i].ref \in 1 .. Len(Refs[i]) /\ Key(i) \in Keys
  BY <1>2, RefsTyped DEF Key, Workers
<1>4. CASE item[i].answer = "exists" /\ item' = [item EXCEPT ![i] = Decided(i, "present")]
  <2>1. Found(i, "present")'
    BY <1>1, <1>2, <1>3, <1>4, RefsTyped DEF Found, OnDrive
  <2>2. /\ Decided(i, "present") \in Workers /\ Decided(i, "present").ref <= Len(Refs[i]) + 1
        /\ WorkerTrue(i)'
    BY <1>4, <2>1, Settles DEF Verdicts
  <2>3. QED
    BY <1>1, <1>4, <2>2, AtRest, WorkerMoves
<1>5. ASSUME NEW failed \in BOOLEAN, failed \/ item[i].answer = "absent",
             item' = [item EXCEPT ![i] = NextRef(i, failed)]
      PROVE  Inv'
  <2>1. failed \/ "absent" \in held[Refs[i][item[i].ref]]
    BY <1>2, <1>3, <1>5
  <2>2. /\ NextRef(i, failed) \in Workers /\ NextRef(i, failed).ref <= Len(Refs[i]) + 1
        /\ WorkerTrue(i)'
    BY <1>1, <1>2, <1>5, <2>1, GoesOn
  <2>3. QED
    BY <1>1, <1>5, <2>2, AtRest, WorkerMoves
<1>6. CASE GiveUp(i)
  BY <1>5, <1>6 DEF GiveUp
<1>7. CASE Answered(i)
  <2>1. item[i].answer # "none"
    BY <1>7 DEF Answered
  <2>2. CASE item[i].answer = "exists"
    BY <1>4, <1>7, <2>2 DEF Answered
  <2>3. CASE item[i].answer # "exists"
    <3>1. item' = [item EXCEPT ![i] = NextRef(i, item[i].answer = "error")]
      BY <1>7, <2>3 DEF Answered
    <3>2. item[i].answer = "error" \/ item[i].answer = "absent"
      BY <1>2, <2>1, <2>3 DEF Workers, Answers, Facts
    <3>3. QED
      BY <1>5, <3>1, <3>2
  <2>4. QED
    BY <2>2, <2>3
<1>8. QED
  BY <1>6, <1>7

(* A worker that has tried all its paths and saw no failure has found all   *)
(* of them absent: the search directories decide.                           *)
LEMMA NoPath ==
  ASSUME Inv, NEW i \in Items, item[i].at \in {"match", "index"}, ~item[i].failed,
         item[i].ref > Len(Refs[i]), UNCHANGED world
  PROVE  OffDrive(i)' /\ InIndex(i)' = InIndex(i)
<1>1. RuledOut(i) /\ item[i].ref \in Nat /\ UNCHANGED <<disk, held>>
  BY DEF Inv, WorkerTrue, TypeOK, world
<1>2. \A n \in 1 .. Len(Refs[i]) : "absent" \in held[Refs[i][n]]
  BY <1>1, RefsTyped DEF RuledOut
<1>3. QED
  BY <1>1, <1>2, RefsTyped DEF OffDrive, InIndex

LEMMA NotOnDriveStep == ASSUME Inv, NEW i \in Items, NotOnDrive(i) PROVE Inv'
<1>1. /\ item[i].at = "match" /\ item[i].ref > Len(Refs[i])
      /\ UNCHANGED <<pc, published, run, flight, prevFailed, world>>
      /\ UNCHANGED <<disk, paths, held>>
  BY DEF NotOnDrive, world
<1>2. item \in [Items -> Workers] /\ item[i] \in Workers /\ WorkerTrue(i)
  BY DEF Inv, TypeOK, Workers
<1>3. CASE item[i].failed /\ item' = [item EXCEPT ![i] = Decided(i, "stat_error")]
           /\ UNCHANGED index
  <2>1. /\ Decided(i, "stat_error") \in Workers
        /\ Decided(i, "stat_error").ref <= Len(Refs[i]) + 1 /\ WorkerTrue(i)'
    BY <1>3, Settles DEF Verdicts
  <2>2. QED
    BY <1>1, <1>3, <2>1, AtRest, WorkerMoves
<1>4. CASE ~item[i].failed /\ ~disk.indexed /\ UNCHANGED index
           /\ item' = [item EXCEPT ![i] = Decided(i, "missing")]
  <2>1. Found(i, "missing")'
    BY <1>1, <1>4, NoPath DEF Found, InIndex
  <2>2. /\ Decided(i, "missing") \in Workers
        /\ Decided(i, "missing").ref <= Len(Refs[i]) + 1 /\ WorkerTrue(i)'
    BY <1>4, <2>1, Settles DEF Verdicts
  <2>3. QED
    BY <1>1, <1>4, <2>2, AtRest, WorkerMoves
<1>5. CASE /\ ~item[i].failed /\ disk.indexed /\ item' = [item EXCEPT ![i].at = "index"]
           /\ index' = [index EXCEPT !.at = IF @ = "none" THEN "building" ELSE @]
  <2> DEFINE w == [item[i] EXCEPT !.at = "index"]
  <2>1. /\ w \in Workers /\ w.at = "index" /\ w.ref = item[i].ref
        /\ w.failed = item[i].failed /\ w.verdict = item[i].verdict
    BY <1>2 DEF Workers
  <2>2. item' = [item EXCEPT ![i] = w] /\ item'[i] = w
    BY <1>2, <1>5
  <2>3. /\ index \in Indexes /\ index' \in Indexes
        /\ index.at = "ready" => index' = index
    BY <1>5 DEF Inv, TypeOK, Indexes
  <2>4. IndexTrue'
    BY <1>1, <1>5, <2>3 DEF Inv, IndexTrue, Indexes
  <2>5. flight' \in [Keys -> Flights] /\ FlightsTrue'
    BY <1>1 DEF Inv, TypeOK, Flights, FlightsTrue, Truth
  <2>6. WorkerTrue(i)'
    <3>1. RuledOut(i)' = RuledOut(i)
      BY <1>1, <2>1, <2>2 DEF RuledOut
    <3>2. QED
      BY <1>1, <1>2, <1>5, <2>1, <2>2, <3>1 DEF WorkerTrue
  <2>7. w.ref <= Len(Refs[i]) + 1
    BY <2>1 DEF Inv, TypeOK
  <2> HIDE DEF w
  <2>8. QED
    BY <1>1, <2>1, <2>2, <2>3, <2>4, <2>5, <2>6, <2>7, WorkerMoves
<1>6. QED
  BY <1>3, <1>4, <1>5 DEF NotOnDrive

LEMMA IndexMatchStep == ASSUME Inv, NEW i \in Items, IndexMatch(i) PROVE Inv'
<1>1. /\ item[i].at = "index" /\ index.at = "ready"
      /\ item' = [item EXCEPT ![i] = Decided(i, Lookup(index.seen[i], index.complete))]
      /\ UNCHANGED <<pc, published, run, index, flight, prevFailed, world>>
  BY DEF IndexMatch
<1>2. index \in Indexes /\ index.seen[i] \in Hits /\ index.complete \in BOOLEAN
  BY DEF Inv, TypeOK, Indexes
<1>3. PICK v \in Verdicts : v = Lookup(index.seen[i], index.complete)
  BY <1>2, LookupTyped
<1>4. OffDrive(i)' /\ InIndex(i)' = Lookup(disk.copies[i], TRUE)
  <2>1. OffDrive(i)' /\ InIndex(i)' = InIndex(i)
    BY <1>1, NoPath DEF Inv, WorkerTrue
  <2>2. disk.indexed
    BY <1>1 DEF Inv, WorkerTrue
  <2>3. QED
    BY <2>1, <2>2 DEF InIndex
<1>5. v = "stat_error" \/ Found(i, v)' \/ Cut(i, v)'
  <2>1. CASE index.complete
    <3>1. index.seen = disk.copies /\ index.complete = TRUE
      BY <1>1, <1>2, <2>1 DEF Inv, IndexTrue
    <3>2. v = InIndex(i)'
      BY <1>3, <1>4, <3>1
    <3>3. QED
      BY <1>4, <3>2 DEF Found
  <2>2. CASE ~index.complete
    <3>1. Part(index.seen[i], disk.copies[i]) /\ index.complete = FALSE
      BY <1>1, <1>2, <2>2 DEF Inv, IndexTrue
    <3>2. disk.copies[i] \in Hits
      BY CopiesTyped DEF Inv
    <3>3. \/ v = "stat_error" \/ v = Lookup(disk.copies[i], TRUE)
          \/ {v, Lookup(disk.copies[i], TRUE)} = {"present", "ambiguous"}
      BY <1>2, <1>3, <3>1, <3>2, LookupPart
    <3>4. v = "stat_error" \/ v = InIndex(i)' \/ {v, InIndex(i)'} = {"present", "ambiguous"}
      BY <1>4, <3>3
    <3>5. index'.at = "ready" /\ ~index'.complete
      BY <1>1, <2>2
    <3>6. QED
      BY <1>4, <3>4, <3>5 DEF Found, Cut, Miscounted
  <2>3. QED
    BY <2>1, <2>2
<1>6. /\ Decided(i, v) \in Workers /\ Decided(i, v).ref <= Len(Refs[i]) + 1
      /\ WorkerTrue(i)'
  <2>1. item' = [item EXCEPT ![i] = Decided(i, v)]
    BY <1>1, <1>3
  <2>2. QED
    BY <1>5, <2>1, Settles
<1>7. QED
  BY <1>1, <1>3, <1>6, AtRest, WorkerMoves

-----------------------------------------------------------------------------
(* The steps of the run.  Published results change in one of them only.     *)
LEMMA FlagStays ==
  ASSUME Inv, UNCHANGED <<lastScheduled, prevFailed>>, pc # "notify" PROVE HealthAgreesWithMail'
  BY DEF Inv, HealthAgreesWithMail, ProblemCount

(* Workers that begin anew. *)
LEMMA Anew ==
  ASSUME NEW at \in {"idle", "match"}, item' = [i \in Items |-> [Idle EXCEPT !.at = at]]
  PROVE  /\ item' \in [Items -> Workers]
         /\ \A i \in Items : item'[i].at = at /\ item'[i].ref <= Len(Refs[i]) + 1
         /\ \A i \in Items : WorkerTrue(i)'
<1> DEFINE w == [Idle EXCEPT !.at = at]
<1>1. /\ w \in Workers /\ w.at = at /\ w.ref = 1 /\ w.verdict = "none"
  <2>1. Idle \in Workers /\ Idle.ref = 1 /\ Idle.verdict = "none"
    BY DEF Idle, Workers, Answers, Verdicts
  <2>2. QED
    BY <2>1 DEF Workers
<1>2. item' \in [Items -> Workers] /\ \A i \in Items : item'[i] = w
  BY <1>1
<1> HIDE DEF w
<1>3. ASSUME NEW i \in Items
      PROVE  item'[i].at = at /\ item'[i].ref <= Len(Refs[i]) + 1 /\ WorkerTrue(i)'
  <2>1. item'[i] = w
    BY <1>2
  <2>2. 1 - 1 = 0 /\ 1 .. 0 = {} /\ 1 <= Len(Refs[i]) + 1
    BY RefsTyped
  <2>3. RuledOut(i)'
    BY <1>1, <2>1, <2>2 DEF RuledOut
  <2>4. WorkerTrue(i)'
    BY <1>1, <2>1, <2>3 DEF WorkerTrue
  <2>5. QED
    BY <1>1, <2>1, <2>2, <2>4
<1>4. QED
  BY <1>2, <1>3

LEMMA AllIdle == [i \in Items |-> [Idle EXCEPT !.at = "idle"]] = [i \in Items |-> Idle]
<1>1. [Idle EXCEPT !.at = "idle"] = Idle
  BY DEF Idle
<1>2. QED
  BY <1>1

LEMMA IndexAnew == ASSUME Inv, index' = NoIndex PROVE index' \in Indexes /\ IndexTrue'
  BY DEF NoIndex, NoHits, Hits, Indexes, IndexTrue

LEMMA FlightsStay ==
  ASSUME Inv, UNCHANGED <<flight, paths, held>>, pc # "idle" \/ pc' = "idle"
  PROVE  flight' \in [Keys -> Flights] /\ FlightsTrue'
  BY DEF Inv, TypeOK, Flights, FlightsTrue, Truth

LEMMA WorkersRest ==
  ASSUME Inv, UNCHANGED <<item, index, disk>>, \A k \in Keys : held[k] \subseteq held'[k]
  PROVE  /\ item' \in [Items -> Workers]
         /\ \A i \in Items : WorkerTrue(i)'
  BY WorkerRests DEF Inv, TypeOK, Workers

LEMMA TriggerStep == ASSUME Inv, Trigger PROVE Inv'
<1>1. /\ pc = "idle" /\ pc' = "fetch" /\ runID < MaxRuns /\ runID' = runID + 1
      /\ held' = [k \in Keys |-> {Truth(k)} \cup ({flight[k].answer} \cap Facts)]
      /\ UNCHANGED <<completedRunID, lastResult, lastScheduled, item, index, flight,
                     prevFailed, disk, paths>>
  BY DEF Trigger, matcher
<1>2. PICK scheduled \in BOOLEAN :
        run' = [NoRun EXCEPT !.id = runID', !.scheduled = scheduled]
  BY DEF Trigger
<1>3. TypeOK /\ flight \in [Keys -> Flights]
  BY DEF Inv, TypeOK, Flights
<1>4. runID' \in Ids
  BY <1>1, <1>3 DEF TypeOK, Ids
<1>5. run' \in Runs
  BY <1>2, <1>4 DEF NoRun, Runs
<1>6. held' \in [Keys -> SUBSET Facts]
  BY <1>1 DEF Truth, Facts
<1>7. TypeOK'
  BY <1>1, <1>3, <1>4, <1>5, <1>6 DEF TypeOK, Runs
<1>8. FlightsTrue'
  <2>1. ASSUME NEW k \in Keys
        PROVE  Truth(k) \in held'[k] /\ flight[k].answer \in {"none", "error"} \cup held'[k]
    <3>1. flight[k].answer \in Answers
      BY <1>3 DEF Flights
    <3>2. QED
      BY <1>1, <3>1 DEF Answers
  <2>2. \A k \in Keys : Truth(k)' = Truth(k)
    BY <1>1 DEF Truth
  <2>3. QED
    BY <1>1, <2>1, <2>2 DEF FlightsTrue
<1>9. IndexTrue' /\ HealthAgreesWithMail'
  BY <1>1, FlagStays DEF Inv, IndexTrue
<1>10. \A i \in Items : item[i].at = "idle"
  BY <1>1 DEF Inv, Phases
<1>11. \A i \in Items : WorkerTrue(i)'
  BY <1>1, <1>10 DEF Inv, WorkerTrue
<1>12. Phases'
  BY <1>1, <1>10 DEF Phases
<1>13. QED
  BY <1>7, <1>8, <1>9, <1>11, <1>12 DEF Inv

LEMMA FetchItemsStep == ASSUME Inv, FetchItems PROVE Inv'
<1>1. /\ pc = "fetch" /\ pc' \in {"open", "publish"}
      /\ UNCHANGED <<runID, completedRunID, lastResult, lastScheduled, item, index, flight,
                     prevFailed, disk, paths, held>>
  BY DEF FetchItems, published, matcher, world
<1>2. TypeOK /\ run \in Runs
  BY DEF Inv, TypeOK, Runs
<1>3. run' \in Runs /\ (pc' = "publish" => run'.error)
  BY <1>1, <1>2 DEF FetchItems, Runs
<1>4. flight' \in [Keys -> Flights] /\ FlightsTrue'
  BY <1>1, FlightsStay
<1>5. TypeOK'
  BY <1>1, <1>2, <1>3 DEF TypeOK, Runs
<1>6. IndexTrue' /\ HealthAgreesWithMail' /\ \A i \in Items : WorkerTrue(i)'
  BY <1>1, FlagStays, WorkersRest DEF Inv, IndexTrue
<1>7. Phases'
  BY <1>1, <1>3 DEF Inv, Phases
<1>8. QED
  BY <1>4, <1>5, <1>6, <1>7 DEF Inv

LEMMA OpenRootStep == ASSUME Inv, OpenRoot PROVE Inv'
<1>1. /\ pc = "open" /\ pc' = "match" /\ index' = NoIndex
      /\ item' = [i \in Items |-> [Idle EXCEPT !.at = "match"]]
      /\ UNCHANGED <<runID, completedRunID, lastResult, lastScheduled, flight, prevFailed,
                     disk, paths, held>>
  BY DEF OpenRoot, published, world
<1>2. TypeOK /\ run \in Runs
  BY DEF Inv, TypeOK, Runs
<1>3. run' \in Runs
  BY <1>2 DEF OpenRoot, Runs
<1>4. /\ item' \in [Items -> Workers]
      /\ \A i \in Items : item'[i].at = "match" /\ item'[i].ref <= Len(Refs[i]) + 1
      /\ \A i \in Items : WorkerTrue(i)'
  BY <1>1, Anew
<1>5. index' \in Indexes /\ IndexTrue'
  BY <1>1, IndexAnew
<1>6. flight' \in [Keys -> Flights] /\ FlightsTrue'
  BY <1>1, FlightsStay
<1>7. TypeOK'
  BY <1>1, <1>2, <1>3, <1>4, <1>5, <1>6 DEF TypeOK, Workers, Indexes, Flights, Runs
<1>8. Phases' /\ HealthAgreesWithMail'
  BY <1>1, FlagStays DEF Phases
<1>9. QED
  BY <1>4, <1>5, <1>6, <1>7, <1>8 DEF Inv

LEMMA CollectStep == ASSUME Inv, Collect PROVE Inv'
<1>1. /\ pc = "match" /\ pc' = "publish" /\ \A i \in Items : item[i].at = "done"
      /\ UNCHANGED <<runID, completedRunID, lastResult, lastScheduled, item, index, flight,
                     prevFailed, disk, paths, held>>
  BY DEF Collect, published, matcher, world
<1>2. PICK ended \in BOOLEAN :
        run' = [run EXCEPT !.root = "closed", !.error = ended \/ ~index.complete]
  BY DEF Collect
<1>3. TypeOK /\ run \in Runs /\ index.complete \in BOOLEAN
  BY DEF Inv, TypeOK, Runs
<1>4. run' \in Runs /\ (run'.error <=> ended \/ ~index.complete)
  <2>1. (ended \/ ~index.complete) \in BOOLEAN
    OBVIOUS
  <2>2. PICK e \in BOOLEAN : e = (ended \/ ~index.complete)
    BY <2>1
  <2>3. run' = [run EXCEPT !.root = "closed", !.error = e]
    BY <1>2, <2>2, Zenon
  <2>4. run' \in Runs /\ run'.error = e
    BY <1>3, <2>3 DEF Runs
  <2>5. QED
    BY <2>2, <2>4, Zenon
<1>5. TypeOK'
  BY <1>1, <1>3, <1>4 DEF TypeOK, Runs
<1>6. FlightsTrue' /\ IndexTrue' /\ HealthAgreesWithMail' /\ \A i \in Items : WorkerTrue(i)'
  BY <1>1, FlightsStay, FlagStays, WorkersRest DEF Inv, IndexTrue
<1>7. ~run'.error => \A i \in Items : Sure(i)
  BY <1>1, <1>4 DEF Inv, WorkerTrue, Cut
<1>8. \A i \in Items : Sure(i) => Sure(i)'
  BY <1>1, SureStays
<1>9. Phases'
  BY <1>1, <1>7, <1>8 DEF Phases
<1>10. QED
  BY <1>5, <1>6, <1>9 DEF Inv

LEMMA PublishStep == ASSUME Inv, PublishCompleted PROVE Inv'
<1> DEFINE r == [id |-> run.id, error |-> run.error, verdict |-> [i \in Items |-> item[i].verdict]]
<1>1. /\ pc = "publish" /\ lastResult' = r
      /\ lastScheduled' = IF run.scheduled THEN r ELSE lastScheduled
      /\ completedRunID' = run.id
      /\ pc' = IF run.scheduled THEN "notify" ELSE "finishing"
      /\ UNCHANGED <<runID, run, item, index, flight, prevFailed, disk, paths, held>>
  BY DEF PublishCompleted, matcher, world
<1>2. TypeOK /\ run \in Runs /\ item \in [Items -> Workers]
  BY DEF Inv, TypeOK, Runs, Workers
<1>3. r \in Results
  BY <1>2 DEF Runs, Workers, Results
<1> HIDE DEF r
<1>4. TypeOK'
  BY <1>1, <1>2, <1>3 DEF TypeOK, Runs, Workers
<1>5. FlightsTrue' /\ IndexTrue' /\ \A i \in Items : WorkerTrue(i)'
  BY <1>1, FlightsStay, WorkersRest DEF Inv, IndexTrue
<1>6. Phases'
  BY <1>1 DEF Inv, Phases
<1>7. HealthAgreesWithMail'
  BY <1>1 DEF Inv, HealthAgreesWithMail, ProblemCount
<1>8. QED
  BY <1>4, <1>5, <1>6, <1>7 DEF Inv

LEMMA NotifyStep == ASSUME Inv, Notify PROVE Inv'
<1>1. /\ pc = "notify" /\ pc' = "finishing" /\ prevFailed' = (NotifyProblems(lastResult) # {})
      /\ UNCHANGED <<runID, completedRunID, lastResult, lastScheduled, run, item, index,
                     flight, disk, paths, held>>
  BY DEF Notify, published, matcher, world
<1>2. TypeOK
  BY DEF Inv
<1>3. prevFailed' \in BOOLEAN
  BY <1>1
<1>4. TypeOK'
  BY <1>1, <1>2, <1>3 DEF TypeOK
<1>5. FlightsTrue' /\ IndexTrue' /\ \A i \in Items : WorkerTrue(i)'
  BY <1>1, FlightsStay, WorkersRest DEF Inv, IndexTrue
<1>6. Phases'
  BY <1>1 DEF Inv, Phases
<1>7. HealthAgreesWithMail'
  <2>1. lastResult = lastScheduled /\ lastScheduled \in Results
    BY <1>1, <1>2 DEF Inv, Phases, TypeOK
  <2>2. prevFailed' <=> ProblemCount(lastScheduled) > 0
    BY <1>1, <2>1, SameProblems
  <2>3. QED
    BY <1>1, <2>2 DEF HealthAgreesWithMail, ProblemCount
<1>8. QED
  BY <1>4, <1>5, <1>6, <1>7 DEF Inv

LEMMA FinishStep == ASSUME Inv, Finish PROVE Inv'
<1>1. /\ pc = "finishing" /\ pc' = "idle" /\ run' = NoRun /\ index' = NoIndex
      /\ item' = [i \in Items |-> [Idle EXCEPT !.at = "idle"]]
      /\ UNCHANGED <<runID, completedRunID, lastResult, lastScheduled, flight, prevFailed,
                     disk, paths, held>>
  BY AllIdle DEF Finish, published, world
<1>2. TypeOK /\ run' \in Runs
  BY <1>1 DEF Inv, NoRun, Runs, Ids
<1>3. /\ item' \in [Items -> Workers]
      /\ \A i \in Items : item'[i].at = "idle" /\ item'[i].ref <= Len(Refs[i]) + 1
      /\ \A i \in Items : WorkerTrue(i)'
  BY <1>1, Anew
<1>4. index' \in Indexes /\ IndexTrue'
  BY <1>1, IndexAnew
<1>5. flight' \in [Keys -> Flights] /\ FlightsTrue'
  BY <1>1, FlightsStay
<1>6. TypeOK'
  BY <1>1, <1>2, <1>3, <1>4, <1>5 DEF TypeOK, Workers, Indexes, Flights, Runs
<1>7. HealthAgreesWithMail'
  BY <1>1, FlagStays
<1>8. Phases'
  BY <1>1, <1>3 DEF Phases
<1>9. QED
  BY <1>3, <1>4, <1>5, <1>6, <1>7, <1>8 DEF Inv

-----------------------------------------------------------------------------
(* A step of the index, of a flight, which may answer the workers that wait *)
(* for it, or of the disk.                                                  *)
LEMMA OthersMove ==
  ASSUME Inv, UNCHANGED <<pc, run, prevFailed, disk>>,
         UNCHANGED <<runID, completedRunID, lastResult, lastScheduled>>,
         paths' \subseteq Keys, held' \in [Keys -> SUBSET Facts],
         \A k \in Keys : held[k] \subseteq held'[k],
         index' \in Indexes, IndexTrue',
         flight' \in [Keys -> Flights], FlightsTrue',
         \A i \in Items : WorkerTrue(i)',
         item' \in [Items -> Workers],
         \A i \in Items : /\ item'[i].at = item[i].at /\ item'[i].ref = item[i].ref
                          /\ item'[i].verdict = item[i].verdict
  PROVE  Inv'
<1>1. TypeOK' /\ HealthAgreesWithMail'
  BY DEF Inv, TypeOK, Workers, Flights, Indexes, HealthAgreesWithMail, ProblemCount
<1>2. \A i \in Items : Sure(i) => Sure(i)'
  BY SureStays
<1>3. Phases'
  BY <1>2 DEF Inv, Phases
<1>4. QED
  BY <1>1, <1>3 DEF Inv

LEMMA BuildIndexStep == ASSUME Inv, BuildIndex PROVE Inv'
<1>1. /\ index.at = "building" /\ index'.at = "ready"
      /\ UNCHANGED <<pc, run, item, flight, prevFailed, disk, paths, held>>
      /\ UNCHANGED <<runID, completedRunID, lastResult, lastScheduled>>
  BY DEF BuildIndex, published, world
<1>2. TypeOK
  BY DEF Inv
<1>3. index' \in Indexes /\ IndexTrue'
  <2>1. CASE index' = [at |-> "ready", complete |-> TRUE, seen |-> disk.copies]
    BY <1>1, <1>2, <2>1 DEF TypeOK, Indexes, IndexTrue
  <2>2. CASE \E seen \in [Items -> Hits] :
               /\ \A i \in Items : Part(seen[i], disk.copies[i])
               /\ index' = [at |-> "ready", complete |-> FALSE, seen |-> seen]
    BY <1>1, <2>2 DEF Indexes, IndexTrue
  <2>3. QED
    BY <2>1, <2>2 DEF BuildIndex, Part
<1>4. \A i \in Items : WorkerTrue(i)'
  BY <1>1, WorkerRests
<1>5. paths' \subseteq Keys /\ held' \in [Keys -> SUBSET Facts] /\ item' \in [Items -> Workers]
  BY <1>1, <1>2 DEF TypeOK, Workers
<1>6. flight' \in [Keys -> Flights] /\ FlightsTrue'
  BY <1>1, FlightsStay
<1>7. QED
  BY <1>1, <1>3, <1>4, <1>5, <1>6, OthersMove

(* A step of a flight: index and disk rest. *)
LEMMA FlightMoves ==
  ASSUME Inv, UNCHANGED <<pc, published, run, index, prevFailed, world>>,
         flight' \in [Keys -> Flights],
         \A k \in Keys : flight'[k].answer \in {"none", "error", Truth(k), flight[k].answer},
         \A i \in Items : WorkerTrue(i)',
         item' \in [Items -> Workers],
         \A i \in Items : /\ item'[i].at = item[i].at /\ item'[i].ref = item[i].ref
                          /\ item'[i].verdict = item[i].verdict
  PROVE  Inv'
<1>1. /\ UNCHANGED <<pc, run, index, prevFailed, disk, paths, held>>
      /\ UNCHANGED <<runID, completedRunID, lastResult, lastScheduled>>
  BY DEF published, world
<1>2. FlightsTrue'
  <2>1. \A k \in Keys : Truth(k)' = Truth(k)
    BY <1>1 DEF Truth
  <2>2. QED
    BY <1>1, <2>1 DEF Inv, FlightsTrue
<1>3. index' \in Indexes /\ IndexTrue'
  BY <1>1 DEF Inv, TypeOK, Indexes, IndexTrue
<1>4. paths' \subseteq Keys /\ held' \in [Keys -> SUBSET Facts]
  BY <1>1 DEF Inv, TypeOK
<1>5. QED
  BY <1>1, <1>2, <1>3, <1>4, OthersMove

(* The answer of a stat goes to its flight and to those who wait for it. *)
LEMMA DeliverStep ==
  ASSUME Inv, NEW k \in Keys, NEW answer \in {"error", flight[k].answer},
         Deliver(k, answer), UNCHANGED <<pc, published, run, index, prevFailed, world>>
  PROVE  Inv'
<1>1. UNCHANGED <<pc, index, disk, held>>
  BY DEF world
<1>2. flight \in [Keys -> Flights] /\ item \in [Items -> Workers] /\ answer \in Answers
  BY DEF Inv, TypeOK, Flights, Workers, Answers
<1>3. /\ flight' \in [Keys -> Flights]
      /\ \A j \in Keys : flight'[j].answer \in {"error", flight[j].answer}
  <2>1. NoFlight \in Flights
    BY DEF NoFlight, Flights, Ids, Answers
  <2>2. QED
    BY <1>2, <2>1 DEF Deliver, Flights
<1>4. ASSUME NEW i \in Items
      PROVE  /\ item'[i] \in Workers
             /\ item'[i].at = item[i].at /\ item'[i].ref = item[i].ref
             /\ item'[i].failed = item[i].failed /\ item'[i].verdict = item[i].verdict
             /\ \/ item'[i] = item[i]
                \/ item[i].at = "wait" /\ Key(i) = k /\ item'[i].answer = answer
  BY <1>2 DEF Deliver, Workers
<1>5. item' \in [Items -> Workers]
  BY <1>4 DEF Deliver
<1>6. ASSUME NEW i \in Items PROVE WorkerTrue(i)'
  <2>1. CASE item'[i] = item[i]
    BY <1>1, <2>1, WorkerRests
  <2>2. CASE item[i].at = "wait" /\ Key(i) = k /\ item'[i].answer = answer
    <3>1. RuledOut(i)' = RuledOut(i) /\ Key(i)' = Key(i)
      BY <1>1, <1>4 DEF RuledOut, Key
    <3>2. pc # "idle" /\ WorkerTrue(i)
      BY <2>2 DEF Inv, Phases
    <3>3. answer \in {"none", "error"} \cup held[k]
      BY <3>2 DEF Inv, FlightsTrue
    <3>4. QED
      BY <1>1, <1>4, <2>2, <3>1, <3>2, <3>3 DEF WorkerTrue
  <2>3. QED
    BY <1>4, <2>1, <2>2
<1>7. QED
  BY <1>3, <1>4, <1>5, <1>6, FlightMoves

(* A step that only one flight takes. *)
LEMMA FlightSteps ==
  ASSUME Inv, NEW k \in Keys, NEW f \in Flights, flight' = [flight EXCEPT ![k] = f],
         f.answer \in {"none", "error", Truth(k), flight[k].answer},
         UNCHANGED <<pc, published, run, item, index, prevFailed, world>>
  PROVE  Inv'
<1>1. UNCHANGED <<item, index, disk, held>>
  BY DEF world
<1>2. /\ flight' \in [Keys -> Flights]
      /\ \A j \in Keys : flight'[j].answer \in {"none", "error", Truth(j), flight[j].answer}
  BY DEF Inv, TypeOK, Flights
<1>3. item' \in [Items -> Workers] /\ \A i \in Items : WorkerTrue(i)'
  BY <1>1, WorkersRest
<1>4. QED
  BY <1>1, <1>2, <1>3, FlightMoves

LEMMA CallStatStep == ASSUME Inv, NEW k \in Keys, CallStat(k) PROVE Inv'
<1>1. flight \in [Keys -> Flights] /\ flight[k] \in Flights
  BY DEF Inv, TypeOK, Flights
<1>2. CASE Deliver(k, "error")
  BY <1>2, DeliverStep DEF CallStat
<1>3. CASE /\ flight' = [flight EXCEPT ![k].state = "stat", ![k].run = 0]
           /\ UNCHANGED item
  <2> DEFINE f == [flight[k] EXCEPT !.state = "stat", !.run = 0]
  <2>1. f \in Flights /\ f.answer = flight[k].answer
    <3>1. 0 \in Ids
      BY DEF Ids
    <3>2. QED
      BY <1>1, <3>1 DEF Flights
  <2>2. flight' = [flight EXCEPT ![k] = f]
    BY <1>1, <1>3
  <2> HIDE DEF f
  <2>3. QED
    BY <1>3, <2>1, <2>2, FlightSteps DEF CallStat
<1>4. QED
  BY <1>2, <1>3 DEF CallStat

LEMMA StatReadsStep == ASSUME Inv, NEW k \in Keys, StatReads(k) PROVE Inv'
<1>1. flight \in [Keys -> Flights] /\ flight[k] \in Flights
  BY DEF Inv, TypeOK, Flights
<1>2. PICK answer \in {Truth(k), "error"} :
        flight' = [flight EXCEPT ![k].state = "read", ![k].answer = answer]
  BY DEF StatReads
<1> DEFINE f == [flight[k] EXCEPT !.state = "read", !.answer = answer]
<1>3. answer \in Answers
  BY DEF Truth, Answers, Facts
<1>4. f \in Flights /\ f.answer = answer
  BY <1>1, <1>3 DEF Flights
<1>5. flight' = [flight EXCEPT ![k] = f]
  BY <1>1, <1>2
<1> HIDE DEF f
<1>6. QED
  BY <1>4, <1>5, FlightSteps DEF StatReads

LEMMA StatReturnsStep == ASSUME Inv, NEW k \in Keys, StatReturns(k) PROVE Inv'
  BY DeliverStep DEF StatReturns

LEMMA RemoveEntryStep == ASSUME Inv, NEW k \in Keys, RemoveEntry(k) PROVE Inv'
<1>1. NoFlight \in Flights /\ NoFlight.answer = "none"
  BY DEF NoFlight, Flights, Ids, Answers
<1>2. QED
  BY <1>1, FlightSteps DEF RemoveEntry

LEMMA PathChangesStep == ASSUME Inv, NEW k \in Keys, PathChanges(k) PROVE Inv'
<1>1. /\ UNCHANGED <<pc, run, item, index, flight, prevFailed, disk>>
      /\ UNCHANGED <<runID, completedRunID, lastResult, lastScheduled>>
      /\ paths' = IF k \in paths THEN paths \ {k} ELSE paths \cup {k}
      /\ held' = IF pc = "idle" THEN held ELSE [held EXCEPT ![k] = Facts]
  BY DEF PathChanges, published, matcher
<1>2. TypeOK /\ held \in [Keys -> SUBSET Facts]
  BY DEF Inv, TypeOK
<1>3. /\ paths' \subseteq Keys /\ held' \in [Keys -> SUBSET Facts]
      /\ \A j \in Keys : held[j] \subseteq held'[j]
  BY <1>1, <1>2 DEF TypeOK
<1>4. item' \in [Items -> Workers] /\ \A i \in Items : WorkerTrue(i)'
  BY <1>1, <1>3, WorkersRest
<1>5. flight' \in [Keys -> Flights] /\ index' \in Indexes /\ IndexTrue'
  BY <1>1 DEF Inv, TypeOK, Flights, Indexes, IndexTrue
<1>6. FlightsTrue'
  <2>1. ASSUME NEW j \in Keys, pc # "idle"
        PROVE  /\ Truth(j)' \in held'[j]
               /\ flight[j].answer \in {"none", "error"} \cup held'[j]
    <3>1. Truth(j) \in held[j] /\ flight[j].answer \in {"none", "error"} \cup held[j]
      BY <2>1 DEF Inv, FlightsTrue
    <3>2. CASE j = k
      BY <1>1, <1>2, <2>1, <3>1, <3>2 DEF Truth, Facts
    <3>3. CASE j # k
      BY <1>1, <1>2, <3>1, <3>3 DEF Truth
    <3>4. QED
      BY <3>2, <3>3
  <2>2. QED
    BY <1>1, <2>1 DEF FlightsTrue
<1>7. QED
  BY <1>1, <1>3, <1>4, <1>5, <1>6, OthersMove

-----------------------------------------------------------------------------
LEMMA InvStep == Inv /\ [Next]_vars => Inv'
<1> SUFFICES ASSUME Inv, [Next]_vars PROVE Inv'
    OBVIOUS
<1>1. CASE Trigger \/ OpenRoot
  BY <1>1, TriggerStep, OpenRootStep
<1>2. CASE RunStep
  BY <1>2, FetchItemsStep, CollectStep, PublishStep, NotifyStep, FinishStep DEF RunStep
<1>3. CASE \E i \in Items : WorkerStep(i)
  BY <1>3, StatRefStep, AnsweredStep, NotOnDriveStep, IndexMatchStep DEF WorkerStep
<1>4. CASE \E k \in Keys : CallStat(k) \/ StatReads(k) \/ StatReturns(k) \/ RemoveEntry(k)
  BY <1>4, CallStatStep, StatReadsStep, StatReturnsStep, RemoveEntryStep
<1>5. CASE BuildIndex \/ \E k \in Keys : PathChanges(k)
  BY <1>5, BuildIndexStep, PathChangesStep
<1>6. CASE UNCHANGED vars
  <2>1. /\ UNCHANGED <<pc, published, run, item, index, flight, prevFailed, world>>
        /\ UNCHANGED <<item, index, disk, held>>
    BY <1>6 DEF vars, matcher, world
  <2>2. /\ flight' \in [Keys -> Flights]
        /\ \A k \in Keys : flight'[k].answer = flight[k].answer
    BY <2>1 DEF Inv, TypeOK, Flights
  <2>3. item' \in [Items -> Workers] /\ \A i \in Items : WorkerTrue(i)'
    BY <2>1, WorkersRest
  <2>4. QED
    BY <2>1, <2>2, <2>3, FlightMoves
<1>7. QED
  BY <1>1, <1>2, <1>3, <1>4, <1>5, <1>6 DEF Next

LEMMA Invariance == Spec => []Inv
BY InitInv, InvStep, PTL DEF Spec

(* Results are published by one step. *)
LEMMA OnlyPublish ==
  ASSUME [Next]_vars, completedRunID' # completedRunID \/ lastScheduled' # lastScheduled
  PROVE  PublishCompleted
<1>1. ~(UNCHANGED published)
  BY DEF published
<1>2. CASE Trigger
  BY <1>2 DEF Trigger
<1>3. CASE RunStep
  BY <1>1, <1>3 DEF RunStep, FetchItems, Collect, Notify, Finish
<1>4. CASE \E i \in Items : WorkerStep(i)
  BY <1>1, <1>4 DEF WorkerStep, StatRef, Answered, GiveUp, NotOnDrive, IndexMatch
<1>5. CASE \E k \in Keys : \/ CallStat(k) \/ StatReads(k) \/ StatReturns(k) \/ RemoveEntry(k)
                           \/ PathChanges(k)
  BY <1>1, <1>5 DEF CallStat, StatReads, StatReturns, RemoveEntry, PathChanges
<1>6. CASE OpenRoot \/ BuildIndex \/ UNCHANGED vars
  BY <1>1, <1>6 DEF OpenRoot, BuildIndex, vars
<1>7. QED
  BY <1>2, <1>3, <1>4, <1>5, <1>6 DEF Next

(* What the step publishes rests on what the disk held. *)
LEMMA PublishTrue ==
  ASSUME Inv, PublishCompleted, NEW i \in Items, NEW v, v = item[i].verdict
  PROVE  /\ lastResult' \in Results
         /\ lastResult'.verdict[i] = v /\ lastResult'.error = run.error
         /\ \/ v = "stat_error" \/ Found(i, v)
            \/ lastResult'.error /\ (v = "none" \/ Miscounted(i, v))
<1>1. /\ pc = "publish" /\ lastResult'.verdict[i] = v /\ lastResult'.error = run.error
  BY DEF PublishCompleted
<1>2. TypeOK /\ TypeOK'
  BY PublishStep DEF Inv
<1>3. lastResult' \in Results /\ run.error \in BOOLEAN
  BY <1>2 DEF TypeOK
<1>4. CASE run.error
  <2>1. Sure(i) => v = "stat_error" \/ Found(i, v)
    BY DEF Sure
  <2>2. Cut(i, v) => Miscounted(i, v)
    BY DEF Cut
  <2>3. v = "none" \/ Sure(i) \/ Cut(i, v)
    BY DEF Inv, WorkerTrue
  <2>4. QED
    BY <1>1, <1>3, <1>4, <2>1, <2>2, <2>3
<1>5. CASE ~run.error
  <2>1. Sure(i)
    BY <1>1, <1>5 DEF Inv, Phases
  <2>2. QED
    BY <1>1, <1>3, <2>1 DEF Sure
<1>6. QED
  BY <1>4, <1>5

(* Every step keeps the variables in their types: among others, a worker    *)
(* never looks beyond the paths of its item.                                *)
THEOREM TypeCorrect == Spec => []TypeOK
<1>1. Inv => TypeOK
  BY DEF Inv
<1>2. QED
  BY <1>1, Invariance, PTL

(* Whatever hangs, fails, comes and goes, is shared with an earlier run or  *)
(* cut short, a published verdict rests on what the disk held or says that  *)
(* it could not be found out; where an index without all files has the      *)
(* wrong number of copies, the result carries an error.                     *)
THEOREM VerdictsTrue == Spec => VerdictsMatchDisk
<1> DEFINE A == completedRunID' # completedRunID =>
                  \A i \in Items :
                    LET v == lastResult'.verdict[i]
                    IN \/ v = "stat_error" \/ Found(i, v)
                       \/ lastResult'.error /\ (v = "none" \/ Miscounted(i, v))
<1>1. Inv /\ [Next]_vars => [A]_vars
  <2> SUFFICES ASSUME Inv, [Next]_vars, completedRunID' # completedRunID, NEW i \in Items
               PROVE  LET v == lastResult'.verdict[i]
                      IN \/ v = "stat_error" \/ Found(i, v)
                         \/ lastResult'.error /\ (v = "none" \/ Miscounted(i, v))
      OBVIOUS
  <2>1. PublishCompleted
    BY OnlyPublish
  <2>2. PICK v : v = item[i].verdict
    OBVIOUS
  <2>3. /\ lastResult'.verdict[i] = v
        /\ \/ v = "stat_error" \/ Found(i, v)
           \/ lastResult'.error /\ (v = "none" \/ Miscounted(i, v))
    BY <2>1, <2>2, PublishTrue
  <2>4. QED
    BY <2>3
<1>2. QED
  BY <1>1, Invariance, PTL DEF Spec, VerdictsMatchDisk

(* /health reports no problem only after a scheduled check that found each  *)
(* item on disk.                                                            *)
THEOREM CleanIsChecked == Spec => CleanMeansChecked
<1> DEFINE A == lastScheduled' # lastScheduled /\ ProblemCount(lastScheduled') = 0 =>
                  \A i \in Items : lastScheduled'.verdict[i] = "present" /\ Found(i, "present")
<1>1. Inv /\ [Next]_vars => [A]_vars
  <2> SUFFICES ASSUME Inv, [Next]_vars, lastScheduled' # lastScheduled,
                      ProblemCount(lastScheduled') = 0, NEW i \in Items
               PROVE  lastScheduled'.verdict[i] = "present" /\ Found(i, "present")
      OBVIOUS
  <2>1. PublishCompleted
    BY OnlyPublish
  <2>2. lastScheduled' = lastResult'
    BY <2>1 DEF PublishCompleted
  <2>3. PICK v : v = item[i].verdict
    OBVIOUS
  <2>4. /\ lastResult' \in Results /\ lastResult'.verdict[i] = v
        /\ \/ v = "stat_error" \/ Found(i, v)
           \/ lastResult'.error /\ (v = "none" \/ Miscounted(i, v))
    BY <2>1, <2>3, PublishTrue
  <2>5. NotifyProblems(lastResult') = {}
    BY <2>2, <2>4, SameProblems
  <2>6. ~lastResult'.error /\ v \notin Bad
    BY <2>4, <2>5 DEF NotifyProblems
  <2>7. Found(i, v) /\ v \in Verdicts
    BY <2>4, <2>6 DEF Results, Bad
  <2>8. v # "none"
    BY <2>7, Verdict DEF Found, Inv
  <2>9. v = "present"
    BY <2>6, <2>7, <2>8 DEF Verdicts, Bad
  <2>10. QED
    BY <2>2, <2>4, <2>7, <2>9
<1>2. QED
  BY <1>1, Invariance, PTL DEF Spec, CleanMeansChecked

(* The flag behind the mails and the number /health shows are of the same   *)
(* scheduled run, whatever ad-hoc checks are published in between.          *)
THEOREM HealthMeansMail == Spec => []HealthAgreesWithMail
<1>1. Inv => HealthAgreesWithMail
  BY DEF Inv
<1>2. QED
  BY <1>1, Invariance, PTL
=============================================================================
