------------------------------ MODULE MediaCheck -----------------------------
(***************************************************************************)
(* internal/service/mediacheck.go and mediamatch.go: a run fetches the     *)
(* playlist items and matches each against the disk, first by the exact    *)
(* path below a mapped drive, then by name in an index of the search       *)
(* directories.  Opening the drive, stats and the index walk may hang for  *)
(* ever; the stat flights outlive the run whose root they use.  Files      *)
(* below the drive come and go meanwhile; the search directories hold      *)
(* still.                                                                  *)
(*                                                                         *)
(* Every item has a reference; Refs gives the keys of its paths on a       *)
(* mapped drive, one drive for all.  Waits are bounded by timers and by    *)
(* the run's context, which may both come at any moment; how the time of a *)
(* flight is shared is module StatFlight.  That runs do not overlap, that  *)
(* none starts once the service closes and that Close waits for the one    *)
(* under way is module Runner: here a trigger that gets the slot is one    *)
(* step, and one that does not is none.                                    *)
(***************************************************************************)
EXTENDS Integers, Sequences, FiniteSets

CONSTANTS Items,      \* playlist items in scope
          Keys,       \* paths below the drive
          Refs,       \* the keys of each item, in the order they are tried
          Unsteady,   \* those where files may come and go
          Disks,      \* what may be in the search directories
          MaxCopies,  \* bound: files of one name
          MaxRuns     \* bound: runs

(* Files with the full name of an item, and others with its stem.           *)
Hits == [name : 0 .. MaxCopies, other : 0 .. MaxCopies]

ASSUME MediaAssumption ==
  /\ IsFiniteSet(Items)
  /\ Refs \in [Items -> Seq(Keys)] /\ Unsteady \subseteq Keys
  /\ MaxRuns \in Nat \ {0} /\ MaxCopies \in Nat
  /\ Disks \subseteq [indexed : BOOLEAN, copies : [Items -> Hits]]

VARIABLES pc,            \* where the run is
          runID, completedRunID, lastResult, lastScheduled,   \* publishedMu
          run,           \* the current run: id, for cron, drive root, error
          item,          \* the worker of each item
          index,         \* the matcher's lazy index
          flight,        \* s.statFlights
          prevFailed,    \* the notifier's flag for media checks
          disk,          \* search dirs configured, files there
          paths,         \* the paths below the drive that exist now
          held           \* history: what an honest stat of each path could tell this run

published == <<runID, completedRunID, lastResult, lastScheduled>>
matcher == <<item, index, flight>>
world == <<disk, paths, held>>
vars == <<pc, published, run, matcher, prevFailed, world>>

Ids == 0 .. MaxRuns
Verdicts == {"none", "present", "ambiguous", "missing", "stat_error"}
Facts == {"exists", "absent"}
Answers == {"none", "error"} \cup Facts
Results == [id : Ids, error : BOOLEAN, verdict : [Items -> Verdicts]]
Nothing == [id |-> 0, error |-> FALSE, verdict |-> [i \in Items |-> "none"]]
NoRun == [id |-> 0, scheduled |-> FALSE, root |-> "closed", error |-> FALSE]
Idle == [at |-> "idle", ref |-> 1, failed |-> FALSE, answer |-> "none", verdict |-> "none"]
NoHits == [i \in Items |-> [name |-> 0, other |-> 0]]
NoIndex == [at |-> "none", complete |-> TRUE, seen |-> NoHits]
NoFlight == [state |-> "none", run |-> 0, answer |-> "none"]

TypeOK ==
  /\ pc \in {"idle", "fetch", "open", "match", "publish", "notify", "finishing"}
  /\ runID \in Ids /\ completedRunID \in Ids
  /\ lastResult \in Results /\ lastScheduled \in Results
  /\ run \in [id : Ids, scheduled : BOOLEAN,
              root : {"up", "down", "closed"}, error : BOOLEAN]
  /\ item \in [Items -> [at : {"idle", "match", "wait", "index", "done"}, ref : Nat \ {0},
                         failed : BOOLEAN, answer : Answers, verdict : Verdicts]]
  /\ \A i \in Items : item[i].ref <= Len(Refs[i]) + 1
  /\ index \in [at : {"none", "building", "ready"}, complete : BOOLEAN, seen : [Items -> Hits]]
  /\ flight \in [Keys -> [state : {"none", "spawned", "stat", "read", "done"}, run : Ids,
                          answer : Answers]]
  /\ prevFailed \in BOOLEAN
  /\ disk \in Disks /\ paths \subseteq Keys /\ held \in [Keys -> SUBSET Facts]

Truth(k) == IF k \in paths THEN "exists" ELSE "absent"

Init == /\ pc = "idle"
        /\ runID = 0 /\ completedRunID = 0
        /\ lastResult = Nothing /\ lastScheduled = Nothing
        /\ run = NoRun
        /\ item = [i \in Items |-> Idle]
        /\ index = NoIndex
        /\ flight = [k \in Keys |-> NoFlight]
        /\ prevFailed = FALSE
        /\ disk \in Disks /\ paths \in SUBSET Keys
        /\ held = [k \in Keys |-> {}]

-----------------------------------------------------------------------------
(* A file appears or goes. *)
PathChanges(k) ==
  /\ k \in Unsteady
  /\ paths' = IF k \in paths THEN paths \ {k} ELSE paths \cup {k}
  /\ held' = IF pc = "idle" THEN held ELSE [held EXCEPT ![k] = Facts]
  /\ UNCHANGED <<pc, published, run, matcher, prevFailed, disk>>

(* trigger, for TriggerCheck and TriggerScheduled.  A flight of an earlier  *)
(* run may have an answer from before this one.                             *)
Trigger == /\ pc = "idle"
           /\ runID < MaxRuns
           /\ runID' = runID + 1
           /\ \E scheduled \in BOOLEAN :
                run' = [NoRun EXCEPT !.id = runID', !.scheduled = scheduled]
           /\ pc' = "fetch"
           /\ held' = [k \in Keys |-> {Truth(k)} \cup ({flight[k].answer} \cap Facts)]
           /\ UNCHANGED <<completedRunID, lastResult, lastScheduled, matcher, prevFailed,
                          disk, paths>>

-----------------------------------------------------------------------------
(* executeRun: the query, under the run's context. *)

(* A bug to catch: a query that fails makes an empty, clean result. *)
FetchFailsClean == /\ pc = "fetch"
                   /\ pc' \in {"open", "publish"}
                   /\ UNCHANGED <<published, run, matcher, prevFailed, world>>

FetchItems == /\ pc = "fetch"
              /\ \/ pc' = "open" /\ UNCHANGED run
                 \/ pc' = "publish" /\ run' = [run EXCEPT !.error = TRUE]
              /\ UNCHANGED <<published, matcher, prevFailed, world>>

(* buildMatcher: the drive's root, which may not open, or hang.             *)
OpenRoot == /\ pc = "open"
            /\ \E root \in {"up", "down"} : run' = [run EXCEPT !.root = root]
            /\ item' = [i \in Items |-> [Idle EXCEPT !.at = "match"]]
            /\ index' = NoIndex
            /\ pc' = "match"
            /\ UNCHANGED <<published, flight, prevFailed, world>>

Decided(i, verdict) == [Idle EXCEPT !.at = "done", !.verdict = verdict]
NextRef(i, failed) == [at |-> "match", ref |-> item[i].ref + 1,
                       failed |-> item[i].failed \/ failed, answer |-> "none", verdict |-> "none"]
Key(i) == Refs[i][item[i].ref]

(* What a flight tells those who join it. *)
Heard(k) == IF flight[k].state = "done" THEN flight[k].answer ELSE "none"

(* statDriveMapped: one path, by a flight of its own or one that is there.  *)
StatRef(i) ==
  /\ item[i].at = "match" /\ item[i].ref <= Len(Refs[i])
  /\ \/ /\ run.root = "down"
        /\ item' = [item EXCEPT ![i] = NextRef(i, TRUE)]
        /\ UNCHANGED flight
     \/ /\ run.root = "up"
        /\ flight' = IF flight[Key(i)].state # "none" THEN flight
                     ELSE [flight EXCEPT ![Key(i)] = [NoFlight EXCEPT !.state = "spawned",
                                                                      !.run = run.id]]
        /\ item' = [item EXCEPT ![i].at = "wait", ![i].answer = Heard(Key(i))]
  /\ UNCHANGED <<pc, published, run, index, prevFailed, world>>

Answered(i) == /\ item[i].at = "wait" /\ item[i].answer # "none"
               /\ item' = [item EXCEPT ![i] =
                             IF @.answer = "exists" THEN Decided(i, "present")
                             ELSE NextRef(i, @.answer = "error")]
               /\ UNCHANGED <<pc, published, run, index, flight, prevFailed, world>>

(* A bug to catch: waiting for a stat without a timer. *)
GiveUpNever(i) == FALSE

(* The wait's timer, or the run's context. *)
GiveUp(i) == /\ item[i].at = "wait"
             /\ item' = [item EXCEPT ![i] = NextRef(i, TRUE)]
             /\ UNCHANGED <<pc, published, run, index, flight, prevFailed, world>>

(* No path exists.  A path that could not be checked decides the item; the  *)
(* first item that gets past it builds the index.                           *)
NotOnDrive(i) ==
  /\ item[i].at = "match" /\ item[i].ref > Len(Refs[i])
  /\ \/ /\ item[i].failed
        /\ item' = [item EXCEPT ![i] = Decided(i, "stat_error")]
        /\ UNCHANGED index
     \/ /\ ~item[i].failed /\ ~disk.indexed
        /\ item' = [item EXCEPT ![i] = Decided(i, "missing")]
        /\ UNCHANGED index
     \/ /\ ~item[i].failed /\ disk.indexed
        /\ item' = [item EXCEPT ![i].at = "index"]
        /\ index' = [index EXCEPT !.at = IF @ = "none" THEN "building" ELSE @]
  /\ UNCHANGED <<pc, published, run, flight, prevFailed, world>>

(* buildIndex: the walk ends, with errors for what it could not read (any   *)
(* of the files), or its timer or the context ends the wait with an empty   *)
(* index.                                                                   *)
BuildIndex ==
  /\ index.at = "building"
  /\ \/ index' = [at |-> "ready", complete |-> TRUE, seen |-> disk.copies]
     \/ \E seen \in [Items -> Hits] :
          /\ \A i \in Items : /\ seen[i].name <= disk.copies[i].name
                             /\ seen[i].other <= disk.copies[i].other
          /\ index' = [at |-> "ready", complete |-> FALSE, seen |-> seen]
  /\ UNCHANGED <<pc, published, run, item, flight, prevFailed, world>>

(* A bug to catch: what an incomplete index does not have is missing. *)
LookupAnyIndex(h, complete) ==
  LET n == IF h.name > 0 THEN h.name ELSE h.other
  IN CASE n = 0 -> "missing" [] n = 1 -> "present" [] n > 1 -> "ambiguous"

(* The full name decides before the name without extension. *)
Lookup(h, complete) ==
  LET n == IF h.name > 0 THEN h.name ELSE h.other
  IN CASE n = 1 -> "present"
       [] n > 1 -> "ambiguous"
       [] n = 0 -> IF complete THEN "missing" ELSE "stat_error"

IndexMatch(i) ==
  /\ item[i].at = "index" /\ index.at = "ready"
  /\ item' = [item EXCEPT ![i] = Decided(i, Lookup(index.seen[i], index.complete))]
  /\ UNCHANGED <<pc, published, run, index, flight, prevFailed, world>>

(* All workers are done: the run's own error, then the roots are closed.    *)
(* The run's context may have ended at any moment since its start.          *)
Collect ==
  /\ pc = "match" /\ \A i \in Items : item[i].at = "done"
  /\ \E ended \in BOOLEAN :
       run' = [run EXCEPT !.root = "closed", !.error = ended \/ ~index.complete]
  /\ pc' = "publish"
  /\ UNCHANGED <<published, matcher, prevFailed, world>>

-----------------------------------------------------------------------------
(* The goroutine of a flight.  On a root that was closed before it began    *)
(* the stat fails at once; one that is under way keeps the root open.       *)

Deliver(k, answer) ==
  /\ flight' = [flight EXCEPT ![k] = [NoFlight EXCEPT !.state = "done", !.answer = answer]]
  /\ item' = [i \in Items |-> IF /\ item[i].at = "wait" /\ item[i].answer = "none"
                                 /\ Key(i) = k
                              THEN [item[i] EXCEPT !.answer = answer] ELSE item[i]]

(* A bug to catch: a root that is closed has no files. *)
CallStatOnClosed(k) ==
  /\ flight[k].state = "spawned"
  /\ IF run.id = flight[k].run /\ run.root = "up"
     THEN /\ flight' = [flight EXCEPT ![k].state = "stat", ![k].run = 0]
          /\ UNCHANGED item
     ELSE Deliver(k, "absent")
  /\ UNCHANGED <<pc, published, run, index, prevFailed, world>>

CallStat(k) ==
  /\ flight[k].state = "spawned"
  /\ IF run.id = flight[k].run /\ run.root = "up"
     THEN /\ flight' = [flight EXCEPT ![k].state = "stat", ![k].run = 0]
          /\ UNCHANGED item
     ELSE Deliver(k, "error")
  /\ UNCHANGED <<pc, published, run, index, prevFailed, world>>

(* The file system looks at the path, or fails; the caller hears later. *)
StatReads(k) ==
  /\ flight[k].state = "stat"
  /\ \E answer \in {Truth(k), "error"} :
       flight' = [flight EXCEPT ![k].state = "read", ![k].answer = answer]
  /\ UNCHANGED <<pc, published, run, item, index, prevFailed, world>>

StatReturns(k) ==
  /\ flight[k].state = "read"
  /\ Deliver(k, flight[k].answer)
  /\ UNCHANGED <<pc, published, run, index, prevFailed, world>>

RemoveEntry(k) ==
  /\ flight[k].state = "done"
  /\ flight' = [flight EXCEPT ![k] = NoFlight]
  /\ UNCHANGED <<pc, published, run, item, index, prevFailed, world>>

-----------------------------------------------------------------------------
Bad == {"missing", "ambiguous", "stat_error"}

(* problemCount, for /health. *)
ProblemCount(result) ==
  IF result.error THEN 1 ELSE Cardinality({i \in Items : result.verdict[i] \in Bad})

(* A bug to catch: a run that failed has no items, hence no problems. *)
NotifyItemProblems(result) == {result.verdict[i] : i \in Items} \cap Bad

(* buildNotifyResult: a failed run is one problem of its own. *)
NotifyProblems(result) ==
  IF result.error THEN {"run"} ELSE {result.verdict[i] : i \in Items} \cap Bad

PublishCompleted ==
  /\ pc = "publish"
  /\ lastResult' = [id |-> run.id, error |-> run.error,
                    verdict |-> [i \in Items |-> item[i].verdict]]
  /\ lastScheduled' = IF run.scheduled THEN lastResult' ELSE lastScheduled
  /\ completedRunID' = run.id
  /\ pc' = IF run.scheduled THEN "notify" ELSE "finishing"
  /\ UNCHANGED <<runID, run, matcher, prevFailed, world>>

(* NotifyMediaCheckResult, of the run's own result. *)
Notify == /\ pc = "notify"
          /\ prevFailed' = (NotifyProblems(lastResult) # {})
          /\ pc' = "finishing"
          /\ UNCHANGED <<published, run, matcher, world>>

(* cancel(), then the slot is given back. *)
Finish == /\ pc = "finishing"
          /\ pc' = "idle"
          /\ run' = NoRun
          /\ item' = [i \in Items |-> Idle]
          /\ index' = NoIndex
          /\ UNCHANGED <<published, flight, prevFailed, world>>

RunStep == FetchItems \/ Collect \/ PublishCompleted \/ Notify \/ Finish

WorkerStep(i) == StatRef(i) \/ Answered(i) \/ GiveUp(i) \/ NotOnDrive(i) \/ IndexMatch(i)

Next == \/ Trigger \/ RunStep \/ OpenRoot
        \/ \E i \in Items : WorkerStep(i)
        \/ \E k \in Keys : \/ CallStat(k) \/ StatReads(k) \/ StatReturns(k) \/ RemoveEntry(k)
                            \/ PathChanges(k)
        \/ BuildIndex

Spec == Init /\ [][Next]_vars

(* Goroutines are scheduled, the query and the waits end with the context   *)
(* or a timer.  Stats, directory walks and OpenRoot need not end:           *)
(* BuildIndex is fair because its timer is.                                 *)
Fairness == /\ WF_vars(RunStep) /\ WF_vars(BuildIndex)
            /\ \A i \in Items : WF_vars(WorkerStep(i))

FairSpec == Spec /\ Fairness

-----------------------------------------------------------------------------
(* What a reading of the search directories gives. *)
InIndex(i) == IF disk.indexed THEN Lookup(disk.copies[i], TRUE) ELSE "missing"

OnDrive(i) == \E n \in DOMAIN Refs[i] : "exists" \in held[Refs[i][n]]
OffDrive(i) == \A n \in DOMAIN Refs[i] : "absent" \in held[Refs[i][n]]

Found(i, verdict) == \/ verdict = "present" /\ OnDrive(i)
                     \/ verdict = InIndex(i) /\ OffDrive(i)

(* Where the index lacks files the number of copies may be wrong. *)
Miscounted(i, verdict) == OffDrive(i) /\ {verdict, InIndex(i)} = {"present", "ambiguous"}

(* A published verdict rests on what the disk held while the run went on,   *)
(* or on an answer that a stat of an earlier run already had and this one   *)
(* joined; or it says that it could not be found out.  Hung or failed       *)
(* stats, files that come and go, roots that are down or closed, and an     *)
(* incomplete index never make a file "missing" that was there throughout.  *)
(* Where an index without all files has the wrong number of copies, and     *)
(* where an item has no verdict, the result carries the run's error.        *)
VerdictsMatchDisk ==
  [][completedRunID' # completedRunID =>
       \A i \in Items :
         LET v == lastResult'.verdict[i]
         IN \/ v = "stat_error" \/ Found(i, v)
            \/ lastResult'.error /\ (v = "none" \/ Miscounted(i, v))]_vars

(* A scheduled check counts as clean only if it found every item.           *)
CleanMeansChecked ==
  [][lastScheduled' # lastScheduled /\ ProblemCount(lastScheduled') = 0 =>
       \A i \in Items : lastScheduled'.verdict[i] = "present" /\ Found(i, "present")]_vars

(* /health (ProblemCount) and the mails (prevFailed) speak of the same      *)
(* scheduled run, whatever ad-hoc checks came between.                      *)
HealthAgreesWithMail ==
  pc # "notify" => (prevFailed <=> ProblemCount(lastScheduled) > 0)

(* Every run completes, though stats and walks hang for ever and later runs *)
(* join the hung flights, unless it hangs for ever where it opens a drive,  *)
(* which no timer bounds.                                                   *)
RunsComplete ==
  \A n \in 1 .. MaxRuns : runID = n ~> completedRunID >= n \/ [](pc = "open")
=============================================================================
