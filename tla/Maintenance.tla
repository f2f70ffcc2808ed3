----------------------------- MODULE Maintenance -----------------------------
(***************************************************************************)
(* internal/service/maintenance.go: what a database health check makes of  *)
(* the statistics it reads, and internal/notify/healthalert.go: whether it *)
(* mails.  Ages are in days, sizes and counts in the units of the source.  *)
(* Ratios are compared as the products they stand for.  Percentages are    *)
(* float64 in the code: one that is exactly whole may come out just above  *)
(* or below itself, which a table and a report carry as "above", "below".  *)
(***************************************************************************)
EXTENDS Integers, Sequences

CONSTANTS BloatThreshold, DeadTupleThreshold, VacuumStalenessDays,
          MinRowsForRecommendation, ToastSizeWarning, StaleStatsThreshold,
          SeqScanRatioThreshold, ConnectionUsageThreshold,
          MinSeqScans   \* 1000

Never == -1   \* a time that is nil

-----------------------------------------------------------------------------
(* The conditions of convertTableRow and checkTableHealth. *)
ExceedsBloat(t) ==
  LET dead == t.deadTuples * 100
      limit == BloatThreshold * (t.rowCount + t.deadTuples)
  IN /\ dead > limit \/ (dead = limit /\ dead > 0 /\ t.rounding = "above")
     /\ t.rowCount > MinRowsForRecommendation

ExceedsDeadTuples(t) == t.deadTuples > DeadTupleThreshold

NeverVacuumed(t) == /\ t.lastVacuum = Never /\ t.lastAutovacuum = Never
                    /\ t.rowCount > MinRowsForRecommendation

(* lastVacuumTime: the younger of the two. *)
LastVacuumTime(t) ==
  IF t.lastVacuum # Never /\ (t.lastAutovacuum = Never \/ t.lastVacuum < t.lastAutovacuum)
  THEN t.lastVacuum ELSE t.lastAutovacuum

NotVacuumed(t) == /\ LastVacuumTime(t) # Never /\ LastVacuumTime(t) > VacuumStalenessDays
                  /\ t.rowCount > MinRowsForRecommendation

NeverAnalyzed(t) == /\ t.lastAnalyze = Never /\ t.lastAutoanalyze = Never
                    /\ t.rowCount > MinRowsForRecommendation

HasStaleStats(t) == /\ t.rowCount > MinRowsForRecommendation
                    /\ t.modSinceAnalyze > (t.rowCount * StaleStatsThreshold) \div 100

HighSeqScans(t) == /\ t.seqScans > MinSeqScans /\ t.idxScans > 0
                   /\ t.rowCount > MinRowsForRecommendation
                   /\ t.seqScans > SeqScanRatioThreshold * t.idxScans

LargeToast(t) == t.toastSize > ToastSizeWarning

NeedsVacuum(t) == ExceedsBloat(t) \/ ExceedsDeadTuples(t)
NeedsAnalyze(t) == NeverAnalyzed(t) \/ HasStaleStats(t)

(* A bug to catch: tables below the minimum get no advice at all. *)
AdviseLargeTables(t) == /\ t.rowCount > MinRowsForRecommendation
                        /\ \/ ExceedsBloat(t) \/ ExceedsDeadTuples(t) \/ NeverVacuumed(t)
                           \/ NotVacuumed(t) \/ NeverAnalyzed(t) \/ HasStaleStats(t)
                           \/ HighSeqScans(t) \/ LargeToast(t)

(* checkTableHealth appends a recommendation. *)
Advised(t) == \/ ExceedsBloat(t) \/ ExceedsDeadTuples(t) \/ NeverVacuumed(t)
              \/ NotVacuumed(t) \/ NeverAnalyzed(t) \/ HasStaleStats(t)
              \/ HighSeqScans(t) \/ LargeToast(t)

-----------------------------------------------------------------------------
(* xminHolder: the first session with the greatest age above 0.             *)
HoldsXmin(queries, i) ==
  /\ queries[i].xminAge > 0
  /\ \A j \in DOMAIN queries : /\ queries[j].xminAge <= queries[i].xminAge
                               /\ j < i => queries[j].xminAge < queries[i].xminAge

(* The recommendations about sessions: the holder's, and one for each other. *)
BlockedBy(queries) == {queries[i].pid : i \in {j \in DOMAIN queries : HoldsXmin(queries, j)}}
LongRunning(queries) == {queries[i].pid : i \in DOMAIN queries} \ BlockedBy(queries)

(* int(pct) >= threshold; without a maximum the percentage is 0. *)
ConnectionUsage(r) ==
  IF r.maxConns = 0 \/ r.active = 0 THEN 0
  ELSE LET pct == (r.active * 100) \div r.maxConns
       IN IF (r.active * 100) % r.maxConns = 0 /\ r.rounding = "below" THEN pct - 1 ELSE pct
ConnectionsHigh(r) == ConnectionUsage(r) >= ConnectionUsageThreshold

(* generateRecommendations returns something. *)
Recommends(r) == \/ BlockedBy(r.queries) # {} \/ LongRunning(r.queries) # {}
                 \/ ConnectionsHigh(r)
                 \/ \E t \in r.tables : Advised(t)

NeedsMaintenance(r) == \E t \in r.tables : NeedsVacuum(t) \/ NeedsAnalyze(t)

HasIssues(r) == Recommends(r) \/ r.queries # << >>
=============================================================================
