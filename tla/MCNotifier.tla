----------------------------- MODULE MCNotifier -----------------------------
(* Instances of Notifier for TLC: health reports on both sides of the       *)
(* thresholds, one of them crossed at a time.                               *)
EXTENDS Notifier

Quiet == [rowCount |-> 11, deadTuples |-> 1, modSinceAnalyze |-> 1, lastVacuum |-> 0,
          lastAutovacuum |-> Never, lastAnalyze |-> 0, lastAutoanalyze |-> Never,
          seqScans |-> 0, idxScans |-> 0, toastSize |-> 0, rounding |-> "exact"]

Tables == {Quiet,
           [Quiet EXCEPT !.deadTuples = 2],                        \* bloat
           [Quiet EXCEPT !.rowCount = 18, !.deadTuples = 2],       \* at the threshold
           [Quiet EXCEPT !.rowCount = 18, !.deadTuples = 2, !.rounding = "above"],
           [Quiet EXCEPT !.rowCount = 10, !.deadTuples = 6],       \* small, many dead tuples
           [Quiet EXCEPT !.rowCount = 10, !.lastAnalyze = Never],  \* small, never analyzed
           [Quiet EXCEPT !.lastAnalyze = Never],
           [Quiet EXCEPT !.modSinceAnalyze = 2]}                   \* stale statistics

Session(pid, age) == [pid |-> pid, xminAge |-> age]

Report0 == [tables |-> {Quiet}, queries |-> << >>, active |-> 1, maxConns |-> 10,
            rounding |-> "exact"]

MCReports == {[Report0 EXCEPT !.tables = {t}] : t \in Tables}
             \cup {[Report0 EXCEPT !.queries = <<Session(1, 3), Session(2, 5)>>],
                   [Report0 EXCEPT !.active = 9], [Report0 EXCEPT !.active = 8],
                   [Report0 EXCEPT !.active = 8, !.rounding = "below"]}
=============================================================================
