----------------------------- MODULE MCFinance -----------------------------
(* Constants of the finance sync for TLC: two days in April and later ones  *)
(* in May, between which the period that is asked for changes.               *)
EXTENDS IncrementalFinance

ReportPeriod == [d \in FinDays |-> TargetPeriod(2024, IF d < 2 THEN 4 ELSE 5)]
=============================================================================
