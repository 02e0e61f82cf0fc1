---------------------------- MODULE MCScheduler -----------------------------
(* Instances of Scheduler for TLC: the expression p fires at the multiples  *)
(* of p.                                                                    *)
EXTENDS Scheduler

CONSTANTS r1, r2, s1, s2

MCNextAfter == [p \in Cron |-> [t \in Clock |-> (t \div p + 1) * p]]
MCOneFault == [k \in FaultKind |-> 1]
=============================================================================
