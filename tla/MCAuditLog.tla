---------------------------- MODULE MCAuditLog ----------------------------
(* AuditLog with three tasks in one process. *)
EXTENDS AuditLog, TLC

CONSTANTS t1, t2, t3, q1

ThreeTasks == {t1, t2, t3}
OneProcess == {q1}
AllInOne   == [t \in ThreeTasks |-> q1]

TaskSymmetry == Permutations(ThreeTasks)
=============================================================================
