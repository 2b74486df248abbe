---------------------------- MODULE MCTaskLabels ----------------------------
(* TaskLabels for TLC: the session's first prompt opens a task, a later one may
   open or continue one. *)
EXTENDS TaskLabels

MCSays == [t \in 1..MaxTurn |-> IF t = 1 THEN {"task"} ELSE {"task", "follow_up"}]
=============================================================================
