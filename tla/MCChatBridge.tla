---- MODULE MCChatBridge ----
(***************************************************************************)
(* Requests and cron jobs do the same things and are told apart by nothing *)
(* else, so that they may be exchanged.                                    *)
(***************************************************************************)
EXTENDS ChatBridge, TLC

Symmetry == Permutations(Worker)
====
