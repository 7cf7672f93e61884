------------------------------- MODULE Faults -------------------------------
(* What the modules on members share: who they are, and how often the        *)
(* database or a process fails.                                              *)
EXTENDS Integers, Sequences, FiniteSets

CONSTANTS
  Ids,         \* e-mail addresses and phone numbers; each is at most one user
  None,        \* no such row, nobody
  MaxFailures  \* bound: how many statements fail or processes die

ASSUME FaultAssumption == Ids # {} /\ None \notin Ids /\ MaxFailures \in Nat

VARIABLE failures

NoFault == failures' = failures

Fault == failures < MaxFailures /\ failures' = failures + 1
=============================================================================
