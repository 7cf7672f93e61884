---------------------- MODULE MCSubscriptionLifecycle ----------------------
(* Small instances of SubscriptionLifecycle for TLC. *)
EXTENDS SubscriptionLifecycle, TLC

CONSTANTS basic, pro

\* The better plan has the longer period.
MCDays == [p \in Plans |-> IF p = basic THEN 3 ELSE 4]
MCQuota == [p \in Plans |-> IF p = basic THEN 1 ELSE 3]

\* Handlers, orders and processes are interchangeable.
MCSymmetry == Permutations(Workers) \cup Permutations(Orders)
                \cup Permutations(Jobs)
=============================================================================
