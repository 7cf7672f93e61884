----------------------------- MODULE MCTeamKeys -----------------------------
(***************************************************************************)
(* A small team for TLC: ann, invited by boss, owns the subscription and   *)
(* has invited dan.  There are two kinds of days: on a paid day orders are *)
(* settled beside two handlers, on a crowded day there are as many         *)
(* handlers as connections and no order.                                   *)
(***************************************************************************)
EXTENDS TeamKeys, TLC

CONSTANTS
  ann, boss, dan,
  Reserve   \* handlers that serve on a crowded day only

ASSUME ReserveAssumption == Reserve \subseteq Workers

VARIABLE day

MCParent == [u \in Users |-> CASE u = ann  -> boss
                               [] u = boss -> Nobody
                               [] OTHER    -> ann]

MCInit == Init /\ day \in {"paid", "crowded"}

MCNext ==
  /\ UNCHANGED day
  /\ \/ \E w \in Workers : Step(w) \/ Fails(w)
     \/ \E w \in Workers : (day = "paid" => w \notin Reserve) /\ Request(w)
     \/ day = "paid" /\ Settlement
     \/ Bot

MCSpec == MCInit /\ [][MCNext]_<<vars, day>> /\ \A w \in Workers : SF_vars(Step(w))
=============================================================================
