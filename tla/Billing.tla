------------------------------ MODULE Billing ------------------------------
(***************************************************************************)
(* Billing periods, counted in days.  All times are in one zone without    *)
(* summer time, so a day always has 24 hours and periods just add up.      *)
(***************************************************************************)
EXTENDS Integers

\* n billing periods from a day on.
AddPeriods(from, days, n) == from + days * n

MaxQuantity == 99

\* How many periods an upgrade is charged for: the current one, and one for each
\* round of a loop that goes on while the end of the periods counted, n of them, is
\* before the end of the service.
CountUpgradeBillingCycles(end, expires, days) ==
  LET loop[n \in 1 .. MaxQuantity] ==
        IF n < MaxQuantity /\ AddPeriods(end, days, n - 1) < expires
        THEN loop[n + 1] ELSE n
  IN loop[1]
=============================================================================
