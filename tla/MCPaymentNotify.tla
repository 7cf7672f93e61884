-------------------------- MODULE MCPaymentNotify --------------------------
(* Small instances of PaymentNotify for TLC. *)
EXTENDS PaymentNotify, TLC

CONSTANTS w1, w2, o1, o2, o3, ann, bob, dan, eve, s1, s2, c1, p1, p2

\* bob invited ann and dan; eve, where there is an eve, invited bob.
MCParent ==
  [u \in Users |-> CASE u \in {ann, dan}             -> bob
                     [] u = bob /\ eve \in Users     -> eve
                     [] OTHER                        -> Nobody]

MCSubOwner == [s \in Subs |-> ann]
MCCouponOwner == [c \in Coupons |-> ann]

MCFirstPlan == [s \in Subs |-> p1]
MCPrice == [p \in Plans |-> 3]

Ask(u, kind, s, plan, c, invoice) ==
  [user |-> u, kind |-> kind, sub |-> s, plan |-> plan, quantity |-> 1,
   coupon |-> c, invoice |-> invoice]

\* Every kind, for the subscription s1 and the coupon c1 of ann.
MCKinds ==
  { Ask(ann, "purchase", Nobody, p1, c1, TRUE),
    Ask(ann, "purchase", Nobody, p1, c1, FALSE),
    Ask(ann, "renewal", s1, p1, Nobody, FALSE),
    Ask(ann, "upgrade", s1, p2, Nobody, FALSE),
    Ask(ann, "quota_addon", s1, p1, Nobody, FALSE) }

\* Two invitees of bob and bob himself buy.
MCFamily ==
  { Ask(ann, "purchase", Nobody, p1, Nobody, FALSE),
    Ask(dan, "purchase", Nobody, p1, Nobody, FALSE),
    Ask(bob, "purchase", Nobody, p1, Nobody, FALSE) }

\* Purchases of ann with and without her coupon; both orders may name it.
MCSharedCoupon ==
  { Ask(ann, "purchase", Nobody, p1, c1, FALSE),
    Ask(ann, "purchase", Nobody, p1, Nobody, FALSE) }

MCTerms == [c \in Coupons |-> [percent |-> FALSE, value |-> 1, min |-> 0]]

\* Enough for one renewal, and for a second after a transfer of commission.
MCPoor == [u \in Users |-> 3]

\* Sessions are interchangeable, and so are order ids: CreateOrder picks any.
IdSymmetry == Permutations(Workers) \cup Permutations(Orders)
=============================================================================
