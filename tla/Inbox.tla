------------------------------- MODULE Inbox -------------------------------
(***************************************************************************)
(* The messages of a member: other components append them, the member      *)
(* marks them read.                                                        *)
(***************************************************************************)
EXTENDS Faults

CONSTANT MaxMessages  \* bound: how many messages a member gets

ASSUME InboxAssumption == MaxMessages \in Nat

VARIABLE inbox  \* per member his messages in order of id: is it read

InboxTypeOK == inbox \in [Ids -> Seq(BOOLEAN)]

InboxInit == inbox = [u \in Ids |-> <<>>]

Unread(u) == {i \in DOMAIN inbox[u] : ~inbox[u][i]}

\* notifications.Create, of whichever component.
Deliver(u) == inbox' = [inbox EXCEPT ![u] = Append(@, FALSE)]

\* The look-up and the update of MarkRead are one step: a message that is found and
\* unread can only become read meanwhile.
MarkRead(u, i) == i \in Unread(u) /\ inbox' = [inbox EXCEPT ![u][i] = TRUE]

MarkAllRead(u) ==
  Unread(u) # {} /\ inbox' = [inbox EXCEPT ![u] = [i \in DOMAIN inbox[u] |-> TRUE]]

Mark(u) == MarkAllRead(u) \/ \E i \in Unread(u) : MarkRead(u, i)
=============================================================================
