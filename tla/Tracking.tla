------------------------------ MODULE Tracking ------------------------------
(***************************************************************************)
(* Usage events: the page puts them in a queue, a timer sends the queue    *)
(* batch by batch, leaving the page sends one batch at once, and the       *)
(* server writes a batch in one statement.  Nothing is sent twice, no      *)
(* answer is read, nothing is retried.                                     *)
(***************************************************************************)
EXTENDS Integers, Sequences, FiniteSets

CONSTANTS
  BatchSize,   \* events the page sends at a time
  MaxBatch,    \* events the server takes at a time
  MaxEvents    \* bound: how many events there are

ASSUME TrackingAssumption ==
  /\ BatchSize \in Nat \ {0} /\ MaxEvents \in Nat
  /\ BatchSize <= MaxBatch /\ MaxBatch \in Nat

Events == 1 .. MaxEvents

VARIABLES
  made,    \* how many events there have been
  wide,    \* those with a text that the server cuts inside a character
  queue,   \* the tracker's queue
  timer,   \* is a flush scheduled
  page,    \* the page is open, in the browser's cache, or closed
  wire,    \* requests under way
  stored,  \* rows of user_track_events, by event
  lost     \* events that will never be stored

trackingVars == <<made, wide, queue, timer, page, wire, stored, lost>>

TrackingTypeOK ==
  /\ made \in 0 .. MaxEvents
  /\ wide \subseteq Events
  /\ queue \in Seq(Events)
  /\ timer \in BOOLEAN
  /\ page \in {"open", "away", "closed"}
  /\ wire \subseteq [route : {"beacon", "fetch"}, events : SUBSET Events]
  /\ stored \in [Events -> Nat]
  /\ lost \subseteq Events

TrackingInit ==
  /\ made = 0 /\ wide = {} /\ queue = <<>> /\ timer = FALSE /\ page = "open"
  /\ wire = {} /\ stored = [e \in Events |-> 0] /\ lost = {}

Elements(s) == {s[i] : i \in DOMAIN s}

\* The splice of flush: the batch it takes, and what it leaves.
Batch == SubSeq(queue, 1, IF Len(queue) < BatchSize THEN Len(queue) ELSE BatchSize)

Rest == SubSeq(queue, BatchSize + 1, Len(queue))

\* FAULT: goes on to fetch after the beacon was taken.
Routes_Both == {{"beacon", "fetch"}, {"fetch"}}

\* sendPayload: a beacon, and a fetch for who is signed in or whose beacon is refused.
Routes == {{"beacon"}, {"fetch"}}

Flush ==
  /\ queue' = Rest
  /\ IF queue = <<>> THEN UNCHANGED wire
     ELSE \E routes \in Routes :
            wire' = wire \cup {[route |-> r, events |-> Elements(Batch)] : r \in routes}

\* enqueue: of a page entered, a click, a call after a click.
Enqueue(cut) ==
  /\ page = "open" /\ made < MaxEvents
  /\ made' = made + 1
  /\ wide' = IF cut THEN wide \cup {made + 1} ELSE wide
  /\ queue' = Append(queue, made + 1)
  /\ timer' = TRUE
  /\ UNCHANGED <<page, wire, stored, lost>>

\* FAULT: the flush is asked for while the timer still counts as pending, and then
\* the timer is forgotten.
Rescheduled_ForgottenLast == FALSE

\* After the timer: scheduleFlush when something is left.
Rescheduled == Rest # <<>>

TimerFires ==
  /\ timer /\ page = "open"
  /\ Flush
  /\ timer' = Rescheduled
  /\ UNCHANGED <<made, wide, page, stored, lost>>

\* visibilitychange, and pagehide, with a timer pending or not.
Hide ==
  /\ page = "open" /\ queue # <<>>
  /\ Flush
  /\ timer' = (timer \/ Rest # <<>>)
  /\ UNCHANGED <<made, wide, page, stored, lost>>

PageHide ==
  /\ page = "open"
  /\ Flush
  /\ timer' = (timer \/ Rest # <<>>)
  /\ page' = "away"
  /\ UNCHANGED <<made, wide, stored, lost>>

\* The browser shows the page again, with its timers.
PageShow ==
  /\ page = "away"
  /\ page' = "open"
  /\ UNCHANGED <<made, wide, queue, timer, wire, stored, lost>>

\* The browser drops the page, after pagehide or without.
Close ==
  /\ page # "closed"
  /\ page' = "closed" /\ timer' = FALSE
  /\ lost' = lost \cup Elements(queue) /\ queue' = <<>>
  /\ UNCHANGED <<made, wide, wire, stored>>

\* What the binding lets in and one INSERT can write.
Writable(events) == Cardinality(events) <= MaxBatch /\ events \cap wide = {}

ReportEvents(m) ==
  /\ wire' = wire \ {m}
  /\ IF Writable(m.events)
     THEN stored' = [e \in Events |-> stored[e] + IF e \in m.events THEN 1 ELSE 0]
          /\ UNCHANGED lost
     ELSE lost' = lost \cup m.events /\ UNCHANGED stored
  /\ UNCHANGED <<made, wide, queue, timer, page>>

\* The request, or the insert, fails; the error is dropped.
ReportFails(m) ==
  /\ wire' = wire \ {m}
  /\ lost' = lost \cup m.events
  /\ UNCHANGED <<made, wide, queue, timer, page, stored>>

Report == \E m \in wire : ReportEvents(m) \/ ReportFails(m)

TrackingStep ==
  \/ \E cut \in BOOLEAN : Enqueue(cut)
  \/ Hide \/ PageHide \/ PageShow \/ Close

-----------------------------------------------------------------------------
(* Properties. *)

\* An event is stored once at most, and is in one place: in the queue, on the wire,
\* stored or lost, whichever of timer, hiding and leaving sent it.
EventsOnce ==
  \A e \in 1 .. made :
    LET places == {m \in wire : e \in m.events} IN
      Cardinality(places) + stored[e]
        + (IF e \in lost THEN 1 ELSE 0)
        + Cardinality({i \in DOMAIN queue : queue[i] = e}) = 1

\* Nothing waits in the queue of an open page, or on the wire, for good: again and again
\* every event there has been is stored or lost, unless the browser keeps the page away.
EventsArrive == []<>(page = "away" \/ \A e \in 1 .. made : stored[e] > 0 \/ e \in lost)
=============================================================================
