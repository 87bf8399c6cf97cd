---------------------------- MODULE EventStream ----------------------------
(***************************************************************************)
(* LocalRunEventStream: the in-memory event stream of ONE flow run.        *)
(*                                                                         *)
(*   Appenders    the tasks of the server that append events and close the *)
(*                stream (the executor, its delta writers, the route)      *)
(*   Subscribers  the consumers (the SSE response, the event persister),   *)
(*                each with the task that forwards live events to it       *)
(*                                                                         *)
(* An append holds the ring's lock while it numbers the event and stores   *)
(* it, and broadcasts it after the lock is released, so the broadcast      *)
(* order is not the order of sequence numbers.  A subscription joins the   *)
(* broadcast, then copies the ring, then tests whether the stream is       *)
(* closed, each in a step of its own.                                      *)
(***************************************************************************)
EXTENDS Naturals, Sequences, FiniteSets

CONSTANTS
  Appenders, Subscribers,
  MaxEvents,    \* the policy's max_events
  Capacity,     \* the broadcast channel's capacity
  KeepRequired, \* the values of keep_required that a trim is called with
  MaxAppends    \* bound: the events appended to the run

ASSUME BoundsAssumption ==
  MaxEvents \in Nat /\ Capacity \in Nat \ {0} /\ MaxAppends \in Nat
\* Only a test passes false.
ASSUME KeepAssumption == KeepRequired \subseteq {TRUE}

Kind == { "ephemeral", "required", "terminal" }

VARIABLES
  log,      \* history: the kind of every event appended, by sequence
  ring,     \* the sequences the ring retains
  closed,
  sent,     \* the sequences broadcast, in the order of the sends
  pc,       \* where an appender is
  holding,  \* the sequence it has appended and not broadcast
  st,       \* where a subscription is
  pos,      \* how much of sent its receiver has taken
  start,    \* its from_sequence
  last,     \* its last_sent_sequence
  got,      \* history: the sequences handed to its consumer
  pending   \* the event its receiver returned; 0 when it returned Lagged

streamVars     == <<log, ring, closed, sent>>
appenderVars   == <<pc, holding>>
cursors        == <<start, last, got>>
subscriberVars == <<st, pos, cursors, pending>>
vars           == <<streamVars, appenderVars, subscriberVars>>

TypeOK ==
  /\ log \in Seq(Kind)
  /\ ring \subseteq 1 .. Len(log)
  /\ closed \in BOOLEAN
  /\ sent \in Seq(1 .. Len(log))
  /\ pc \in [Appenders -> { "idle", "send", "close" }]
  /\ holding \in [Appenders -> 0 .. Len(log)]
  /\ st \in [Subscribers ->
       { "new", "joined", "check", "live", "refill", "left", "ended", "expired" }]
  /\ pos \in [Subscribers -> 0 .. Len(sent)]
  /\ start \in [Subscribers -> 0 .. Len(log)]
  /\ last \in [Subscribers -> 0 .. Len(log)]
  /\ got \in [Subscribers -> SUBSET (1 .. Len(log))]
  /\ pending \in [Subscribers -> 0 .. Len(log)]

\* is_required_event.  What is appended as ephemeral: flow_accepted, heartbeats.
IsRequired(kind) == kind # "ephemeral"

Required(n) == IsRequired(log[n])

\* open_run
Init ==
  /\ log = << >> /\ ring = {} /\ closed = FALSE /\ sent = << >>
  /\ pc = [p \in Appenders |-> "idle"]
  /\ holding = [p \in Appenders |-> 0]
  /\ st      = [s \in Subscribers |-> "new"]
  /\ pos     = [s \in Subscribers |-> 0]
  /\ start   = [s \in Subscribers |-> 0]
  /\ last    = [s \in Subscribers |-> 0]
  /\ got     = [s \in Subscribers |-> {}]
  /\ pending = [s \in Subscribers |-> 0]

-----------------------------------------------------------------------------
(* append, close_run and trim                                              *)

\* The events of r, numbered by events, that may be dropped and are no newer than n.
Optional(events, r, n) == { m \in r : m <= n /\ ~ IsRequired(events[m]) }

\* Mutant of Overflowed: an overflow drops the oldest events of any kind.
OverflowedDropsOldest(events, r) ==
  { n \in r : Cardinality(r) <= MaxEvents + Cardinality({ m \in r : m < n }) }

\* Mutant of Overflowed: the ring is trimmed only down to one event too many.
OverflowedByOne(events, r) ==
  { n \in r : \/ IsRequired(events[n])
              \/ Cardinality(r) <= MaxEvents + Cardinality(Optional(events, r, n)) }

\* What is left of r once its oldest optional events were removed, one at a
\* time, until it holds max_events or only required ones.
Overflowed(events, r) ==
  { n \in r : \/ IsRequired(events[n])
              \/ Cardinality(r) < MaxEvents + Cardinality(Optional(events, r, n)) }

NextSequence == Len(log) + 1

\* Mutant of AppendEvent: whether the stream is closed is not tested.
AppendEventUnchecked(p, kind) ==
  /\ pc[p] = "idle" /\ Len(log) < MaxAppends
  /\ log' = Append(log, kind)
  /\ ring' = Overflowed(log', ring \cup {NextSequence})
  /\ holding' = [holding EXCEPT ![p] = NextSequence]
  /\ pc' = [pc EXCEPT ![p] = "send"]
  /\ UNCHANGED <<closed, sent, subscriberVars>>

\* append, under the ring's lock.
AppendEvent(p, kind) ==
  /\ pc[p] = "idle" /\ Len(log) < MaxAppends
  /\ ~ closed
  /\ log' = Append(log, kind)
  /\ ring' = Overflowed(log', ring \cup {NextSequence})
  /\ holding' = [holding EXCEPT ![p] = NextSequence]
  /\ pc' = [pc EXCEPT ![p] = "send"]
  /\ UNCHANGED <<closed, sent, subscriberVars>>

\* append, after the lock.  A task that has announced the run's end closes
\* the stream next.
Broadcast(p) ==
  /\ pc[p] = "send"
  /\ sent' = Append(sent, holding[p])
  /\ holding' = [holding EXCEPT ![p] = 0]
  /\ pc' = [pc EXCEPT ![p] = IF log[holding[p]] = "terminal" THEN "close" ELSE "idle"]
  /\ UNCHANGED <<log, ring, closed, subscriberVars>>

\* A terminal event refused by a closed stream: its task goes on to close_run.
AppendRefused(p) ==
  /\ pc[p] = "idle" /\ closed
  /\ pc' = [pc EXCEPT ![p] = "close"]
  /\ UNCHANGED <<streamVars, holding, subscriberVars>>

CloseRun(p) ==
  /\ pc[p] = "close"
  /\ closed' = TRUE
  /\ pc' = [pc EXCEPT ![p] = "idle"]
  /\ UNCHANGED <<log, ring, sent, holding, subscriberVars>>

Trim(before, keepRequired) ==
  /\ ring' = Overflowed(log,
       { n \in ring : before <= n \/ (keepRequired /\ Required(n)) })
  /\ UNCHANGED <<log, closed, sent, appenderVars, subscriberVars>>

-----------------------------------------------------------------------------
(* subscribe and the task it spawns                                        *)

Goto(s, state) == st' = [st EXCEPT ![s] = state]

\* Mutant of Deliver: the sequence after the last one sent is remembered.
DeliverOffByOne(s, batch) ==
  /\ got' = [got EXCEPT ![s] = @ \cup batch]
  /\ \/ batch = {} /\ UNCHANGED last
     \/ \E n \in batch : /\ \A m \in batch : m <= n
                         /\ last' = [last EXCEPT ![s] = n + 1]

\* The consumer is handed the events of batch, in order.
Deliver(s, batch) ==
  /\ got' = [got EXCEPT ![s] = @ \cup batch]
  /\ \/ batch = {} /\ UNCHANGED last
     \/ \E n \in batch : /\ \A m \in batch : m <= n
                         /\ last' = [last EXCEPT ![s] = n]

\* A consumer subscribes, for the first time or again, from a sequence it
\* knows; the receiver will get what is broadcast from here on.
Subscribe(s, from) ==
  /\ st[s] \in { "new", "left", "ended", "expired" }
  /\ start' = [start EXCEPT ![s] = from]
  /\ last'  = [last EXCEPT ![s] = from]
  /\ got'   = [got EXCEPT ![s] = {}]
  /\ pos'   = [pos EXCEPT ![s] = Len(sent)]
  /\ Goto(s, "joined")
  /\ UNCHANGED <<streamVars, appenderVars, pending>>

\* The first event after from is older than every retained one.  (An empty
\* ring is compared with next_sequence, which is the same condition.)
Expired(from) == from < Len(log) /\ \A n \in ring : from + 1 < n

RetainedAfter(n) == { m \in ring : n < m }

\* replay_from_ring
Replay(s) ==
  /\ st[s] = "joined"
  /\ IF Expired(last[s])
       THEN Goto(s, "expired") /\ UNCHANGED cursors
       ELSE /\ Deliver(s, RetainedAfter(last[s]))
            /\ Goto(s, IF RetainedAfter(last[s]) = {} THEN "check" ELSE "live")
            /\ UNCHANGED start
  /\ UNCHANGED <<streamVars, appenderVars, pos, pending>>

\* Mutant of CheckClosed: the broadcast is joined after the ring was copied.
CheckClosedJoins(s) ==
  /\ st[s] = "check"
  /\ Goto(s, IF closed THEN "ended" ELSE "live")
  /\ pos' = [pos EXCEPT ![s] = Len(sent)]
  /\ UNCHANGED <<streamVars, appenderVars, cursors, pending>>

\* Nothing was replayed: a closed stream ends the subscription.
CheckClosed(s) ==
  /\ st[s] = "check"
  /\ Goto(s, IF closed THEN "ended" ELSE "live")
  /\ UNCHANGED <<streamVars, appenderVars, pos, cursors, pending>>

Lagging(s) == Len(sent) - pos[s] > Capacity

\* Mutant of Lagged: the receiver goes on without a look at the ring.
LaggedGoesOn(s) ==
  /\ st[s] = "live"
  /\ Lagging(s)
  /\ pos' = [pos EXCEPT ![s] = Len(sent) - Capacity]
  /\ UNCHANGED <<streamVars, appenderVars, st, cursors, pending>>

\* recv returns Lagged and moves to the oldest event the channel still has.
Lagged(s) ==
  /\ st[s] = "live"
  /\ Lagging(s)
  /\ pos' = [pos EXCEPT ![s] = Len(sent) - Capacity]
  /\ pending' = [pending EXCEPT ![s] = 0]
  /\ Goto(s, "refill")
  /\ UNCHANGED <<streamVars, appenderVars, cursors>>

\* recv returns an event; one that was handed over already is skipped.
Receive(s) ==
  /\ st[s] = "live"
  /\ ~ Lagging(s) /\ pos[s] < Len(sent)
  /\ pos' = [pos EXCEPT ![s] = @ + 1]
  /\ IF sent[pos[s] + 1] <= last[s]
       THEN UNCHANGED <<st, pending>>
       ELSE /\ pending' = [pending EXCEPT ![s] = sent[pos[s] + 1]]
            /\ Goto(s, "refill")
  /\ UNCHANGED <<streamVars, appenderVars, cursors>>

\* Mutant of Refill: the received event is handed over as it is.
RefillWithPending(s) ==
  /\ st[s] = "refill"
  /\ Deliver(s, IF pending[s] = 0 THEN RetainedAfter(last[s]) ELSE {pending[s]})
  /\ Goto(s, "live")
  /\ UNCHANGED <<streamVars, appenderVars, pos, start, pending>>

\* send_retained_after_sequence, then the received event itself when it is
\* newer than all of the ring, which has dropped it.
Refill(s) ==
  /\ st[s] = "refill"
  /\ LET retained == RetainedAfter(last[s])
         dropped  == { n \in {pending[s]} :
                         last[s] < n /\ \A m \in retained : m < n }
     IN Deliver(s, retained \cup dropped)
  /\ Goto(s, "live")
  /\ UNCHANGED <<streamVars, appenderVars, pos, start, pending>>

\* The consumer drops the subscription: the client is gone, or it has
\* received a terminal event.
Leave(s) ==
  /\ st[s] \in { "live", "refill" }
  /\ Goto(s, "left")
  /\ UNCHANGED <<streamVars, appenderVars, pos, cursors, pending>>

-----------------------------------------------------------------------------
Forward(s) == Lagged(s) \/ Receive(s) \/ Refill(s)

Next ==
  \/ \E p \in Appenders :
       \/ \E kind \in Kind : AppendEvent(p, kind)
       \/ Broadcast(p)
       \/ AppendRefused(p)
       \/ CloseRun(p)
  \/ \E before \in 1 .. Len(log) + 1 : \E keep \in KeepRequired : Trim(before, keep)
  \/ \E s \in Subscribers :
       \/ \E from \in 0 .. Len(log) : Subscribe(s, from)
       \/ Replay(s) \/ CheckClosed(s)
       \/ Forward(s)
       \/ Leave(s)

Spec == Init /\ [][Next]_vars

\* An append runs to its end once it holds a sequence, and the forwarding
\* task is rescheduled whenever its receiver has an event.
FairSpec ==
  /\ Spec
  /\ \A p \in Appenders : WF_vars(Broadcast(p))
  /\ \A s \in Subscribers : WF_vars(Forward(s))

-----------------------------------------------------------------------------
(* Properties                                                              *)

\* A required event is never dropped: not by an overflow, whose victims are
\* chosen under the lock of an append, and not by a trim.
RingHoldsRequired == \A n \in 1 .. Len(log) : Required(n) => n \in ring

\* The ring is over its limit only with events it may not drop.
RingBounded ==
  \/ Cardinality(ring) <= MaxEvents
  \/ \A n \in ring : Required(n)

\* Required event n will wake the forwarding task of s: it is yet to be
\* broadcast, or the receiver has yet to take it.
WillWake(s, n) ==
  \/ \E p \in Appenders : pc[p] = "send" /\ holding[p] = n
  \/ \E i \in pos[s] + 1 .. Len(sent) : sent[i] = n

\* Between the replay and the first live event, and between two live events,
\* no required event falls in the gap: what a consumer was not handed is
\* still ahead of its receiver, although broadcasts come out of order and
\* the channel forgets.
NoLostWakeup ==
  \A s \in Subscribers : st[s] \in { "check", "live" } =>
    \A n \in last[s] + 1 .. Len(log) : Required(n) => WillWake(s, n)

\* The stream implements the log its consumers are promised: in order, each
\* event once, no required event skipped, none after the close.
Feed == INSTANCE EventFeed WITH Readers <- Subscribers
FeedSpec == Feed!Spec

\* A required event reaches every consumer that stays with a subscription
\* the event is after.
RequiredDelivered ==
  \A s \in Subscribers : \A n \in 1 .. MaxAppends :
    ( /\ st[s] = "live"
      /\ n \in start[s] + 1 .. Len(log) /\ Required(n) )
    ~> (n \in got[s] \/ st[s] = "left")

\* A subscription that the stream ends has been handed every required event
\* after its cursor.  (docs/superpowers/specs/2026-05-02-runtime-event-stream-
\* fast-debug-design.md: the ring is replayed first, then live events follow.)
EndedSawEverything ==
  \A s \in Subscribers : st[s] = "ended" =>
    \A n \in start[s] + 1 .. Len(log) : Required(n) => n \in got[s]

=============================================================================
