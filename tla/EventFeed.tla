----------------------------- MODULE EventFeed -----------------------------
(***************************************************************************)
(* What a run's event stream promises a reader, without a ring, a          *)
(* broadcast channel or a task that forwards events: a log that grows      *)
(* until it is closed, and readers that receive it in the order of its     *)
(* sequence numbers.  A reader may miss an ephemeral event (a heartbeat,   *)
(* flow_accepted), never a required one.                                   *)
(***************************************************************************)
EXTENDS Naturals, Sequences

CONSTANT Readers

\* terminal: the required events a consumer of the stream stops at.
Kind == { "ephemeral", "required", "terminal" }

VARIABLES
  log,     \* the kind of each event appended; its index is its sequence
  closed,
  start,   \* the cursor a reader subscribed with
  last,    \* the sequence of the last event it received, or its cursor
  got      \* the sequences it received since it subscribed

feedVars == <<log, closed, start, last, got>>

TypeOK ==
  /\ log \in Seq(Kind)
  /\ closed \in BOOLEAN
  /\ start \in [Readers -> Nat]
  /\ last \in [Readers -> 0 .. Len(log)]
  /\ got \in [Readers -> SUBSET (1 .. Len(log))]

Required(n) == log[n] # "ephemeral"

Init ==
  /\ log = << >> /\ closed = FALSE
  /\ start = [r \in Readers |-> 0]
  /\ last  = [r \in Readers |-> 0]
  /\ got   = [r \in Readers |-> {}]

Publish(kind) ==
  /\ ~ closed
  /\ log' = Append(log, kind)
  /\ UNCHANGED <<closed, start, last, got>>

Close == closed' = TRUE /\ UNCHANGED <<log, start, last, got>>

Subscribe(r, from) ==
  /\ start' = [start EXCEPT ![r] = from]
  /\ last'  = [last EXCEPT ![r] = from]
  /\ got'   = [got EXCEPT ![r] = {}]
  /\ UNCHANGED <<log, closed>>

\* r receives the events of batch, the newest of them n.
Deliver(r, batch, n) ==
  /\ n \in batch
  /\ \A m \in batch : last[r] < m /\ m <= n
  /\ \A m \in last[r] + 1 .. n : Required(m) => m \in batch
  /\ last' = [last EXCEPT ![r] = n]
  /\ got'  = [got EXCEPT ![r] = @ \cup batch]
  /\ UNCHANGED <<log, closed, start>>

Next ==
  \/ \E kind \in Kind : Publish(kind)
  \/ Close
  \/ \E r \in Readers :
       \/ \E from \in 0 .. Len(log) : Subscribe(r, from)
       \/ \E batch \in SUBSET (1 .. Len(log)) :
            \E n \in batch : Deliver(r, batch, n)

Spec == Init /\ [][Next]_feedVars

\* Every required event between a reader's cursor and the last event it
\* received was delivered to it, and nothing outside that range was.
NothingSkipped ==
  \A r \in Readers :
    /\ got[r] \subseteq start[r] + 1 .. last[r]
    /\ \A n \in start[r] + 1 .. last[r] : Required(n) => n \in got[r]

=============================================================================
