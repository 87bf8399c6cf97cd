------------------------- MODULE EventStreamProofs -------------------------
(* Theorems of EventStream, for any appenders, subscribers, limits and log. *)
(*                                                                         *)
(* The inductive invariant joins four facts.  The ring holds every         *)
(* required event, so a copy of it is never short of one.  An event that   *)
(* was appended is held by its appender until it is broadcast.  Hence what *)
(* a waiting subscription was not handed is still ahead of its receiver.   *)
EXTENDS EventStream, SubsequenceProofs

Held == \A p \in Appenders : pc[p] = "send" => holding[p] \in 1 .. Len(log)

StreamInv == TypeOK /\ RingHoldsRequired /\ Held /\ NoLostWakeup

-----------------------------------------------------------------------------
(* Lemmas about the operators                                              *)

\* An overflow drops nothing that is required, and adds nothing.
LEMMA OverflowedKeepsRequired ==
  ASSUME NEW events, NEW r
  PROVE  /\ Overflowed(events, r) \subseteq r
         /\ \A n \in r : IsRequired(events[n]) => n \in Overflowed(events, r)
BY DEF Overflowed

\* An empty ring, an empty log, no subscription.
LEMMA StreamInvInit == Init => StreamInv
<1> SUFFICES ASSUME Init PROVE StreamInv
  OBVIOUS
<1>1. log \in Seq(Kind) /\ Len(log) = 0 /\ Len(sent) = 0 /\ sent \in Seq(1 .. Len(log))
  BY DEF Init
<1>2. 0 \in 0 .. Len(log) /\ 0 \in 0 .. Len(sent)
  BY <1>1
<1>3. /\ pc \in [Appenders -> { "idle", "send", "close" }]
      /\ holding \in [Appenders -> 0 .. Len(log)]
      /\ ring \subseteq 1 .. Len(log) /\ closed \in BOOLEAN
  BY <1>2 DEF Init
<1>4. /\ st \in [Subscribers ->
           { "new", "joined", "check", "live", "refill", "left", "ended", "expired" }]
      /\ pos \in [Subscribers -> 0 .. Len(sent)]
      /\ start \in [Subscribers -> 0 .. Len(log)]
      /\ last \in [Subscribers -> 0 .. Len(log)]
  BY <1>2 DEF Init
<1>5. /\ got \in [Subscribers -> SUBSET (1 .. Len(log))]
      /\ pending \in [Subscribers -> 0 .. Len(log)]
  BY <1>2 DEF Init
<1>6. TypeOK
  BY <1>1, <1>3, <1>4, <1>5 DEF TypeOK
<1>7. RingHoldsRequired
  BY <1>1 DEF RingHoldsRequired
<1>8. Held /\ NoLostWakeup
  BY DEF Init, Held, NoLostWakeup
<1> QED BY <1>6, <1>7, <1>8 DEF StreamInv

\* An append numbers the event one past the log and keeps every kind.
LEMMA LogGrows ==
  ASSUME TypeOK, NEW p \in Appenders, NEW kind \in Kind, AppendEvent(p, kind)
  PROVE  /\ log' \in Seq(Kind) /\ Len(log') = Len(log) + 1 /\ Len(log) \in Nat
         /\ \A n \in 1 .. Len(log) : log'[n] = log[n]
         /\ 1 .. Len(log) \subseteq 1 .. Len(log')
         /\ 0 .. Len(log) \subseteq 0 .. Len(log')
         /\ NextSequence = Len(log')
<1>1. log \in Seq(Kind) /\ log' = Append(log, kind)
  BY DEF TypeOK, AppendEvent
<1>2. /\ log' \in Seq(Kind) /\ Len(log') = Len(log) + 1 /\ Len(log) \in Nat
      /\ \A n \in 1 .. Len(log) : log'[n] = log[n]
  BY <1>1
<1> QED BY <1>2 DEF NextSequence

-----------------------------------------------------------------------------
(* append                                                                  *)

\* An append puts its event into the ring, drops none that is required, and holds
\* the event until it is broadcast.
LEMMA AppendEventKeeps ==
  ASSUME StreamInv, NEW p \in Appenders, NEW kind \in Kind, AppendEvent(p, kind)
  PROVE  StreamInv'
<1> USE DEF StreamInv
<1>1. /\ log' \in Seq(Kind) /\ Len(log') = Len(log) + 1 /\ Len(log) \in Nat
      /\ \A n \in 1 .. Len(log) : log'[n] = log[n]
      /\ 1 .. Len(log) \subseteq 1 .. Len(log')
      /\ 0 .. Len(log) \subseteq 0 .. Len(log')
      /\ NextSequence = Len(log')
  BY LogGrows
<1>2. Len(log') \in 1 .. Len(log')
  BY <1>1
<1>3. /\ ring' \subseteq ring \cup {Len(log')}
      /\ \A n \in ring \cup {Len(log')} : IsRequired(log'[n]) => n \in ring'
  BY <1>1, OverflowedKeepsRequired DEF AppendEvent
<1>4. TypeOK'
  <2>1. ring' \subseteq 1 .. Len(log')
    BY <1>1, <1>2, <1>3 DEF TypeOK
  <2>2. closed' \in BOOLEAN /\ sent' \in Seq(1 .. Len(log'))
    BY <1>1 DEF TypeOK, AppendEvent, streamVars
  <2>3. /\ pc' \in [Appenders -> { "idle", "send", "close" }]
        /\ holding' \in [Appenders -> 0 .. Len(log')]
    BY <1>1 DEF TypeOK, AppendEvent
  <2>4. /\ st' = st /\ pos' = pos /\ sent' = sent /\ start' = start /\ last' = last
        /\ got' = got /\ pending' = pending
    BY DEF AppendEvent, subscriberVars, cursors
  <2>5. /\ start' \in [Subscribers -> 0 .. Len(log')]
        /\ last' \in [Subscribers -> 0 .. Len(log')]
        /\ pending' \in [Subscribers -> 0 .. Len(log')]
    BY <1>1, <2>4 DEF TypeOK
  <2>6. got' \in [Subscribers -> SUBSET (1 .. Len(log'))]
    BY <1>1, <2>4 DEF TypeOK
  <2> QED BY <1>1, <2>1, <2>2, <2>3, <2>4, <2>5, <2>6 DEF TypeOK
<1>5. RingHoldsRequired'
  <2> SUFFICES ASSUME NEW n \in 1 .. Len(log'), IsRequired(log'[n])
               PROVE  n \in ring'
    BY DEF RingHoldsRequired, Required
  <2>1. CASE n = Len(log')
    BY <1>3, <2>1
  <2>2. CASE n # Len(log')
    <3>1. n \in 1 .. Len(log)
      BY <1>1, <2>2
    <3>2. n \in ring
      BY <1>1, <3>1 DEF RingHoldsRequired, Required
    <3> QED BY <1>3, <3>2
  <2> QED BY <2>1, <2>2
<1>6. Held'
  <2> SUFFICES ASSUME NEW q \in Appenders, pc'[q] = "send"
               PROVE  holding'[q] \in 1 .. Len(log')
    BY DEF Held
  <2>1. CASE q = p
    BY <1>1, <1>2, <2>1 DEF AppendEvent, TypeOK
  <2>2. CASE q # p
    BY <1>1, <2>2 DEF AppendEvent, TypeOK, Held
  <2> QED BY <2>1, <2>2
<1>7. NoLostWakeup'
  <2> SUFFICES ASSUME NEW s \in Subscribers, st[s] \in { "check", "live" },
                      NEW n \in last[s] + 1 .. Len(log'), IsRequired(log'[n])
               PROVE  \/ \E q \in Appenders : pc'[q] = "send" /\ holding'[q] = n
                      \/ \E i \in pos[s] + 1 .. Len(sent) : sent[i] = n
    BY DEF NoLostWakeup, Required, WillWake, AppendEvent, subscriberVars, cursors
  <2>1. CASE n = Len(log')
    BY <1>1, <2>1 DEF AppendEvent, TypeOK
  <2>2. CASE n # Len(log')
    <3>1. last[s] \in 0 .. Len(log)
      BY DEF TypeOK
    <3>2. n \in last[s] + 1 .. Len(log) /\ n \in 1 .. Len(log)
      BY <1>1, <2>2, <3>1
    <3>3. Required(n)
      BY <1>1, <3>2 DEF Required
    <3>4. WillWake(s, n)
      BY <3>2, <3>3 DEF NoLostWakeup
    <3>5. ASSUME NEW q \in Appenders, pc[q] = "send", holding[q] = n
          PROVE  pc'[q] = "send" /\ holding'[q] = n
      BY <3>5 DEF AppendEvent, TypeOK
    <3> QED BY <3>4, <3>5 DEF WillWake
  <2> QED BY <2>1, <2>2
<1> QED BY <1>4, <1>5, <1>6, <1>7

\* A broadcast takes an event from its appender and puts it ahead of every receiver.
LEMMA BroadcastKeeps ==
  ASSUME StreamInv, NEW p \in Appenders, Broadcast(p)
  PROVE  StreamInv'
<1> USE DEF StreamInv
<1>1. /\ UNCHANGED <<log, ring, closed, st, pos, start, last, got, pending>>
      /\ pc[p] = "send" /\ holding[p] \in 1 .. Len(log)
      /\ sent' = Append(sent, holding[p]) /\ sent \in Seq(1 .. Len(log))
  BY DEF Broadcast, subscriberVars, cursors, Held, TypeOK
<1>2. /\ sent' \in Seq(1 .. Len(log)) /\ Len(sent) \in Nat
      /\ Len(sent') = Len(sent) + 1 /\ sent'[Len(sent) + 1] = holding[p]
      /\ \A i \in 1 .. Len(sent) : sent'[i] = sent[i]
  BY <1>1
<1>3. TypeOK'
  <2>1. 0 .. Len(sent) \subseteq 0 .. Len(sent')
    BY <1>2
  <2>2. pos' \in [Subscribers -> 0 .. Len(sent')]
    BY <1>1, <2>1 DEF TypeOK
  <2>3. Len(log) \in Nat
    BY DEF TypeOK
  <2>4. /\ holding' \in [Appenders -> 0 .. Len(log)]
        /\ pc' \in [Appenders -> { "idle", "send", "close" }]
    BY <2>3 DEF Broadcast, TypeOK
  <2> QED BY <1>1, <1>2, <2>2, <2>4 DEF TypeOK
<1>4. RingHoldsRequired'
  BY <1>1 DEF RingHoldsRequired, Required
<1>5. Held'
  BY <1>1 DEF Held, Broadcast, TypeOK
<1>6. NoLostWakeup'
  <2> SUFFICES ASSUME NEW s \in Subscribers, st[s] \in { "check", "live" },
                      NEW n \in last[s] + 1 .. Len(log), Required(n)
               PROVE  \/ \E q \in Appenders : pc'[q] = "send" /\ holding'[q] = n
                      \/ \E i \in pos[s] + 1 .. Len(sent') : sent'[i] = n
    BY <1>1 DEF NoLostWakeup, Required, WillWake
  <2>1. WillWake(s, n) /\ pos[s] \in 0 .. Len(sent)
    BY DEF NoLostWakeup, TypeOK
  <2>2. CASE \E i \in pos[s] + 1 .. Len(sent) : sent[i] = n
    BY <1>2, <2>1, <2>2
  <2>3. ASSUME NEW q \in Appenders, pc[q] = "send", holding[q] = n
        PROVE  \/ pc'[q] = "send" /\ holding'[q] = n
               \/ \E i \in pos[s] + 1 .. Len(sent') : sent'[i] = n
    <3>1. CASE q = p
      <4>1. Len(sent) + 1 \in pos[s] + 1 .. Len(sent')
        BY <1>2, <2>1
      <4> QED BY <1>2, <2>3, <3>1, <4>1
    <3>2. CASE q # p
      BY <2>3, <3>2 DEF Broadcast, TypeOK
    <3> QED BY <3>1, <3>2
  <2> QED BY <2>1, <2>2, <2>3 DEF WillWake
<1> QED BY <1>3, <1>4, <1>5, <1>6

\* A task that closes holds nothing, before and after.
LEMMA CloseKeeps ==
  ASSUME StreamInv, NEW p \in Appenders, AppendRefused(p) \/ CloseRun(p)
  PROVE  StreamInv'
<1> USE DEF StreamInv
<1>1. /\ UNCHANGED <<log, ring, sent, holding, st, pos, start, last, got, pending>>
      /\ closed' \in BOOLEAN /\ pc[p] # "send"
      /\ \/ pc' = [pc EXCEPT ![p] = "close"]
         \/ pc' = [pc EXCEPT ![p] = "idle"]
  BY DEF AppendRefused, CloseRun, streamVars, subscriberVars, cursors, TypeOK
<1>2. /\ pc' \in [Appenders -> { "idle", "send", "close" }]
      /\ \A q \in Appenders : pc'[q] = "send" <=> pc[q] = "send"
  BY <1>1 DEF TypeOK
<1>3. TypeOK'
  BY <1>1, <1>2 DEF TypeOK
<1>4. RingHoldsRequired' /\ Held'
  BY <1>1, <1>2 DEF RingHoldsRequired, Required, Held
<1>5. NoLostWakeup'
  BY <1>1, <1>2 DEF NoLostWakeup, Required, WillWake
<1> QED BY <1>3, <1>4, <1>5

\* A trim leaves the required events, and the promises are about those.
LEMMA TrimKeeps ==
  ASSUME StreamInv, NEW before, NEW keep \in KeepRequired, Trim(before, keep)
  PROVE  StreamInv'
<1> USE DEF StreamInv
<1>1. UNCHANGED <<log, closed, sent, pc, holding, st, pos, start, last, got, pending>>
  BY DEF Trim, appenderVars, subscriberVars, cursors
<1>2. keep = TRUE
  BY KeepAssumption
<1>3. /\ ring' \subseteq ring
      /\ \A n \in ring : IsRequired(log[n]) => n \in ring'
  BY <1>2, OverflowedKeepsRequired DEF Trim, Required
<1>4. TypeOK'
  BY <1>1, <1>3 DEF TypeOK
<1>5. RingHoldsRequired'
  BY <1>1, <1>3 DEF RingHoldsRequired, Required
<1>6. Held' /\ NoLostWakeup'
  BY <1>1 DEF Held, NoLostWakeup, Required, WillWake
<1> QED BY <1>4, <1>5, <1>6

-----------------------------------------------------------------------------
(* subscribe and the forwarding task                                       *)

\* What a delivery does: it leaves the newest event of the batch as last.
LEMMA DeliverAdvances ==
  ASSUME TypeOK, NEW s \in Subscribers, NEW batch \in SUBSET (1 .. Len(log)),
         \A n \in batch : last[s] < n, Deliver(s, batch)
  PROVE  /\ last' \in [Subscribers -> 0 .. Len(log)]
         /\ got' \in [Subscribers -> SUBSET (1 .. Len(log))]
         /\ \A n \in batch : n <= last'[s]
         /\ \A q \in Subscribers \ {s} : last'[q] = last[q] /\ got'[q] = got[q]
         /\ got'[s] = got[s] \cup batch
         /\ IF batch = {} THEN last' = last
            ELSE last'[s] \in batch /\ last' = [last EXCEPT ![s] = last'[s]]
<1> USE DEF TypeOK, Deliver
<1>1. got' = [got EXCEPT ![s] = @ \cup batch] /\ got[s] \in SUBSET (1 .. Len(log))
  OBVIOUS
<1>2. got[s] \cup batch \in SUBSET (1 .. Len(log))
  BY <1>1
<1>3. /\ got' \in [Subscribers -> SUBSET (1 .. Len(log))]
      /\ got'[s] = got[s] \cup batch
      /\ \A q \in Subscribers \ {s} : got'[q] = got[q]
  BY <1>1, <1>2
<1>4. CASE batch = {}
  BY <1>3, <1>4
<1>5. ASSUME NEW n \in batch, \A m \in batch : m <= n, last' = [last EXCEPT ![s] = n]
      PROVE  /\ last' \in [Subscribers -> 0 .. Len(log)]
             /\ \A m \in batch : m <= last'[s]
             /\ \A q \in Subscribers \ {s} : last'[q] = last[q]
             /\ last'[s] \in batch /\ last' = [last EXCEPT ![s] = last'[s]]
  <2>1. n \in 0 .. Len(log)
    OBVIOUS
  <2> QED BY <1>5, <2>1
<1> QED BY <1>3, <1>4, <1>5

\* A step of a subscription leaves the streams and the appenders alone, and
\* every other subscription as it was.
Only(s) ==
  /\ UNCHANGED <<log, ring, closed, sent, pc, holding>>
  /\ \A q \in Subscribers \ {s} : st'[q] = st[q] /\ pos'[q] = pos[q] /\ last'[q] = last[q]

\* So it keeps the invariant if it keeps the type and its own part.
LEMMA OnlyKeeps ==
  ASSUME StreamInv, NEW s \in Subscribers, Only(s), TypeOK',
         st'[s] \in { "check", "live" } =>
           \A n \in last'[s] + 1 .. Len(log) : Required(n) => WillWake(s, n)'
  PROVE  StreamInv'
<1> USE DEF StreamInv, Only
<1>1. RingHoldsRequired' /\ Held'
  BY DEF RingHoldsRequired, Required, Held
<1>2. NoLostWakeup'
  BY DEF NoLostWakeup, Required, WillWake
<1> QED BY <1>1, <1>2

\* A subscription begins at the end of the broadcasts, before its replay.
LEMMA SubscribeKeeps ==
  ASSUME StreamInv, NEW s \in Subscribers, NEW from \in 0 .. Len(log), Subscribe(s, from)
  PROVE  StreamInv'
<1> USE DEF StreamInv
<1>1. Only(s) /\ st'[s] = "joined" /\ UNCHANGED pending
  BY DEF Only, Subscribe, Goto, streamVars, appenderVars, TypeOK
<1>2. Len(sent) \in 0 .. Len(sent)
  BY DEF TypeOK
<1>3. /\ start' \in [Subscribers -> 0 .. Len(log)]
      /\ last' \in [Subscribers -> 0 .. Len(log)]
      /\ pos' \in [Subscribers -> 0 .. Len(sent)]
  BY <1>2 DEF Subscribe, TypeOK
<1>4. /\ got' \in [Subscribers -> SUBSET (1 .. Len(log))]
      /\ st' \in [Subscribers ->
           { "new", "joined", "check", "live", "refill", "left", "ended", "expired" }]
  BY DEF Subscribe, Goto, TypeOK
<1>5. TypeOK'
  BY <1>1, <1>3, <1>4 DEF TypeOK, Only
<1> QED BY <1>1, <1>5, OnlyKeeps

\* What the ring retains after a cursor includes every required event after it.
LEMMA RetainedIsComplete ==
  ASSUME TypeOK, RingHoldsRequired, NEW c \in 0 .. Len(log)
  PROVE  /\ RetainedAfter(c) \in SUBSET (1 .. Len(log))
         /\ \A n \in RetainedAfter(c) : c < n
         /\ \A n \in c + 1 .. Len(log) : Required(n) => n \in RetainedAfter(c)
<1>1. RetainedAfter(c) \in SUBSET (1 .. Len(log)) /\ \A n \in RetainedAfter(c) : c < n
  BY DEF TypeOK, RetainedAfter
<1>2. ASSUME NEW n \in c + 1 .. Len(log), Required(n)
      PROVE  n \in RetainedAfter(c)
  <2>1. Len(log) \in Nat /\ c \in Nat
    BY DEF TypeOK
  <2>2. n \in 1 .. Len(log) /\ c < n
    BY <2>1
  <2> QED BY <1>2, <2>2 DEF RingHoldsRequired, RetainedAfter
<1> QED BY <1>1, <1>2

\* A replay hands over all the ring retains; what it misses is still to come.
LEMMA ReplayKeeps ==
  ASSUME StreamInv, NEW s \in Subscribers, Replay(s)
  PROVE  StreamInv'
<1> USE DEF StreamInv
<1>1. CASE Expired(last[s])
  <2>1. Only(s) /\ st'[s] = "expired"
    BY <1>1 DEF Only, Replay, Goto, streamVars, appenderVars, cursors, TypeOK
  <2>2. TypeOK'
    BY <1>1 DEF Replay, Goto, streamVars, appenderVars, cursors, TypeOK
  <2> QED BY <2>1, <2>2, OnlyKeeps
<1>2. CASE ~ Expired(last[s])
  <2> DEFINE batch == RetainedAfter(last[s])
  <2>1. /\ UNCHANGED <<log, ring, closed, sent, pc, holding, pos, pending, start>>
        /\ Deliver(s, batch)
        /\ Goto(s, IF batch = {} THEN "check" ELSE "live")
    BY <1>2 DEF Replay, streamVars, appenderVars
  <2>2. last[s] \in 0 .. Len(log)
    BY DEF TypeOK
  <2>3. /\ batch \in SUBSET (1 .. Len(log))
        /\ \A n \in batch : last[s] < n
        /\ \A n \in last[s] + 1 .. Len(log) : Required(n) => n \in batch
    BY <2>2, RetainedIsComplete
  <2> HIDE DEF batch
  <2>4. /\ last' \in [Subscribers -> 0 .. Len(log)]
        /\ got' \in [Subscribers -> SUBSET (1 .. Len(log))]
        /\ \A n \in batch : n <= last'[s]
        /\ \A q \in Subscribers \ {s} : last'[q] = last[q]
        /\ batch = {} => last' = last
        /\ batch # {} => last'[s] \in batch
    BY <2>1, <2>3, DeliverAdvances
  <2>5. st' \in [Subscribers ->
          { "new", "joined", "check", "live", "refill", "left", "ended", "expired" }]
    BY <2>1 DEF Goto, TypeOK
  <2>6. TypeOK'
    BY <2>1, <2>4, <2>5 DEF TypeOK
  <2>7. Only(s)
    BY <2>1, <2>4 DEF Only, Goto, TypeOK
  <2>8. \A n \in last'[s] + 1 .. Len(log) : ~ Required(n)
    <3> SUFFICES ASSUME NEW n \in last'[s] + 1 .. Len(log), Required(n) PROVE FALSE
      OBVIOUS
    <3>1. last[s] <= last'[s] /\ last'[s] \in Nat /\ last[s] \in Nat /\ Len(log) \in Nat
      BY <2>2, <2>3, <2>4 DEF TypeOK
    <3>2. n \in last[s] + 1 .. Len(log)
      BY <3>1
    <3>3. n \in batch
      BY <2>3, <3>2
    <3> QED BY <2>4, <3>1, <3>3
  <2> QED BY <2>6, <2>7, <2>8, OnlyKeeps
<1> QED BY <1>1, <1>2

\* The test, the skipped event and the departure: last does not move, and the
\* receiver passes at most an event that was handed over already.
LEMMA CheckClosedKeeps ==
  ASSUME StreamInv, NEW s \in Subscribers, CheckClosed(s) \/ Leave(s)
  PROVE  StreamInv'
<1> USE DEF StreamInv
<1>1. UNCHANGED <<log, ring, closed, sent, pc, holding, pos, start, last, got, pending>>
  BY DEF CheckClosed, Leave, streamVars, appenderVars, cursors
<1>2. /\ Only(s)
      /\ st' \in [Subscribers ->
           { "new", "joined", "check", "live", "refill", "left", "ended", "expired" }]
      /\ st'[s] \in { "check", "live" } => st[s] = "check"
  BY <1>1 DEF Only, CheckClosed, Leave, Goto, TypeOK
<1>3. TypeOK'
  BY <1>1, <1>2 DEF TypeOK
<1>4. st'[s] \in { "check", "live" } =>
        \A n \in last'[s] + 1 .. Len(log) : Required(n) => WillWake(s, n)'
  BY <1>1, <1>2 DEF NoLostWakeup, WillWake
<1> QED BY <1>2, <1>3, <1>4, OnlyKeeps

\* A receiver that lagged refills from the ring.
LEMMA LaggedKeeps ==
  ASSUME StreamInv, NEW s \in Subscribers, Lagged(s)
  PROVE  StreamInv'
<1> USE DEF StreamInv
<1>1. UNCHANGED <<log, ring, closed, sent, pc, holding, start, last, got>>
  BY DEF Lagged, streamVars, appenderVars, cursors
<1>2. Len(sent) - Capacity \in 0 .. Len(sent) /\ 0 \in 0 .. Len(log)
  <2>1. Len(sent) \in Nat /\ Len(log) \in Nat /\ pos[s] \in 0 .. Len(sent)
    BY DEF TypeOK
  <2>2. Capacity \in Nat /\ Len(sent) - pos[s] > Capacity
    BY BoundsAssumption DEF Lagged, Lagging
  <2> QED BY <2>1, <2>2
<1>3. /\ pos' \in [Subscribers -> 0 .. Len(sent)]
      /\ pending' \in [Subscribers -> 0 .. Len(log)]
  BY <1>2 DEF Lagged, TypeOK
<1>4. /\ Only(s) /\ st'[s] = "refill"
      /\ st' \in [Subscribers ->
           { "new", "joined", "check", "live", "refill", "left", "ended", "expired" }]
  BY <1>1 DEF Only, Lagged, Goto, TypeOK
<1>5. TypeOK'
  BY <1>1, <1>3, <1>4 DEF TypeOK
<1> QED BY <1>4, <1>5, OnlyKeeps

\* A receiver passes over what it was handed already, and refills for the rest.
LEMMA ReceiveKeeps ==
  ASSUME StreamInv, NEW s \in Subscribers, Receive(s)
  PROVE  StreamInv'
<1> USE DEF StreamInv
<1> DEFINE event == sent[pos[s] + 1]
<1>1. /\ UNCHANGED <<log, ring, closed, sent, pc, holding, start, last, got>>
      /\ pos' = [pos EXCEPT ![s] = @ + 1]
  BY DEF Receive, streamVars, appenderVars, cursors
<1>2. /\ pos[s] \in Nat /\ pos[s] + 1 \in 1 .. Len(sent) /\ Len(sent) \in Nat
      /\ event \in 1 .. Len(log) /\ pos'[s] = pos[s] + 1
  BY <1>1 DEF Receive, TypeOK
<1>3. /\ pos' \in [Subscribers -> 0 .. Len(sent)]
      /\ pending' \in [Subscribers -> 0 .. Len(log)]
  <2>1. pos[s] + 1 \in 0 .. Len(sent) /\ event \in 0 .. Len(log)
    BY <1>2
  <2> QED BY <1>1, <2>1 DEF Receive, TypeOK
<1>4. /\ Only(s)
      /\ st' \in [Subscribers ->
           { "new", "joined", "check", "live", "refill", "left", "ended", "expired" }]
  BY <1>1 DEF Only, Receive, Goto, TypeOK
<1>5. TypeOK'
  BY <1>1, <1>3, <1>4 DEF TypeOK
<1>6. CASE last[s] < event
  <2>1. ~ event <= last[s]
    BY <1>2, <1>6 DEF TypeOK
  <2>2. st'[s] = "refill"
    BY <2>1 DEF Receive, Goto, TypeOK
  <2> QED BY <1>4, <1>5, <2>2, OnlyKeeps
<1>7. CASE event <= last[s]
  <2>1. st[s] = "live"
    BY DEF Receive
  <2>2. ASSUME NEW n \in last[s] + 1 .. Len(log), Required(n)
        PROVE  WillWake(s, n)'
    <3>1. WillWake(s, n)
      BY <2>1, <2>2 DEF NoLostWakeup
    <3>2. ASSUME NEW i \in pos[s] + 1 .. Len(sent), sent[i] = n
          PROVE  i \in pos'[s] + 1 .. Len(sent)
      <4>1. i # pos[s] + 1
        BY <1>7, <2>2, <3>2 DEF TypeOK
      <4> QED BY <1>2, <3>2, <4>1
    <3> QED BY <1>1, <3>1, <3>2 DEF WillWake
  <2> QED BY <1>1, <1>4, <1>5, <2>2, OnlyKeeps
<1>8. event <= last[s] \/ last[s] < event
  BY <1>2 DEF TypeOK
<1> QED BY <1>6, <1>7, <1>8

\* After a refill nothing required is left behind: the ring had all of it.
LEMMA RefillBatch ==
  ASSUME StreamInv, NEW s \in Subscribers, Refill(s)
  PROVE  \E batch \in SUBSET (1 .. Len(log)) :
           /\ Deliver(s, batch)
           /\ \A n \in batch : last[s] < n
           /\ \A n \in last[s] + 1 .. Len(log) : Required(n) => n \in batch
<1> USE DEF StreamInv
<1> DEFINE retained == RetainedAfter(last[s])
           dropped == { n \in {pending[s]} :
                          last[s] < n /\ \A m \in retained : m < n }
<1>1. last[s] \in 0 .. Len(log) /\ pending[s] \in 0 .. Len(log) /\ Len(log) \in Nat
  BY DEF TypeOK
<1>2. /\ retained \in SUBSET (1 .. Len(log))
      /\ \A n \in retained : last[s] < n
      /\ \A n \in last[s] + 1 .. Len(log) : Required(n) => n \in retained
  BY <1>1, RetainedIsComplete
<1>3. dropped \in SUBSET (1 .. Len(log)) /\ \A n \in dropped : last[s] < n
  BY <1>1
<1>4. Deliver(s, retained \cup dropped)
  BY DEF Refill
<1> HIDE DEF retained, dropped
<1> DEFINE batch == retained \cup dropped
<1>5. /\ batch \in SUBSET (1 .. Len(log)) /\ Deliver(s, batch)
      /\ \A n \in batch : last[s] < n
      /\ \A n \in last[s] + 1 .. Len(log) : Required(n) => n \in batch
  BY <1>2, <1>3, <1>4
<1> HIDE DEF batch
<1> QED BY <1>5

\* A refill hands over everything required that lies after the last event.
LEMMA RefillKeeps ==
  ASSUME StreamInv, NEW s \in Subscribers, Refill(s)
  PROVE  StreamInv'
<1> USE DEF StreamInv
<1>1. PICK batch \in SUBSET (1 .. Len(log)) :
        /\ Deliver(s, batch)
        /\ \A n \in batch : last[s] < n
        /\ \A n \in last[s] + 1 .. Len(log) : Required(n) => n \in batch
  BY RefillBatch
<1>2. /\ UNCHANGED <<log, ring, closed, sent, pc, holding, pos, pending, start>>
      /\ Goto(s, "live")
  BY DEF Refill, streamVars, appenderVars
<1>3. /\ last' \in [Subscribers -> 0 .. Len(log)]
      /\ got' \in [Subscribers -> SUBSET (1 .. Len(log))]
      /\ \A n \in batch : n <= last'[s]
      /\ \A q \in Subscribers \ {s} : last'[q] = last[q]
      /\ batch = {} => last' = last
      /\ batch # {} => last'[s] \in batch
  BY <1>1, DeliverAdvances
<1>4. st' \in [Subscribers ->
        { "new", "joined", "check", "live", "refill", "left", "ended", "expired" }]
  BY <1>2 DEF Goto, TypeOK
<1>5. TypeOK'
  BY <1>2, <1>3, <1>4 DEF TypeOK
<1>6. Only(s)
  BY <1>2, <1>3 DEF Only, Goto, TypeOK
<1>7. \A n \in last'[s] + 1 .. Len(log) : ~ Required(n)
  <2> SUFFICES ASSUME NEW n \in last'[s] + 1 .. Len(log), Required(n) PROVE FALSE
    OBVIOUS
  <2>1. last[s] <= last'[s] /\ last'[s] \in Nat /\ last[s] \in Nat /\ Len(log) \in Nat
    BY <1>1, <1>3 DEF TypeOK
  <2>2. n \in batch
    BY <1>1, <2>1
  <2> QED BY <1>3, <2>1, <2>2
<1> QED BY <1>5, <1>6, <1>7, OnlyKeeps

-----------------------------------------------------------------------------
\* The invariant survives every step.
LEMMA StreamInvNext == StreamInv /\ [Next]_vars => StreamInv'
<1> SUFFICES ASSUME StreamInv, [Next]_vars PROVE StreamInv'
  OBVIOUS
<1>1. ASSUME NEW p \in Appenders,
             \/ \E kind \in Kind : AppendEvent(p, kind)
             \/ Broadcast(p) \/ AppendRefused(p) \/ CloseRun(p)
      PROVE  StreamInv'
  BY <1>1, AppendEventKeeps, BroadcastKeeps, CloseKeeps
<1>2. ASSUME NEW before \in 1 .. Len(log) + 1, NEW keep \in KeepRequired,
             Trim(before, keep)
      PROVE  StreamInv'
  BY <1>2, TrimKeeps
<1>3. ASSUME NEW s \in Subscribers,
             \/ \E from \in 0 .. Len(log) : Subscribe(s, from)
             \/ Replay(s) \/ CheckClosed(s) \/ Leave(s)
      PROVE  StreamInv'
  BY <1>3, SubscribeKeeps, ReplayKeeps, CheckClosedKeeps
<1>4. ASSUME NEW s \in Subscribers, Forward(s)
      PROVE  StreamInv'
  BY <1>4, LaggedKeeps, ReceiveKeeps, RefillKeeps DEF Forward
<1>5. CASE UNCHANGED vars
  BY <1>5 DEF vars, streamVars, appenderVars, subscriberVars, cursors, StreamInv,
     TypeOK, RingHoldsRequired, Required, Held, NoLostWakeup, WillWake
<1> QED BY <1>1, <1>2, <1>3, <1>4, <1>5 DEF Next

\* The invariant holds of every reachable state.
LEMMA StreamInvAlways == Spec => []StreamInv
BY StreamInvInit, StreamInvNext, PTL DEF Spec

\* The stream's variables keep their types.
THEOREM StreamTypes == Spec => []TypeOK
BY StreamInvAlways, PTL DEF StreamInv

\* No overflow and no trim ever drops a required event.
THEOREM RequiredStays == Spec => []RingHoldsRequired
BY StreamInvAlways, PTL DEF StreamInv

\* However broadcasts are reordered and whatever the channel forgets, what a
\* consumer has not been handed will still wake its forwarding task.
THEOREM NoGap == Spec => []NoLostWakeup
BY StreamInvAlways, PTL DEF StreamInv

-----------------------------------------------------------------------------
(* The size of the ring                                                    *)

\* An overflow leaves max_events of any finite ring, or nothing but required
\* events.
LEMMA OverflowedBounded ==
  ASSUME NEW events, NEW r, r \subseteq Nat, IsFiniteSet(r)
  PROVE  \/ Cardinality(Overflowed(events, r)) <= MaxEvents
         \/ \A n \in Overflowed(events, r) : IsRequired(events[n])
PROOF
  <1> DEFINE optional == { m \in r : ~ IsRequired(events[m]) }
             excess == Cardinality(r) - MaxEvents
  <1>1. MaxEvents \in Nat /\ Cardinality(r) \in Nat
    BY FS_CardinalityType, BoundsAssumption
  <1>2. optional \subseteq r /\ optional \subseteq Nat /\ IsFiniteSet(optional)
    BY FS_Subset
  <1>3. ASSUME NEW n PROVE Cardinality(Optional(events, r, n)) = Rank(optional, n)
    <2>1. Optional(events, r, n) = { m \in optional : m <= n }
      BY DEF Optional
    <2> QED BY <2>1 DEF Rank
  <1>4. \A n \in optional : Rank(optional, n) \in 1 .. Cardinality(optional)
    BY <1>2, RankGrows
  <1>5. Cardinality(optional) \in Nat
    BY <1>2, FS_CardinalityType
  <1>6. Overflowed(events, r) \subseteq r /\ IsFiniteSet(Overflowed(events, r))
        /\ Cardinality(Overflowed(events, r)) <= Cardinality(r)
    BY FS_Subset DEF Overflowed
  <1>7. CASE excess <= 0
    <2>1. Cardinality(Overflowed(events, r)) \in Nat
      BY <1>6, FS_CardinalityType
    <2> QED BY <1>1, <1>6, <1>7, <2>1
  <1>8. CASE excess >= Cardinality(optional)
    <2>1. ASSUME NEW n \in Overflowed(events, r) PROVE IsRequired(events[n])
      <3>1. CASE n \in optional
        <4>1. Cardinality(r) < MaxEvents + Rank(optional, n)
          BY <1>3, <2>1, <3>1 DEF Overflowed
        <4> QED BY <1>1, <1>4, <1>5, <1>8, <3>1, <4>1
      <3>2. CASE n \notin optional
        BY <1>6, <3>2
      <3> QED BY <3>1, <3>2
    <2> QED BY <2>1
  <1>9. CASE 0 < excess /\ excess < Cardinality(optional)
    <2> DEFINE dropped == { n \in optional : Rank(optional, n) <= excess }
    <2>1. excess \in 0 .. Cardinality(optional)
      BY <1>1, <1>5, <1>9
    <2>2. IsFiniteSet(dropped) /\ Cardinality(dropped) = excess
      <3> HIDE DEF optional, excess
      <3> QED BY <1>2, <2>1, FirstRanks
    <2>3. ASSUME NEW n \in r PROVE n \in Overflowed(events, r) <=> n \notin dropped
      <3>1. CASE n \in optional
        <4>1. n \in Overflowed(events, r) <=> Cardinality(r) < MaxEvents + Rank(optional, n)
          BY <1>3, <3>1 DEF Overflowed
        <4>2. n \in dropped <=> Rank(optional, n) <= excess
          BY <3>1
        <4> HIDE DEF optional, dropped
        <4> QED BY <1>1, <1>4, <1>5, <3>1, <4>1, <4>2
      <3>2. CASE n \notin optional
        BY <3>2 DEF Overflowed
      <3> QED BY <3>1, <3>2
    <2>4. dropped \subseteq r
      OBVIOUS
    <2> HIDE DEF dropped
    <2>5. Overflowed(events, r) = r \ dropped /\ r \cap dropped = dropped
      BY <1>6, <2>3, <2>4
    <2>6. Cardinality(r \ dropped) = Cardinality(r) - Cardinality(dropped)
      BY <2>5, FS_Difference
    <2> QED BY <1>1, <2>2, <2>5, <2>6
  <1> QED BY <1>1, <1>5, <1>7, <1>8, <1>9

\* An append and a trim bound what they leave; no other step touches the ring.
LEMMA RingBoundedStep == ASSUME TypeOK, RingBounded, [Next]_vars PROVE RingBounded'
PROOF
  <1>1. Len(log) \in Nat /\ \A n \in ring : n \in 1 .. Len(log)
    BY DEF TypeOK
  <1>2. ASSUME NEW events, NEW r, r \subseteq 1 .. Len(log) + 1, ring' = Overflowed(events, r),
               log' = events
        PROVE  RingBounded'
    <2>1. IsFiniteSet(1 .. Len(log) + 1) /\ r \in SUBSET (1 .. Len(log) + 1) /\ r \subseteq Nat
      BY <1>1, <1>2, FS_Interval
    <2>2. IsFiniteSet(r)
      BY <2>1, FS_Subset
    <2> QED BY <1>2, <2>1, <2>2, OverflowedBounded DEF RingBounded, Required
  <1>3. ASSUME NEW p \in Appenders, NEW kind \in Kind, AppendEvent(p, kind)
        PROVE  RingBounded'
    <2>1. ring \cup {NextSequence} \subseteq 1 .. Len(log) + 1
      BY <1>1 DEF NextSequence
    <2> QED BY <1>2, <1>3, <2>1 DEF AppendEvent
  <1>4. ASSUME NEW before, NEW keep, Trim(before, keep)
        PROVE  RingBounded'
    <2> DEFINE r == { n \in ring : before <= n \/ (keep /\ Required(n)) }
    <2>1. r \subseteq 1 .. Len(log) + 1
      BY <1>1
    <2>2. ring' = Overflowed(log, r) /\ log' = log
      BY <1>4 DEF Trim
    <2> HIDE DEF r
    <2> QED BY <1>2, <2>1, <2>2
  <1>5. CASE UNCHANGED <<ring, log>>
    BY <1>5 DEF RingBounded, Required
  <1> QED
    BY <1>3, <1>4, <1>5
       DEF Next, vars, streamVars, Broadcast, AppendRefused, CloseRun, Subscribe, Replay,
           CheckClosed, Leave, Forward, Lagged, Receive, Refill

\* The ring never holds more than max_events, unless all it holds is required:
\* trimming by number never fails to make the room that may be made.
THEOREM RingBoundedHolds == Spec => []RingBounded
PROOF
  <1>1. Init => RingBounded
    BY FS_EmptySet, BoundsAssumption DEF Init, RingBounded
  <1>2. StreamInv /\ RingBounded /\ [Next]_vars => RingBounded'
    BY RingBoundedStep DEF StreamInv
  <1> QED BY <1>1, <1>2, StreamInvAlways, PTL DEF Spec

-----------------------------------------------------------------------------
(* EventStream implements EventFeed                                        *)

\* The stream begins as an empty feed.
LEMMA InitFeeds == Init => Feed!Init
BY DEF Init, Feed!Init

\* A delivery of events after last that leaves out nothing required up to its
\* newest is a delivery of the feed, and one of nothing is a stutter.
LEMMA DeliverFeeds ==
  ASSUME TypeOK, NEW s \in Subscribers, NEW batch \in SUBSET (1 .. Len(log)),
         \A n \in batch : last[s] < n,
         \A n \in last[s] + 1 .. Len(log) : Required(n) => n \in batch,
         Deliver(s, batch), UNCHANGED <<log, closed, start>>
  PROVE  [Feed!Next]_(Feed!feedVars)
<1>1. CASE batch = {}
  <2>1. UNCHANGED <<last, got>>
    BY <1>1 DEF Deliver, TypeOK
  <2> QED BY <2>1 DEF Feed!feedVars
<1>2. ASSUME NEW n \in batch, \A m \in batch : m <= n, last' = [last EXCEPT ![s] = n]
      PROVE  Feed!Next
  <2>1. n \in 1 .. Len(log) /\ last[s] \in 0 .. Len(log) /\ Len(log) \in Nat
    BY DEF TypeOK
  <2>2. \A m \in last[s] + 1 .. n : Feed!Required(m) => m \in batch
    BY <2>1 DEF Feed!Required, Required, IsRequired
  <2>3. Feed!Deliver(s, batch, n)
    BY <1>2, <2>2 DEF Feed!Deliver, Deliver
  <2> QED BY <2>3 DEF Feed!Next
<1>3. batch # {} => \E n \in batch : (\A m \in batch : m <= n) /\ last' = [last EXCEPT ![s] = n]
  BY DEF Deliver
<1> QED BY <1>1, <1>2, <1>3

\* Every step of the stream is a step of the feed, or none.
LEMMA StepFeeds == StreamInv /\ [Next]_vars => [Feed!Next]_(Feed!feedVars)
<1> SUFFICES ASSUME StreamInv, [Next]_vars PROVE [Feed!Next]_(Feed!feedVars)
  OBVIOUS
<1> USE DEF StreamInv
<1>1. ASSUME NEW p \in Appenders, NEW kind \in Kind, AppendEvent(p, kind)
      PROVE  [Feed!Next]_(Feed!feedVars)
  <2>1. Feed!Publish(kind)
    BY <1>1 DEF Feed!Publish, AppendEvent, subscriberVars, cursors
  <2>2. kind \in Feed!Kind
    BY DEF Kind, Feed!Kind
  <2> QED BY <2>1, <2>2 DEF Feed!Next
<1>2. ASSUME NEW p \in Appenders, Broadcast(p) \/ AppendRefused(p)
      PROVE  [Feed!Next]_(Feed!feedVars)
  BY <1>2 DEF Broadcast, AppendRefused, streamVars, subscriberVars, cursors, Feed!feedVars
<1>3. ASSUME NEW p \in Appenders, CloseRun(p)
      PROVE  [Feed!Next]_(Feed!feedVars)
  <2>1. Feed!Close
    BY <1>3 DEF Feed!Close, CloseRun, subscriberVars, cursors
  <2> QED BY <2>1 DEF Feed!Next
<1>4. ASSUME NEW before, NEW keep, Trim(before, keep)
      PROVE  [Feed!Next]_(Feed!feedVars)
  BY <1>4 DEF Trim, subscriberVars, cursors, Feed!feedVars
<1>5. ASSUME NEW s \in Subscribers, NEW from \in 0 .. Len(log), Subscribe(s, from)
      PROVE  [Feed!Next]_(Feed!feedVars)
  <2>1. Feed!Subscribe(s, from)
    BY <1>5 DEF Feed!Subscribe, Subscribe, streamVars
  <2> QED BY <2>1 DEF Feed!Next
<1>6. ASSUME NEW s \in Subscribers, Replay(s)
      PROVE  [Feed!Next]_(Feed!feedVars)
  <2>1. CASE Expired(last[s])
    BY <1>6, <2>1 DEF Replay, streamVars, cursors, Feed!feedVars
  <2>2. CASE ~ Expired(last[s])
    <3>1. Deliver(s, RetainedAfter(last[s])) /\ UNCHANGED <<log, closed, start>>
      BY <1>6, <2>2 DEF Replay, streamVars
    <3>2. last[s] \in 0 .. Len(log)
      BY DEF TypeOK
    <3> QED BY <3>1, <3>2, RetainedIsComplete, DeliverFeeds
  <2> QED BY <2>1, <2>2
<1>7. ASSUME NEW s \in Subscribers, Refill(s)
      PROVE  [Feed!Next]_(Feed!feedVars)
  <2>1. UNCHANGED <<log, closed, start>>
    BY <1>7 DEF Refill, streamVars
  <2> QED BY <1>7, <2>1, RefillBatch, DeliverFeeds
<1>8. ASSUME NEW s \in Subscribers,
             CheckClosed(s) \/ Lagged(s) \/ Receive(s) \/ Leave(s)
      PROVE  [Feed!Next]_(Feed!feedVars)
  BY <1>8 DEF CheckClosed, Lagged, Receive, Leave, streamVars, cursors, Feed!feedVars
<1>9. CASE UNCHANGED vars
  BY <1>9 DEF vars, streamVars, subscriberVars, cursors, Feed!feedVars
<1> QED BY <1>1, <1>2, <1>3, <1>4, <1>5, <1>6, <1>7, <1>8, <1>9 DEF Next, Forward

\* The stream implements the feed: readers receive the log in order, each event
\* once, and no required event is left out.
THEOREM StreamImplementsFeed == Spec => FeedSpec
BY StreamInvAlways, InitFeeds, StepFeeds, PTL DEF Spec, FeedSpec, Feed!Spec

=============================================================================
