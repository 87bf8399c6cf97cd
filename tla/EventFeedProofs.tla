-------------------------- MODULE EventFeedProofs --------------------------
(* What a reader of the feed can rely on, for any readers and any log.     *)
EXTENDS EventFeed, TLAPS

\* The cursor never passes the last event received, nor that the log's end.
Ordered == \A r \in Readers : start[r] <= last[r]

FeedInv == TypeOK /\ Ordered /\ NothingSkipped

\* An empty log, of which nobody has received anything.
LEMMA FeedInvInit == Init => FeedInv
<1> SUFFICES ASSUME Init PROVE FeedInv
  OBVIOUS
<1>1. log \in Seq(Kind) /\ Len(log) = 0
  BY DEF Init
<1>2. TypeOK
  <2>1. 0 \in 0 .. Len(log)
    BY <1>1
  <2>2. /\ start \in [Readers -> Nat]
        /\ last \in [Readers -> 0 .. Len(log)]
        /\ got \in [Readers -> SUBSET (1 .. Len(log))]
    BY <2>1 DEF Init
  <2> QED BY <1>1, <2>2 DEF Init, TypeOK
<1>3. Ordered /\ NothingSkipped
  BY <1>1 DEF Init, Ordered, NothingSkipped
<1> QED BY <1>2, <1>3 DEF FeedInv

\* The log only grows, and no received event changes its kind.
LEMMA PublishKeeps ==
  ASSUME FeedInv, NEW kind \in Kind, Publish(kind)
  PROVE  FeedInv'
<1> USE DEF FeedInv, TypeOK, Publish
<1>1. /\ log' \in Seq(Kind) /\ Len(log') = Len(log) + 1
      /\ \A n \in 1 .. Len(log) : log'[n] = log[n]
  OBVIOUS
<1>2. TypeOK'
  <2>1. 0 .. Len(log) \subseteq 0 .. Len(log')
        /\ 1 .. Len(log) \subseteq 1 .. Len(log')
    BY <1>1
  <2> QED BY <1>1, <2>1
<1>3. Ordered'
  BY DEF Ordered
<1>4. NothingSkipped'
  <2> SUFFICES ASSUME NEW r \in Readers
               PROVE  /\ got[r] \subseteq start[r] + 1 .. last[r]
                      /\ \A n \in start[r] + 1 .. last[r] : Required(n)' => n \in got[r]
    BY DEF NothingSkipped
  <2>1. start[r] \in Nat /\ last[r] \in 0 .. Len(log)
    OBVIOUS
  <2>2. ASSUME NEW n \in start[r] + 1 .. last[r], Required(n)'
        PROVE  n \in got[r]
    <3>1. n \in 1 .. Len(log) /\ Required(n)
      BY <1>1, <2>1, <2>2 DEF Required
    <3> QED BY <3>1 DEF NothingSkipped
  <2> QED BY <2>2 DEF NothingSkipped
<1> QED BY <1>2, <1>3, <1>4

\* A new subscription has received nothing yet, and has missed nothing.
LEMMA SubscribeKeeps ==
  ASSUME FeedInv, NEW r \in Readers, NEW from \in 0 .. Len(log), Subscribe(r, from)
  PROVE  FeedInv'
<1> USE DEF FeedInv, TypeOK, Subscribe
<1>1. TypeOK' /\ Ordered'
  BY DEF Ordered
<1>2. NothingSkipped'
  BY DEF NothingSkipped, Required
<1> QED BY <1>1, <1>2

\* A delivery moves the cursor over nothing required that it does not hand over.
LEMMA DeliverKeeps ==
  ASSUME FeedInv, NEW r \in Readers, NEW batch \in SUBSET (1 .. Len(log)),
         NEW n \in batch, Deliver(r, batch, n)
  PROVE  FeedInv'
<1> USE DEF FeedInv, TypeOK, Deliver
<1>1. n \in 1 .. Len(log) /\ last[r] < n
  OBVIOUS
<1>2. TypeOK'
  <2>1. got[r] \cup batch \in SUBSET (1 .. Len(log))
    OBVIOUS
  <2>2. got' \in [Readers -> SUBSET (1 .. Len(log))]
    BY <2>1
  <2>3. last' \in [Readers -> 0 .. Len(log)]
    BY <1>1
  <2> QED BY <2>2, <2>3
<1>3. Ordered'
  BY <1>1 DEF Ordered
<1>4. NothingSkipped'
  <2> SUFFICES ASSUME NEW q \in Readers
               PROVE  /\ got'[q] \subseteq start[q] + 1 .. last'[q]
                      /\ \A m \in start[q] + 1 .. last'[q] : Required(m) => m \in got'[q]
    BY DEF NothingSkipped, Required
  <2>1. CASE q # r
    BY <2>1 DEF NothingSkipped
  <2>2. CASE q = r
    <3>1. /\ start[r] \in Nat /\ last[r] \in Nat /\ start[r] <= last[r]
          /\ last'[r] = n /\ got'[r] = got[r] \cup batch
      BY DEF Ordered
    <3>2. got'[r] \subseteq start[r] + 1 .. n
      <4>1. got[r] \subseteq start[r] + 1 .. last[r]
        BY DEF NothingSkipped
      <4>2. \A m \in batch : last[r] < m /\ m <= n /\ m \in Nat
        OBVIOUS
      <4>3. ASSUME NEW m \in got'[r] PROVE m \in start[r] + 1 .. n
        <5>1. CASE m \in batch
          BY <1>1, <3>1, <4>2, <5>1
        <5>2. CASE m \in got[r]
          BY <1>1, <3>1, <4>1, <5>2
        <5> QED BY <3>1, <5>1, <5>2
      <4> QED BY <4>3
    <3>3. ASSUME NEW m \in start[r] + 1 .. n, Required(m)
          PROVE  m \in got'[r]
      <4>1. CASE m <= last[r]
        BY <3>1, <3>3, <4>1 DEF NothingSkipped
      <4>2. CASE last[r] < m
        BY <1>1, <3>1, <3>3, <4>2
      <4> QED BY <1>1, <3>1, <4>1, <4>2
    <3> QED BY <2>2, <3>1, <3>2, <3>3
  <2> QED BY <2>1, <2>2
<1> QED BY <1>2, <1>3, <1>4

\* The invariant survives every step.
LEMMA FeedInvNext == FeedInv /\ [Next]_feedVars => FeedInv'
<1> SUFFICES ASSUME FeedInv, [Next]_feedVars PROVE FeedInv'
  OBVIOUS
<1>1. CASE \E kind \in Kind : Publish(kind)
  BY <1>1, PublishKeeps
<1>2. CASE Close
  BY <1>2 DEF Close, FeedInv, TypeOK, Ordered, NothingSkipped, Required
<1>3. ASSUME NEW r \in Readers, NEW from \in 0 .. Len(log), Subscribe(r, from)
      PROVE  FeedInv'
  BY <1>3, SubscribeKeeps
<1>4. ASSUME NEW r \in Readers, NEW batch \in SUBSET (1 .. Len(log)),
             NEW n \in batch, Deliver(r, batch, n)
      PROVE  FeedInv'
  BY <1>4, DeliverKeeps
<1>5. CASE UNCHANGED feedVars
  BY <1>5 DEF feedVars, FeedInv, TypeOK, Ordered, NothingSkipped, Required
<1> QED BY <1>1, <1>2, <1>3, <1>4, <1>5 DEF Next

\* A reader of the feed is never skipped: between its cursor and the last
\* event it received lies no required event it has not received.
THEOREM FeedSkipsNothing == Spec => []NothingSkipped
<1>1. Spec => []FeedInv
  BY FeedInvInit, FeedInvNext, PTL DEF Spec
<1> QED BY <1>1, PTL DEF FeedInv

=============================================================================
