--------------------------- MODULE EventPersister ---------------------------
(***************************************************************************)
(* The task that copies a debug run's event stream into the durable event  *)
(* log.  It reads the stream as any consumer does (module EventFeed, which *)
(* EventStream implements), gathers the text deltas it meets in a batch    *)
(* and stores a run of deltas of one node as one record.                   *)
(*                                                                         *)
(*   DeltaNodes       the node runs that stream deltas                     *)
(*   MaxStreamEvents  bound: the events appended                           *)
(***************************************************************************)
EXTENDS Naturals, Sequences, SequencesExt, FiniteSets

CONSTANTS DeltaNodes, MaxStreamEvents

VARIABLES
  streamEvents,  \* the events appended to the run's stream, by sequence
  feedClosed,    \* whether the stream is closed
  received,      \* the sequences the persister was handed
  pendingBatch,  \* those it has not flushed, in order
  durable,       \* the durable records, each the set of its sequences
  lost,          \* history: the sequences whose flush failed
  persister      \* "new", "reading" or "ended"

persisterVars == <<streamEvents, feedClosed, received, pendingBatch, durable, lost, persister>>

DeltaType == { "text_delta", "reasoning_delta" }
StreamEvent == [type : DeltaType, node : DeltaNodes] \cup
         [type : { "heartbeat", "node_finished", "flow_finished" }]

PersisterTypeOK ==
  /\ streamEvents \in Seq(StreamEvent)
  /\ feedClosed \in BOOLEAN
  /\ received \subseteq DOMAIN streamEvents
  /\ pendingBatch \in Seq(received)
  /\ durable \in Seq(SUBSET received)
  /\ lost \subseteq received
  /\ persister \in { "new", "reading", "ended" }

PersisterInit ==
  /\ streamEvents = <<>> /\ feedClosed = FALSE
  /\ received = {} /\ pendingBatch = <<>> /\ durable = <<>> /\ lost = {}
  /\ persister = "new"

Reader == { "persister" }
MaxOf(S, default) == IF S = {} THEN default ELSE CHOOSE n \in S : \A m \in S : m <= n

FeedKind(event) ==
  CASE event.type = "heartbeat" -> "ephemeral"
    [] event.type = "flow_finished" -> "terminal"
    [] OTHER -> "required"

\* The persister subscribes from 0 and is the feed's only reader here.
Feed == INSTANCE EventFeed WITH
  Readers <- Reader,
  log     <- [n \in DOMAIN streamEvents |-> FeedKind(streamEvents[n])],
  closed  <- feedClosed,
  start   <- [r \in Reader |-> 0],
  last    <- [r \in Reader |-> MaxOf(received, 0)],
  got     <- [r \in Reader |-> received]

-----------------------------------------------------------------------------
(* The run's tasks                                                         *)

EmitEvent(event) ==
  /\ Len(streamEvents) < MaxStreamEvents
  /\ streamEvents' = Append(streamEvents, event)
  /\ UNCHANGED <<feedClosed, received, pendingBatch, durable, lost, persister>>
  /\ Feed!Publish(FeedKind(event))

CloseStream ==
  /\ feedClosed' = TRUE
  /\ UNCHANGED <<streamEvents, received, pendingBatch, durable, lost, persister>>

-----------------------------------------------------------------------------
(* persist_runtime_debug_stream_events                                     *)

IsDelta(n) == streamEvents[n].type \in DeltaType
PersistRequired(n) == streamEvents[n].type # "heartbeat"

\* Mutant of Joins: deltas of one type are joined whatever their node.
JoinsAnyNode(record, n) ==
  IsDelta(n) /\ \A m \in record : streamEvents[m].type = streamEvents[n].type

\* A delta goes into the record of the delta before it when both are of one
\* type and one node.
Joins(record, n) == IsDelta(n) /\ \A m \in record : streamEvents[m] = streamEvents[n]

AddToRecords(made, n) ==
  IF ~ PersistRequired(n) THEN made
  ELSE IF made # <<>> /\ Joins(Last(made), n)
    THEN [made EXCEPT ![Len(made)] = @ \cup {n}]
    ELSE Append(made, {n})

Coalesced(sequences) == FoldLeft(AddToRecords, <<>>, sequences)

-----------------------------------------------------------------------------
(* The persister                                                           *)

\* Its subscription may be refused: the stream is gone or its start expired.
SubscribePersister ==
  /\ persister = "new"
  /\ persister' \in { "reading", "ended" }
  /\ UNCHANGED <<streamEvents, feedClosed, received, pendingBatch, durable, lost>>

\* Mutant of Flush: the batch is emptied only once it is stored.
FlushKeepsFailed(sequences, rest) ==
  \/ /\ durable' = durable \o Coalesced(sequences)
     /\ pendingBatch' = rest
     /\ UNCHANGED lost
  \/ /\ Coalesced(sequences) # <<>>
     /\ pendingBatch' = sequences
     /\ lost' = lost \cup { n \in ToSet(sequences) : PersistRequired(n) }
     /\ UNCHANGED durable

\* flush_debug_event_batch takes the batch before it stores it; a store that fails
\* is only warned of.
Flush(sequences, rest) ==
  /\ pendingBatch' = rest
  /\ \/ durable' = durable \o Coalesced(sequences) /\ UNCHANGED lost
     \/ /\ Coalesced(sequences) # <<>>
        /\ lost' = lost \cup { n \in ToSet(sequences) : PersistRequired(n) }
        /\ UNCHANGED durable

\* push_debug_event_for_persistence: a delta of another type flushes the
\* batch it finds, an event that is no delta flushes the batch and itself.
ReceiveEvent(n) ==
  /\ persister = "reading"
  /\ n \notin received
  /\ received' = received \cup {n}
  /\ UNCHANGED <<streamEvents, feedClosed>>
  /\ Feed!Deliver("persister", {n}, n)
  /\ IF IsDelta(n)
       THEN IF pendingBatch # <<>> /\ streamEvents[Last(pendingBatch)].type # streamEvents[n].type
              THEN Flush(pendingBatch, <<n>>)
              ELSE pendingBatch' = Append(pendingBatch, n) /\ UNCHANGED <<durable, lost>>
       ELSE Flush(Append(pendingBatch, n), <<>>)
  /\ persister' = IF streamEvents[n].type = "flow_finished" THEN "ended" ELSE persister

\* The subscription of a closed stream ends: the batch is flushed.
FeedEnds ==
  /\ persister = "reading" /\ feedClosed
  /\ IF pendingBatch = <<>> THEN UNCHANGED <<pendingBatch, durable, lost>> ELSE Flush(pendingBatch, <<>>)
  /\ persister' = "ended"
  /\ UNCHANGED <<streamEvents, feedClosed, received>>

PersisterNext ==
  \/ \E event \in StreamEvent : EmitEvent(event)
  \/ CloseStream
  \/ SubscribePersister
  \/ \E n \in DOMAIN streamEvents : ReceiveEvent(n)
  \/ FeedEnds

PersisterSpec == PersisterInit /\ [][PersisterNext]_persisterVars

-----------------------------------------------------------------------------
\* Whatever is to be persisted and was handed to the persister is in exactly
\* one place: a record, the batch, or among what a failed store lost; once
\* the persister has ended nothing is left in the batch. Nothing is stored
\* twice and nothing is dropped but with a batch whose store failed; that such
\* a batch is dropped, where the design wants it stored again, is the code's.
PersistedOnce ==
  /\ persister = "ended" => pendingBatch = <<>>
  /\ \A n \in received : PersistRequired(n) =>
       Cardinality({ i \in DOMAIN durable : n \in durable[i] })
         + Cardinality({ i \in DOMAIN pendingBatch : pendingBatch[i] = n })
         + (IF n \in lost THEN 1 ELSE 0) = 1

\* The durable records follow the order of the stream: each is of one node
\* and one type, and no other record or lost event lies in its range.
RecordsFollowTheStream ==
  \A i \in DOMAIN durable : \A m, n \in durable[i] :
    /\ streamEvents[m] = streamEvents[n]
    /\ \A k \in m .. n : k \in received /\ PersistRequired(k) => k \in durable[i]
    /\ i > 1 => \A k \in durable[i - 1] : k < m

=============================================================================
