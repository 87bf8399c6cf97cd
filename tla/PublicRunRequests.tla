------------------------- MODULE PublicRunRequests -------------------------
(***************************************************************************)
(* Creating a run through the published API: the key is authenticated, the *)
(* active publication loaded, the conversation bound, the idempotency key  *)
(* looked up and the run inserted, each in a statement of its own, while   *)
(* the console publishes, switches the API and revokes keys.               *)
(*                                                                         *)
(*   Requests         calls of POST /runs; a retry is another request      *)
(*   ApiKeys          the application's keys                               *)
(*   IdempotencyKeys  what requests name; a request may name none          *)
(*   MaxPublications  bound                                                *)
(***************************************************************************)
EXTENDS Naturals, Sequences, FiniteSets

CONSTANTS Requests, ApiKeys, IdempotencyKeys, NoIdempotencyKey, MaxPublications

ASSUME PublicAssumption ==
  NoIdempotencyKey \notin IdempotencyKeys /\ MaxPublications \in Nat

VARIABLES
  keyState,      \* "enabled", "expired" or "revoked"
  appEnabled,    \* applications.api_enabled
  published,     \* api_enabled of every publication; the last one is active
  runs,          \* the published runs, in the order of their creation
  requestStage,  \* where a request is
  request,       \* what it asks and has read
  answered       \* the run it was answered, 0 for none

publicVars == <<keyState, appEnabled, published, runs, requestStage, request, answered>>

Request == [apiKey : ApiKeys, idempotency : IdempotencyKeys \cup {NoIdempotencyKey},
            publication : 0 .. MaxPublications, began : Nat, served : SUBSET (1 .. MaxPublications)]

PublicTypeOK ==
  /\ keyState \in [ApiKeys -> { "enabled", "expired", "revoked" }]
  /\ appEnabled \in BOOLEAN
  /\ published \in Seq(BOOLEAN)
  /\ runs \in Seq([apiKey : ApiKeys, idempotency : IdempotencyKeys \cup {NoIdempotencyKey},
                   publication : 1 .. MaxPublications, began : Nat, offered : BOOLEAN])
  /\ requestStage \in [Requests -> { "new", "load", "bind", "find", "create", "ended" }]
  /\ \A q \in Requests : requestStage[q] # "new" => request[q] \in Request
  /\ answered \in [Requests -> Nat]

PublicInit ==
  /\ keyState = [k \in ApiKeys |-> "enabled"]
  /\ appEnabled = FALSE
  /\ published = <<>>
  /\ runs = <<>>
  /\ requestStage = [q \in Requests |-> "new"]
  /\ request = [q \in Requests |-> [apiKey |-> "none"]]
  /\ answered = [q \in Requests |-> 0]

ActivePublication == Len(published)
Serving == IF ActivePublication # 0 /\ published[ActivePublication] THEN {ActivePublication} ELSE {}

\* What the requests under way have been able to call, for RunsOnServedVersion.
InFlight(q) == requestStage[q] \notin { "new", "ended" }
Watch(serving) ==
  request' = [q \in Requests |->
    IF InFlight(q) THEN [request[q] EXCEPT !.served = @ \cup serving] ELSE request[q]]

-----------------------------------------------------------------------------
\* The console.  create_active_application_publication_version: one
\* transaction on the application, the old active publication and the new.
PublishVersion(api_enabled) ==
  /\ ActivePublication < MaxPublications
  /\ appEnabled' = api_enabled
  /\ published' = Append(published, api_enabled)
  /\ Watch(IF api_enabled THEN {ActivePublication + 1} ELSE {})
  /\ UNCHANGED <<keyState, runs, requestStage, answered>>

\* set_application_api_enabled: the application and the active publication.
SetApiEnabled(api_enabled) ==
  /\ appEnabled' = api_enabled
  /\ published' = IF ActivePublication = 0 THEN published
                  ELSE [published EXCEPT ![ActivePublication] = api_enabled]
  /\ Watch(IF api_enabled /\ ActivePublication # 0 THEN {ActivePublication} ELSE {})
  /\ UNCHANGED <<keyState, runs, requestStage, answered>>

RevokeKey(k) ==
  /\ keyState[k] # "revoked"
  /\ keyState' = [keyState EXCEPT ![k] = "revoked"]
  /\ UNCHANGED <<appEnabled, published, runs, requestStage, request, answered>>

ExpireKey(k) ==
  /\ keyState[k] = "enabled"
  /\ keyState' = [keyState EXCEPT ![k] = "expired"]
  /\ UNCHANGED <<appEnabled, published, runs, requestStage, request, answered>>

-----------------------------------------------------------------------------
RequestGoes(q, stage) == requestStage' = [requestStage EXCEPT ![q] = stage]

\* What a request has read is forgotten with it.
RequestEnds(q) ==
  /\ RequestGoes(q, "ended")
  /\ request' = [request EXCEPT ![q].publication = 0, ![q].began = 0, ![q].served = {}]

consoleState == <<keyState, appEnabled, published>>

\* authenticate_bearer_token; an unknown, disabled or expired key ends it.
AuthenticateKey(q, k, idempotency) ==
  /\ requestStage[q] = "new"
  /\ request' = [request EXCEPT ![q] =
       [apiKey |-> k, idempotency |-> idempotency, publication |-> 0,
        began |-> Len(runs), served |-> Serving]]
  /\ RequestGoes(q, IF keyState[k] = "enabled" THEN "load" ELSE "ended")
  /\ UNCHANGED <<consoleState, runs, answered>>

\* Mutant of CallablePublication: whatever the switch says.
CallablePublicationAny(p) == p = ActivePublication /\ p # 0

CallablePublication(p) == p \in Serving

\* load_enabled_publication
LoadPublication(q) ==
  /\ requestStage[q] = "load"
  /\ IF \E p \in 1 .. ActivePublication : CallablePublication(p)
       THEN /\ request' = [request EXCEPT ![q].publication = ActivePublication]
            /\ RequestGoes(q, "bind")
       ELSE RequestEnds(q)
  /\ UNCHANGED <<consoleState, runs, answered>>

\* bind_conversation: nothing without a user; the row refers to the key.
BindConversation(q) ==
  /\ requestStage[q] = "bind"
  /\ \/ RequestGoes(q, "find") /\ UNCHANGED request
     \/ keyState[request[q].apiKey] = "revoked" /\ RequestEnds(q)
  /\ UNCHANGED <<consoleState, runs, answered>>

\* Mutant of SameRun: a run is looked up under its publication.
SameRunOfPublication(run, asked) ==
  /\ asked.idempotency # NoIdempotencyKey
  /\ run.apiKey = asked.apiKey /\ run.idempotency = asked.idempotency
  /\ run.publication = asked.publication

\* The where clause of find_published_flow_run_by_idempotency_key.
SameRun(run, asked) ==
  /\ asked.idempotency # NoIdempotencyKey
  /\ run.apiKey = asked.apiKey /\ run.idempotency = asked.idempotency

\* The oldest run of the key is the answer.
FindRun(q) ==
  /\ requestStage[q] = "find"
  /\ LET found == { i \in DOMAIN runs : SameRun(runs[i], request[q]) }
     IN  IF found = {}
           THEN RequestGoes(q, "create") /\ UNCHANGED <<request, answered>>
           ELSE /\ \E i \in found : /\ \A j \in found : i <= j
                                    /\ answered' = [answered EXCEPT ![q] = i]
                /\ RequestEnds(q)
  /\ UNCHANGED <<consoleState, runs>>

\* create_published_flow_run: a plain insert, no constraint on the key.
CreateRun(q) ==
  /\ requestStage[q] = "create"
  /\ runs' = Append(runs,
       [apiKey |-> request[q].apiKey, idempotency |-> request[q].idempotency,
        publication |-> request[q].publication, began |-> request[q].began,
        offered |-> request[q].publication \in request[q].served])
  /\ answered' = [answered EXCEPT ![q] = Len(runs')]
  /\ RequestEnds(q)
  /\ UNCHANGED consoleState

PublicNext ==
  \/ \E b \in BOOLEAN : PublishVersion(b) \/ SetApiEnabled(b)
  \/ \E k \in ApiKeys : RevokeKey(k) \/ ExpireKey(k)
  \/ \E q \in Requests :
       \/ \E k \in ApiKeys, i \in IdempotencyKeys \cup {NoIdempotencyKey} :
            AuthenticateKey(q, k, i)
       \/ LoadPublication(q) \/ BindConversation(q) \/ FindRun(q) \/ CreateRun(q)

PublicSpec == PublicInit /\ [][PublicNext]_publicVars

-----------------------------------------------------------------------------
\* A run executes a publication that was active and switched on at some
\* moment between its request's authentication and its creation.
RunsOnServedVersion == \A i \in DOMAIN runs : runs[i].offered

SameKeyed(i, j) ==
  /\ runs[i].idempotency # NoIdempotencyKey
  /\ runs[i].idempotency = runs[j].idempotency
  /\ runs[i].apiKey = runs[j].apiKey

\* A request that begins after a run of its idempotency key was created
\* creates no other: only requests under way together can.
RetryCreatesNoRun ==
  \A i, j \in DOMAIN runs : i < j /\ SameKeyed(i, j) => runs[j].began < i

\* A request is answered a run of its own key and idempotency key.
AnswerIsOwnRun ==
  \A q \in Requests : answered[q] # 0 =>
    /\ runs[answered[q]].apiKey = request[q].apiKey
    /\ runs[answered[q]].idempotency = request[q].idempotency

=============================================================================
