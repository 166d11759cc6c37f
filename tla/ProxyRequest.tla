----------------------------- MODULE ProxyRequest -----------------------------
(***************************************************************************)
(* One proxied request, from its arrival to its answer (proxy/router.rs):  *)
(* authenticate, check the quota, resolve the model to a chain of          *)
(* deployments, then walk the chain, retrying a rate-limited provider in   *)
(* place and failing over on transport errors and 5xx, and forward the     *)
(* answer, whose usage is recorded when its body is complete.  Meanwhile   *)
(* the serving snapshot is swapped under the requests in flight, and a     *)
(* client may hang up at any await.                                        *)
(*                                                                         *)
(* A snapshot is what requests read of it: the keys and which of them may  *)
(* call the model, the model's deployments in priority order, the retry    *)
(* policy.  A status is its number.  MaxSwaps bounds the swaps.            *)
(***************************************************************************)
EXTENDS SequencesExt, Integers, FiniteSets

CONSTANTS
  Requests,
  Providers,
  Protocols,
  ProtocolOf,     \* of a provider, and of the endpoint a request arrives at
  KeyOf,          \* the key a request presents
  Snapshots,      \* what the shared pointer may hold
  Statuses,       \* HTTP statuses a provider may answer with
  Unusable,       \* providers whose URI or headers cannot be built
  MaxSwaps

TransportError == 0

ASSUME StatusesAssumption == Statuses \subseteq 100 .. 599
ASSUME ProtocolAssumption == ProtocolOf \in [Providers \cup Requests -> Protocols]
ASSUME GatewayAssumption == "gateway" \notin Providers
ASSUME UnusableAssumption == Unusable \subseteq Providers
ASSUME SwapsAssumption == MaxSwaps \in Nat
(* from_parts refuses max_attempts = 0; the chain holds a provider once    *)
(* (UNIQUE (model_name, provider_id), db.rs:131).                          *)
ASSUME SnapshotsAssumption ==
  \A s \in Snapshots :
    /\ s.deployments \in Seq(Providers) /\ IsInjective(s.deployments)
    /\ s.retryable \subseteq 100 .. 599
    /\ s.max_attempts \in Nat \ {0}
    /\ s.enabled \in BOOLEAN

VARIABLES
  state,      \* the snapshot the shared pointer holds
  swaps,
  step,       \* where the handler of a request is
  taken,      \* the snapshot the request loaded, NoSnapshot before that
  hop,        \* index in the chain
  attempt,    \* attempt_provider's loop counter
  sent,       \* history: every exchange, the provider and what came of it
  answer,     \* the status and the provider the client's answer is from
  recorded    \* usage records of the request

vars == <<state, swaps, step, taken, hop, attempt, sent, answer, recorded>>

NoSnapshot == [deployments |-> <<>>]
NoAnswer == [status |-> 0, from |-> "gateway"]
Gateway(status) == [status |-> status, from |-> "gateway"]

Exchange == [provider: Providers, status: Statuses \cup {TransportError}]
Response == [status: 0 .. 599, from: Providers \cup {"gateway"}]

Steps == {"start", "quota", "request", "attempt", "send", "backoff", "body", "stream",
          "answered", "gone"}
Over == {"answered", "gone"}
(* Awaiting what need not come, with no timeout: the counters, when they   *)
(* are in Redis, the body of the request from the client, and the provider *)
(* (router.rs:246, 272, upstream.rs).                                      *)
Waiting == {"quota", "request", "send", "body", "stream"}

(* resolve: the deployments on the endpoint's protocol, in catalog order.  *)
ChainOn(s, protocol) ==
  SelectSeq(s.deployments, LAMBDA p : ProtocolOf[p] = protocol)
Chain(r) == ChainOn(taken[r], ProtocolOf[r])

(* What a filter leaves of a sequence without repetitions is one too.      *)
ASSUME ChainAssumption ==
  \A s \in Snapshots, protocol \in Protocols :
    ChainOn(s, protocol) \in Seq(Providers) /\ IsInjective(ChainOn(s, protocol))

Provider(r) == Chain(r)[hop[r]]
IsLast(r) == hop[r] = Len(Chain(r))

IsRetryable(r, status) == status \in taken[r].retryable
IsServerError(status) == status \in 500 .. 599

-----------------------------------------------------------------------------
Init ==
  /\ state \in Snapshots
  /\ swaps = 0
  /\ step = [r \in Requests |-> "start"]
  /\ taken = [r \in Requests |-> NoSnapshot]
  /\ hop = [r \in Requests |-> 1]
  /\ attempt = [r \in Requests |-> 0]
  /\ sent = [r \in Requests |-> <<>>]
  /\ answer = [r \in Requests |-> NoAnswer]
  /\ recorded = [r \in Requests |-> 0]

Goto(r, next) == step' = [step EXCEPT ![r] = next]

Answer(r, response) ==
  /\ Goto(r, "answered")
  /\ answer' = [answer EXCEPT ![r] = response]

(* A refresh or a reload swaps the pointer.                                *)
Swap ==
  /\ swaps < MaxSwaps
  /\ swaps' = swaps + 1
  /\ state' \in Snapshots \ {state}
  /\ UNCHANGED <<step, taken, hop, attempt, sent, answer, recorded>>

-----------------------------------------------------------------------------
(* Before any provider is contacted.                                       *)

(* One snapshot per request; authentication reads only it.                 *)
Authorize(r) ==
  /\ step[r] = "start"
  /\ taken' = [taken EXCEPT ![r] = state]
  /\ IF KeyOf[r] \in state.api_keys
       THEN Goto(r, "quota") /\ UNCHANGED answer
       ELSE Answer(r, Gateway(401))
  /\ UNCHANGED <<state, swaps, hop, attempt, sent, recorded>>

(* The answer resolve dictates, 200 when there is a chain to walk.         *)
Resolution(r) ==
  IF ~taken[r].enabled THEN 404
  ELSE IF KeyOf[r] \notin taken[r].allowed THEN 403
  ELSE IF Chain(r) = <<>> THEN 404
  ELSE 200

(* check_quota has read the counters.                                      *)
CheckQuota(r) ==
  /\ step[r] = "quota"
  /\ \/ Goto(r, "request") /\ UNCHANGED answer
     \/ Answer(r, Gateway(402))
  /\ UNCHANGED <<state, swaps, taken, hop, attempt, sent, recorded>>

(* The client's upload is over: 400 when it cannot be read or names no     *)
(* model, else what resolve says.                                          *)
Resolve(r) ==
  /\ step[r] = "request"
  /\ \/ /\ Resolution(r) = 200
        /\ Goto(r, "attempt")
        /\ UNCHANGED answer
     \/ \E status \in {400} \cup ({Resolution(r)} \ {200}) :
          Answer(r, Gateway(status))
  /\ UNCHANGED <<state, swaps, taken, hop, attempt, sent, recorded>>

-----------------------------------------------------------------------------
(* attempt_provider.                                                       *)

(* ProviderAttempt::Failover in the loop of proxy.                         *)
Failover(r) ==
  IF IsLast(r)
    THEN Answer(r, Gateway(502)) /\ UNCHANGED <<hop, attempt>>
    ELSE /\ hop' = [hop EXCEPT ![r] = @ + 1]
         /\ attempt' = [attempt EXCEPT ![r] = 0]
         /\ Goto(r, "attempt")
         /\ UNCHANGED answer

(* The URI and the headers of the hop are built, or the hop is skipped.    *)
PrepareUsableOnly(r) ==
  /\ step[r] = "attempt"
  /\ Provider(r) \notin Unusable
  /\ Goto(r, "send")
  /\ UNCHANGED <<state, swaps, taken, hop, attempt, sent, answer, recorded>>
Prepare(r) ==
  /\ step[r] = "attempt"
  /\ IF Provider(r) \in Unusable
       THEN Failover(r)
       ELSE Goto(r, "send") /\ UNCHANGED <<hop, attempt, answer>>
  /\ UNCHANGED <<state, swaps, taken, sent, recorded>>

(* forward_upstream_response: a stream is passed on as it arrives, any     *)
(* other body is read first.                                               *)
Forward(r, status) ==
  /\ \E next \in {"body", "stream"} : Goto(r, next)
  /\ answer' = [answer EXCEPT ![r] = [status |-> status, from |-> Provider(r)]]
  /\ UNCHANGED <<hop, attempt>>

OnServerErrorAlways(r, status) == IsServerError(status)
OnServerError(r, status) == IsServerError(status) /\ ~IsRetryable(r, status)
IsFinalAttempt(r) == attempt[r] + 1 >= taken[r].max_attempts
ForwardsExhaustedEverywhere(r) == TRUE
ForwardsExhausted(r) == IsLast(r)

Send(r) ==
  /\ step[r] = "send"
  /\ \E status \in Statuses \cup {TransportError} :
       /\ sent' = [sent EXCEPT ![r] =
                     Append(@, [provider |-> Provider(r), status |-> status])]
       /\ \/ /\ status = TransportError \/ OnServerError(r, status)
             /\ Failover(r)
          \/ /\ status # TransportError /\ ~OnServerError(r, status)
             /\ IsRetryable(r, status) /\ IsFinalAttempt(r)
             /\ IF ForwardsExhausted(r) THEN Forward(r, status) ELSE Failover(r)
          \/ /\ status # TransportError /\ ~OnServerError(r, status)
             /\ IsRetryable(r, status) /\ ~IsFinalAttempt(r)
             /\ Goto(r, "backoff")
             /\ UNCHANGED <<hop, attempt, answer>>
          \/ /\ status # TransportError /\ ~OnServerError(r, status)
             /\ ~IsRetryable(r, status)
             /\ Forward(r, status)
  /\ UNCHANGED <<state, swaps, taken, recorded>>

(* The capped delay is over; the loop goes on.                             *)
Backoff(r) ==
  /\ step[r] = "backoff"
  /\ attempt' = [attempt EXCEPT ![r] = @ + 1]
  /\ Goto(r, "send")
  /\ UNCHANGED <<state, swaps, taken, hop, sent, answer, recorded>>

-----------------------------------------------------------------------------
(* The body of the answer.                                                 *)

(* to_bytes, record_usage, respond; a broken body becomes a 502.           *)
ReadBody(r) ==
  /\ step[r] = "body"
  /\ \/ /\ recorded' = [recorded EXCEPT ![r] = @ + 1]
        /\ Goto(r, "answered")
        /\ UNCHANGED answer
     \/ Answer(r, Gateway(502)) /\ UNCHANGED recorded
  /\ UNCHANGED <<state, swaps, taken, hop, attempt, sent>>

(* The observed stream ends, and only then is its usage recorded.          *)
EndStream(r) ==
  /\ step[r] = "stream"
  /\ Goto(r, "answered")
  /\ \E complete \in BOOLEAN :
       recorded' = IF complete THEN [recorded EXCEPT ![r] = @ + 1] ELSE recorded
  /\ UNCHANGED <<state, swaps, taken, hop, attempt, sent, answer>>

(* The client hangs up: the runtime drops the handler, or the stream, at   *)
(* the await it is in.                                                     *)
Disconnect(r) ==
  /\ step[r] \notin Over \cup {"start"}
  /\ Goto(r, "gone")
  /\ UNCHANGED <<state, swaps, taken, hop, attempt, sent, answer, recorded>>

-----------------------------------------------------------------------------
(* Up to the first provider, and what the handler then does by itself.     *)
Admit(r) == Authorize(r) \/ CheckQuota(r) \/ Resolve(r)
Proceed(r) == Prepare(r) \/ Backoff(r)

Next ==
  \/ Swap
  \/ \E r \in Requests :
       \/ Admit(r) \/ Proceed(r) \/ Send(r) \/ ReadBody(r) \/ EndStream(r) \/ Disconnect(r)

Spec == Init /\ [][Next]_vars

(* The runtime polls a handler that builds a hop or whose timer is over.   *)
(* That a request arrives, that its body or a counter does, or that a      *)
(* provider ever answers is not assumed.                                   *)
FairSpec == Spec /\ \A r \in Requests : WF_vars(Proceed(r))

-----------------------------------------------------------------------------
(* Properties.                                                             *)

TypeOK ==
  /\ state \in Snapshots
  /\ swaps \in 0 .. MaxSwaps
  /\ step \in [Requests -> Steps]
  /\ taken \in [Requests -> Snapshots \cup {NoSnapshot}]
  /\ hop \in [Requests -> Nat]
  /\ attempt \in [Requests -> Nat]
  /\ sent \in [Requests -> Seq(Exchange)]
  /\ answer \in [Requests -> Response]
  /\ recorded \in [Requests -> Nat]
  /\ \A r \in Requests : step[r] \in {"attempt", "send", "backoff"} =>
       hop[r] \in 1 .. Len(Chain(r)) /\ attempt[r] < taken[r].max_attempts

Exchanges(r, p) == {i \in 1 .. Len(sent[r]) : sent[r][i].provider = p}

(* What an exchange says about its provider: try it again, or leave it.    *)
RateLimited(r, e) == e.status # TransportError /\ IsRetryable(r, e.status)
Failed(r, e) ==
  e.status = TransportError \/ (IsServerError(e.status) /\ ~RateLimited(r, e))
Exhausted(r, e) ==
  /\ RateLimited(r, e)
  /\ Cardinality(Exchanges(r, e.provider)) = taken[r].max_attempts

(* The providers contacted are a walk of the chain of the snapshot the     *)
(* request started with, whatever was swapped in since: the same provider  *)
(* again only after a rate limit, and never more than max_attempts times;  *)
(* the next usable one only after a failure or after as many rate limits;  *)
(* never an earlier one (llm-gateway/spec.md:68-110,                       *)
(* config-hot-reload/spec.md:18-21).                                       *)
AttemptsAreBounded(r) ==
  \A p \in Providers :
    sent[r] # <<>> => Cardinality(Exchanges(r, p)) <= taken[r].max_attempts
ChainIsWalkedInOrder ==
  \A r \in Requests :
    /\ AttemptsAreBounded(r)
    /\ \A i \in 1 .. Len(sent[r]) - 1 :
         LET e == sent[r][i]
             n == sent[r][i + 1]
             chain == Chain(r)
         IN  \/ n.provider = e.provider /\ RateLimited(r, e)
             \/ /\ Failed(r, e) \/ Exhausted(r, e)
                /\ \E from, to \in DOMAIN chain :
                     /\ from < to
                     /\ chain[from] = e.provider /\ chain[to] = n.provider
                     /\ \A j \in from + 1 .. to - 1 : chain[j] \in Unusable

(* A provider's answer is forwarded only if it is the last one received    *)
(* and it left nothing better to try: it is no failure, or it is the rate  *)
(* limit that exhausted the last provider.  The gateway's own 502 comes    *)
(* only after the whole chain failed and never instead of such a rate      *)
(* limit (llm-gateway/spec.md:83-85, 100-102), or from a broken body.      *)
ForwardsOnlyLastAnswer ==
  \A r \in Requests :
    LET last == Last(sent[r])
        chain == Chain(r)
    IN  /\ answer[r].from # "gateway" =>
             /\ answer[r] = [status |-> last.status, from |-> last.provider]
             /\ ~Failed(r, last)
             /\ RateLimited(r, last) =>
                  Exhausted(r, last) /\ last.provider = Last(chain)
        /\ answer[r] = Gateway(502) /\ sent[r] # <<>> =>
             \/ ~Failed(r, last) /\ (RateLimited(r, last) => last.provider = Last(chain))
             \/ /\ \A p \in ToSet(chain) : p \in Unusable \/ Exchanges(r, p) # {}
                /\ Failed(r, last) \/ last.provider # Last(chain)

(* Retries and failovers end: the handler of a request that arrived comes  *)
(* to rest, with its answer, or for ever waiting for a counter, for the    *)
(* rest of the request's body or for one provider that never answers.      *)
HandlersComeToRest ==
  \A r \in Requests : <>[](step[r] \in {"start"} \cup Over \cup Waiting)
=============================================================================
