------------------------- MODULE MeteredRequest_proofs -------------------------
(***************************************************************************)
(* What the request path guarantees for any requests, providers, snapshots *)
(* and statuses, and what the meter beside it adds.                        *)
(***************************************************************************)
EXTENDS MeteredRequest, SequenceTheorems, FiniteSetTheorems, WellFoundedInduction, TLAPS

(* The steps at which a request is at a hop of its chain.                  *)
Walking(r) == step[r] \in {"attempt", "send", "backoff"}

(* The parts of the state that belong to one request.                      *)
StateOf(r) == <<step[r], taken[r], hop[r], attempt[r], sent[r], answer[r], recorded[r]>>

(* What a request is about to rely on at its step.                         *)
Placed(r) ==
  /\ step[r] \in {"start", "quota", "request"} => sent[r] = <<>> /\ hop[r] = 1 /\ attempt[r] = 0
  /\ step[r] # "start" => taken[r] \in Snapshots
  /\ step[r] = "backoff" => ~IsFinalAttempt(r)
TypeInv == TypeOK /\ \A r \in Requests : Placed(r)

-----------------------------------------------------------------------------
(* Every step is Swap or one request's.                                    *)

StepOf(r) ==
  Admit(r) \/ Proceed(r) \/ Send(r) \/ ReadBody(r) \/ EndStream(r) \/ Disconnect(r)

LEMMA ChainType ==
  ASSUME NEW r \in Requests, taken[r] \in Snapshots
  PROVE  /\ Chain(r) \in Seq(Providers)
         /\ IsInjective(Chain(r))
         /\ DOMAIN Chain(r) = 1 .. Len(Chain(r))
         /\ Len(Chain(r)) \in Nat
  BY ChainAssumption, ProtocolAssumption, LenProperties DEF Chain

(* A request that a step is not of is left as it was.                      *)
LEMMA OthersAreLeft ==
  ASSUME TypeOK, NEW r \in Requests, NEW q \in Requests, StepOf(r), q # r
  PROVE  StateOf(q)' = StateOf(q)
PROOF
  <1> USE DEF TypeOK, StateOf, Goto, Answer
  <1>1. CASE Authorize(r)
    BY <1>1 DEF Authorize
  <1>2. CASE Resolve(r)
    BY <1>2 DEF Resolve
  <1>3. CASE Prepare(r)
    BY <1>3 DEF Prepare, Failover
  <1>4. CASE Backoff(r)
    BY <1>4 DEF Backoff
  <1>5. CASE Send(r)
    BY <1>5 DEF Send, Failover, Forward
  <1>6. CASE ReadBody(r)
    BY <1>6 DEF ReadBody
  <1>7. CASE EndStream(r)
    BY <1>7 DEF EndStream
  <1>8. CASE Disconnect(r)
    BY <1>8 DEF Disconnect
  <1>9. CASE CheckQuota(r)
    BY <1>9 DEF CheckQuota
  <1> QED  BY <1>1, <1>2, <1>3, <1>4, <1>5, <1>6, <1>7, <1>8, <1>9 DEF StepOf, Admit, Proceed

-----------------------------------------------------------------------------
(* Types.                                                                  *)

LEMMA GatewayType ==
  ASSUME NEW status \in 0 .. 599
  PROVE  Gateway(status) \in Response
  BY DEF Gateway, Response

LEMMA AnswerType ==
  ASSUME step \in [Requests -> Steps], answer \in [Requests -> Response],
         NEW r \in Requests, NEW response \in Response, Answer(r, response)
  PROVE  step' \in [Requests -> Steps] /\ answer' \in [Requests -> Response]
  BY DEF Answer, Goto, Steps

LEMMA FailoverType ==
  ASSUME TypeInv, NEW r \in Requests, step[r] \in {"attempt", "send"}, Failover(r),
         UNCHANGED taken
  PROVE  /\ step' \in [Requests -> Steps]
         /\ hop' \in [Requests -> Nat] /\ attempt' \in [Requests -> Nat]
         /\ answer' \in [Requests -> Response]
         /\ \/ step'[r] = "answered"
            \/ /\ step'[r] = "attempt" /\ hop'[r] = hop[r] + 1 /\ attempt'[r] = 0
               /\ hop'[r] <= Len(Chain(r))
PROOF
  <1>1. /\ taken[r] \in Snapshots /\ hop[r] \in 1 .. Len(Chain(r))
        /\ Len(Chain(r)) \in Nat
    BY ChainType DEF TypeInv, TypeOK, Placed
  <1>2. CASE IsLast(r)
    <2>1. Gateway(502) \in Response
      BY GatewayType
    <2>2. /\ step' = [step EXCEPT ![r] = "answered"]
          /\ answer' = [answer EXCEPT ![r] = Gateway(502)]
          /\ UNCHANGED <<hop, attempt>>
      BY <1>2 DEF Failover, Answer, Goto
    <2> QED  BY <2>1, <2>2 DEF TypeInv, TypeOK, Steps
  <1>3. CASE ~IsLast(r)
    <2>1. hop[r] + 1 \in Nat /\ hop[r] + 1 <= Len(Chain(r))
      BY <1>1, <1>3 DEF IsLast
    <2>2. /\ step' = [step EXCEPT ![r] = "attempt"]
          /\ hop' = [hop EXCEPT ![r] = hop[r] + 1]
          /\ attempt' = [attempt EXCEPT ![r] = 0]
          /\ UNCHANGED answer
      BY <1>3 DEF Failover, Goto
    <2> QED  BY <2>1, <2>2 DEF TypeInv, TypeOK, Steps
  <1> QED  BY <1>2, <1>3

LEMMA ForwardType ==
  ASSUME TypeInv, NEW r \in Requests, NEW status \in Statuses, step[r] = "send",
         Forward(r, status)
  PROVE  /\ step' \in [Requests -> Steps]
         /\ hop' \in [Requests -> Nat] /\ attempt' \in [Requests -> Nat]
         /\ answer' \in [Requests -> Response]
         /\ step'[r] \in {"body", "stream"}
PROOF
  <1>0. hop[r] \in 1 .. Len(Chain(r)) /\ taken[r] \in Snapshots
    BY DEF TypeInv, TypeOK, Placed
  <1>1. Provider(r) \in Providers
    BY <1>0, ChainType, ElementOfSeq DEF Provider
  <1>2. [status |-> status, from |-> Provider(r)] \in Response
    BY <1>1, StatusesAssumption DEF Response
  <1>3. /\ \E next \in {"body", "stream"} : step' = [step EXCEPT ![r] = next]
        /\ answer' = [answer EXCEPT ![r] = [status |-> status, from |-> Provider(r)]]
        /\ UNCHANGED <<hop, attempt>>
    BY DEF Forward, Goto
  <1> QED  BY <1>2, <1>3 DEF TypeInv, TypeOK, Steps

(* The type invariant in parts: the fields, and where a request may be in  *)
(* its chain.                                                              *)
Typed ==
  /\ state \in Snapshots
  /\ swaps \in 0 .. MaxSwaps
  /\ step \in [Requests -> Steps]
  /\ taken \in [Requests -> Snapshots \cup {NoSnapshot}]
  /\ hop \in [Requests -> Nat]
  /\ attempt \in [Requests -> Nat]
  /\ sent \in [Requests -> Seq(Exchange)]
  /\ answer \in [Requests -> Response]
  /\ recorded \in [Requests -> Nat]
Within(r) == Walking(r) => hop[r] \in 1 .. Len(Chain(r)) /\ attempt[r] < taken[r].max_attempts

LEMMA TypeParts ==
  ASSUME NEW r \in Requests, TypeInv, StepOf(r), Typed', Within(r)', Placed(r)'
  PROVE  TypeInv'
PROOF
  <1>1. ASSUME NEW q \in Requests, q # r PROVE Within(q)' /\ Placed(q)'
    <2>1. StateOf(q)' = StateOf(q)
      BY <1>1, OthersAreLeft DEF TypeInv
    <2>2. Chain(q)' = Chain(q)
      BY <2>1 DEF StateOf, Chain
    <2> QED  BY <1>1, <2>1, <2>2 DEF StateOf, TypeInv, TypeOK, Within, Placed, Walking, IsFinalAttempt
  <1>2. \A q \in Requests : Within(q)' /\ Placed(q)'
    BY <1>1
  <1> QED  BY <1>2 DEF TypeInv, TypeOK, Typed, Within, Walking

LEMMA TypeStep ==
  ASSUME TypeInv, NEW r \in Requests, StepOf(r)
  PROVE  TypeInv'
PROOF
  <1> SUFFICES Typed' /\ Within(r)' /\ Placed(r)'
    BY TypeParts
  <1>0. /\ Typed /\ Within(r) /\ Placed(r)
        /\ step[r] # "start" => taken[r] \in Snapshots
    BY DEF TypeInv, TypeOK, Typed, Within, Placed, Walking
  <1>1. CASE Authorize(r)
    <2>1. Typed'
      <3>1. Gateway(401) \in Response
        BY GatewayType
      <3> QED  BY <1>0, <1>1, <3>1, ZenonT(60) DEF Authorize, Typed, Answer, Goto, Steps
    <2>2. step'[r] \in {"quota", "answered"} /\ taken'[r] \in Snapshots
      BY <1>0, <1>1 DEF Authorize, Typed, Answer, Goto
    <2> QED  BY <1>0, <1>1, <2>1, <2>2 DEF Authorize, Placed, Within, Walking
  <1>2. CASE Resolve(r)
    <2>1. /\ taken[r] \in Snapshots /\ Resolution(r) \in {200, 403, 404}
          /\ taken'[r] = taken[r] /\ Chain(r)' = Chain(r)
      BY <1>0, <1>2 DEF Resolve, Resolution, Chain
    <2>2. Typed'
      <3>1. /\ Gateway(400) \in Response
            /\ Gateway(403) \in Response /\ Gateway(404) \in Response
        BY GatewayType
      <3>2. \/ Goto(r, "attempt") /\ UNCHANGED answer
            \/ \E status \in {400, 403, 404} : Answer(r, Gateway(status))
        BY <1>2, <2>1 DEF Resolve
      <3>3. step' \in [Requests -> Steps] /\ answer' \in [Requests -> Response]
        BY <1>0, <3>1, <3>2, AnswerType, ZenonT(60) DEF Typed, Goto, Steps
      <3> QED  BY <1>0, <1>2, <3>3 DEF Resolve, Typed
    <2>3. step'[r] \in {"attempt", "answered"}
      BY <1>0, <1>2 DEF Resolve, Typed, Answer, Goto
    <2>4. step'[r] = "attempt" => Len(Chain(r)) \in Nat \ {0}
      <3> SUFFICES ASSUME step'[r] = "attempt" PROVE Len(Chain(r)) \in Nat \ {0}
        OBVIOUS
      <3>1. Chain(r) # <<>>
        BY <1>0, <1>2 DEF Resolve, Typed, Answer, Goto, Resolution
      <3>2. Chain(r) \in Seq(Providers)
        BY <2>1, ChainType
      <3> QED  BY <3>1, <3>2, EmptySeq, LenProperties
    <2>5. taken[r].max_attempts \in Nat \ {0}
      BY <2>1, SnapshotsAssumption
    <2>6. hop'[r] = 1 /\ attempt'[r] = 0 /\ sent'[r] = sent[r]
      BY <1>0, <1>2 DEF Resolve, Placed
    <2> QED  BY <1>0, <1>2, <2>1, <2>2, <2>3, <2>4, <2>5, <2>6 DEF Placed, Within, Walking
  <1>3. CASE Prepare(r)
    <2>1. UNCHANGED <<taken, sent, state, swaps, recorded>> /\ step[r] = "attempt"
      BY <1>3 DEF Prepare
    <2>2. Chain(r)' = Chain(r) /\ taken[r] \in Snapshots
      BY <1>0, <2>1 DEF Chain
    <2>3. CASE Failover(r)
      <3>1. Typed'
        BY <1>0, <2>1, <2>3, FailoverType DEF Typed
      <3>2. Within(r)'
        <4>1. taken'[r].max_attempts \in Nat \ {0}
          BY <2>1, <2>2, SnapshotsAssumption
        <4> QED  BY <1>0, <2>1, <2>2, <2>3, <4>1, FailoverType DEF Typed, Within, Walking
      <3> QED  BY <1>0, <2>1, <2>2, <2>3, <3>1, <3>2, FailoverType DEF Placed
    <2>4. CASE Goto(r, "send") /\ UNCHANGED <<hop, attempt, answer>>
      BY <1>0, <2>1, <2>2, <2>4 DEF Typed, Goto, Within, Walking, Placed, Steps
    <2> QED  BY <1>3, <2>3, <2>4 DEF Prepare
  <1>4. CASE Send(r)
    <2>1. /\ UNCHANGED <<taken, state, swaps, recorded>>
          /\ step[r] = "send" /\ taken[r] \in Snapshots /\ Chain(r)' = Chain(r)
      BY <1>0, <1>4 DEF Send, Chain
    <2>2. PICK status \in Statuses \cup {TransportError} :
            /\ sent' = [sent EXCEPT ![r] =
                         Append(@, [provider |-> Provider(r), status |-> status])]
            /\ \/ Failover(r)
               \/ status # TransportError /\ Forward(r, status)
               \/ /\ status # TransportError /\ ~IsFinalAttempt(r)
                  /\ Goto(r, "backoff")
                  /\ UNCHANGED <<hop, attempt, answer>>
      BY <1>4 DEF Send
    <2>3. Provider(r) \in Providers
      BY <1>0, <2>1, ChainType DEF Within, Walking, Provider
    <2>4. sent' \in [Requests -> Seq(Exchange)]
      <3>1. [provider |-> Provider(r), status |-> status] \in Exchange
        BY <2>3 DEF Exchange
      <3> QED  BY <1>0, <2>2, <3>1, AppendProperties DEF Typed
    <2>5. CASE Failover(r)
      <3>1. Typed'
        BY <1>0, <2>1, <2>4, <2>5, FailoverType DEF Typed
      <3>2. taken'[r].max_attempts \in Nat \ {0}
        BY <2>1, SnapshotsAssumption
      <3>3. Within(r)'
        BY <1>0, <2>1, <2>5, <3>2, FailoverType DEF Typed, Within, Walking
      <3> QED  BY <1>0, <2>1, <2>5, <3>1, <3>3, FailoverType DEF Placed
    <2>6. CASE status # TransportError /\ Forward(r, status)
      <3>1. Typed'
        BY <1>0, <2>1, <2>4, <2>6, ForwardType DEF Typed
      <3> QED  BY <1>0, <2>1, <2>6, <3>1, ForwardType DEF Placed, Within, Walking
    <2>7. CASE ~IsFinalAttempt(r) /\ Goto(r, "backoff") /\ UNCHANGED <<hop, attempt, answer>>
      BY <1>0, <2>1, <2>4, <2>7 DEF Typed, Goto, Within, Walking, Placed, IsFinalAttempt, Steps
    <2> QED  BY <2>2, <2>5, <2>6, <2>7
  <1>5. CASE Backoff(r)
    <2>1. /\ attempt[r] \in Nat /\ taken[r] \in Snapshots
          /\ taken[r].max_attempts \in Nat
          /\ attempt[r] + 1 < taken[r].max_attempts
      BY <1>0, <1>5, SnapshotsAssumption DEF Backoff, Placed, Typed, IsFinalAttempt
    <2>2. Chain(r)' = Chain(r)
      BY <1>5 DEF Backoff, Chain
    <2>3. Typed' /\ step'[r] = "send" /\ attempt'[r] = attempt[r] + 1
      BY <1>0, <1>5, <2>1 DEF Backoff, Typed, Goto, Steps
    <2> QED  BY <1>0, <1>5, <2>1, <2>2, <2>3 DEF Backoff, Within, Walking, Placed
  <1>6. CASE ReadBody(r) \/ EndStream(r) \/ Disconnect(r)
    <2>1. Typed'
      <3>1. Gateway(502) \in Response
        BY GatewayType
      <3>2. CASE ReadBody(r)
        <4>1. step' \in [Requests -> Steps] /\ answer' \in [Requests -> Response]
          <5>1. CASE Goto(r, "answered") /\ UNCHANGED answer
            BY <1>0, <5>1 DEF Typed, Goto, Steps
          <5>2. CASE Answer(r, Gateway(502))
            BY <1>0, <3>1, <5>2, AnswerType DEF Typed
          <5> QED  BY <3>2, <5>1, <5>2 DEF ReadBody
        <4>2. recorded' \in [Requests -> Nat]
          <5>1. recorded \in [Requests -> Nat] /\ recorded[r] + 1 \in Nat
            BY <1>0 DEF Typed
          <5>2. recorded' = [recorded EXCEPT ![r] = recorded[r] + 1] \/ recorded' = recorded
            BY <3>2 DEF ReadBody
          <5> QED  BY <5>1, <5>2
        <4> QED  BY <1>0, <3>2, <4>1, <4>2 DEF ReadBody, Typed
      <3>3. CASE EndStream(r)
        BY <1>0, <3>3 DEF EndStream, Typed, Goto, Steps
      <3>4. CASE Disconnect(r)
        BY <1>0, <3>4 DEF Disconnect, Typed, Goto, Steps
      <3> QED  BY <1>6, <3>2, <3>3, <3>4
    <2>2. step'[r] \in {"answered", "gone"} /\ taken'[r] = taken[r] /\ step[r] # "start"
      BY <1>0, <1>6 DEF ReadBody, EndStream, Disconnect, Typed, Answer, Goto, Over
    <2> QED  BY <1>0, <2>1, <2>2 DEF Placed, Within, Walking
  <1>7. CASE CheckQuota(r)
    <2>1. Typed'
      <3>1. Gateway(402) \in Response
        BY GatewayType
      <3>2. step' \in [Requests -> Steps] /\ answer' \in [Requests -> Response]
        <4>1. CASE Goto(r, "request") /\ UNCHANGED answer
          BY <1>0, <4>1 DEF Typed, Goto, Steps
        <4>2. CASE Answer(r, Gateway(402))
          BY <1>0, <3>1, <4>2, AnswerType DEF Typed
        <4> QED  BY <1>7, <4>1, <4>2 DEF CheckQuota
      <3> QED  BY <1>0, <1>7, <3>2 DEF CheckQuota, Typed
    <2>2. step'[r] \in {"request", "answered"} /\ step[r] = "quota"
          /\ taken'[r] = taken[r] /\ hop'[r] = hop[r] /\ attempt'[r] = attempt[r]
          /\ sent'[r] = sent[r]
      BY <1>0, <1>7 DEF CheckQuota, Typed, Answer, Goto
    <2> QED  BY <1>0, <2>1, <2>2 DEF Placed, Within, Walking
  <1> QED  BY <1>1, <1>2, <1>3, <1>4, <1>5, <1>6, <1>7 DEF StepOf, Admit, Proceed

LEMMA TypeInit == Init => TypeInv
PROOF
  <1> SUFFICES ASSUME Init PROVE TypeInv
    OBVIOUS
  <1>1. <<>> \in Seq(Exchange) /\ NoAnswer \in Response
    BY EmptySeq DEF NoAnswer, Response
  <1>2. TypeOK
    BY <1>1, SwapsAssumption DEF Init, TypeOK, Steps
  <1> QED  BY <1>2 DEF Init, TypeInv, Placed

LEMMA TypeNext == TypeInv /\ [Next]_vars => TypeInv'
PROOF
  <1> SUFFICES ASSUME TypeInv, [Next]_vars PROVE TypeInv'
    OBVIOUS
  <1>1. ASSUME \A q \in Requests : StateOf(q)' = StateOf(q),
               state' \in Snapshots, swaps' \in 0 .. MaxSwaps,
               UNCHANGED <<step, taken, hop, attempt, sent, answer, recorded>>
        PROVE  TypeInv'
    <2>1. \A q \in Requests : Chain(q)' = Chain(q)
      BY <1>1 DEF Chain
    <2> QED  BY <1>1, <2>1 DEF TypeInv, TypeOK, Placed, IsFinalAttempt
  <1>2. CASE Swap
    <2>1. state' \in Snapshots /\ swaps' \in 0 .. MaxSwaps
      BY <1>2, SwapsAssumption DEF Swap, TypeInv, TypeOK
    <2> QED  BY <1>1, <1>2, <2>1 DEF Swap, StateOf
  <1>3. CASE UNCHANGED vars
    BY <1>1, <1>3 DEF vars, StateOf, TypeInv, TypeOK
  <1> QED  BY <1>2, <1>3, TypeStep DEF Next, StepOf

(* The request path is type-correct for any requests, chains and statuses, *)
(* and a request at a hop is within its chain and its attempts             *)
(* (proxy/router.rs:556-719).                                              *)
THEOREM ProxyTypeCorrect == Spec => []TypeOK
PROOF
  <1>1. TypeInv => TypeOK
    BY DEF TypeInv
  <1> QED  BY <1>1, TypeInit, TypeNext, PTL DEF Spec

-----------------------------------------------------------------------------
(* The walk along the chain.                                               *)

Leaves(r, e) == Failed(r, e) \/ Exhausted(r, e)
Reaches(r, from, to) == from < to /\ \A j \in from + 1 .. to - 1 : Chain(r)[j] \in Unusable

(* Of two exchanges in a row.                                              *)
Link(r, e, n) ==
  \/ n.provider = e.provider /\ RateLimited(r, e)
  \/ /\ Leaves(r, e)
     /\ \E from, to \in DOMAIN Chain(r) :
          Chain(r)[from] = e.provider /\ Chain(r)[to] = n.provider /\ Reaches(r, from, to)
Links(r) ==
  \A i \in 1 .. Len(sent[r]) - 1 : \A e, n :
    e = sent[r][i] /\ n = sent[r][i + 1] => Link(r, e, n)

(* Nothing beyond the hop was contacted.                                   *)
Visited(r) ==
  \A i \in 1 .. Len(sent[r]) :
    \E j \in DOMAIN Chain(r) : j <= hop[r] /\ Chain(r)[j] = sent[r][i].provider

(* How the last exchange led to the one that is next.                      *)
Came(r) ==
  \A e : e = Last(sent[r]) =>
    IF step[r] = "backoff" \/ attempt[r] > 0
      THEN e.provider = Provider(r) /\ RateLimited(r, e)
      ELSE /\ Leaves(r, e)
           /\ \E from \in DOMAIN Chain(r) :
                Chain(r)[from] = e.provider /\ Reaches(r, from, hop[r])

(* What a request at a hop knows: how often it was tried, that all before  *)
(* it were, and how it came there.                                         *)
AtHop(r) ==
  /\ step[r] = "attempt" => attempt[r] = 0
  /\ \A p \in Providers : p = Provider(r) =>
       Cardinality(Exchanges(r, p))
         = IF step[r] = "backoff" THEN attempt[r] + 1 ELSE attempt[r]
  /\ \A j \in 1 .. hop[r] - 1, p \in Providers :
       p = Chain(r)[j] => p \in Unusable \/ Exchanges(r, p) # {}
  /\ sent[r] # <<>> => Came(r)

(* ForwardsOnlyLastAnswer of one request.                                  *)
ForwardsLast(r) ==
  \A last : last = Last(sent[r]) =>
    /\ answer[r].from # "gateway" =>
         /\ answer[r] = [status |-> last.status, from |-> last.provider]
         /\ ~Failed(r, last)
         /\ RateLimited(r, last) => Exhausted(r, last) /\ last.provider = Last(Chain(r))
    /\ answer[r] = Gateway(502) /\ sent[r] # <<>> =>
         \/ ~Failed(r, last) /\ (RateLimited(r, last) => last.provider = Last(Chain(r)))
         \/ /\ \A p \in ToSet(Chain(r)) : p \in Unusable \/ Exchanges(r, p) # {}
            /\ Failed(r, last) \/ last.provider # Last(Chain(r))
Answered(r) ==
  /\ step[r] \in {"start", "quota", "request"} \/ Walking(r) => answer[r] = NoAnswer
  /\ step[r] \in {"body", "stream"} => answer[r].from # "gateway"
  /\ ForwardsLast(r)

WalkInv(r) ==
  /\ Visited(r) /\ Links(r) /\ AttemptsAreBounded(r)
  /\ Walking(r) => AtHop(r)
  /\ Answered(r)

(* Before the first exchange.                                              *)
LEMMA NothingSent ==
  ASSUME NEW r \in Requests, sent'[r] = <<>>
  PROVE  /\ Visited(r)' /\ Links(r)' /\ AttemptsAreBounded(r)'
         /\ \A p : Exchanges(r, p)' = {}
PROOF
  <1>1. Len(sent'[r]) = 0
    BY EmptySeq
  <1> QED  BY <1>1 DEF Visited, Links, AttemptsAreBounded, Exchanges

(* As long as nothing is exchanged, what was stays what it was.            *)
LEMMA SentUnchanged ==
  ASSUME NEW r \in Requests, sent'[r] = sent[r], taken'[r] = taken[r]
  PROVE  /\ Chain(r)' = Chain(r)
         /\ \A p : Exchanges(r, p)' = Exchanges(r, p)
         /\ \A e : (RateLimited(r, e)' <=> RateLimited(r, e))
         /\ \A e : (Failed(r, e)' <=> Failed(r, e))
         /\ \A e : (Exhausted(r, e)' <=> Exhausted(r, e))
         /\ \A i, j : (Reaches(r, i, j)' <=> Reaches(r, i, j))
         /\ Links(r)' <=> Links(r)
         /\ AttemptsAreBounded(r)' <=> AttemptsAreBounded(r)
PROOF
  <1>1. Chain(r)' = Chain(r)
    BY DEF Chain
  <1>2. \A p : Exchanges(r, p)' = Exchanges(r, p)
    BY DEF Exchanges
  <1>3. \A e : (RateLimited(r, e)' <=> RateLimited(r, e))
    BY DEF RateLimited, IsRetryable
  <1>4. \A e : (Failed(r, e)' <=> Failed(r, e))
    BY <1>3 DEF Failed
  <1>5. \A e : (Exhausted(r, e)' <=> Exhausted(r, e))
    BY <1>2, <1>3 DEF Exhausted
  <1>6. \A i, j : (Reaches(r, i, j)' <=> Reaches(r, i, j))
    BY <1>1 DEF Reaches
  <1>7. \A e, n : (Link(r, e, n)' <=> Link(r, e, n))
    BY <1>1, <1>3, <1>4, <1>5, <1>6 DEF Link, Leaves
  <1>8. Links(r)' <=> Links(r)
    BY <1>7 DEF Links
  <1>9. AttemptsAreBounded(r)' <=> AttemptsAreBounded(r)
    BY <1>2 DEF AttemptsAreBounded
  <1> QED  BY <1>1, <1>2, <1>3, <1>4, <1>5, <1>6, <1>8, <1>9

LEMMA WalkLeft ==
  ASSUME NEW q \in Requests, WalkInv(q), StateOf(q)' = StateOf(q)
  PROVE  WalkInv(q)'
PROOF
  <1>1. /\ sent'[q] = sent[q] /\ taken'[q] = taken[q] /\ step'[q] = step[q]
        /\ hop'[q] = hop[q] /\ attempt'[q] = attempt[q] /\ answer'[q] = answer[q]
    BY DEF StateOf
  <1>2. Visited(q)'
    BY <1>1, SentUnchanged DEF WalkInv, Visited
  <1>3. Walking(q)' => AtHop(q)'
    BY <1>1, SentUnchanged DEF WalkInv, Walking, AtHop, Came, Leaves, Provider
  <1>4. Answered(q)'
    BY <1>1, SentUnchanged DEF WalkInv, Walking, Answered, ForwardsLast
  <1> QED  BY <1>1, <1>2, <1>3, <1>4, SentUnchanged DEF WalkInv

-----------------------------------------------------------------------------
(* An exchange with the provider at the hop.                               *)

LEMMA Positions ==
  ASSUME NEW r \in Requests, taken[r] \in Snapshots,
         NEW i \in DOMAIN Chain(r), NEW j \in DOMAIN Chain(r), Chain(r)[i] = Chain(r)[j]
  PROVE  i = j
  BY ChainType DEF IsInjective

LEMMA ExchangesAfter ==
  ASSUME TypeInv, NEW r \in Requests, NEW e \in Exchange,
         sent' = [sent EXCEPT ![r] = Append(sent[r], e)]
  PROVE  /\ Len(sent'[r]) = Len(sent[r]) + 1 /\ Len(sent[r]) \in Nat
         /\ \A i \in 1 .. Len(sent[r]) : sent'[r][i] = sent[r][i]
         /\ sent'[r][Len(sent[r]) + 1] = e
         /\ \A p : p # e.provider => Exchanges(r, p)' = Exchanges(r, p)
         /\ Exchanges(r, e.provider)' = Exchanges(r, e.provider) \cup {Len(sent[r]) + 1}
         /\ Cardinality(Exchanges(r, e.provider)') = Cardinality(Exchanges(r, e.provider)) + 1
         /\ \A p : Cardinality(Exchanges(r, p)) \in Nat
PROOF
  <1>1. sent'[r] = Append(sent[r], e) /\ sent[r] \in Seq(Exchange)
    BY DEF TypeInv, TypeOK
  <1>2. /\ Len(sent'[r]) = Len(sent[r]) + 1 /\ Len(sent[r]) \in Nat
        /\ \A i \in 1 .. Len(sent[r]) : sent'[r][i] = sent[r][i]
        /\ sent'[r][Len(sent[r]) + 1] = e
    BY <1>1, AppendProperties, LenProperties
  <1>3. \A p : p # e.provider => Exchanges(r, p)' = Exchanges(r, p)
    BY <1>2 DEF Exchanges
  <1>4. Exchanges(r, e.provider)' = Exchanges(r, e.provider) \cup {Len(sent[r]) + 1}
    BY <1>2 DEF Exchanges
  <1>5. \A p : IsFiniteSet(Exchanges(r, p))
    <2> TAKE p
    <2>1. IsFiniteSet(1 .. Len(sent[r]))
      BY <1>2, FS_Interval
    <2>2. Exchanges(r, p) \in SUBSET (1 .. Len(sent[r]))
      BY DEF Exchanges
    <2> QED  BY <2>1, <2>2, FS_Subset
  <1>6. \A p : Cardinality(Exchanges(r, p)) \in Nat
    BY <1>5, FS_CardinalityType
  <1>7. Len(sent[r]) + 1 \notin Exchanges(r, e.provider)
    BY <1>2 DEF Exchanges
  <1>8. Cardinality(Exchanges(r, e.provider)') = Cardinality(Exchanges(r, e.provider)) + 1
    BY <1>4, <1>5, <1>7, FS_AddElement
  <1> QED  BY <1>2, <1>3, <1>4, <1>6, <1>8

(* What the exchanges so far say of the walk, the new one included, before *)
(* what came of it is looked at.                                           *)
LEMMA WalkAfter ==
  ASSUME TypeInv, NEW r \in Requests, WalkInv(r), step[r] = "send",
         NEW e \in Exchange, e.provider = Provider(r),
         sent' = [sent EXCEPT ![r] = Append(sent[r], e)], taken' = taken
  PROVE  /\ Links(r)' /\ AttemptsAreBounded(r)'
         /\ \A i \in 1 .. Len(sent'[r]) :
              \E j \in DOMAIN Chain(r) : j <= hop[r] /\ Chain(r)[j] = sent'[r][i].provider
         /\ \A j \in 1 .. hop[r], p \in Providers :
              p = Chain(r)[j] => p \in Unusable \/ Exchanges(r, p)' # {}
         /\ Cardinality(Exchanges(r, e.provider)') = attempt[r] + 1
         /\ Last(sent[r])' = e /\ sent'[r] # <<>> /\ Chain(r)' = Chain(r)
PROOF
  <1>1. /\ taken[r] \in Snapshots /\ hop[r] \in DOMAIN Chain(r) /\ hop[r] \in 1 .. Len(Chain(r))
        /\ DOMAIN Chain(r) = 1 .. Len(Chain(r)) /\ Len(Chain(r)) \in Nat
        /\ taken[r].max_attempts \in Nat /\ attempt[r] < taken[r].max_attempts
        /\ attempt[r] \in Nat /\ AtHop(r)
    BY ChainType, SnapshotsAssumption DEF TypeInv, TypeOK, Placed, WalkInv, Walking
  <1>2. Chain(r)' = Chain(r) /\ taken'[r] = taken[r]
    BY DEF Chain
  <1>3. /\ Len(sent'[r]) = Len(sent[r]) + 1 /\ Len(sent[r]) \in Nat
        /\ \A i \in 1 .. Len(sent[r]) : sent'[r][i] = sent[r][i]
        /\ sent'[r][Len(sent[r]) + 1] = e
    BY ExchangesAfter
  <1>4. /\ \A p : p # e.provider => Exchanges(r, p)' = Exchanges(r, p)
        /\ Exchanges(r, e.provider)' = Exchanges(r, e.provider) \cup {Len(sent[r]) + 1}
        /\ Cardinality(Exchanges(r, e.provider)') = attempt[r] + 1
    <2>1. Cardinality(Exchanges(r, e.provider)) = attempt[r]
      BY <1>1 DEF AtHop, Exchange
    <2>2. Cardinality(Exchanges(r, e.provider)') = Cardinality(Exchanges(r, e.provider)) + 1
      BY ExchangesAfter
    <2>3. /\ \A p : p # e.provider => Exchanges(r, p)' = Exchanges(r, p)
          /\ Exchanges(r, e.provider)' = Exchanges(r, e.provider) \cup {Len(sent[r]) + 1}
      BY ExchangesAfter
    <2> QED  BY <2>1, <2>2, <2>3
  <1>5. sent'[r] # <<>> /\ Last(sent[r])' = e
    <2>1. sent'[r] # <<>>
      BY <1>3, EmptySeq
    <2> QED  BY <1>3, <2>1 DEF Last
  <1>6. AttemptsAreBounded(r)'
    <2> SUFFICES ASSUME NEW p \in Providers
                 PROVE  Cardinality(Exchanges(r, p)') <= taken[r].max_attempts
      BY <1>2 DEF AttemptsAreBounded
    <2>1. CASE p = e.provider
      <3>1. Exchanges(r, p)' = Exchanges(r, e.provider)'
        BY <2>1 DEF Exchanges
      <3> QED  BY <1>1, <1>4, <3>1
    <2>2. CASE p # e.provider /\ sent[r] # <<>>
      BY <1>4, <2>2 DEF WalkInv, AttemptsAreBounded
    <2>3. CASE p # e.provider /\ sent[r] = <<>>
      <3>1. Exchanges(r, p) = {}
        BY <2>3, EmptySeq DEF Exchanges
      <3>2. Exchanges(r, p)' = {}
        BY <1>4, <2>3, <3>1
      <3>3. Cardinality(Exchanges(r, p)') = 0
        BY <3>2, FS_EmptySet
      <3> QED  BY <1>1, <3>3
    <2> QED  BY <2>1, <2>2, <2>3
  <1>7. \A i \in 1 .. Len(sent'[r]) :
          \E j \in DOMAIN Chain(r) : j <= hop[r] /\ Chain(r)[j] = sent'[r][i].provider
    <2> SUFFICES ASSUME NEW i \in 1 .. Len(sent[r]) + 1
                 PROVE  \E j \in DOMAIN Chain(r) :
                          j <= hop[r] /\ Chain(r)[j] = sent'[r][i].provider
      BY <1>3
    <2>1. CASE i = Len(sent[r]) + 1
      BY <1>1, <1>3, <2>1 DEF Provider
    <2>2. CASE i \in 1 .. Len(sent[r])
      BY <1>3, <2>2 DEF WalkInv, Visited
    <2> QED  BY <1>3, <2>1, <2>2
  <1>8. \A j \in 1 .. hop[r], p \in Providers :
          p = Chain(r)[j] => p \in Unusable \/ Exchanges(r, p)' # {}
    <2> SUFFICES ASSUME NEW j \in 1 .. hop[r], NEW p \in Providers, p = Chain(r)[j]
                 PROVE  p \in Unusable \/ Exchanges(r, p)' # {}
      OBVIOUS
    <2>1. CASE p = e.provider
      BY <1>4, <2>1
    <2>2. CASE p # e.provider
      <3>1. j \in 1 .. hop[r] - 1
        BY <1>1, <2>2 DEF Provider
      <3> QED  BY <1>1, <1>4, <2>2, <3>1 DEF AtHop
    <2> QED  BY <2>1, <2>2
  (* A provider left before the hop is not at the hop.                     *)
  <1>9. ASSUME NEW x, NEW n, NEW to \in DOMAIN Chain(r), to <= hop[r],
               Chain(r)[to] = n.provider, Link(r, x, n)
        PROVE  Link(r, x, n)'
    <2>1. /\ RateLimited(r, x)' <=> RateLimited(r, x)
          /\ Failed(r, x)' <=> Failed(r, x)
          /\ \A i, j : (Reaches(r, i, j)' <=> Reaches(r, i, j))
      BY <1>2 DEF RateLimited, IsRetryable, Failed, Reaches
    <2>2. CASE n.provider = x.provider /\ RateLimited(r, x)
      BY <2>1, <2>2 DEF Link
    <2>3. CASE Leaves(r, x) /\ \E from, at_ \in DOMAIN Chain(r) :
                 /\ Chain(r)[from] = x.provider /\ Chain(r)[at_] = n.provider
                 /\ Reaches(r, from, at_)
      <3>1. PICK from \in DOMAIN Chain(r), at_ \in DOMAIN Chain(r) :
              /\ Chain(r)[from] = x.provider /\ Chain(r)[at_] = n.provider
              /\ Reaches(r, from, at_)
        BY <2>3
      <3>2. at_ = to
        BY <1>1, <1>9, <3>1, Positions
      <3>3. from # hop[r]
        BY <1>1, <1>9, <3>1, <3>2 DEF Reaches
      <3>4. x.provider # e.provider
        BY <1>1, <3>1, <3>3, Positions DEF Provider
      <3>5. Leaves(r, x)'
        BY <1>2, <1>4, <2>1, <2>3, <3>4 DEF Leaves, Exhausted
      <3> QED  BY <1>2, <2>1, <3>1, <3>5 DEF Link
    <2> QED  BY <1>9, <2>2, <2>3 DEF Link
  <1>10. Links(r)'
    <2> SUFFICES ASSUME NEW i \in 1 .. Len(sent[r]), NEW x, NEW n,
                        x = sent'[r][i], n = sent'[r][i + 1]
                 PROVE  Link(r, x, n)'
      BY <1>3 DEF Links
    <2>1. x = sent[r][i]
      BY <1>3
    <2>2. CASE i = Len(sent[r])
      <3>1. x = Last(sent[r]) /\ n = e /\ sent[r] # <<>>
        BY <1>3, <2>1, <2>2, EmptySeq DEF Last
      <3>2. Came(r)
        BY <1>1, <3>1 DEF AtHop
      <3>3. Link(r, x, n)
        BY <1>1, <3>1, <3>2 DEF Came, Link, Provider
      <3> QED  BY <1>1, <1>9, <3>1, <3>3 DEF Provider
    <2>3. CASE i \in 1 .. Len(sent[r]) - 1
      <3>1. n = sent[r][i + 1] /\ i + 1 \in 1 .. Len(sent[r])
        BY <1>3, <2>3
      <3>2. Link(r, x, n)
        BY <2>1, <2>3, <3>1 DEF WalkInv, Links
      <3>3. PICK to \in DOMAIN Chain(r) : to <= hop[r] /\ Chain(r)[to] = n.provider
        BY <3>1 DEF WalkInv, Visited
      <3> QED  BY <1>9, <3>2, <3>3
    <2> QED  BY <1>3, <2>2, <2>3
  <1> QED  BY <1>2, <1>4, <1>5, <1>6, <1>7, <1>8, <1>10

-----------------------------------------------------------------------------
(* Each step keeps it.                                                     *)

(* The next hop is reached: nothing was sent to it, and what was last sent *)
(* to another provider made it be left.                                    *)
LEMMA NextHop ==
  ASSUME TypeInv, TypeInv', NEW r \in Requests, WalkInv(r), Failover(r),
         step[r] \in {"attempt", "send"}, taken' = taken,
         Links(r)', AttemptsAreBounded(r)',
         \A i \in 1 .. Len(sent'[r]) :
           \E j \in DOMAIN Chain(r) : j <= hop[r] /\ Chain(r)[j] = sent'[r][i].provider,
         \A j \in 1 .. hop[r], p \in Providers :
           p = Chain(r)[j] => p \in Unusable \/ Exchanges(r, p)' # {},
         \A e : e = Last(sent[r])' /\ sent'[r] # <<>> =>
           /\ Leaves(r, e)'
           /\ \E from \in DOMAIN Chain(r) :
                Chain(r)[from] = e.provider /\ Reaches(r, from, hop[r] + 1)
           /\ Failed(r, e)' \/ e.provider # Last(Chain(r)) \/ ~IsLast(r)
  PROVE  WalkInv(r)'
PROOF
  <1>1. /\ taken[r] \in Snapshots /\ hop[r] \in DOMAIN Chain(r) /\ hop[r] \in 1 .. Len(Chain(r))
        /\ DOMAIN Chain(r) = 1 .. Len(Chain(r)) /\ Len(Chain(r)) \in Nat
        /\ Chain(r)' = Chain(r) /\ Chain(r) \in Seq(Providers)
        /\ answer[r] = NoAnswer
    BY ChainType DEF TypeInv, TypeOK, Placed, WalkInv, Answered, Walking, Chain
  <1>2. CASE IsLast(r)
    <2>1. step'[r] = "answered" /\ answer'[r] = Gateway(502) /\ hop' = hop
      BY <1>2 DEF Failover, Answer, Goto, TypeInv, TypeOK
    <2>2. Visited(r)'
      <3>1. hop'[r] = hop[r] /\ Chain(r)' = Chain(r)
        BY <1>1, <2>1
      <3> QED  BY <3>1 DEF Visited
    <2>3. \A p \in ToSet(Chain(r)) : p \in Providers /\ (p \in Unusable \/ Exchanges(r, p)' # {})
      BY <1>1, <1>2, ElementOfSeq DEF ToSet, IsLast
    <2>4. ForwardsLast(r)'
      BY <1>1, <1>2, <2>1, <2>3 DEF ForwardsLast, Gateway
    <2> QED  BY <2>1, <2>2, <2>4 DEF WalkInv, Walking, Answered
  <1>3. CASE ~IsLast(r)
    <2>1. /\ step'[r] = "attempt" /\ hop'[r] = hop[r] + 1 /\ attempt'[r] = 0
          /\ answer' = answer /\ hop[r] + 1 \in DOMAIN Chain(r)
      BY <1>1, <1>3 DEF Failover, Goto, TypeInv, TypeOK, IsLast
    <2>2. Visited(r)'
      BY <1>1, <2>1 DEF Visited
    <2>3. \A p \in Providers : p = Provider(r)' => Exchanges(r, p)' = {}
      <3> SUFFICES ASSUME NEW i \in 1 .. Len(sent'[r])
                   PROVE  sent'[r][i].provider # Chain(r)[hop[r] + 1]
        BY <1>1, <2>1 DEF Exchanges, Provider
      <3>1. PICK j \in DOMAIN Chain(r) : j <= hop[r] /\ Chain(r)[j] = sent'[r][i].provider
        OBVIOUS
      <3>2. j # hop[r] + 1
        BY <1>1, <3>1
      <3> QED  BY <1>1, <2>1, <3>1, <3>2, Positions
    <2>4. AtHop(r)'
      <3>1. sent'[r] # <<>> => Came(r)'
        BY <1>1, <2>1 DEF Came, Reaches
      <3>2. \A p \in Providers : p = Provider(r)' => Cardinality(Exchanges(r, p)') = 0
        BY <2>3, FS_EmptySet
      <3>3. \A j \in 1 .. hop'[r] - 1, p \in Providers :
              p = Chain(r)'[j] => p \in Unusable \/ Exchanges(r, p)' # {}
        BY <1>1, <2>1
      <3> QED  BY <2>1, <3>1, <3>2, <3>3 DEF AtHop
    <2>5. Answered(r)'
      BY <1>1, <2>1 DEF Answered, ForwardsLast, NoAnswer, Gateway
    <2> QED  BY <2>2, <2>4, <2>5 DEF WalkInv
  <1> QED  BY <1>2, <1>3

LEMMA WalkSend ==
  ASSUME TypeInv, TypeInv', NEW r \in Requests, WalkInv(r), Send(r)
  PROVE  WalkInv(r)'
PROOF
  <1>1. /\ taken[r] \in Snapshots /\ hop[r] \in DOMAIN Chain(r) /\ hop[r] \in 1 .. Len(Chain(r))
        /\ DOMAIN Chain(r) = 1 .. Len(Chain(r)) /\ Len(Chain(r)) \in Nat
        /\ taken[r].max_attempts \in Nat /\ attempt[r] < taken[r].max_attempts
        /\ attempt[r] \in Nat /\ step[r] = "send" /\ taken' = taken
        /\ answer[r] = NoAnswer /\ Chain(r)' = Chain(r)
    <2>1. step[r] = "send" /\ taken' = taken
      BY DEF Send
    <2>2. /\ taken[r] \in Snapshots /\ hop[r] \in 1 .. Len(Chain(r))
          /\ attempt[r] \in Nat /\ attempt[r] < taken[r].max_attempts
      BY <2>1 DEF TypeInv, TypeOK, Placed
    <2>3. answer[r] = NoAnswer /\ Chain(r)' = Chain(r)
      BY <2>1 DEF WalkInv, Walking, Answered, Chain
    <2> QED  BY <2>1, <2>2, <2>3, ChainType, SnapshotsAssumption
  <1>2. Provider(r) \in Providers
    BY <1>1, ChainType, ElementOfSeq DEF Provider
  <1>3. PICK status \in Statuses \cup {TransportError} :
          /\ sent' = [sent EXCEPT ![r] =
                       Append(@, [provider |-> Provider(r), status |-> status])]
          /\ \/ /\ status = TransportError \/ OnServerError(r, status)
                /\ Failover(r)
             \/ /\ status # TransportError /\ ~OnServerError(r, status)
                /\ IsRetryable(r, status) /\ IsFinalAttempt(r)
                /\ IF ForwardsExhausted(r) THEN Forward(r, status) ELSE Failover(r)
             \/ /\ status # TransportError /\ ~OnServerError(r, status)
                /\ IsRetryable(r, status) /\ ~IsFinalAttempt(r)
                /\ Goto(r, "backoff")
                /\ UNCHANGED <<hop, attempt, answer>>
             \/ /\ status # TransportError /\ ~OnServerError(r, status)
                /\ ~IsRetryable(r, status)
                /\ Forward(r, status)
    BY DEF Send
  <1>4. PICK e \in Exchange : e = [provider |-> Provider(r), status |-> status]
    BY <1>2 DEF Exchange
  <1>5. /\ Links(r)' /\ AttemptsAreBounded(r)'
        /\ \A i \in 1 .. Len(sent'[r]) :
             \E j \in DOMAIN Chain(r) : j <= hop[r] /\ Chain(r)[j] = sent'[r][i].provider
        /\ \A j \in 1 .. hop[r], p \in Providers :
             p = Chain(r)[j] => p \in Unusable \/ Exchanges(r, p)' # {}
        /\ Cardinality(Exchanges(r, e.provider)') = attempt[r] + 1
        /\ Last(sent[r])' = e /\ sent'[r] # <<>>
    BY <1>1, <1>3, <1>4, WalkAfter
  <1>6. /\ RateLimited(r, e)' <=> status # TransportError /\ IsRetryable(r, status)
        /\ Failed(r, e)' <=> status = TransportError \/ OnServerError(r, status)
        /\ Exhausted(r, e)' <=> RateLimited(r, e)' /\ attempt[r] + 1 = taken[r].max_attempts
    BY <1>1, <1>4, <1>5 DEF RateLimited, Failed, Exhausted, IsRetryable, OnServerError
  <1>7. IsFinalAttempt(r) => attempt[r] + 1 = taken[r].max_attempts
    BY <1>1 DEF IsFinalAttempt
  <1>8. e.provider = Chain(r)[hop[r]] /\ e.status = status
    BY <1>4 DEF Provider
  <1>9. ASSUME Failover(r), Leaves(r, e)', Failed(r, e)' \/ ~IsLast(r) PROVE WalkInv(r)'
    <2>1. \E from \in DOMAIN Chain(r) :
            Chain(r)[from] = e.provider /\ Reaches(r, from, hop[r] + 1)
      BY <1>1, <1>8 DEF Reaches
    <2> QED  BY <1>1, <1>5, <1>9, <2>1, NextHop
  <1>10. ASSUME Forward(r, status), status # TransportError, ~OnServerError(r, status),
                IsRetryable(r, status) => IsLast(r) /\ IsFinalAttempt(r)
         PROVE  WalkInv(r)'
    <2>1. /\ step'[r] \in {"body", "stream"} /\ hop' = hop
          /\ answer'[r] = [status |-> e.status, from |-> e.provider]
      BY <1>8, <1>10 DEF Forward, Goto, TypeInv, TypeOK, Provider
    <2>2. Visited(r)'
      BY <1>1, <1>5, <2>1 DEF Visited
    <2>3. answer'[r].from # "gateway"
      BY <1>2, <1>8, <2>1, GatewayAssumption DEF Provider
    <2>4. ForwardsLast(r)'
      <3>1. ~Failed(r, e)'
        BY <1>6, <1>10
      <3>2. RateLimited(r, e)' => Exhausted(r, e)' /\ e.provider = Last(Chain(r))
        BY <1>1, <1>6, <1>7, <1>8, <1>10 DEF IsLast, Last
      <3> QED  BY <1>1, <1>5, <2>1, <2>3, <3>1, <3>2 DEF ForwardsLast, Gateway
    <2> QED  BY <1>5, <2>1, <2>2, <2>3, <2>4 DEF WalkInv, Walking, Answered
  <1>11. ASSUME Goto(r, "backoff"), UNCHANGED <<hop, attempt, answer>>,
                status # TransportError, IsRetryable(r, status)
         PROVE  WalkInv(r)'
    <2>1. step'[r] = "backoff" /\ hop' = hop /\ attempt' = attempt /\ answer' = answer
      BY <1>11 DEF Goto, TypeInv, TypeOK
    <2>2. Visited(r)'
      BY <1>1, <1>5, <2>1 DEF Visited
    <2>3. Came(r)'
      BY <1>1, <1>5, <1>6, <1>8, <1>11, <2>1 DEF Came, Provider
    <2>4. AtHop(r)'
      <3>1. \A p \in Providers : p = Provider(r)' =>
              Cardinality(Exchanges(r, p)') = attempt[r] + 1
        <4> SUFFICES ASSUME NEW p \in Providers, p = Provider(r)'
                     PROVE  Cardinality(Exchanges(r, p)') = attempt[r] + 1
          OBVIOUS
        <4>1. p = e.provider
          BY <1>1, <1>8, <2>1 DEF Provider
        <4>2. Exchanges(r, p)' = Exchanges(r, e.provider)'
          BY <4>1 DEF Exchanges
        <4> QED  BY <1>5, <4>2
      <3>2. \A j \in 1 .. hop'[r] - 1, p \in Providers :
              p = Chain(r)'[j] => p \in Unusable \/ Exchanges(r, p)' # {}
        BY <1>1, <1>5, <2>1
      <3> QED  BY <2>1, <2>3, <3>1, <3>2 DEF AtHop
    <2>5. Answered(r)'
      BY <1>1, <2>1 DEF Answered, ForwardsLast, NoAnswer, Gateway
    <2> QED  BY <1>5, <2>1, <2>2, <2>4, <2>5 DEF WalkInv
  <1>12. CASE (status = TransportError \/ OnServerError(r, status)) /\ Failover(r)
    BY <1>6, <1>9, <1>12 DEF Leaves
  <1>13. CASE /\ status # TransportError /\ ~OnServerError(r, status)
              /\ IsRetryable(r, status) /\ IsFinalAttempt(r)
              /\ IF ForwardsExhausted(r) THEN Forward(r, status) ELSE Failover(r)
    BY <1>6, <1>7, <1>9, <1>10, <1>13 DEF Leaves, ForwardsExhausted
  <1>14. CASE /\ status # TransportError /\ ~OnServerError(r, status)
              /\ ~IsRetryable(r, status) /\ Forward(r, status)
    BY <1>10, <1>14
  <1> QED  BY <1>3, <1>11, <1>12, <1>13, <1>14

LEMMA WalkPrepare ==
  ASSUME TypeInv, TypeInv', NEW r \in Requests, WalkInv(r), Prepare(r)
  PROVE  WalkInv(r)'
PROOF
  <1>1. /\ sent' = sent /\ taken' = taken /\ step[r] = "attempt"
        /\ Walking(r) /\ AtHop(r) /\ attempt[r] = 0 /\ Provider(r) \in Providers
        /\ Chain(r)' = Chain(r) /\ taken[r] \in Snapshots
    <2>1. sent' = sent /\ taken' = taken /\ step[r] = "attempt"
      BY DEF Prepare
    <2>2. Walking(r) /\ AtHop(r) /\ Chain(r)' = Chain(r)
      BY <2>1 DEF Walking, WalkInv, Chain
    <2>3. taken[r] \in Snapshots /\ hop[r] \in 1 .. Len(Chain(r))
      BY <2>1 DEF TypeInv, TypeOK, Placed
    <2> QED  BY <2>1, <2>2, <2>3, ChainType, ElementOfSeq DEF AtHop, Provider
  <1>2. CASE Goto(r, "send") /\ UNCHANGED <<hop, attempt, answer>>
    <2>1. step'[r] = "send"
      BY <1>2 DEF Goto, TypeInv, TypeOK
    <2>2. Visited(r)'
      BY <1>1, <1>2 DEF WalkInv, Visited
    <2>3. AtHop(r)'
      BY <1>1, <1>2, <2>1, SentUnchanged DEF AtHop, Came, Leaves, Provider
    <2>4. Answered(r)'
      BY <1>1, <1>2, <2>1, SentUnchanged DEF WalkInv, Answered, ForwardsLast, Walking
    <2> QED  BY <1>1, <2>2, <2>3, <2>4, SentUnchanged DEF WalkInv
  <1>3. CASE Failover(r) /\ Provider(r) \in Unusable
    <2>1. hop[r] \in DOMAIN Chain(r) /\ hop[r] \in 1 .. Len(Chain(r))
          /\ DOMAIN Chain(r) = 1 .. Len(Chain(r)) /\ Len(Chain(r)) \in Nat
      BY <1>1, ChainType DEF TypeInv, TypeOK
    <2>2. \A i \in 1 .. Len(sent'[r]) :
            \E j \in DOMAIN Chain(r) : j <= hop[r] /\ Chain(r)[j] = sent'[r][i].provider
      BY <1>1 DEF WalkInv, Visited
    <2>3. \A j \in 1 .. hop[r], p \in Providers :
            p = Chain(r)[j] => p \in Unusable \/ Exchanges(r, p)' # {}
      <3> SUFFICES ASSUME NEW j \in 1 .. hop[r], NEW p \in Providers, p = Chain(r)[j]
                   PROVE  p \in Unusable \/ Exchanges(r, p)' # {}
        OBVIOUS
      <3>1. CASE j = hop[r]
        BY <1>3, <3>1 DEF Provider
      <3>2. CASE j \in 1 .. hop[r] - 1
        BY <1>1, <3>2, SentUnchanged DEF AtHop
      <3> QED  BY <2>1, <3>1, <3>2
    <2>4. ASSUME NEW e, e = Last(sent[r])', sent'[r] # <<>>
          PROVE  /\ Leaves(r, e)'
                 /\ \E from \in DOMAIN Chain(r) :
                      Chain(r)[from] = e.provider /\ Reaches(r, from, hop[r] + 1)
                 /\ Failed(r, e)' \/ e.provider # Last(Chain(r)) \/ ~IsLast(r)
      <3>1. Came(r) /\ e = Last(sent[r])
        BY <1>1, <2>4 DEF AtHop
      <3>2. PICK from \in DOMAIN Chain(r) :
              Chain(r)[from] = e.provider /\ Reaches(r, from, hop[r])
        BY <1>1, <3>1 DEF Came
      <3>3. Leaves(r, e)'
        BY <1>1, <3>1, SentUnchanged DEF Came, Leaves
      <3>4. Reaches(r, from, hop[r] + 1)
        BY <1>3, <2>1, <3>2 DEF Reaches, Provider
      <3>5. e.provider # Last(Chain(r)) \/ ~IsLast(r)
        <4> SUFFICES ASSUME IsLast(r) PROVE e.provider # Chain(r)[hop[r]]
          BY DEF IsLast, Last
        <4>1. from # hop[r]
          BY <2>1, <3>2 DEF Reaches
        <4> QED  BY <1>1, <2>1, <3>2, <4>1, Positions
      <3> QED  BY <3>2, <3>3, <3>4, <3>5
    <2>5. Links(r)' /\ AttemptsAreBounded(r)'
      BY <1>1, SentUnchanged DEF WalkInv
    <2> QED  BY <1>1, <1>3, <2>2, <2>3, <2>4, <2>5, NextHop
  <1> QED  BY <1>2, <1>3 DEF Prepare

LEMMA WalkBegin ==
  ASSUME TypeInv, NEW r \in Requests, WalkInv(r), Admit(r)
  PROVE  WalkInv(r)'
PROOF
  <1>1. /\ step[r] \in {"start", "quota", "request"} /\ sent' = sent /\ sent[r] = <<>>
        /\ hop' = hop /\ attempt' = attempt /\ hop[r] = 1 /\ attempt[r] = 0
        /\ answer[r] = NoAnswer
    <2>1. /\ step[r] \in {"start", "quota", "request"} /\ sent' = sent
          /\ hop' = hop /\ attempt' = attempt
      BY DEF Admit, Authorize, CheckQuota, Resolve
    <2> QED  BY <2>1 DEF TypeInv, Placed, WalkInv, Answered
  <1>2. \/ step'[r] \in {"quota", "request", "attempt"} /\ answer'[r] = NoAnswer
        \/ /\ step'[r] = "answered"
           /\ \E status \in {400, 401, 402, 403, 404} : answer'[r] = Gateway(status)
    <2>1. CASE Authorize(r)
      BY <1>1, <2>1 DEF Authorize, Answer, Goto, TypeInv, TypeOK
    <2>2. CASE Resolve(r)
      <3>1. Resolution(r) \in {200, 403, 404}
        BY DEF Resolution
      <3>2. \/ Goto(r, "attempt") /\ UNCHANGED answer
            \/ \E status \in {400, 403, 404} : Answer(r, Gateway(status))
        BY <2>2, <3>1 DEF Resolve
      <3> QED  BY <1>1, <3>2 DEF Answer, Goto, TypeInv, TypeOK
    <2>3. CASE CheckQuota(r)
      BY <1>1, <2>3 DEF CheckQuota, Answer, Goto, TypeInv, TypeOK
    <2> QED  BY <2>1, <2>2, <2>3 DEF Admit
  <1>3. sent'[r] = <<>> /\ \A p : Exchanges(r, p)' = {}
    BY <1>1, NothingSent
  <1>4. Walking(r)' => AtHop(r)'
    <2>1. step'[r] # "backoff" /\ attempt'[r] = 0 /\ hop'[r] = 1
      BY <1>1, <1>2
    <2>2. \A p : Cardinality(Exchanges(r, p)') = 0
      BY <1>3, FS_EmptySet
    <2> QED  BY <1>3, <2>1, <2>2 DEF AtHop
  <1>5. Answered(r)'
    BY <1>2, <1>3 DEF Answered, ForwardsLast, Walking, NoAnswer, Gateway
  <1> QED  BY <1>3, <1>4, <1>5, NothingSent DEF WalkInv

LEMMA WalkStep ==
  ASSUME TypeInv, TypeInv', NEW r \in Requests, WalkInv(r), StepOf(r)
  PROVE  WalkInv(r)'
PROOF
  <1>1. CASE Admit(r)
    BY <1>1, WalkBegin
  <1>2. CASE Prepare(r)
    BY <1>2, WalkPrepare
  <1>3. CASE Send(r)
    BY <1>3, WalkSend
  <1>4. CASE Backoff(r)
    <2>1. /\ sent' = sent /\ taken' = taken /\ hop' = hop /\ answer' = answer
          /\ step[r] = "backoff" /\ step'[r] = "send" /\ attempt'[r] = attempt[r] + 1
          /\ attempt[r] \in Nat
      BY <1>4 DEF Backoff, Goto, TypeInv, TypeOK
    <2>2. Visited(r)'
      BY <2>1, SentUnchanged DEF WalkInv, Visited
    <2>3. AtHop(r)'
      BY <2>1, SentUnchanged DEF WalkInv, Walking, AtHop, Came, Leaves, Provider
    <2>4. Answered(r)'
      BY <2>1, SentUnchanged DEF WalkInv, Answered, ForwardsLast, Walking
    <2> QED  BY <2>1, <2>2, <2>3, <2>4, SentUnchanged DEF WalkInv
  <1>5. CASE ReadBody(r) \/ EndStream(r) \/ Disconnect(r)
    <2>1. /\ sent' = sent /\ taken' = taken /\ hop' = hop
          /\ step'[r] \in Over
      BY <1>5 DEF ReadBody, EndStream, Disconnect, Answer, Goto, TypeInv, TypeOK, Over
    <2>2. Visited(r)'
      BY <2>1, SentUnchanged DEF WalkInv, Visited
    <2>3. \/ answer'[r] = answer[r]
          \/ answer'[r] = Gateway(502) /\ step[r] = "body"
      BY <1>5 DEF ReadBody, EndStream, Disconnect, Answer, TypeInv, TypeOK
    <2>4. ForwardsLast(r)'
      BY <2>1, <2>3, SentUnchanged DEF WalkInv, Answered, ForwardsLast, Gateway
    <2> QED  BY <2>1, <2>2, <2>4, SentUnchanged DEF WalkInv, Answered, Walking, Over
  <1> QED  BY <1>1, <1>2, <1>3, <1>4, <1>5 DEF StepOf, Proceed

AllWalk == \A r \in Requests : WalkInv(r)

LEMMA WalkInit == Init => AllWalk
PROOF
  <1> SUFFICES ASSUME Init, NEW r \in Requests PROVE WalkInv(r)
    BY DEF AllWalk
  <1>1. Len(sent[r]) = 0 /\ sent[r] = <<>>
    BY EmptySeq DEF Init
  <1> QED  BY <1>1 DEF Init, WalkInv, Visited, Links, AttemptsAreBounded, Walking, Answered,
                       ForwardsLast, NoAnswer, Gateway

LEMMA WalkNext == TypeInv /\ TypeInv' /\ AllWalk /\ [Next]_vars => AllWalk'
PROOF
  <1> SUFFICES ASSUME TypeInv, TypeInv', AllWalk, [Next]_vars, NEW q \in Requests
               PROVE  WalkInv(q)'
    BY DEF AllWalk
  <1>1. CASE Swap \/ UNCHANGED vars
    <2>1. StateOf(q)' = StateOf(q)
      BY <1>1 DEF Swap, vars, StateOf
    <2> QED  BY <2>1, WalkLeft DEF AllWalk
  <1>2. ASSUME NEW r \in Requests, StepOf(r) PROVE WalkInv(q)'
    <2>1. CASE q = r
      BY <1>2, <2>1, WalkStep DEF AllWalk
    <2>2. CASE q # r
      <3>1. StateOf(q)' = StateOf(q)
        BY <1>2, <2>2, OthersAreLeft DEF TypeInv
      <3> QED  BY <3>1, WalkLeft DEF AllWalk
    <2> QED  BY <2>1, <2>2
  <1> QED  BY <1>1, <1>2 DEF Next, StepOf

(* The providers a request contacts are a walk of the chain it resolved,   *)
(* however long, whichever statuses come back and whatever is swapped in:  *)
(* max_attempts bounds each of them, the same one again only after a rate  *)
(* limit, a later one only after a failure or after as many rate limits,   *)
(* with nothing but unusable hops left out (proxy/router.rs:556-719).      *)
THEOREM ChainWalked == Spec => []ChainIsWalkedInOrder
PROOF
  <1>1. AllWalk => ChainIsWalkedInOrder
    <2> SUFFICES ASSUME AllWalk, NEW r \in Requests
                 PROVE  /\ AttemptsAreBounded(r)
                        /\ \A i \in 1 .. Len(sent[r]) - 1 : Link(r, sent[r][i], sent[r][i + 1])
      BY DEF ChainIsWalkedInOrder, Link, Leaves, Reaches
    <2> QED  BY DEF AllWalk, WalkInv, Links
  <1> QED  BY <1>1, TypeInit, TypeNext, WalkInit, WalkNext, PTL DEF Spec

(* The answer is always the last word of the walk: a provider's that left  *)
(* nothing better to try, or the gateway's after everything was tried      *)
(* (proxy/router.rs:599-719).                                              *)
THEOREM LastAnswerForwarded == Spec => []ForwardsOnlyLastAnswer
PROOF
  <1>1. AllWalk => ForwardsOnlyLastAnswer
    BY DEF AllWalk, WalkInv, Answered, ForwardsLast, ForwardsOnlyLastAnswer
  <1> QED  BY <1>1, TypeInit, TypeNext, WalkInit, WalkNext, PTL DEF Spec

-----------------------------------------------------------------------------
(* A set that holds 0, and n + 1 with n, holds every number.               *)
LEMMA SetOfAllNumbers ==
  ASSUME NEW L, 0 \in L, \A n \in Nat : n \in L => n + 1 \in L
  PROVE  Nat \subseteq L
PROOF
  <1> DEFINE less == {ss \in Nat \X Nat : ss[1] < ss[2]}
             bad == {n \in Nat : n \notin L}
  <1> SUFFICES ASSUME bad # {} PROVE FALSE
    OBVIOUS
  <1>1. IsWellFoundedOn(less, Nat)
    BY NatLessThanWellFounded DEF OpToRel
  <1>2. bad \subseteq Nat
    OBVIOUS
  <1> HIDE DEF less
  <1>3. PICK n \in bad : \A m \in bad : <<m, n>> \notin less
    <2> HIDE DEF bad
    <2> QED  BY <1>1, <1>2, WFMin
  <1>4. n \in Nat /\ n # 0 /\ n - 1 \in Nat
    BY <1>3
  <1>5. <<n - 1, n>> \in less
    BY <1>4 DEF less
  <1> QED  BY <1>3, <1>4, <1>5

(* Reading a stream.  What waits for its newline of the first n bytes      *)
(* starts at s; a line starts at s and has its newline at i.               *)
Waits(bytes, s, n) ==
  /\ s \in 1 .. n + 1
  /\ s = 1 \/ bytes[s - 1] = Newline
  /\ \A k \in s .. n : bytes[k] # Newline
Ends(bytes, s, i) == bytes[i] = Newline /\ Waits(bytes, s, i - 1)
Said(protocol, bytes, s, i, c) == ParseLine(protocol, SubSeq(bytes, s, i - 1))[c]

(* No line with its newline in from .. to says anything of c.              *)
Silent(protocol, bytes, from, to, c) ==
  \A i \in from .. to, s \in 1 .. to :
    Ends(bytes, s, i) => Said(protocol, bytes, s, i, c) = None

(* The usage is what the lines within the first n bytes said last.         *)
Heard(protocol, bytes, n, usage) ==
  \A c \in Counts :
    \/ usage[c] = None /\ Silent(protocol, bytes, 1, n, c)
    \/ \E i \in 1 .. n, s \in 1 .. n :
         /\ Ends(bytes, s, i)
         /\ usage[c] = Said(protocol, bytes, s, i, c) /\ usage[c] # None
         /\ Silent(protocol, bytes, i + 1, n, c)

LEMMA WaitsOnce ==
  ASSUME NEW bytes, NEW n \in Nat, NEW s, NEW t, Waits(bytes, s, n), Waits(bytes, t, n)
  PROVE  s = t
PROOF
  <1>1. s \in 1 .. n + 1 /\ t \in 1 .. n + 1
    BY DEF Waits
  <1>2. CASE s < t
    <2>1. t - 1 \in s .. n /\ bytes[t - 1] = Newline
      BY <1>1, <1>2 DEF Waits
    <2> QED  BY <2>1 DEF Waits
  <1>3. CASE t < s
    <2>1. s - 1 \in t .. n /\ bytes[s - 1] = Newline
      BY <1>1, <1>3 DEF Waits
    <2> QED  BY <2>1 DEF Waits
  <1> QED  BY <1>1, <1>2, <1>3

LEMMA SomethingWaits ==
  ASSUME NEW bytes
  PROVE  \A n \in Nat : \E s \in 1 .. n + 1 : Waits(bytes, s, n)
PROOF
  <1> DEFINE L == {n \in Nat : \E s \in 1 .. n + 1 : Waits(bytes, s, n)}
  <1>1. 0 \in L
    <2>1. Waits(bytes, 1, 0)
      BY DEF Waits
    <2> QED  BY <2>1
  <1>2. ASSUME NEW n \in Nat, n \in L PROVE n + 1 \in L
    <2>1. PICK s \in 1 .. n + 1 : Waits(bytes, s, n)
      BY <1>2
    <2>2. CASE bytes[n + 1] = Newline
      <3>1. Waits(bytes, n + 2, n + 1)
        BY <2>2 DEF Waits
      <3> QED  BY <3>1
    <2>3. CASE bytes[n + 1] # Newline
      <3>1. Waits(bytes, s, n + 1)
        BY <2>1, <2>3 DEF Waits
      <3> QED  BY <3>1
    <2> QED  BY <2>2, <2>3
  <1> HIDE DEF L
  <1>3. Nat \subseteq L
    BY <1>1, <1>2, SetOfAllNumbers
  <1> QED  BY <1>3 DEF L

(* A line is what the code drains; what it leaves is what waits.           *)
LEMMA LineIsDrained ==
  ASSUME NEW bytes \in Seq(Bytes), NEW i \in 1 .. Len(bytes) + 1, NEW s, Waits(bytes, s, i - 1)
  PROVE  Max({0} \cup {j \in Newlines(bytes) : j < i}) = s - 1
PROOF
  <1> DEFINE N == {0} \cup {j \in Newlines(bytes) : j < i}
  <1>1. s \in 1 .. i /\ DOMAIN bytes = 1 .. Len(bytes) /\ Len(bytes) \in Nat
    BY LenProperties DEF Waits
  <1>2. s - 1 \in N
    BY <1>1 DEF Waits, Newlines
  <1>3. ASSUME NEW j \in N PROVE j \in Int /\ s - 1 >= j
    BY <1>1 DEF Waits, Newlines
  <1> HIDE DEF N
  <1>4. Max(N) \in N /\ \A j \in N : Max(N) >= j
    BY <1>2, <1>3 DEF Max
  <1>5. Max(N) = s - 1
    BY <1>1, <1>2, <1>3, <1>4
  <1> QED  BY <1>5 DEF N

LEMMA LineIsBefore ==
  ASSUME NEW bytes \in Seq(Bytes), NEW i \in 1 .. Len(bytes), NEW s, Waits(bytes, s, i - 1)
  PROVE  LineBefore(bytes, i) = SubSeq(bytes, s, i - 1)
PROOF
  <1>1. s \in 1 .. i /\ Len(bytes) \in Nat
    BY LenProperties DEF Waits
  <1>2. Max({0} \cup {j \in Newlines(bytes) : j < i}) = s - 1
    BY <1>1, LineIsDrained
  <1>3. LineBefore(bytes, i) = SubSeq(bytes, (s - 1) + 1, i - 1)
    BY ONLY <1>2 DEF LineBefore
  <1>4. (s - 1) + 1 = s
    BY <1>1
  <1> QED  BY ONLY <1>3, <1>4

LEMMA RestWaits ==
  ASSUME NEW bytes \in Seq(Bytes), NEW s, Waits(bytes, s, Len(bytes))
  PROVE  AfterLastLine(bytes) = SubSeq(bytes, s, Len(bytes))
PROOF
  <1> DEFINE n == Len(bytes) + 1
  <1>1. Len(bytes) \in Nat /\ DOMAIN bytes = 1 .. Len(bytes) /\ s \in 1 .. n
    BY LenProperties DEF Waits
  <1>2. Max({0} \cup {j \in Newlines(bytes) : j < n}) = s - 1
    <2>1. n \in 1 .. Len(bytes) + 1 /\ n - 1 = Len(bytes)
      BY <1>1
    <2> QED  BY <2>1, LineIsDrained
  <1>3. {j \in Newlines(bytes) : j < n} = Newlines(bytes)
    BY <1>1 DEF Newlines
  <1>4. AfterLastLine(bytes) = SubSeq(bytes, (s - 1) + 1, Len(bytes))
    BY ONLY <1>2, <1>3 DEF AfterLastLine
  <1>5. (s - 1) + 1 = s
    BY <1>1
  <1> QED  BY ONLY <1>4, <1>5

LEMMA SubSeqShift ==
  ASSUME NEW bytes \in Seq(Bytes), NEW a \in 1 .. Len(bytes) + 1, NEW m \in a - 1 .. Len(bytes),
         NEW s \in 1 .. m - a + 2, NEW i \in s - 1 .. m - a + 1
  PROVE  SubSeq(SubSeq(bytes, a, m), s, i) = SubSeq(bytes, a + s - 1, a + i - 1)
PROOF
  <1>0. Len(bytes) \in Nat
    BY LenProperties
  <1>1. CASE i = s - 1
    <2>1. SubSeq(SubSeq(bytes, a, m), s, i) = <<>>
      BY <1>0, <1>1, SubSeqEmpty
    <2>2. SubSeq(bytes, a + s - 1, a + i - 1) = <<>>
      BY <1>0, <1>1, SubSeqEmpty
    <2> QED  BY <2>1, <2>2
  <1>2. CASE i >= s
    <2>1. /\ a \in 1 .. Len(bytes) /\ m \in 1 .. Len(bytes)
          /\ s \in 1 .. m - a + 1 /\ i \in 1 .. m - a + 1
      BY <1>0, <1>2
    <2> QED  BY <2>1, SubSeqOfSubSeq
  <1> QED  BY <1>0, <1>1, <1>2


-----------------------------------------------------------------------------
Observers == [buffer : Seq(Bytes), usage : TokenUsage, seen : BOOLEAN]

LEMMA ParsedUsage ==
  ASSUME NEW protocol, NEW e \in Events, NEW where
  PROVE  ParseAt(protocol, e, where) \in TokenUsage
PROOF
  <1>1. NoTokens \in TokenUsage
    BY DEF NoTokens, TokenUsage, None
  <1>2. ASSUME where \in DOMAIN Payload[e]
        PROVE  /\ ParseOpenAi(Payload[e][where]) \in TokenUsage
               /\ ParseAnthropic(Payload[e][where]) \in TokenUsage
    <2> DEFINE object == Payload[e][where]
    <2>1. \A key : Number(object, key) \in Int
      BY <1>2, PayloadAssumption DEF Number, None
    <2> HIDE DEF object
    <2>2. ParseOpenAi(object) \in TokenUsage /\ ParseAnthropic(object) \in TokenUsage
      BY <1>1, <2>1 DEF ParseOpenAi, ParseAnthropic, TokenUsage
    <2> QED  BY <2>2 DEF object
  <1> QED  BY <1>1, <1>2 DEF ParseAt

LEMMA LineUsage ==
  ASSUME NEW protocol, NEW line
  PROVE  ParseLine(protocol, line) \in TokenUsage
PROOF
  <1>1. NoTokens \in TokenUsage
    BY DEF NoTokens, TokenUsage, None
  <1>2. \A e \in Events : ParseEvent(protocol, e) \in TokenUsage
    BY ParsedUsage DEF ParseEvent
  <1> QED  BY <1>1, <1>2 DEF ParseLine

LEMMA NothingOnEmptyLine ==
  ASSUME NEW protocol, NEW c \in Counts
  PROVE  ParseLine(protocol, <<>>)[c] = None
PROOF
  <1>1. \A e \in Events : Line(e) # <<>>
    <2> SUFFICES ASSUME NEW e \in Events PROVE Line(e) # <<>>
      OBVIOUS
    <2>1. 1 \in DOMAIN Line(e)
      BY DEF Line, Pieces
    <2> QED  BY <2>1
  <1> QED  BY <1>1 DEF ParseLine, NoTokens

(* What a line says replaces what was said before it.                      *)
LEMMA LineIsMerged ==
  ASSUME NEW protocol, NEW o \in Observers, NEW line
  PROVE  /\ ConsumeLine(protocol, o, line) \in Observers
         /\ ConsumeLine(protocol, o, line).buffer = o.buffer
         /\ \A c \in Counts :
              ConsumeLine(protocol, o, line).usage[c] =
                IF ParseLine(protocol, line)[c] # None THEN ParseLine(protocol, line)[c]
                ELSE o.usage[c]
PROOF
  <1> DEFINE parsed == ParseLine(protocol, line)
             merged == MergeFrom(o.usage, parsed)
  <1>1. parsed \in TokenUsage /\ o.usage \in TokenUsage
    BY LineUsage DEF Observers
  <1>2. ConsumeLine(protocol, o, line) =
          IF ~HasTokens(parsed) THEN o ELSE [o EXCEPT !.usage = merged, !.seen = TRUE]
    BY DEF ConsumeLine
  <1> HIDE DEF parsed
  <1>3. /\ merged \in TokenUsage
        /\ \A c \in Counts : merged[c] = IF parsed[c] # None THEN parsed[c] ELSE o.usage[c]
    BY <1>1 DEF MergeFrom, TokenUsage
  <1> HIDE DEF merged
  <1>4. CASE ~HasTokens(parsed)
    <2>1. \A c \in Counts : parsed[c] = None
      BY <1>4 DEF HasTokens
    <2> QED  BY <1>2, <1>4, <2>1 DEF parsed
  <1>5. CASE HasTokens(parsed)
    <2>1. ConsumeLine(protocol, o, line) = [o EXCEPT !.usage = merged, !.seen = TRUE]
      BY <1>2, <1>5
    <2>2. /\ [o EXCEPT !.usage = merged, !.seen = TRUE] \in Observers
          /\ [o EXCEPT !.usage = merged, !.seen = TRUE].usage = merged
          /\ [o EXCEPT !.usage = merged, !.seen = TRUE].buffer = o.buffer
      BY <1>3 DEF Observers
    <2> QED  BY <1>3, <2>1, <2>2 DEF parsed
  <1> QED  BY <1>4, <1>5

(* One more byte that is no newline says nothing, and neither does what    *)
(* still waits for its newline.                                            *)
LEMMA HeardOn ==
  ASSUME NEW protocol, NEW bytes, NEW usage, NEW n \in Nat, Heard(protocol, bytes, n, usage),
         bytes[n + 1] # Newline
  PROVE  Heard(protocol, bytes, n + 1, usage)
PROOF
  <1>1. ASSUME NEW c, NEW from \in 1 .. n + 1, Silent(protocol, bytes, from, n, c)
        PROVE  Silent(protocol, bytes, from, n + 1, c)
    <2> SUFFICES ASSUME NEW i \in from .. n + 1, NEW s \in 1 .. n + 1, Ends(bytes, s, i)
                 PROVE  Said(protocol, bytes, s, i, c) = None
      BY DEF Silent
    <2>1. i \in from .. n /\ s \in 1 .. n
      BY DEF Ends, Waits
    <2> QED  BY <1>1, <2>1 DEF Silent
  <1> SUFFICES ASSUME NEW c \in Counts
               PROVE  \/ usage[c] = None /\ Silent(protocol, bytes, 1, n + 1, c)
                      \/ \E i \in 1 .. n + 1, s \in 1 .. n + 1 :
                           /\ Ends(bytes, s, i)
                           /\ usage[c] = Said(protocol, bytes, s, i, c) /\ usage[c] # None
                           /\ Silent(protocol, bytes, i + 1, n + 1, c)
    BY DEF Heard
  <1>2. CASE usage[c] = None /\ Silent(protocol, bytes, 1, n, c)
    BY <1>1, <1>2
  <1>3. CASE \E i \in 1 .. n, s \in 1 .. n :
               /\ Ends(bytes, s, i)
               /\ usage[c] = Said(protocol, bytes, s, i, c) /\ usage[c] # None
               /\ Silent(protocol, bytes, i + 1, n, c)
    <2>1. PICK i \in 1 .. n, s \in 1 .. n :
               /\ Ends(bytes, s, i)
               /\ usage[c] = Said(protocol, bytes, s, i, c) /\ usage[c] # None
               /\ Silent(protocol, bytes, i + 1, n, c)
      BY <1>3
    <2>2. Silent(protocol, bytes, i + 1, n + 1, c)
      BY <1>1, <2>1
    <2>3. i \in 1 .. n + 1 /\ s \in 1 .. n + 1
      OBVIOUS
    <2> QED  BY <2>1, <2>2, <2>3
  <1> QED  BY <1>2, <1>3 DEF Heard

LEMMA HeardBefore ==
  ASSUME NEW protocol, NEW bytes, NEW usage, NEW n \in Nat, Heard(protocol, bytes, n, usage),
         NEW a, Waits(bytes, a, n)
  PROVE  Heard(protocol, bytes, a - 1, usage)
PROOF
  <1>0. a \in 1 .. n + 1
    BY DEF Waits
  <1>1. ASSUME NEW c, NEW from \in Nat, Silent(protocol, bytes, from, n, c)
        PROVE  Silent(protocol, bytes, from, a - 1, c)
    <2> SUFFICES ASSUME NEW i \in from .. a - 1, NEW s \in 1 .. a - 1, Ends(bytes, s, i)
                 PROVE  Said(protocol, bytes, s, i, c) = None
      BY DEF Silent
    <2>1. i \in from .. n /\ s \in 1 .. n
      BY <1>0
    <2> QED  BY <1>1, <2>1 DEF Silent
  <1> SUFFICES ASSUME NEW c \in Counts
               PROVE  \/ usage[c] = None /\ Silent(protocol, bytes, 1, a - 1, c)
                      \/ \E i \in 1 .. a - 1, s \in 1 .. a - 1 :
                           /\ Ends(bytes, s, i)
                           /\ usage[c] = Said(protocol, bytes, s, i, c) /\ usage[c] # None
                           /\ Silent(protocol, bytes, i + 1, a - 1, c)
    BY DEF Heard
  <1>2. CASE usage[c] = None /\ Silent(protocol, bytes, 1, n, c)
    BY <1>1, <1>2
  <1>3. CASE \E i \in 1 .. n, s \in 1 .. n :
               /\ Ends(bytes, s, i)
               /\ usage[c] = Said(protocol, bytes, s, i, c) /\ usage[c] # None
               /\ Silent(protocol, bytes, i + 1, n, c)
    <2>1. PICK i \in 1 .. n, s \in 1 .. n :
               /\ Ends(bytes, s, i)
               /\ usage[c] = Said(protocol, bytes, s, i, c) /\ usage[c] # None
               /\ Silent(protocol, bytes, i + 1, n, c)
      BY <1>3
    <2>2. Silent(protocol, bytes, i + 1, a - 1, c)
      BY <1>1, <2>1
    <2>3. i \in 1 .. a - 1 /\ s \in 1 .. a - 1
      <3>1. i \notin a .. n /\ s \in 1 .. i
        BY <2>1 DEF Ends, Waits
      <3> QED  BY <1>0, <3>1
    <2> QED  BY <2>1, <2>2, <2>3
  <1> QED  BY <1>2, <1>3 DEF Heard

(* A newline makes the line before it heard.                               *)
LEMMA HeardLine ==
  ASSUME NEW protocol, NEW bytes, NEW n \in Nat, NEW o \in Observers,
         Heard(protocol, bytes, n, o.usage), NEW s, Ends(bytes, s, n + 1)
  PROVE  Heard(protocol, bytes, n + 1, ConsumeLine(protocol, o, SubSeq(bytes, s, n)).usage)
PROOF
  <1> DEFINE line == SubSeq(bytes, s, n)
             usage == ConsumeLine(protocol, o, line).usage
  <1>0. s \in 1 .. n + 1 /\ Waits(bytes, s, n)
    BY DEF Ends, Waits
  <1>1. \A c \in Counts : usage[c] = IF Said(protocol, bytes, s, n + 1, c) # None
                                       THEN Said(protocol, bytes, s, n + 1, c) ELSE o.usage[c]
    BY LineIsMerged DEF Said
  <1> HIDE DEF usage
  <1> SUFFICES ASSUME NEW c \in Counts
               PROVE  \/ usage[c] = None /\ Silent(protocol, bytes, 1, n + 1, c)
                      \/ \E i \in 1 .. n + 1, t \in 1 .. n + 1 :
                           /\ Ends(bytes, t, i)
                           /\ usage[c] = Said(protocol, bytes, t, i, c) /\ usage[c] # None
                           /\ Silent(protocol, bytes, i + 1, n + 1, c)
    BY DEF Heard, usage
  <1>2. CASE Said(protocol, bytes, s, n + 1, c) # None
    <2>1. n + 1 \in 1 .. n + 1 /\ s \in 1 .. n + 1
      BY <1>0
    <2>2. Silent(protocol, bytes, (n + 1) + 1, n + 1, c)
      BY DEF Silent
    <2>3. usage[c] = Said(protocol, bytes, s, n + 1, c)
      BY <1>1, <1>2
    <2> QED  BY <1>2, <2>1, <2>2, <2>3
  <1>3. CASE Said(protocol, bytes, s, n + 1, c) = None
    <2>1. usage[c] = o.usage[c]
      BY <1>1, <1>3
    <2>2. ASSUME NEW from \in 1 .. n + 1, Silent(protocol, bytes, from, n, c)
          PROVE  Silent(protocol, bytes, from, n + 1, c)
      <3> SUFFICES ASSUME NEW i \in from .. n + 1, NEW t \in 1 .. n + 1, Ends(bytes, t, i)
                   PROVE  Said(protocol, bytes, t, i, c) = None
        BY DEF Silent
      <3>1. CASE i = n + 1
        <4>1. Waits(bytes, t, n)
          BY <3>1 DEF Ends
        <4>2. t = s
          BY <1>0, <4>1, WaitsOnce
        <4> QED  BY <1>3, <3>1, <4>2
      <3>2. CASE i # n + 1
        <4>1. i \in from .. n /\ t \in 1 .. n
          BY <3>2 DEF Ends, Waits
        <4> QED  BY <2>2, <4>1 DEF Silent
      <3> QED  BY <3>1, <3>2
    <2>3. CASE o.usage[c] = None /\ Silent(protocol, bytes, 1, n, c)
      BY <2>1, <2>2, <2>3
    <2>4. CASE \E i \in 1 .. n, t \in 1 .. n :
                 /\ Ends(bytes, t, i)
                 /\ o.usage[c] = Said(protocol, bytes, t, i, c) /\ o.usage[c] # None
                 /\ Silent(protocol, bytes, i + 1, n, c)
      <3>1. PICK i \in 1 .. n, t \in 1 .. n :
                 /\ Ends(bytes, t, i)
                 /\ o.usage[c] = Said(protocol, bytes, t, i, c) /\ o.usage[c] # None
                 /\ Silent(protocol, bytes, i + 1, n, c)
        BY <2>4
      <3>2. Silent(protocol, bytes, i + 1, n + 1, c)
        BY <2>2, <3>1
      <3>3. i \in 1 .. n + 1 /\ t \in 1 .. n + 1
        OBVIOUS
      <3> QED  BY <2>1, <3>1, <3>2, <3>3
    <2> QED  BY <2>3, <2>4 DEF Heard
  <1> QED  BY <1>2, <1>3


(* The observer after the first n bytes of a stream: what they said, and   *)
(* the bytes since their last newline.                                     *)
Watched(protocol, bytes, n, o) ==
  /\ o \in Observers
  /\ Heard(protocol, bytes, n, o.usage)
  /\ \E a \in 1 .. n + 1 : Waits(bytes, a, n) /\ o.buffer = SubSeq(bytes, a, n)

(* The part of a stream that begins where a line begins.                   *)
LEMMA PartOfStream ==
  ASSUME NEW bytes \in Seq(Bytes), NEW a \in 1 .. Len(bytes) + 1, NEW m \in a - 1 .. Len(bytes),
         a = 1 \/ bytes[a - 1] = Newline, NEW i \in 0 .. m - a + 1, NEW s,
         Waits(SubSeq(bytes, a, m), s, i)
  PROVE  Waits(bytes, a + s - 1, a + i - 1)
PROOF
  <1>0. Len(bytes) \in Nat /\ s \in 1 .. i + 1
    BY LenProperties DEF Waits
  <1>1. \A k \in 1 .. m - a + 1 : SubSeq(bytes, a, m)[k] = bytes[a + k - 1]
    BY <1>0
  <1>2. a + s - 1 \in 1 .. (a + i - 1) + 1
    BY <1>0
  <1>3. a + s - 1 = 1 \/ bytes[(a + s - 1) - 1] = Newline
    <2>1. CASE s = 1
      BY <1>0, <2>1
    <2>2. CASE s # 1
      <3>1. s - 1 \in 1 .. m - a + 1 /\ SubSeq(bytes, a, m)[s - 1] = Newline
        BY <1>0, <2>2 DEF Waits
      <3>2. bytes[a + (s - 1) - 1] = Newline
        BY <1>1, <3>1
      <3>3. a + (s - 1) - 1 = (a + s - 1) - 1
        BY <1>0
      <3> QED  BY <3>2, <3>3
    <2> QED  BY <2>1, <2>2
  <1>4. ASSUME NEW k \in a + s - 1 .. a + i - 1 PROVE bytes[k] # Newline
    <2>1. k - a + 1 \in s .. i /\ k - a + 1 \in 1 .. m - a + 1 /\ a + (k - a + 1) - 1 = k
      BY <1>0
    <2>2. SubSeq(bytes, a, m)[k - a + 1] # Newline
      BY <2>1 DEF Waits
    <2> QED  BY <1>1, <2>1, <2>2
  <1> QED  BY <1>2, <1>3, <1>4 DEF Waits

(* One iteration of the loop of feed: byte i of the part from a is looked  *)
(* at, and the line that it ends consumed.                                 *)
Looked(protocol, o, bytes, i) ==
  IF bytes[i] = Newline THEN ConsumeLine(protocol, o, LineBefore(bytes, i)) ELSE o

LEMMA LookHears ==
  ASSUME NEW protocol, NEW bytes \in Seq(Bytes), NEW a \in 1 .. Len(bytes) + 1,
         NEW m \in a - 1 .. Len(bytes), a = 1 \/ bytes[a - 1] = Newline,
         NEW i \in 0 .. m - a, NEW o \in Observers, Heard(protocol, bytes, a + i - 1, o.usage)
  PROVE  /\ Looked(protocol, o, SubSeq(bytes, a, m), i + 1) \in Observers
         /\ Heard(protocol, bytes, a + i, Looked(protocol, o, SubSeq(bytes, a, m), i + 1).usage)
PROOF
  <1> DEFINE part == SubSeq(bytes, a, m)
  <1>0. /\ Len(bytes) \in Nat /\ part \in Seq(Bytes) /\ Len(part) = m - a + 1
        /\ part[i + 1] = bytes[a + i] /\ a + i - 1 \in Nat /\ (a + i - 1) + 1 = a + i
    <2>1. Len(bytes) \in Nat /\ a \in Int /\ m \in Int /\ a \in Nat
      BY LenProperties
    <2>2. \A k \in a .. m : bytes[k] \in Bytes
      BY <2>1
    <2>3. /\ part \in Seq(Bytes) /\ Len(part) = IF a <= m THEN m - a + 1 ELSE 0
          /\ \A k \in 1 .. m - a + 1 : part[k] = bytes[a + k - 1]
      BY <2>1, <2>2, SubSeqProperties, SMTT(30)
    <2>4. i + 1 \in 1 .. m - a + 1 /\ a + (i + 1) - 1 = a + i
      BY <2>1
    <2>5. part[i + 1] = bytes[a + (i + 1) - 1]
      BY <2>3, <2>4
    <2> QED  BY <2>1, <2>3, <2>4, <2>5
  <1>1. CASE bytes[a + i] # Newline
    <2>1. Looked(protocol, o, part, i + 1) = o
      BY <1>0, <1>1 DEF Looked
    <2>2. Heard(protocol, bytes, (a + i - 1) + 1, o.usage)
      BY <1>0, <1>1, HeardOn
    <2> QED  BY <1>0, <2>1, <2>2
  <1>2. CASE bytes[a + i] = Newline
    <2>1. PICK s \in 1 .. i + 1 : Waits(part, s, i)
      <3>1. i \in Nat
        BY <1>0
      <3> QED  BY <3>1, SomethingWaits
    <2>2. LineBefore(part, i + 1) = SubSeq(part, s, i)
      <3>1. i + 1 \in 1 .. Len(part) /\ (i + 1) - 1 = i
        BY <1>0
      <3>2. LineBefore(part, i + 1) = SubSeq(part, s, (i + 1) - 1)
        BY <1>0, <2>1, <3>1, LineIsBefore
      <3> QED  BY <3>1, <3>2
    <2>3. SubSeq(part, s, i) = SubSeq(bytes, a + s - 1, a + i - 1)
      <3>1. s \in 1 .. m - a + 2 /\ i \in s - 1 .. m - a + 1
        BY <1>0
      <3> QED  BY <3>1, SubSeqShift
    <2>4. Waits(bytes, a + s - 1, a + i - 1)
      <3>1. i \in 0 .. m - a + 1
        BY <1>0
      <3> QED  BY <2>1, <3>1, PartOfStream
    <2>5. Ends(bytes, a + s - 1, (a + i - 1) + 1)
      <3>1. ((a + i - 1) + 1) - 1 = a + i - 1
        BY <1>0
      <3> QED  BY <1>0, <1>2, <2>4, <3>1 DEF Ends
    <2> DEFINE line == SubSeq(bytes, a + s - 1, a + i - 1)
    <2>6. Looked(protocol, o, part, i + 1) = ConsumeLine(protocol, o, line)
      BY <1>0, <1>2, <2>2, <2>3 DEF Looked
    <2>7. Heard(protocol, bytes, (a + i - 1) + 1, ConsumeLine(protocol, o, line).usage)
      BY <1>0, <2>5, HeardLine
    <2>8. ConsumeLine(protocol, o, line) \in Observers
      BY LineIsMerged
    <2> QED  BY <1>0, <2>6, <2>7, <2>8
  <1> QED  BY <1>1, <1>2

(* The loop computes: the recursive function it is modelled by exists.     *)
IsLoop(after, protocol, o, bytes, n) ==
  after = [k \in 0 .. n |-> IF k = 0 THEN o
             ELSE IF bytes[k] = Newline
               THEN ConsumeLine(protocol, after[k - 1], LineBefore(bytes, k))
               ELSE after[k - 1]]

LEMMA LoopComputes ==
  ASSUME NEW protocol, NEW o, NEW bytes
  PROVE  \A n \in Nat : \E after : IsLoop(after, protocol, o, bytes, n)
PROOF
  <1> DEFINE L == {n \in Nat : \E after : IsLoop(after, protocol, o, bytes, n)}
  <1>1. 0 \in L
    <2>1. IsLoop([k \in 0 .. 0 |-> o], protocol, o, bytes, 0)
      BY DEF IsLoop
    <2> QED  BY <2>1
  <1>2. ASSUME NEW n \in Nat, n \in L PROVE n + 1 \in L
    <2>1. PICK before : IsLoop(before, protocol, o, bytes, n)
      BY <1>2
    <2> DEFINE last == Looked(protocol, before[n], bytes, n + 1)
               after == [k \in 0 .. n + 1 |-> IF k = n + 1 THEN last ELSE before[k]]
    <2>2. IsLoop(after, protocol, o, bytes, n + 1)
      <3>1. ASSUME NEW k \in 0 .. n + 1
            PROVE  after[k] = IF k = 0 THEN o
                              ELSE IF bytes[k] = Newline
                                THEN ConsumeLine(protocol, after[k - 1], LineBefore(bytes, k))
                                ELSE after[k - 1]
        <4>1. CASE k = n + 1
          <5>1. after[k] = last /\ after[k - 1] = before[n] /\ k # 0
            BY <4>1
          <5> HIDE DEF after
          <5> QED  BY <4>1, <5>1 DEF Looked
        <4>2. CASE k # n + 1
          <5>1. k \in 0 .. n /\ after[k] = before[k] /\ (k # 0 => after[k - 1] = before[k - 1])
            BY <4>2
          <5>2. before[k] = IF k = 0 THEN o
                            ELSE IF bytes[k] = Newline
                              THEN ConsumeLine(protocol, before[k - 1], LineBefore(bytes, k))
                              ELSE before[k - 1]
            BY <2>1, <5>1 DEF IsLoop
          <5> HIDE DEF after
          <5> QED  BY <5>1, <5>2
        <4> QED  BY <4>1, <4>2
      <3>2. after = [k \in 0 .. n + 1 |-> after[k]]
        OBVIOUS
      <3> HIDE DEF after
      <3> QED  BY <3>1, <3>2 DEF IsLoop
    <2> QED  BY <2>2
  <1> HIDE DEF L
  <1>3. Nat \subseteq L
    BY <1>1, <1>2, SetOfAllNumbers
  <1> QED  BY <1>3 DEF L

LEMMA LoopHears ==
  ASSUME NEW protocol, NEW bytes \in Seq(Bytes), NEW a \in 1 .. Len(bytes) + 1,
         NEW m \in a - 1 .. Len(bytes), a = 1 \/ bytes[a - 1] = Newline,
         NEW o \in Observers, Heard(protocol, bytes, a - 1, o.usage)
  PROVE  /\ ConsumeLines(protocol, o, SubSeq(bytes, a, m)) \in Observers
         /\ Heard(protocol, bytes, m, ConsumeLines(protocol, o, SubSeq(bytes, a, m)).usage)
PROOF
  <1> DEFINE part == SubSeq(bytes, a, m)
  <1>0. /\ a \in Nat /\ m \in Int /\ Len(bytes) \in Nat
        /\ Len(part) = m - a + 1 /\ m - a + 1 \in Nat
    BY LenProperties
  <1> DEFINE n == m - a + 1
             after == CHOOSE f : IsLoop(f, protocol, o, part, n)
  <1>1. IsLoop(after, protocol, o, part, n)
    BY <1>0, LoopComputes
  <1>2. ConsumeLines(protocol, o, part) = after[n]
    <2>1. Len(part) = n
      BY <1>0
    <2> HIDE DEF part, n
    <2> QED  BY <2>1 DEF ConsumeLines, IsLoop
  <1> HIDE DEF after
  <1> DEFINE Good(k) == after[k] \in Observers /\ Heard(protocol, bytes, a + k - 1, after[k].usage)
             L == {k \in Nat : k <= n => Good(k)}
  <1>3. 0 \in L
    <2>1. after[0] = o
      BY <1>0, <1>1 DEF IsLoop
    <2>2. a + 0 - 1 = a - 1
      BY <1>0
    <2> QED  BY <2>1, <2>2
  <1>4. ASSUME NEW k \in Nat, k \in L PROVE k + 1 \in L
    <2> SUFFICES ASSUME k + 1 <= n PROVE Good(k + 1)
      OBVIOUS
    <2>1. k \in 0 .. m - a /\ k <= n /\ a + k = a + (k + 1) - 1
      BY <1>0
    <2>2. Good(k)
      BY <1>4, <2>1
    <2>3. after[k + 1] = Looked(protocol, after[k], part, k + 1)
      <3>1. k + 1 \in 0 .. n /\ k + 1 # 0 /\ (k + 1) - 1 = k
        BY <1>0, <2>1
      <3> HIDE DEF part, n
      <3> QED  BY <1>1, <3>1 DEF IsLoop, Looked
    <2>4. /\ Looked(protocol, after[k], part, k + 1) \in Observers
          /\ Heard(protocol, bytes, a + k, Looked(protocol, after[k], part, k + 1).usage)
      BY <2>1, <2>2, LookHears
    <2> QED  BY <2>1, <2>3, <2>4
  <1> HIDE DEF L
  <1>5. Nat \subseteq L
    BY <1>3, <1>4, SetOfAllNumbers
  <1>6. Good(n)
    BY <1>0, <1>5 DEF L
  <1>7. a + n - 1 = m
    BY <1>0
  <1> QED  BY <1>2, <1>6, <1>7


(* However the stream is cut, feeding leaves the observer as if it had     *)
(* been fed all of the stream so far at once.                              *)
LEMMA FeedWatches ==
  ASSUME NEW protocol, NEW bytes \in Seq(Bytes), NEW n \in 0 .. Len(bytes),
         NEW m \in n .. Len(bytes), NEW o, Watched(protocol, bytes, n, o)
  PROVE  Watched(protocol, bytes, m, Feed(protocol, o, SubSeq(bytes, n + 1, m)))
PROOF
  <1>1. PICK a \in 1 .. n + 1 : Waits(bytes, a, n) /\ o.buffer = SubSeq(bytes, a, n)
    BY DEF Watched
  <1> DEFINE part == SubSeq(bytes, a, m)
             fed == ConsumeLines(protocol, o, part)
  <1>2. /\ Len(bytes) \in Nat /\ n \in Nat /\ m \in Nat /\ a \in 1 .. Len(bytes) + 1
        /\ m \in a - 1 .. Len(bytes) /\ n \in a - 1 .. Len(bytes) /\ m \in n .. Len(bytes)
    BY LenProperties
  <1>3. o.buffer \o SubSeq(bytes, n + 1, m) = part
    BY <1>1, <1>2, ConcatAdjacentSubSeq
  <1>4. fed \in Observers /\ Heard(protocol, bytes, m, fed.usage)
    <2>1. Heard(protocol, bytes, a - 1, o.usage)
      BY <1>1, <1>2, HeardBefore DEF Watched
    <2>2. a = 1 \/ bytes[a - 1] = Newline
      BY <1>1 DEF Waits
    <2> QED  BY <1>2, <2>1, <2>2, LoopHears DEF Watched
  <1> HIDE DEF fed
  <1>5. /\ part \in Seq(Bytes) /\ Len(part) = m - a + 1 /\ m - a + 1 \in Nat
    <2>1. \A k \in a .. m : bytes[k] \in Bytes
      BY <1>2
    <2>2. part \in Seq(Bytes) /\ Len(part) = IF a <= m THEN m - a + 1 ELSE 0
      BY <1>2, <2>1, SubSeqProperties
    <2> QED  BY <1>2, <2>2
  <1>6. PICK s \in 1 .. (m - a + 1) + 1 : Waits(part, s, m - a + 1)
    BY <1>5, SomethingWaits
  <1>7. AfterLastLine(part) = SubSeq(part, s, m - a + 1)
    BY <1>5, <1>6, RestWaits
  <1>8. SubSeq(part, s, m - a + 1) = SubSeq(bytes, a + s - 1, m)
    <2>1. /\ s \in 1 .. m - a + 2 /\ m - a + 1 \in s - 1 .. m - a + 1
          /\ a + (m - a + 1) - 1 = m
      BY <1>2
    <2>2. SubSeq(part, s, m - a + 1) = SubSeq(bytes, a + s - 1, a + (m - a + 1) - 1)
      BY <1>2, <2>1, SubSeqShift
    <2> QED  BY <2>1, <2>2
  <1>9. Waits(bytes, a + s - 1, m)
    <2>1. m - a + 1 \in 0 .. m - a + 1 /\ a + (m - a + 1) - 1 = m
      BY <1>2
    <2>2. a = 1 \/ bytes[a - 1] = Newline
      BY <1>1 DEF Waits
    <2>3. Waits(bytes, a + s - 1, a + (m - a + 1) - 1)
      BY <1>2, <1>6, <2>1, <2>2, PartOfStream
    <2> QED  BY <2>1, <2>3
  <1>10. Feed(protocol, o, SubSeq(bytes, n + 1, m)) = [fed EXCEPT !.buffer = AfterLastLine(part)]
    BY <1>3 DEF Feed, FeedTo, fed
  <1> DEFINE new == [fed EXCEPT !.buffer = AfterLastLine(part)]
  <1>11. AfterLastLine(part) \in Seq(Bytes)
    <2>1. \A k \in a + s - 1 .. m : bytes[k] \in Bytes
      BY <1>2, <1>6
    <2>2. a + s - 1 \in Int
      BY <1>2, <1>6
    <2> QED  BY <1>2, <1>7, <1>8, <2>1, <2>2, SubSeqProperties, SMTT(30)
  <1>12. new \in Observers /\ new.usage = fed.usage /\ new.buffer = SubSeq(bytes, a + s - 1, m)
    <2>1. new.buffer = AfterLastLine(part)
      BY <1>4 DEF Observers
    <2> QED  BY <1>4, <1>7, <1>8, <1>11, <2>1 DEF Observers
  <1>13. a + s - 1 \in 1 .. m + 1
    BY <1>2, <1>6
  <1> HIDE DEF new
  <1>14. Watched(protocol, bytes, m, new)
    BY <1>4, <1>9, <1>12, <1>13 DEF Watched
  <1> QED  BY <1>10, <1>14 DEF new

LEMMA NewWatches ==
  ASSUME NEW protocol, NEW bytes \in Seq(Bytes)
  PROVE  Watched(protocol, bytes, 0, NewObserver)
PROOF
  <1>1. NewObserver \in Observers
    BY EmptySeq DEF NewObserver, Observers, NoTokens, TokenUsage, None
  <1>2. Heard(protocol, bytes, 0, NewObserver.usage)
    BY DEF Heard, Silent, NewObserver, NoTokens
  <1>3. Waits(bytes, 1, 0) /\ SubSeq(bytes, 1, 0) = <<>>
    BY SubSeqEmpty DEF Waits
  <1> QED  BY <1>1, <1>2, <1>3 DEF Watched, NewObserver

-----------------------------------------------------------------------------
(* What is told in the end.                                                *)

LEMMA LinesWait ==
  ASSUME NEW protocol, NEW bytes \in Seq(Bytes), NEW c
  PROVE  LinesWith(protocol, bytes, c) =
           {l \in (1 .. Len(bytes)) \X (1 .. Len(bytes)) :
              /\ l[1] <= l[2] /\ Waits(bytes, l[1], l[2])
              /\ l[2] = Len(bytes) \/ bytes[l[2] + 1] = Newline
              /\ ParseLine(protocol, SubSeq(bytes, l[1], l[2]))[c] # None}
PROOF
  <1>1. DOMAIN bytes = 1 .. Len(bytes) /\ Len(bytes) \in Nat
    BY LenProperties
  <1>2. ASSUME NEW i \in 1 .. Len(bytes), NEW j \in 1 .. Len(bytes), i <= j
        PROVE  IsLine(bytes, i, j) <=> /\ Waits(bytes, i, j)
                                       /\ j = Len(bytes) \/ bytes[j + 1] = Newline
    <2>1. i \in 1 .. j + 1
      BY <1>1, <1>2
    <2> QED  BY <2>1 DEF IsLine, Waits
  <1> QED  BY <1>1, <1>2 DEF LinesWith

(* A line that begins where none with usage begins later is the one.       *)
LEMMA LastIsReported ==
  ASSUME NEW protocol, NEW bytes \in Seq(Bytes), NEW c, NEW i, NEW j,
         <<i, j>> \in LinesWith(protocol, bytes, c),
         \A l \in LinesWith(protocol, bytes, c) : l[2] <= j
  PROVE  LastReported(protocol, bytes, c) = ParseLine(protocol, SubSeq(bytes, i, j))[c]
PROOF
  <1> DEFINE lines == LinesWith(protocol, bytes, c)
             last == CHOOSE l \in lines : \A k \in lines : k[1] <= l[1]
  <1>0. Len(bytes) \in Nat
    BY LenProperties
  <1>1. \A l \in lines : /\ l = <<l[1], l[2]>>
                         /\ l[1] \in 1 .. Len(bytes) /\ l[2] \in 1 .. Len(bytes) /\ l[1] <= l[2]
                         /\ Waits(bytes, l[1], l[2])
                         /\ l[2] = Len(bytes) \/ bytes[l[2] + 1] = Newline
    BY LinesWait
  <1>2. <<i, j>> \in lines /\ \A l \in lines : l[2] <= j
    OBVIOUS
  <1> HIDE DEF lines
  <1>3. /\ i \in 1 .. Len(bytes) /\ j \in 1 .. Len(bytes) /\ i <= j /\ Waits(bytes, i, j)
        /\ j = Len(bytes) \/ bytes[j + 1] = Newline
    BY <1>1, <1>2
  <1>4. ASSUME NEW k \in lines PROVE k[1] <= i /\ (k[1] = i => k = <<i, j>>)
    <2>1. /\ k = <<k[1], k[2]>> /\ k[1] \in 1 .. Len(bytes) /\ k[2] \in 1 .. Len(bytes)
          /\ k[1] <= k[2] /\ k[2] <= j /\ Waits(bytes, k[1], k[2])
          /\ k[2] = Len(bytes) \/ bytes[k[2] + 1] = Newline
      BY <1>1, <1>2
    <2>2. k[1] <= i
      <3> SUFFICES ASSUME k[1] > i PROVE FALSE
        BY <1>3, <2>1
      <3>1. k[1] - 1 \in i .. j /\ bytes[k[1] - 1] = Newline
        BY <1>3, <2>1 DEF Waits
      <3> QED  BY <1>3, <3>1 DEF Waits
    <2>3. ASSUME k[1] = i PROVE k[2] = j
      <3> SUFFICES ASSUME k[2] # j PROVE FALSE
        OBVIOUS
      <3>1. k[2] + 1 \in i .. j /\ k[2] # Len(bytes)
        BY <1>0, <1>3, <2>1, <2>3
      <3>2. bytes[k[2] + 1] = Newline
        BY <2>1, <3>1
      <3> QED  BY <1>3, <3>1, <3>2 DEF Waits
    <2> QED  BY <2>1, <2>2, <2>3
  <1>5. <<i, j>>[1] = i /\ <<i, j>>[2] = j
    OBVIOUS
  <1>6. last \in lines /\ \A k \in lines : k[1] <= last[1]
    BY <1>2, <1>4, <1>5
  <1>7. last = <<i, j>>
    <2>1. i <= last[1] /\ last[1] <= i /\ last[1] \in Int /\ i \in Int
      BY <1>1, <1>2, <1>3, <1>4, <1>5, <1>6
    <2> QED  BY <1>4, <1>6, <2>1
  <1> HIDE DEF last
  <1>8. last[1] = i /\ last[2] = j /\ lines # {}
    BY <1>2, <1>5, <1>7
  <1>9. LastReported(protocol, bytes, c) =
          IF lines = {} THEN None ELSE ParseLine(protocol, SubSeq(bytes, last[1], last[2]))[c]
    BY DEF LastReported, lines, last
  <1> QED  BY <1>8, <1>9

(* The observer has heard what the reference reports.                      *)
LEMMA FinishReports ==
  ASSUME NEW protocol, NEW bytes \in Seq(Bytes), NEW o, Watched(protocol, bytes, Len(bytes), o),
         NEW c \in Counts
  PROVE  /\ Finish(protocol, o) \in Observers
         /\ Finish(protocol, o).usage[c] = LastReported(protocol, bytes, c)
PROOF
  <1> DEFINE n == Len(bytes)
             lines == LinesWith(protocol, bytes, c)
  <1>0. n \in Nat /\ o \in Observers
    BY LenProperties DEF Watched
  <1>1. PICK a \in 1 .. n + 1 : Waits(bytes, a, n) /\ o.buffer = SubSeq(bytes, a, n)
    BY DEF Watched
  <1> DEFINE tail == ParseLine(protocol, SubSeq(bytes, a, n))[c]
  <1>2. /\ Finish(protocol, o) \in Observers
        /\ Finish(protocol, o).usage[c] = IF tail # None THEN tail ELSE o.usage[c]
    <2>1. CASE o.buffer = <<>>
      <3>1. tail = None
        BY <1>1, <2>1, NothingOnEmptyLine
      <3> QED  BY <1>0, <2>1, <3>1 DEF Finish
    <2>2. CASE o.buffer # <<>>
      <3> DEFINE consumed == ConsumeLine(protocol, o, o.buffer)
      <3>1. /\ consumed \in Observers
            /\ consumed.usage[c] = IF tail # None THEN tail ELSE o.usage[c]
        BY <1>0, <1>1, LineIsMerged
      <3> HIDE DEF consumed
      <3>2. /\ [consumed EXCEPT !.buffer = <<>>] \in Observers
            /\ [consumed EXCEPT !.buffer = <<>>].usage = consumed.usage
        BY <3>1, EmptySeq DEF Observers
      <3> QED  BY <2>2, <3>1, <3>2 DEF Finish, consumed
    <2> QED  BY <2>1, <2>2
  <1>3. \A l \in lines : /\ l = <<l[1], l[2]>>
                         /\ l[1] \in 1 .. n /\ l[2] \in 1 .. n /\ l[1] <= l[2]
                         /\ Waits(bytes, l[1], l[2])
                         /\ l[2] = n \/ bytes[l[2] + 1] = Newline
                         /\ ParseLine(protocol, SubSeq(bytes, l[1], l[2]))[c] # None
    BY LinesWait
  <1>4. ASSUME NEW i \in 1 .. n, NEW j \in 1 .. n, i <= j, Waits(bytes, i, j),
               j = n \/ bytes[j + 1] = Newline,
               ParseLine(protocol, SubSeq(bytes, i, j))[c] # None
        PROVE  <<i, j>> \in lines
    BY <1>4, LinesWait
  <1> HIDE DEF lines
  <1>5. CASE tail # None
    <2>1. a \in 1 .. n /\ n \in 1 .. n /\ a <= n
      <3>1. a # n + 1
        <4> SUFFICES ASSUME a = n + 1 PROVE FALSE
          OBVIOUS
        <4>1. SubSeq(bytes, a, n) = <<>>
          BY <1>0, SubSeqEmpty
        <4> QED  BY <1>5, <4>1, NothingOnEmptyLine
      <3> QED  BY <1>0, <3>1
    <2>2. <<a, n>> \in lines
      BY <1>1, <1>4, <1>5, <2>1
    <2>3. \A l \in lines : l[2] <= n
      BY <1>0, <1>3
    <2>4. LastReported(protocol, bytes, c) = tail
      <3> HIDE DEF n
      <3> QED  BY <2>2, <2>3, LastIsReported DEF lines
    <2> QED  BY <1>2, <1>5, <2>4
  <1>6. CASE tail = None
    <2>1. ASSUME NEW l \in lines
          PROVE  /\ l[2] + 1 \in 1 .. n /\ l[1] \in 1 .. n
                 /\ Ends(bytes, l[1], l[2] + 1)
                 /\ Said(protocol, bytes, l[1], l[2] + 1, c) # None
      <3>1. /\ l[1] \in 1 .. n /\ l[2] \in 1 .. n
            /\ Waits(bytes, l[1], l[2])
            /\ l[2] = n \/ bytes[l[2] + 1] = Newline
            /\ ParseLine(protocol, SubSeq(bytes, l[1], l[2]))[c] # None
        BY <1>3
      <3>2. l[2] # n
        <4> SUFFICES ASSUME l[2] = n PROVE FALSE
          OBVIOUS
        <4>1. l[1] = a
          BY <1>0, <1>1, <3>1, WaitsOnce
        <4> QED  BY <1>6, <3>1, <4>1
      <3>3. (l[2] + 1) - 1 = l[2]
        BY <3>1
      <3> QED  BY <1>0, <3>1, <3>2, <3>3 DEF Ends, Said
    <2>2. Heard(protocol, bytes, n, o.usage)
      BY DEF Watched
    <2>3. CASE o.usage[c] = None /\ Silent(protocol, bytes, 1, n, c)
      <3>1. lines = {}
        BY <2>1, <2>3 DEF Silent
      <3> QED  BY <1>2, <1>6, <2>3, <3>1 DEF LastReported, lines
    <2>4. CASE \E i \in 1 .. n, s \in 1 .. n :
                 /\ Ends(bytes, s, i)
                 /\ o.usage[c] = Said(protocol, bytes, s, i, c) /\ o.usage[c] # None
                 /\ Silent(protocol, bytes, i + 1, n, c)
      <3>1. PICK i \in 1 .. n, s \in 1 .. n :
                 /\ Ends(bytes, s, i)
                 /\ o.usage[c] = Said(protocol, bytes, s, i, c) /\ o.usage[c] # None
                 /\ Silent(protocol, bytes, i + 1, n, c)
        BY <2>4
      <3>2. s \in 1 .. i /\ Waits(bytes, s, i - 1) /\ bytes[i] = Newline
        BY <1>0, <3>1 DEF Ends, Waits
      <3>3. s # i
        <4> SUFFICES ASSUME s = i PROVE FALSE
          OBVIOUS
        <4>1. SubSeq(bytes, s, i - 1) = <<>>
          BY <1>0, SubSeqEmpty
        <4> QED  BY <3>1, <4>1, NothingOnEmptyLine DEF Said
      <3>4. i - 1 \in 1 .. n /\ s <= i - 1 /\ (i - 1) + 1 = i
        BY <1>0, <3>2, <3>3
      <3>5. <<s, i - 1>> \in lines
        BY <1>4, <3>1, <3>2, <3>4 DEF Said
      <3>6. ASSUME NEW l \in lines PROVE l[2] <= i - 1
        <4> SUFFICES ASSUME ~(l[2] <= i - 1) PROVE FALSE
          OBVIOUS
        <4>1. l[2] + 1 \in i + 1 .. n
          BY <1>0, <1>3, <2>1
        <4> QED  BY <2>1, <3>1, <4>1 DEF Silent
      <3>7. LastReported(protocol, bytes, c) = Said(protocol, bytes, s, i, c)
        <4>1. LastReported(protocol, bytes, c) = ParseLine(protocol, SubSeq(bytes, s, i - 1))[c]
          BY <3>5, <3>6, LastIsReported DEF lines
        <4> QED  BY <4>1 DEF Said
      <3> QED  BY <1>2, <1>6, <3>1, <3>7
    <2> QED  BY <2>2, <2>3, <2>4 DEF Heard
  <1> QED  BY <1>5, <1>6

-----------------------------------------------------------------------------
(* The meter.                                                              *)

LEMMA MeteredIsProxyStep == [MeteredNext]_meteredVars => [Next]_vars
PROOF
  <1>1. ASSUME NEW r \in Requests, StepOf(r) PROVE Next
    BY <1>1 DEF StepOf, Next
  <1>2. CASE UNCHANGED meteredVars
    BY <1>2 DEF meteredVars
  <1>3. CASE Swap /\ UNCHANGED meterVars
    BY <1>3 DEF Next
  <1>4. ASSUME NEW r \in Requests,
               \/ MeteredAdmit(r) \/ MeteredProceed(r) \/ MeteredSend(r) \/ MeteredReadBody(r)
               \/ StreamEnds(r) \/ StreamBreaks(r) \/ Disconnect(r)
        PROVE  Next
    <2>1. StepOf(r)
      BY <1>4 DEF MeteredAdmit, MeteredProceed, MeteredSend, MeteredReadBody, StreamEnds,
                  StreamBreaks, StepOf
    <2> QED  BY <1>1, <2>1
  <1>5. ASSUME NEW r \in Requests, Chunk(r) PROVE UNCHANGED vars
    BY <1>5 DEF Chunk
  <1> QED  BY <1>2, <1>3, <1>4, <1>5 DEF MeteredNext

(* Observing a body changes nothing of how a request is served: all that   *)
(* holds of the request path holds beside its meter                        *)
(* (proxy/router.rs:805-850).                                              *)
THEOREM MeteredImplementsProxy == MeteredSpec => Spec
PROOF
  <1>1. MeteredInit => Init
    BY DEF MeteredInit
  <1> QED  BY <1>1, MeteredIsProxyStep, PTL DEF MeteredSpec, Spec

MeterStateOf(r) == <<body[r], at[r], observer[r], bill[r]>>

(* What is billed, beside the request it is billed for, and before that    *)
(* what the observer heard of the stream so far.                           *)
Billed(r) ==
  /\ recorded[r] \in {0, 1}
  /\ step[r] \notin Over \cup {"stream"} =>
       body[r] = <<>> /\ at[r] = 0 /\ observer[r] = NewObserver
  /\ step[r] = "stream" =>
       /\ body[r] \in Seq(Bytes) /\ at[r] \in 0 .. Len(body[r])
       /\ Watched(Speaks(r), body[r], at[r], observer[r])
  /\ recorded[r] = 1 =>
       /\ step[r] = "answered" /\ answer[r].from # "gateway" /\ at[r] = Len(body[r])
       /\ bill[r].usage \in TokenUsage
       /\ body[r] # <<>> => MeteredAsWhole(Speaks(r), body[r], bill[r].usage)
  /\ bill[r].source # "none" <=> recorded[r] = 1
  /\ bill[r].source \in {"none", "unavailable"} <=> ~HasTokens(bill[r].usage)
  /\ bill[r].cost # NoCost =>
       /\ recorded[r] = 1
       /\ bill[r].cost = CalculateCost(taken[r].pricing, Provider(r),
                                       UpstreamModel[Provider(r)], bill[r].usage)
MeterInv ==
  /\ DOMAIN body = Requests /\ DOMAIN at = Requests
  /\ DOMAIN observer = Requests /\ DOMAIN bill = Requests
  /\ \A r \in Requests : Billed(r)

(* The total is added only to a usage that has a part.                     *)
LEMMA TotalAddsNothing ==
  ASSUME NEW usage
  PROVE  HasTokens(EnsureTotal(usage)) <=> HasTokens(usage)
PROOF
  <1>1. \A c \in Counts \ {"total"} : EnsureTotal(usage)[c] = usage[c]
    BY DEF EnsureTotal
  <1>2. CASE \E c \in Components : usage[c] # None
    <2>1. \A c \in Components : c \in Counts \ {"total"}
      BY DEF Components, Counts
    <2> QED  BY <1>1, <1>2, <2>1 DEF HasTokens
  <1>3. CASE \A c \in Components : usage[c] = None
    BY <1>3 DEF EnsureTotal, HasTokens
  <1> QED  BY <1>2, <1>3

(* The total is what was reported, or that of the parts.                   *)
LEMMA TotalOfParts ==
  ASSUME NEW usage \in TokenUsage
  PROVE  /\ EnsureTotal(usage) \in TokenUsage
         /\ \A c \in Counts \ {"total"} : EnsureTotal(usage)[c] = usage[c]
         /\ \/ usage["total"] # None /\ EnsureTotal(usage)["total"] = usage["total"]
            \/ /\ \A c \in Components \cup {"total"} : usage[c] = None
               /\ EnsureTotal(usage)["total"] = None
            \/ /\ usage["total"] = None /\ \E c \in Components : usage[c] # None
               /\ EnsureTotal(usage)["total"] =
                    Some(usage["input"]) + Some(usage["output"])
                      + Some(usage["cache_read"]) + Some(usage["cache_write"])
PROOF
  <1>1. /\ usage["input"] \in Int /\ usage["output"] \in Int
        /\ usage["cache_read"] \in Int /\ usage["cache_write"] \in Int
        /\ \A c \in Counts : usage[c] \in Int
    BY DEF TokenUsage, Counts
  <1>2. \A n \in Int : Some(n) \in Int
    BY DEF Some, None
  <1>3. Some(usage["input"]) + Some(usage["output"])
          + Some(usage["cache_read"]) + Some(usage["cache_write"]) \in Int
    BY <1>1, <1>2
  <1>4. EnsureTotal(usage) \in TokenUsage
    BY <1>1, <1>3 DEF EnsureTotal, TokenUsage
  <1>5. \A c \in Counts \ {"total"} : EnsureTotal(usage)[c] = usage[c]
    BY DEF EnsureTotal
  <1>6. EnsureTotal(usage)["total"] =
          IF usage["total"] # None \/ \A c \in Components : usage[c] = None
            THEN usage["total"]
            ELSE Some(usage["input"]) + Some(usage["output"])
                   + Some(usage["cache_read"]) + Some(usage["cache_write"])
    BY DEF EnsureTotal, Counts
  <1> QED  BY <1>4, <1>5, <1>6

LEMMA ReportIsMetered ==
  ASSUME NEW protocol, NEW bytes, NEW usage \in TokenUsage,
         \A c \in Counts : usage[c] = LastReported(protocol, bytes, c)
  PROVE  MeteredAsWhole(protocol, bytes, EnsureTotal(usage))
PROOF
  <1>1. Components \cup {"total"} \subseteq Counts
    BY DEF Components, Counts
  <1>2. /\ usage["total"] = LastReported(protocol, bytes, "total")
        /\ usage["input"] = LastReported(protocol, bytes, "input")
        /\ usage["output"] = LastReported(protocol, bytes, "output")
        /\ usage["cache_read"] = LastReported(protocol, bytes, "cache_read")
        /\ usage["cache_write"] = LastReported(protocol, bytes, "cache_write")
    BY DEF Counts
  <1>3. \A c \in Counts \ {"total"} : EnsureTotal(usage)[c] = LastReported(protocol, bytes, c)
    BY TotalOfParts
  <1>4. CASE usage["total"] # None /\ EnsureTotal(usage)["total"] = usage["total"]
    BY <1>2, <1>3, <1>4 DEF MeteredAsWhole
  <1>5. CASE /\ \A c \in Components \cup {"total"} : usage[c] = None
             /\ EnsureTotal(usage)["total"] = None
    <2>1. \A c \in Components \cup {"total"} : LastReported(protocol, bytes, c) = None
      BY <1>1, <1>5
    <2> QED  BY <1>3, <1>5, <2>1 DEF MeteredAsWhole
  <1>6. CASE /\ usage["total"] = None /\ \E c \in Components : usage[c] # None
             /\ EnsureTotal(usage)["total"] =
                  Some(usage["input"]) + Some(usage["output"])
                    + Some(usage["cache_read"]) + Some(usage["cache_write"])
    <2>1. \E c \in Components : LastReported(protocol, bytes, c) # None
      BY <1>1, <1>6
    <2> QED  BY <1>2, <1>3, <1>6, <2>1 DEF MeteredAsWhole
  <1> QED  BY <1>4, <1>5, <1>6, TotalOfParts

LEMMA BilledLeft ==
  ASSUME NEW q \in Requests, Billed(q), StateOf(q)' = StateOf(q),
         MeterStateOf(q)' = MeterStateOf(q)
  PROVE  Billed(q)'
PROOF
  <1>1. Provider(q)' = Provider(q) /\ Speaks(q)' = Speaks(q)
    BY DEF StateOf, Provider, Chain, Speaks
  <1> QED  BY <1>1 DEF Billed, StateOf, MeterStateOf

(* A record is made of a request that has none, at the end of its body.    *)
LEMMA BilledRecord ==
  ASSUME TypeInv, MeterInv, NEW r \in Requests, NEW usage \in TokenUsage,
         NEW source \in {"stream_summary", "provider_response"},
         RecordUsage(r, source, usage), WalkInv(r), step[r] \in {"body", "stream"},
         step'[r] = "answered", recorded'[r] = recorded[r] + 1,
         UNCHANGED <<taken, hop, answer, body, at>>, at[r] = Len(body[r]),
         body[r] # <<>> => MeteredAsWhole(Speaks(r), body[r], EnsureTotal(usage))
  PROVE  DOMAIN bill' = Requests /\ Billed(r)'
PROOF
  <1> DEFINE new == [usage |-> EnsureTotal(usage),
                     cost |-> CalculateCost(taken[r].pricing, Provider(r),
                                UpstreamModel[Provider(r)], EnsureTotal(usage)),
                     source |-> IF HasTokens(usage) THEN source ELSE "unavailable"]
  <1>1. bill' = [bill EXCEPT ![r] = new] /\ bill'[r] = new /\ DOMAIN bill' = Requests
    BY DEF RecordUsage, MeterInv
  <1>2. recorded[r] = 0
    BY DEF MeterInv, Billed
  <1>3. answer[r].from # "gateway"
    BY DEF WalkInv, Answered
  <1>4. Provider(r)' = Provider(r) /\ Speaks(r)' = Speaks(r)
    BY DEF Provider, Chain, Speaks
  <1>5. bill'[r].source # "none"
        /\ (bill'[r].source \in {"none", "unavailable"} <=> ~HasTokens(bill'[r].usage))
    BY <1>1, TotalAddsNothing
  <1>6. /\ bill'[r].usage = EnsureTotal(usage) /\ EnsureTotal(usage) \in TokenUsage
        /\ bill'[r].cost = CalculateCost(taken[r].pricing, Provider(r),
                             UpstreamModel[Provider(r)], bill'[r].usage)
    BY <1>1, TotalOfParts
  <1> HIDE DEF new
  <1>7. recorded'[r] = 1
    BY <1>2
  <1> QED  BY <1>1, <1>3, <1>4, <1>5, <1>6, <1>7 DEF Billed, Over

MeteredStepOf(r) ==
  \/ MeteredAdmit(r) \/ MeteredProceed(r) \/ MeteredSend(r) \/ MeteredReadBody(r)
  \/ Chunk(r) \/ StreamEnds(r) \/ StreamBreaks(r)
  \/ Disconnect(r) /\ UNCHANGED meterVars

MeterDomains ==
  /\ DOMAIN body = Requests /\ DOMAIN at = Requests
  /\ DOMAIN observer = Requests /\ DOMAIN bill = Requests

LEMMA BilledStep ==
  ASSUME TypeInv, MeterInv, NEW r \in Requests, WalkInv(r), MeteredStepOf(r)
  PROVE  /\ MeterDomains'
         /\ Billed(r)'
         /\ \A q \in Requests \ {r} : MeterStateOf(q)' = MeterStateOf(q)
PROOF
  <1>0. Billed(r) /\ MeterDomains
    BY DEF MeterInv, MeterDomains
  <1>1. CASE MeteredAdmit(r) \/ MeteredProceed(r)
    <2>1. /\ step[r] \notin Over \cup {"stream", "body"} /\ step'[r] # "stream"
          /\ recorded' = recorded
      BY <1>1 DEF MeteredAdmit, Admit, Authorize, CheckQuota, Resolve,
                  MeteredProceed, Proceed, Prepare, Failover, Backoff,
                  Answer, Goto, Over, TypeInv, TypeOK
    <2>2. recorded[r] = 0 /\ bill[r].cost = NoCost
      BY <1>0, <2>1 DEF Billed, Over
    <2> QED  BY <1>0, <1>1, <2>1, <2>2
             DEF MeteredAdmit, MeteredProceed, meterVars, Billed, MeterStateOf, MeterDomains, Over
  <1>2. CASE MeteredSend(r)
    <2>1. step[r] = "send" /\ recorded' = recorded /\ UNCHANGED <<at, observer, bill>>
      BY <1>2 DEF MeteredSend, Send
    <2>2. /\ recorded[r] = 0 /\ bill[r].cost = NoCost /\ at[r] = 0 /\ body[r] = <<>>
          /\ observer[r] = NewObserver
      BY <1>0, <2>1 DEF Billed, Over
    <2>3. /\ DOMAIN body' = Requests
          /\ step'[r] # "stream" => body'[r] = <<>>
          /\ step'[r] = "stream" => body'[r] \in Seq(Bytes)
          /\ \A q \in Requests \ {r} : body'[q] = body[q]
      BY <1>0, <1>2, <2>2, StreamsAssumption DEF MeteredSend, MeterDomains
    <2>4. step'[r] = "stream" =>
            /\ at'[r] \in 0 .. Len(body'[r])
            /\ Watched(Speaks(r)', body'[r], at'[r], observer'[r])
      <3> SUFFICES ASSUME step'[r] = "stream"
                   PROVE  /\ at'[r] \in 0 .. Len(body'[r])
                          /\ Watched(Speaks(r)', body'[r], at'[r], observer'[r])
        OBVIOUS
      <3>1. at'[r] = 0 /\ observer'[r] = NewObserver /\ body'[r] \in Seq(Bytes)
        BY <2>1, <2>2, <2>3
      <3>2. Len(body'[r]) \in Nat
        BY <3>1, LenProperties
      <3> QED  BY <3>1, <3>2, NewWatches
    <2> QED  BY <1>0, <2>1, <2>2, <2>3, <2>4 DEF Billed, MeterStateOf, MeterDomains, Over
  <1>3. CASE MeteredReadBody(r)
    <2>1. step[r] = "body" /\ UNCHANGED <<taken, hop, body, at, observer>>
      BY <1>3 DEF MeteredReadBody, ReadBody
    <2>2. /\ recorded[r] = 0 /\ bill[r].cost = NoCost /\ body[r] = <<>>
          /\ at[r] = Len(body[r])
      BY <1>0, <2>1, EmptySeq DEF Billed, Over
    <2>3. CASE recorded' # recorded
      <3>1. PICK e \in Events :
              RecordUsage(r, "provider_response", ParseNonStreaming(Speaks(r), e))
        BY <1>3, <2>3 DEF MeteredReadBody
      <3>2. ParseNonStreaming(Speaks(r), e) \in TokenUsage
        BY ParsedUsage DEF ParseNonStreaming
      <3>3. step'[r] = "answered" /\ recorded'[r] = recorded[r] + 1 /\ answer' = answer
        BY <1>3, <2>3 DEF MeteredReadBody, ReadBody, Goto, TypeInv, TypeOK
      <3>4. \A q \in Requests \ {r} : bill'[q] = bill[q]
        BY <1>0, <3>1 DEF RecordUsage, MeterDomains
      <3>5. DOMAIN bill' = Requests /\ Billed(r)'
        BY <2>1, <2>2, <3>1, <3>2, <3>3, BilledRecord
      <3> QED  BY <1>0, <2>1, <3>4, <3>5 DEF MeterStateOf, MeterDomains
    <2>4. CASE recorded' = recorded
      <3>1. bill' = bill /\ step'[r] = "answered"
        BY <1>3, <2>4 DEF MeteredReadBody, ReadBody, Answer, Goto, TypeInv, TypeOK
      <3> QED  BY <1>0, <2>1, <2>2, <2>4, <3>1 DEF Billed, MeterStateOf, MeterDomains, Over
    <2> QED  BY <2>3, <2>4
  <1>4. CASE Chunk(r)
    <2>1. step[r] = "stream" /\ UNCHANGED <<vars, body, bill>>
      BY <1>4 DEF Chunk
    <2>2. /\ recorded[r] = 0 /\ bill[r].cost = NoCost
          /\ body[r] \in Seq(Bytes) /\ at[r] \in 0 .. Len(body[r])
          /\ Watched(Speaks(r), body[r], at[r], observer[r])
      BY <1>0, <2>1 DEF Billed, Over
    <2>3. PICK n \in 1 .. Len(body[r]) - at[r] :
            /\ at' = [at EXCEPT ![r] = @ + n]
            /\ observer' = [observer EXCEPT ![r] =
                 Feed(Speaks(r), @, SubSeq(body[r], at[r] + 1, at[r] + n))]
      BY <1>4 DEF Chunk
    <2>4. /\ at'[r] = at[r] + n
          /\ observer'[r] = Feed(Speaks(r), observer[r], SubSeq(body[r], at[r] + 1, at[r] + n))
          /\ DOMAIN at' = Requests /\ DOMAIN observer' = Requests
          /\ \A q \in Requests \ {r} : at'[q] = at[q] /\ observer'[q] = observer[q]
      BY <1>0, <2>3 DEF MeterDomains
    <2>5. Len(body[r]) \in Nat /\ at[r] + n \in at[r] .. Len(body[r])
          /\ at[r] + n \in 0 .. Len(body[r])
      <3>1. Len(body[r]) \in Nat
        BY <2>2, LenProperties
      <3> QED  BY <2>2, <3>1
    <2>6. Watched(Speaks(r), body[r], at[r] + n,
                  Feed(Speaks(r), observer[r], SubSeq(body[r], at[r] + 1, at[r] + n)))
      BY <2>2, <2>5, FeedWatches
    <2>7. Watched(Speaks(r), body[r], at'[r], observer'[r]) /\ at'[r] \in 0 .. Len(body[r])
      BY <2>4, <2>5, <2>6
    <2>8. Speaks(r)' = Speaks(r)
      BY <2>1 DEF vars, Speaks, Provider, Chain
    <2> QED  BY <1>0, <2>1, <2>2, <2>4, <2>7, <2>8
             DEF Billed, MeterStateOf, MeterDomains, Over, vars
  <1>5. CASE StreamEnds(r)
    <2>1. /\ step[r] = "stream" /\ step'[r] = "answered"
          /\ UNCHANGED <<taken, hop, answer, body, at>> /\ at[r] = Len(body[r])
      BY <1>5 DEF StreamEnds, EndStream, Goto, TypeInv, TypeOK
    <2>2. recorded'[r] = recorded[r] + 1
      BY <1>5 DEF StreamEnds, EndStream, TypeInv, TypeOK
    <2> DEFINE usage == Finish(Speaks(r), observer[r]).usage
    <2>3. /\ RecordUsage(r, "stream_summary", usage)
          /\ observer' = [observer EXCEPT ![r] = NewObserver]
      BY <1>5 DEF StreamEnds
    <2>4. \A q \in Requests \ {r} : bill'[q] = bill[q] /\ observer'[q] = observer[q]
      BY <1>0, <2>3 DEF RecordUsage, MeterDomains
    <2>5. body[r] \in Seq(Bytes) /\ Watched(Speaks(r), body[r], Len(body[r]), observer[r])
      BY <1>0, <2>1 DEF Billed
    <2>6. /\ usage \in TokenUsage
          /\ \A c \in Counts : usage[c] = LastReported(Speaks(r), body[r], c)
      <3>1. \A c \in Counts : /\ Finish(Speaks(r), observer[r]) \in Observers
                              /\ usage[c] = LastReported(Speaks(r), body[r], c)
        BY <2>5, FinishReports
      <3>2. "total" \in Counts
        BY DEF Counts
      <3> QED  BY <3>1, <3>2 DEF Observers
    <2> HIDE DEF usage
    <2>7. MeteredAsWhole(Speaks(r), body[r], EnsureTotal(usage))
      BY <2>6, ReportIsMetered
    <2>8. DOMAIN bill' = Requests /\ Billed(r)'
      BY <2>1, <2>2, <2>3, <2>6, <2>7, BilledRecord
    <2>9. DOMAIN observer' = Requests
      BY <1>0, <2>3 DEF MeterDomains
    <2> QED  BY <1>0, <2>1, <2>4, <2>8, <2>9 DEF MeterStateOf, MeterDomains
  <1>6. ASSUME StreamBreaks(r) \/ (Disconnect(r) /\ UNCHANGED meterVars)
        PROVE  /\ MeterDomains'
               /\ Billed(r)'
               /\ \A q \in Requests \ {r} : MeterStateOf(q)' = MeterStateOf(q)
    <2>1. /\ step[r] \notin Over /\ step'[r] \in Over /\ recorded' = recorded
          /\ UNCHANGED meterVars
      BY <1>6 DEF StreamBreaks, EndStream, Disconnect, Goto, Over, TypeInv, TypeOK
    <2>2. recorded[r] = 0 /\ bill[r].cost = NoCost
      BY <1>0, <2>1 DEF Billed, Over
    <2>3. body' = body /\ at' = at /\ observer' = observer /\ bill' = bill
      BY <2>1 DEF meterVars
    <2>4. Billed(r)'
      BY <1>0, <2>1, <2>2, <2>3 DEF Billed, Over
    <2>5. MeterDomains'
      BY <1>0, <2>3 DEF MeterDomains
    <2>6. \A q \in Requests : MeterStateOf(q)' = MeterStateOf(q)
      BY <2>3 DEF MeterStateOf
    <2> QED  BY <2>4, <2>5, <2>6
  <1>7. \/ MeteredAdmit(r) \/ MeteredProceed(r) \/ MeteredSend(r) \/ MeteredReadBody(r)
        \/ Chunk(r) \/ StreamEnds(r) \/ StreamBreaks(r) \/ (Disconnect(r) /\ UNCHANGED meterVars)
    BY DEF MeteredStepOf
  <1> QED  BY ONLY <1>1, <1>2, <1>3, <1>4, <1>5, <1>6, <1>7

LEMMA MeterNext ==
  TypeInv /\ AllWalk /\ MeterInv /\ [MeteredNext]_meteredVars => MeterInv'
PROOF
  <1> SUFFICES ASSUME TypeInv, AllWalk, MeterInv, [MeteredNext]_meteredVars
               PROVE  MeterInv'
    OBVIOUS
  <1>1. CASE (Swap /\ UNCHANGED meterVars) \/ UNCHANGED meteredVars
    <2>1. \A q \in Requests : StateOf(q)' = StateOf(q) /\ MeterStateOf(q)' = MeterStateOf(q)
      BY <1>1 DEF Swap, meterVars, meteredVars, vars, StateOf, MeterStateOf
    <2>2. \A q \in Requests : Billed(q)'
      BY <2>1, BilledLeft DEF MeterInv
    <2> QED  BY <1>1, <2>2 DEF meterVars, meteredVars, MeterInv
  <1>2. ASSUME NEW r \in Requests, MeteredStepOf(r) PROVE MeterInv'
    <2>1. /\ MeterDomains'
          /\ Billed(r)'
          /\ \A q \in Requests \ {r} : MeterStateOf(q)' = MeterStateOf(q)
      BY <1>2, BilledStep DEF AllWalk
    <2>2. \A q \in Requests \ {r} : StateOf(q)' = StateOf(q)
      <3> SUFFICES ASSUME NEW q \in Requests \ {r} PROVE StateOf(q)' = StateOf(q)
        OBVIOUS
      <3>1. CASE Chunk(r)
        BY <3>1 DEF Chunk, vars, StateOf
      <3>2. CASE StepOf(r)
        BY <3>2, OthersAreLeft DEF TypeInv
      <3> QED  BY <1>2, <3>1, <3>2 DEF MeteredStepOf, MeteredAdmit, MeteredProceed, MeteredSend,
                                       MeteredReadBody, StreamEnds, StreamBreaks, StepOf
    <2>3. \A q \in Requests \ {r} : Billed(q)'
      BY <2>1, <2>2, BilledLeft DEF MeterInv
    <2> QED  BY <2>1, <2>3 DEF MeterInv, MeterDomains
  <1> QED  BY <1>1, <1>2 DEF MeteredNext, MeteredStepOf

LEMMA MeterInit == MeteredInit => MeterInv
PROOF
  <1>1. ~HasTokens(NoTokens)
    BY DEF HasTokens, NoTokens
  <1> QED  BY <1>1 DEF MeteredInit, Init, MeterInv, Billed, NoBill, NoCost, Over

LEMMA MeteredInvariant == MeteredSpec => [](TypeInv /\ MeterInv)
PROOF
  <1>1. MeteredInit => TypeInv /\ AllWalk /\ MeterInv
    BY TypeInit, WalkInit, MeterInit DEF MeteredInit
  <1>2. TypeInv /\ AllWalk /\ MeterInv /\ [MeteredNext]_meteredVars
          => TypeInv' /\ AllWalk' /\ MeterInv'
    BY MeteredIsProxyStep, TypeNext, WalkNext, MeterNext
  <1> QED  BY <1>1, <1>2, PTL DEF MeteredSpec

(* For any streams and usage, a request is billed at most once, only for   *)
(* an answer of a provider that was passed on to its end, and its record   *)
(* says whether usage was reported (proxy/router.rs:652-719, 742, 805-833).*)
THEOREM BillsMatchRecords == MeteredSpec => []BillMatchesRecord
PROOF
  <1>1. TypeInv /\ MeterInv => BillMatchesRecord
    BY DEF MeterInv, Billed, BillMatchesRecord
  <1> QED  BY <1>1, MeteredInvariant, PTL

(* However a provider's stream is cut into chunks, what is billed of it is *)
(* what its lines said last, for any events, usage objects and streams     *)
(* (usage/observer.rs:28-73, domain/token.rs:31-80).                       *)
THEOREM StreamsAreMeteredAsWhole == MeteredSpec => []StreamIsMeteredAsWhole
PROOF
  <1>1. TypeInv /\ MeterInv => StreamIsMeteredAsWhole
    BY DEF MeterInv, Billed, StreamIsMeteredAsWhole
  <1> QED  BY <1>1, MeteredInvariant, PTL

-----------------------------------------------------------------------------
(* The price.                                                              *)

LEMMA FirstMatchIsFirst ==
  ASSUME NEW pricing, NEW p, NEW model, Matches(pricing, p, model) # {}
  PROVE  \E i \in Matches(pricing, p, model) :
           /\ FirstMatch(pricing, p, model) = LookupOrder(p, model)[i]
           /\ \A j \in Matches(pricing, p, model) : i <= j
PROOF
  <1> DEFINE M == Matches(pricing, p, model)
  <1>1. M \in SUBSET {1, 2, 3, 4}
    BY DEF Matches
  <1> HIDE DEF M
  <1>2. M # {}
    BY DEF M
  <1>3. \E i \in M : \A j \in M : i <= j
    <2>1. CASE 1 \in M
      BY <1>1, <2>1
    <2>2. CASE 1 \notin M /\ 2 \in M
      BY <1>1, <2>2
    <2>3. CASE 1 \notin M /\ 2 \notin M /\ 3 \in M
      BY <1>1, <2>3
    <2>4. CASE 1 \notin M /\ 2 \notin M /\ 3 \notin M
      <3>1. M = {4}
        BY <1>1, <1>2, <2>4
      <3> QED  BY <3>1
    <2> QED  BY <2>1, <2>2, <2>3, <2>4
  <1>4. Min(M) \in M /\ \A j \in M : Min(M) <= j
    BY <1>3 DEF Min
  <1> QED  BY <1>4 DEF FirstMatch, M

LEMMA RuleIsMostSpecific ==
  ASSUME NEW pricing, IsPricing(pricing), NEW p, NEW usage,
         CalculateCost(pricing, p, UpstreamModel[p], usage) # NoCost
  PROVE  \E pair \in MostSpecific(pricing, p) :
           CalculateCost(pricing, p, UpstreamModel[p], usage) =
             [amount |-> CostUnder(usage, pricing[pair]), source |-> pricing[pair].source]
PROOF
  <1> DEFINE model == UpstreamModel[p]
  <1> HIDE DEF model
  <1>1. Matches(pricing, p, model) # {}
    BY DEF CalculateCost, model
  <1>2. PICK i \in Matches(pricing, p, model) :
          /\ FirstMatch(pricing, p, model) = LookupOrder(p, model)[i]
          /\ \A j \in Matches(pricing, p, model) : i <= j
    BY <1>1, FirstMatchIsFirst
  <1>3. PICK pair : pair = LookupOrder(p, model)[i]
    OBVIOUS
  <1>4. i \in {1, 2, 3, 4} /\ pair \in DOMAIN pricing
    BY <1>3 DEF Matches
  <1>5. CalculateCost(pricing, p, UpstreamModel[p], usage) =
          [amount |-> CostUnder(usage, pricing[pair]), source |-> pricing[pair].source]
    BY <1>1, <1>2, <1>3 DEF CalculateCost, model
  <1>6. Stands(pair[1], p) /\ Stands(pair[2], model)
    BY <1>3, <1>4 DEF LookupOrder, Stands
  <1>7. ASSUME NEW other \in DOMAIN pricing, Stands(other[1], p), Stands(other[2], model)
        PROVE  NoMoreSpecific(pair, other)
    <2>1. other = <<other[1], other[2]>>
      BY DEF IsPricing
    <2>2. /\ LookupOrder(p, model)[1] = <<p, model>>
          /\ LookupOrder(p, model)[2] = <<p, Wildcard>>
          /\ LookupOrder(p, model)[3] = <<Wildcard, model>>
          /\ LookupOrder(p, model)[4] = <<Wildcard, Wildcard>>
      BY DEF LookupOrder
    <2>3. PICK j \in {1, 2, 3, 4} :
            other = LookupOrder(p, model)[j] /\ (p = Wildcard => j \in {1, 2})
      BY <1>7, <2>1, <2>2 DEF Stands
    <2>4. i <= j
      BY <1>2, <2>3 DEF Matches
    <2>5. CASE i = 1
      BY <1>3, <1>7, <2>2, <2>5 DEF NoMoreSpecific, Stands
    <2>6. CASE i = 2
      BY <1>3, <2>2, <2>3, <2>4, <2>6 DEF NoMoreSpecific
    <2>7. CASE i = 3
      BY <1>3, <2>2, <2>3, <2>4, <2>7 DEF NoMoreSpecific
    <2>8. CASE i = 4
      BY <1>3, <2>2, <2>3, <2>4, <2>8 DEF NoMoreSpecific
    <2> QED  BY <1>4, <2>5, <2>6, <2>7, <2>8
  <1>8. pair \in MostSpecific(pricing, p)
    BY <1>4, <1>6, <1>7 DEF MostSpecific, Candidates, model
  <1> QED  BY <1>5, <1>8

(* No two rules are most specific.                                         *)
LEMMA RuleIsTheMostSpecific ==
  ASSUME NEW pricing, IsPricing(pricing), NEW p, NEW usage,
         CalculateCost(pricing, p, UpstreamModel[p], usage) # NoCost,
         NEW pair \in MostSpecific(pricing, p)
  PROVE  CalculateCost(pricing, p, UpstreamModel[p], usage).amount =
           CostUnder(usage, pricing[pair])
PROOF
  <1>1. PICK other \in MostSpecific(pricing, p) :
          CalculateCost(pricing, p, UpstreamModel[p], usage) =
            [amount |-> CostUnder(usage, pricing[other]), source |-> pricing[other].source]
    BY RuleIsMostSpecific
  <1>2. /\ pair = <<pair[1], pair[2]>> /\ other = <<other[1], other[2]>>
        /\ Stands(pair[1], p) /\ Stands(pair[2], UpstreamModel[p])
        /\ Stands(other[1], p) /\ Stands(other[2], UpstreamModel[p])
        /\ NoMoreSpecific(pair, other) /\ NoMoreSpecific(other, pair)
    BY DEF MostSpecific, Candidates, IsPricing
  <1>3. pair[1] = other[1] /\ pair[2] = other[2]
    BY <1>2 DEF Stands, NoMoreSpecific
  <1>4. pair = other
    BY <1>2, <1>3
  <1> QED  BY <1>1, <1>4

(* Under one rate the cost is that of the total.                           *)
LEMMA OneRateOnTotal ==
  ASSUME NEW usage \in TokenUsage, NEW rule \in Rule, OneRate(rule),
         Some(usage["cached_input"]) <= Some(usage["input"])
  PROVE  CostUnder(usage, rule) =
           (Some(usage["input"]) + Some(usage["output"])
              + Some(usage["cache_read"]) + Some(usage["cache_write"])) * rule.input
PROOF
  <1>1. \A c \in Counts : Some(usage[c]) \in Int
    BY DEF TokenUsage, Some, None
  <1>2. PICK in \in Int, out \in Int, cached \in Int, read \in Int, written \in Int :
          /\ in = Some(usage["input"]) /\ out = Some(usage["output"])
          /\ cached = Some(usage["cached_input"])
          /\ read = Some(usage["cache_read"]) /\ written = Some(usage["cache_write"])
    BY <1>1 DEF Counts
  <1>3. PICK rate \in Nat : rate = rule.input
    BY DEF Rule
  <1>4. /\ rule.output = rate /\ rule.cached_input = rate
        /\ rule.cache_read = rate /\ rule.cache_write = rate
    BY <1>3 DEF OneRate
  <1>5. \A n \in Int : TokenCost(n, rate) = n * rate
    BY <1>3 DEF TokenCost, None
  <1>6. RegularInput(usage) = in - cached
    BY <1>2 DEF RegularInput, AtLeastZero
  <1>7. CostUnder(usage, rule) =
          (in - cached) * rate + out * rate + cached * rate + read * rate + written * rate
    BY <1>2, <1>3, <1>4, <1>5, <1>6 DEF CostUnder
  <1>8. (in - cached) * rate + out * rate + cached * rate + read * rate + written * rate
          = (in + out + read + written) * rate
    BY <1>2, <1>3
  <1> QED  BY <1>2, <1>3, <1>7, <1>8

LEMMA SnapshotHasPricing ==
  ASSUME TypeInv, MeterInv, NEW r \in Requests, bill[r].cost # NoCost
  PROVE  IsPricing(taken[r].pricing)
PROOF
  <1>1. recorded[r] = 1 /\ step[r] # "start"
    BY DEF MeterInv, Billed
  <1> QED  BY <1>1, PricingAssumption DEF TypeInv, Placed

(* Whatever rules a snapshot has, an answer is priced by one that no other *)
(* matching rule is more specific than, of the snapshot its request began  *)
(* with (pricing/calc.rs, proxy/router.rs:722-760).                        *)
THEOREM PricedBySpecificity == MeteredSpec => []PricedByMostSpecificRule
PROOF
  <1>1. TypeInv /\ MeterInv => PricedByMostSpecificRule
    <2> SUFFICES ASSUME TypeInv, MeterInv, NEW r \in Requests, bill[r].cost # NoCost
                 PROVE  \E pair \in MostSpecific(taken[r].pricing, Provider(r)) :
                          bill[r].cost.source = taken[r].pricing[pair].source
      BY DEF PricedByMostSpecificRule
    <2>1. IsPricing(taken[r].pricing)
      BY SnapshotHasPricing
    <2>2. bill[r].cost = CalculateCost(taken[r].pricing, Provider(r),
                                       UpstreamModel[Provider(r)], bill[r].usage)
      BY DEF MeterInv, Billed
    <2> DEFINE pricing == taken[r].pricing
               p == Provider(r)
               usage == bill[r].usage
    <2> HIDE DEF usage, pricing, p
    <2>3. CalculateCost(pricing, p, UpstreamModel[p], usage) # NoCost
      BY <2>2 DEF usage, pricing, p
    <2>4. PICK pair \in MostSpecific(pricing, p) :
            CalculateCost(pricing, p, UpstreamModel[p], usage) =
              [amount |-> CostUnder(usage, pricing[pair]), source |-> pricing[pair].source]
      BY <2>1, <2>3, RuleIsMostSpecific DEF pricing
    <2>5. CalculateCost(pricing, p, UpstreamModel[p], usage).source = pricing[pair].source
      BY <2>4
    <2>6. bill[r].cost.source = taken[r].pricing[pair].source
      BY <2>2, <2>5 DEF usage, pricing, p
    <2> QED  BY <2>4, <2>6 DEF pricing, p
  <1> QED  BY <1>1, MeteredInvariant, PTL

(* Whatever a snapshot charges and a provider reports, under one rate for  *)
(* all classes an answer costs its total: no token is billed twice or left *)
(* out (pricing/calc.rs:27-75, domain/token.rs:31-48).                     *)
THEOREM FlatRateIsExact == MeteredSpec => []FlatRateBillsTotal
PROOF
  <1>1. TypeInv /\ MeterInv => FlatRateBillsTotal
    <2> SUFFICES ASSUME TypeInv, MeterInv, NEW r \in Requests, bill[r].cost # NoCost,
                        NEW pair \in MostSpecific(taken[r].pricing, Provider(r)),
                        OneRate(taken[r].pricing[pair]),
                        Some(bill[r].usage["cached_input"]) <= Some(bill[r].usage["input"])
                 PROVE  bill[r].cost.amount =
                          (Some(bill[r].usage["input"]) + Some(bill[r].usage["output"])
                             + Some(bill[r].usage["cache_read"])
                             + Some(bill[r].usage["cache_write"]))
                            * taken[r].pricing[pair].input
      BY DEF FlatRateBillsTotal
    <2> DEFINE pricing == taken[r].pricing
               usage == bill[r].usage
    <2>1. IsPricing(pricing)
      BY SnapshotHasPricing
    <2>2. /\ usage \in TokenUsage
          /\ bill[r].cost = CalculateCost(pricing, Provider(r), UpstreamModel[Provider(r)], usage)
      BY DEF MeterInv, Billed
    <2> HIDE DEF usage, pricing
    <2>3. bill[r].cost.amount = CostUnder(usage, pricing[pair])
      BY <2>1, <2>2, RuleIsTheMostSpecific DEF pricing
    <2>4. pricing[pair] \in Rule
      BY <2>1 DEF MostSpecific, Candidates, IsPricing, pricing
    <2> QED  BY <2>2, <2>3, <2>4, OneRateOnTotal DEF usage, pricing
  <1> QED  BY <1>1, MeteredInvariant, PTL
=============================================================================
