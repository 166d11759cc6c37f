--------------------------- MODULE MeteredRequest ---------------------------
(***************************************************************************)
(* A proxied request with its meter: the body that is forwarded is watched *)
(* for token usage on its way to the client, chunk by chunk if it is a     *)
(* stream, and when it is complete the usage is priced by the snapshot the *)
(* request started with and recorded (proxy/router.rs:640-850).            *)
(*                                                                         *)
(* A snapshot has a field `pricing`.  A deployment's upstream_model is     *)
(* that of its provider, since the request is for one model.               *)
(***************************************************************************)
EXTENDS ProxyRequest, Pricing

CONSTANTS
  UpstreamModel,
  Streams         \* event streams a provider may answer with

ASSUME PricingAssumption == \A s \in Snapshots : IsPricing(s.pricing)
ASSUME StreamsAssumption == Streams \subseteq Seq(Bytes)

VARIABLES
  body,       \* the stream being forwarded
  at,         \* how much of it was
  observer,   \* the stream's UsageObserver
  bill        \* the usage record of the request

meterVars == <<body, at, observer, bill>>
meteredVars == <<vars, meterVars>>

NoBill == [usage |-> NoTokens, cost |-> NoCost, source |-> "none"]
Speaks(r) == ProtocolOf[Provider(r)]

MeteredInit ==
  /\ Init
  /\ body = [r \in Requests |-> <<>>]
  /\ at = [r \in Requests |-> 0]
  /\ observer = [r \in Requests |-> NewObserver]
  /\ bill = [r \in Requests |-> NoBill]

-----------------------------------------------------------------------------
(* record_usage: the cost is None without usage or without a price.        *)
RecordUsage(r, source, usage) ==
  bill' = [bill EXCEPT ![r] =
    [usage |-> EnsureTotal(usage),
     cost |-> CalculateCost(taken[r].pricing, Provider(r), UpstreamModel[Provider(r)],
                            EnsureTotal(usage)),
     source |-> IF HasTokens(usage) THEN source ELSE "unavailable"]]

(* usage_observed_stream wraps the body of an answer that streams.         *)
MeteredSend(r) ==
  /\ Send(r)
  /\ IF step'[r] = "stream"
       THEN \E stream \in Streams : body' = [body EXCEPT ![r] = stream]
       ELSE UNCHANGED body
  /\ UNCHANGED <<at, observer, bill>>

(* The next chunk, of any length, is fed and yielded.                      *)
Chunk(r) ==
  /\ step[r] = "stream"
  /\ \E n \in 1 .. Len(body[r]) - at[r] :
       /\ at' = [at EXCEPT ![r] = @ + n]
       /\ observer' = [observer EXCEPT ![r] =
            Feed(Speaks(r), @, SubSeq(body[r], at[r] + 1, at[r] + n))]
  /\ UNCHANGED <<vars, body, bill>>

StreamEndsAnywhere(r) ==
  /\ EndStream(r) /\ recorded' # recorded
  /\ LET usage == Finish(Speaks(r), observer[r]).usage IN
       RecordUsage(r, "stream_summary", usage)
  /\ observer' = [observer EXCEPT ![r] = NewObserver]
  /\ UNCHANGED <<body, at>>
StreamEnds(r) ==
  /\ at[r] = Len(body[r])
  /\ EndStream(r) /\ recorded' # recorded
  /\ LET usage == Finish(Speaks(r), observer[r]).usage IN
       RecordUsage(r, "stream_summary", usage)
  /\ observer' = [observer EXCEPT ![r] = NewObserver]
  /\ UNCHANGED <<body, at>>

(* The provider's stream breaks: the error is passed on, nothing recorded. *)
StreamBreaks(r) ==
  /\ EndStream(r) /\ recorded' = recorded
  /\ UNCHANGED meterVars

(* A body that is not a stream is one JSON value, of any event's usage.    *)
MeteredReadBody(r) ==
  /\ ReadBody(r)
  /\ IF recorded' # recorded
       THEN \E e \in Events :
              RecordUsage(r, "provider_response", ParseNonStreaming(Speaks(r), e))
       ELSE UNCHANGED bill
  /\ UNCHANGED <<body, at, observer>>

-----------------------------------------------------------------------------
MeteredAdmit(r) == Admit(r) /\ UNCHANGED meterVars
MeteredProceed(r) == Proceed(r) /\ UNCHANGED meterVars

MeteredNext ==
  \/ Swap /\ UNCHANGED meterVars
  \/ \E r \in Requests :
       \/ MeteredAdmit(r) \/ MeteredProceed(r) \/ MeteredSend(r) \/ MeteredReadBody(r)
       \/ Chunk(r) \/ StreamEnds(r) \/ StreamBreaks(r)
       \/ Disconnect(r) /\ UNCHANGED meterVars

MeteredSpec == MeteredInit /\ [][MeteredNext]_meteredVars

(* As in ProxyRequest: that a request or a stream goes on is not assumed.  *)
MeteredFairSpec ==
  MeteredSpec /\ \A r \in Requests : WF_meteredVars(MeteredProceed(r))

-----------------------------------------------------------------------------
(* Properties.                                                             *)

(* The reference: a line is a stretch without newlines that reaches from   *)
(* one, or the start, to one, or the end.                                  *)
IsLine(bytes, i, j) ==
  /\ \A k \in i .. j : bytes[k] # Newline
  /\ i = 1 \/ bytes[i - 1] = Newline
  /\ j = Len(bytes) \/ bytes[j + 1] = Newline
LinesWith(protocol, bytes, c) ==
  {l \in (DOMAIN bytes) \X (DOMAIN bytes) :
     /\ l[1] <= l[2] /\ IsLine(bytes, l[1], l[2])
     /\ ParseLine(protocol, SubSeq(bytes, l[1], l[2]))[c] # None}
LastReported(protocol, bytes, c) ==
  LET lines == LinesWith(protocol, bytes, c)
      last == CHOOSE l \in lines : \A k \in lines : k[1] <= l[1]
  IN  IF lines = {} THEN None ELSE ParseLine(protocol, SubSeq(bytes, last[1], last[2]))[c]

(* What is recorded of a stream is, for each kind of token, the last count *)
(* any of its lines reports, the unterminated one included, however the    *)
(* stream was cut into chunks (observer.rs:28-43); the total is that of    *)
(* the parts unless it was reported, and none without a part               *)
(* (domain/token.rs:31-48).                                                *)
MeteredAsWhole(protocol, bytes, usage) ==
  LET reported(c) == LastReported(protocol, bytes, c) IN
  /\ \A c \in Counts \ {"total"} : usage[c] = reported(c)
  /\ \/ reported("total") # None /\ usage["total"] = reported("total")
     \/ /\ \A c \in Components \cup {"total"} : reported(c) = None
        /\ usage["total"] = None
     \/ /\ reported("total") = None /\ \E c \in Components : reported(c) # None
        /\ usage["total"] = Some(reported("input")) + Some(reported("output"))
                              + Some(reported("cache_read")) + Some(reported("cache_write"))
StreamIsMeteredAsWhole ==
  \A r \in Requests : recorded[r] = 1 /\ body[r] # <<>> =>
    MeteredAsWhole(Speaks(r), body[r], bill[r].usage)

(* A request is recorded at most once, only for an answer the client was   *)
(* given to its end: failed hops, broken bodies and broken or abandoned    *)
(* streams never bill the key (router.rs:652-719, 805-833).  The record    *)
(* says "unavailable" exactly when no usage was reported (router.rs:742).  *)
BillMatchesRecord ==
  \A r \in Requests :
    /\ recorded[r] <= 1
    /\ recorded[r] = 1 => answer[r].from # "gateway"
    /\ bill[r].source # "none" <=> recorded[r] = 1
    /\ bill[r].source \in {"none", "unavailable"} <=> ~HasTokens(bill[r].usage)
    /\ recorded[r] = 1 => step[r] = "answered" /\ at[r] = Len(body[r])

(* An answer is priced by the rule for its provider and model, else by the *)
(* provider's, else by the model's, else by the general one, of the        *)
(* snapshot the request started with (pricing-management/spec.md:7,        *)
(* config-hot-reload/spec.md:18-21).                                       *)
Stands(pattern, name) == pattern \in {name, Wildcard}
NoMoreSpecific(pair, other) ==
  \/ pair[1] # Wildcard /\ other[1] = Wildcard
  \/ pair[1] = other[1] /\ (pair[2] # Wildcard \/ other[2] = Wildcard)
Candidates(pricing, p) ==
  {pair \in DOMAIN pricing : Stands(pair[1], p) /\ Stands(pair[2], UpstreamModel[p])}
MostSpecific(pricing, p) ==
  {pair \in Candidates(pricing, p) :
     \A other \in Candidates(pricing, p) : NoMoreSpecific(pair, other)}
PricedByMostSpecificRule ==
  \A r \in Requests : bill[r].cost # NoCost =>
    \E pair \in MostSpecific(taken[r].pricing, Provider(r)) :
      bill[r].cost.source = taken[r].pricing[pair].source

(* Where that rule has one rate for all classes, each token of the total   *)
(* is billed once: cached input is not billed as input again, cache reads  *)
(* and writes are billed on top of it (pricing/calc.rs:38-55).             *)
OneRate(rule) ==
  {rule.input, rule.output, rule.cached_input, rule.cache_read, rule.cache_write} = {rule.input}
FlatRateBillsTotal ==
  \A r \in Requests : bill[r].cost # NoCost =>
    \A pair \in MostSpecific(taken[r].pricing, Provider(r)) :
      LET rule == taken[r].pricing[pair]
          count(c) == Some(bill[r].usage[c])
      IN  OneRate(rule) /\ count("cached_input") <= count("input") =>
            bill[r].cost.amount =
              (count("input") + count("output") + count("cache_read") + count("cache_write"))
                * rule.input
=============================================================================
