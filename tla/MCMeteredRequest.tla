--------------------------- MODULE MCMeteredRequest ---------------------------
(* A small instance: a chain with a hop to skip and one on another protocol, *)
(* what may replace it while the request is in flight, and the bodies its    *)
(* providers answer with.  One request, at either protocol's endpoint.       *)
EXTENDS MeteredRequest, TLC

CONSTANTS a, b, broken, other, r1, r2, k1, m, m2, start, delta, closing, hit, noise

ProtocolTable ==
  [x \in Providers \cup Requests |-> IF x \in {other, r2} THEN "anthropic" ELSE "openai"]
OneKey == [r \in Requests |-> k1]
ModelTable == [p \in Providers |-> IF p = b THEN m2 ELSE m]

Usage(object) == [usage |-> object]
PayloadTable ==
  start :> [message |-> [input_tokens |-> 3, cache_read_input_tokens |-> 2],
            usage |-> [output_tokens |-> 1]]
    @@ delta :> Usage([prompt_tokens |-> 2, completion_tokens |-> 1,
                       output_tokens |-> 2, total_tokens |-> 4])
    @@ closing :> Usage(("prompt_tokens" :> 4) @@ ("completion_tokens" :> 1)
                       @@ ("details.cached_tokens" :> 3) @@ ("input_tokens" :> -1))
    @@ hit :> Usage("details.cached_tokens" :> 1)
    @@ noise :> <<>>

SomeStreams ==
  {WithNewline(start) \o Line(delta), WithNewline(closing) \o WithNewline(noise),
   WithNewline(delta) \o Line(closing), <<Newline>> \o Line(hit)}

Rate(rate, name) ==
  [input |-> rate, output |-> rate, cached_input |-> rate, cache_read |-> rate,
   cache_write |-> rate, source |-> name]
Uncached(rule) == [rule EXCEPT !.cached_input = None, !.cache_read = None]
Wild == <<Wildcard, Wildcard>> :> Rate(2, "wild")
Priced == Wild @@ <<Wildcard, m>> :> [Rate(4, "model") EXCEPT !.output = 5]
               @@ <<b, Wildcard>> :> Rate(3, "provider")
               @@ <<Wildcard, m2>> :> Uncached(Rate(4, "second"))

Serving(deployments, max_attempts, pricing) ==
  [deployments |-> deployments, api_keys |-> {k1}, allowed |-> {k1},
   enabled |-> TRUE, retryable |-> {429, 529}, max_attempts |-> max_attempts,
   pricing |-> pricing]
Primary == Serving(<<a, broken, other, b>>, 2, Priced)

SomeSnapshots ==
  {Primary,
   Serving(<<b, a>>, 3, Wild),
   [Serving(<<b, broken>>, 1, <<b, m2>> :> Uncached(Rate(1, "exact")))
      EXCEPT !.retryable = {429}],
   Serving(<<other>>, 2, <<>>),
   [Primary EXCEPT !.api_keys = {}],
   [Primary EXCEPT !.allowed = {}],
   [Primary EXCEPT !.enabled = FALSE]}

(* Only one of the requests ever arrives.                                  *)
OneArrives == \E r \in Requests : \A q \in Requests \ {r} : step'[q] = "start"
MCSpec ==
  /\ MeteredInit
  /\ [][MeteredNext /\ OneArrives]_meteredVars
  /\ \A r \in Requests : WF_meteredVars(MeteredProceed(r))
=============================================================================
