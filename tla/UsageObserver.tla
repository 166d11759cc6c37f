---------------------------- MODULE UsageObserver ----------------------------
(***************************************************************************)
(* How token usage is read out of a provider's answer (usage/observer.rs,  *)
(* usage/parse.rs, domain/token.rs): from the JSON of a plain body, or     *)
(* from the lines of an event stream that arrives in chunks cut anywhere.  *)
(*                                                                         *)
(* A stream is a sequence of bytes.  A byte is a newline or one of the     *)
(* pieces of an event, so that an event is all of its pieces in order, a   *)
(* cut may fall inside of it, and any other line is one that does not      *)
(* parse.  What the JSON of an event holds is a set of usage objects.      *)
(***************************************************************************)
EXTENDS Integers, SequencesExt

CONSTANTS
  Events,      \* `data:` lines, those without JSON or usage included
  Payload      \* Payload[e]: the usage objects of event e, by where they are

(* Option::None of a count, which is never negative.                       *)
None == -1
Counts == {"input", "output", "cached_input", "cache_read", "cache_write", "total"}
TokenUsage == [Counts -> Int]
NoTokens == [c \in Counts |-> None]

(* A usage object is what it says under the keys it has; Payload[e] has one*)
(* at "usage", at "message", at both, or at neither.                       *)
ASSUME PayloadAssumption ==
  \A e \in Events :
    /\ DOMAIN Payload[e] \subseteq {"usage", "message"}
    /\ \A at \in DOMAIN Payload[e] : \A key \in DOMAIN Payload[e][at] : Payload[e][at][key] \in Int

-----------------------------------------------------------------------------
(* domain/token.rs.                                                        *)

HasTokens(usage) == \E c \in Counts : usage[c] # None

MergeFrom(usage, other) ==
  [c \in Counts |-> IF other[c] # None THEN other[c] ELSE usage[c]]

(* cached_input is part of input; the cache counts of Anthropic are not.   *)
Components == {"input", "output", "cache_read", "cache_write"}
Some(count) == IF count = None THEN 0 ELSE count
EnsureTotal(usage) ==
  [c \in Counts |->
     IF c # "total" \/ usage["total"] # None \/ \A p \in Components : usage[p] = None
       THEN usage[c]
       ELSE Some(usage["input"]) + Some(usage["output"])
              + Some(usage["cache_read"]) + Some(usage["cache_write"])]

-----------------------------------------------------------------------------
(* usage/parse.rs.  The keys are named for where they are.                 *)

Number(object, key) ==
  IF key \in DOMAIN object /\ object[key] >= 0 THEN object[key] ELSE None

ParseOpenAi(object) ==
  [NoTokens EXCEPT !["input"] = Number(object, "prompt_tokens"),
                   !["output"] = Number(object, "completion_tokens"),
                   !["total"] = Number(object, "total_tokens"),
                   !["cached_input"] = Number(object, "details.cached_tokens")]

ParseAnthropic(object) ==
  [NoTokens EXCEPT !["input"] = Number(object, "input_tokens"),
                   !["output"] = Number(object, "output_tokens"),
                   !["cache_write"] = Number(object, "cache_creation_input_tokens"),
                   !["cache_read"] = Number(object, "cache_read_input_tokens")]

(* NoTokens stands for the None both parsers return without a count.       *)
ParseAt(protocol, e, at) ==
  IF at \notin DOMAIN Payload[e] THEN NoTokens
  ELSE IF protocol = "openai" THEN ParseOpenAi(Payload[e][at])
  ELSE ParseAnthropic(Payload[e][at])

ParseNonStreaming(protocol, e) == ParseAt(protocol, e, "usage")

(* Anthropic's message_start carries its usage inside the message.         *)
ParseEvent(protocol, e) ==
  IF protocol = "anthropic" /\ HasTokens(ParseAt(protocol, e, "message"))
    THEN ParseAt(protocol, e, "message")
    ELSE ParseAt(protocol, e, "usage")

-----------------------------------------------------------------------------
(* Bytes and lines.                                                        *)

Newline == [event |-> "newline", piece |-> 0]
Pieces == 2
Line(e) == [i \in 1 .. Pieces |-> [event |-> e, piece |-> i]]
WithNewline(e) == Append(Line(e), Newline)
Bytes == {Newline} \cup [event: Events, piece: 1 .. Pieces]

(* What a line, its newline trimmed, says about the usage.                 *)
ParseLine(protocol, line) ==
  IF \E e \in Events : line = Line(e)
    THEN ParseEvent(protocol, CHOOSE e \in Events : line = Line(e))
    ELSE NoTokens

-----------------------------------------------------------------------------
(* usage/observer.rs.                                                      *)

NewObserver == [buffer |-> <<>>, usage |-> NoTokens, seen |-> FALSE]

ConsumeLine(protocol, observer, line) ==
  LET parsed == ParseLine(protocol, line)
  IN  IF ~HasTokens(parsed) THEN observer
      ELSE [observer EXCEPT !.usage = MergeFrom(@, parsed), !.seen = TRUE]

Newlines(bytes) == {i \in DOMAIN bytes : bytes[i] = Newline}
LineBefore(bytes, i) ==
  SubSeq(bytes, Max({0} \cup {j \in Newlines(bytes) : j < i}) + 1, i - 1)
AfterLastLine(bytes) ==
  SubSeq(bytes, Max({0} \cup Newlines(bytes)) + 1, Len(bytes))

(* The complete lines are consumed in order; the rest waits.               *)
ConsumeLines(protocol, observer, bytes) ==
  LET after[n \in 0 .. Len(bytes)] ==
        IF n = 0 THEN observer
        ELSE IF bytes[n] = Newline
          THEN ConsumeLine(protocol, after[n - 1], LineBefore(bytes, n))
          ELSE after[n - 1]
  IN  after[Len(bytes)]
FeedTo(protocol, observer, bytes, rest) ==
  [ConsumeLines(protocol, observer, bytes) EXCEPT !.buffer = rest]
FeedChunkOnly(protocol, observer, chunk) ==
  FeedTo(protocol, observer, chunk, AfterLastLine(chunk))
Feed(protocol, observer, chunk) ==
  LET bytes == observer.buffer \o chunk
  IN  FeedTo(protocol, observer, bytes, AfterLastLine(bytes))

(* The last line may have no newline.                                      *)
Finish(protocol, observer) ==
  IF observer.buffer = <<>> THEN observer
  ELSE [ConsumeLine(protocol, observer, observer.buffer) EXCEPT !.buffer = <<>>]
=============================================================================
