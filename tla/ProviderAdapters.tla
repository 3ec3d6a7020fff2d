-------------------------- MODULE ProviderAdapters --------------------------
(***************************************************************************)
(* The four triage providers and what the ladder makes of one call: which  *)
(* exception an answer of the network becomes in each adapter, which of    *)
(* them classify calls retryable, and the verdict that comes out.  Time,   *)
(* the cache and the records of a call are in TriageLadder; here a call is *)
(* the sequence of answers its attempts meet, of one attempt and a retry.  *)
(***************************************************************************)
EXTENDS RuleTriage

CONSTANTS
    Codes,        \* HTTP status codes other than 200 a provider answers with
    Confidences,  \* the confidences its verdicts carry, in hundredths
    Floor         \* triage_min_confidence, in hundredths

ASSUME AdaptersAssumption ==
    Codes \subseteq Nat /\ Confidences \subseteq 0 .. 100 /\ Floor \in Nat

Settings == {"llm", "ollama", "rules", "simulated"}

\* What the HTTP client of an adapter meets: no connection (refused, or none
\* within 2 s), one that breaks off, silence until the attempt's timeout, an
\* error status, or a 200 with a body, which is a verdict, a verdict in a
\* code fence, or neither.
Broken == {"no_list", "empty_list", "blank", "prose", "bad_enum", "overlong"}

Reply(kind, code, body, confidence) ==
    [kind |-> kind, code |-> code, body |-> body, confidence |-> confidence]

Failure(kind) == Reply(kind, 0, "none", 0)
Status(code) == Reply("status", code, "none", 0)
Body(body) == Reply("status", 200, body, 0)
Sound(confidence) == Reply("status", 200, "sound", confidence)
Fenced(confidence) == Reply("status", 200, "fenced", confidence)

Connections == {Failure(k) : k \in {"refused", "no_connection"}}
Replies == Connections \cup {Failure(k) : k \in {"dropped", "silent"}}
             \cup {Status(c) : c \in Codes} \cup {Body(b) : b \in Broken}
             \cup {Sound(n) : n \in Confidences} \cup {Fenced(n) : n \in Confidences}

FailureMode == {"none", "raise", "timeout", "malformed", "rate_limit",
    "server_error", "bad_enum", "overlong_summary", "low_confidence",
    "injection_obey"}

\* What the simulation meets: its mode, and the confidence it draws in the two
\* modes that return a verdict, 0 in the others.  It is seeded with the text,
\* so that a retry draws the same.
Draws(mode) ==
    CASE mode = "none" -> 50 .. 95
      [] mode = "low_confidence" -> 0 .. 34
      [] OTHER -> {0}

Simulations == UNION {{[mode |-> m, drawn |-> n] : n \in Draws(m)} : m \in FailureMode}

-----------------------------------------------------------------------------
(* One call of a provider returns a verdict or raises.                     *)

\* A TriageResult off the wire; extra keys are ignored.
Labels(confidence) == [category |-> "roads", priority |-> "high",
                       summary |-> SUMMARY_MAX, confidence |-> confidence]

Returns(verdict) == [class |-> "none", status |-> 0, verdict |-> verdict]
Raises(class, status) == [class |-> class, status |-> status,
                          verdict |-> Labels(0)]

Validated(reply, class) ==
    IF reply.body = "sound" THEN Returns(Labels(reply.confidence))
    ELSE Raises(class, 0)

\* The openai client wraps what httpx raises; its errors of a status share
\* one base class.  A missing list of choices is a TypeError of the adapter.
LLMTriage(reply) ==
    CASE reply.kind = "silent" -> Raises("TimeoutError", 0)
      [] reply.kind = "no_connection" -> Raises("APITimeoutError", 0)
      [] reply.kind \in {"refused", "dropped"} ->
            Raises("APIConnectionError", 0)
      [] reply.kind = "status" /\ reply.body = "none" ->
            Raises("APIStatusError", reply.code)
      [] reply.body = "no_list" -> Raises("TypeError", 0)
      [] reply.body = "fenced" -> Returns(Labels(reply.confidence))
      [] OTHER -> Validated(reply, "LLMValidationError")

Transient(status) == status = 429 \/ status \in 500 .. 599

\* Mutant of OllamaTriage: a 429 is wrapped like any other 4xx.
OllamaWraps429(reply) ==
    IF reply.code = 429 THEN Raises("OllamaValidationError", 0)
    ELSE CASE reply.kind = "silent" -> Raises("TimeoutError", 0)
           [] reply.kind = "no_connection" -> Raises("TimeoutException", 0)
           [] reply.kind = "refused" -> Raises("ConnectError", 0)
           [] reply.kind = "dropped" -> Raises("RemoteProtocolError", 0)
           [] Transient(reply.code) -> Raises("HTTPStatusError", reply.code)
           [] OTHER -> Validated(reply, "OllamaValidationError")

OllamaTriage(reply) ==
    CASE reply.kind = "silent" -> Raises("TimeoutError", 0)
      [] reply.kind = "no_connection" -> Raises("TimeoutException", 0)
      [] reply.kind = "refused" -> Raises("ConnectError", 0)
      [] reply.kind = "dropped" -> Raises("RemoteProtocolError", 0)
      [] Transient(reply.code) -> Raises("HTTPStatusError", reply.code)
      [] OTHER -> Validated(reply, "OllamaValidationError")

\* The random labels of the simulation are those of any sound answer.
SimulatedTriage(met) ==
    CASE met.mode \in {"none", "low_confidence"} -> Returns(Labels(met.drawn))
      [] met.mode = "raise" -> Raises("RuntimeError", 0)
      [] met.mode = "timeout" -> Raises("TimeoutError", 0)
      [] met.mode = "rate_limit" -> Raises("SimulatedRateLimitError", 0)
      [] met.mode = "server_error" -> Raises("SimulatedServerError", 0)
      [] met.mode = "malformed" -> Raises("SimulatedMalformedResponseError", 0)
      [] OTHER -> Raises("SimulatedValidationError", 0)

\* The provider the factory builds, called with what it meets: a reply, a mode
\* and what it draws, or for the rules the text.
build_triage_provider(setting, met) ==
    CASE setting = "llm" -> LLMTriage(met)
      [] setting = "ollama" -> OllamaTriage(met)
      [] setting = "simulated" -> SimulatedTriage(met)
      [] setting = "rules" -> Returns(RuleVerdict(met.text, met.first))

-----------------------------------------------------------------------------
(* The ladder's reaction.                                                  *)

RETRYABLE == {"TimeoutError", "TimeoutException", "ConnectError",
              "SimulatedRateLimitError", "SimulatedServerError"}

\* Mutant of classify: only the server's errors are transient.
Classify5xx(exc) ==
    IF exc.class \in {"APIStatusError", "HTTPStatusError"}
    THEN exc.status \in 500 .. 599
    ELSE exc.class \in RETRYABLE

\* TRUE for "retryable".  Whatever is unknown is not.
classify(exc) ==
    IF exc.class \in {"APIStatusError", "HTTPStatusError"}
    THEN Transient(exc.status)
    ELSE exc.class \in RETRYABLE

Postvalidated(raw) ==
    IF raw.confidence < Floor
    THEN [raw EXCEPT !.category = "other", !.priority = "normal"]
    ELSE raw

Outcome(verdict, fallback, attempts) ==
    [verdict |-> verdict, fallback |-> fallback, attempts |-> attempts]

\* triage_with_fallback on a miss, its attempts meeting met[1] and met[2].
LadderOutcome(setting, met, rules) ==
    LET got == [i \in 1 .. 2 |-> build_triage_provider(setting, met[i])]
        last == IF got[1].class # "none" /\ classify(got[1]) THEN 2 ELSE 1
    IN  IF got[last].class = "none"
        THEN Outcome(Postvalidated(got[last].verdict), FALSE, last)
        ELSE Outcome(rules, TRUE, last)
=============================================================================
