--------------------------- MODULE DecisionsProofs ---------------------------
(***************************************************************************)
(* Proofs about Decisions: what the runs check for a few texts, headers,   *)
(* lists, repositories, status codes and times holds for all of them.      *)
(*                                                                         *)
(* A property of Decisions speaks of one call, so it is inductive as it    *)
(* stands; each proof is in what the call computes.  DecisionLemmas has    *)
(* the facts about its operators.                                          *)
(***************************************************************************)
EXTENDS DecisionLemmas

\* A result is that of the call it was asked for.
LEMMA Named ==
    ASSUME NEW of, NEW in, NEW out, Returned(of, in, out)
    PROVE  call' = [of |-> of, in |-> in, out |-> out] /\ call'.of = of
BY DEF Returned

\* Which call leaves which result.
LEMMA CallsNamed ==
    ASSUME Next
    PROVE  /\ call'.of = "rules" => AskRules
           /\ call'.of = "ladder" => AskProvider
           /\ call'.of = "prompt" => BuildPrompt
           /\ call'.of = "edge" => AnswerRequest
           /\ call'.of = "429" => RefuseRequest
           /\ call'.of = "address" => ResolveAddress
           /\ call'.of = "pages" => ListPages
           /\ call'.of = "form" => SubmitForm
           /\ call'.of = "check" => CheckSubmission
<1>1. AskRules => call'.of = "rules"
  BY Named DEF AskRules
<1>2. AskProvider => call'.of = "ladder"
  BY Named DEF AskProvider
<1>3. BuildPrompt => call'.of = "prompt"
  BY Named DEF BuildPrompt
<1>4. AnswerRequest => call'.of = "edge"
  BY Named DEF AnswerRequest
<1>5. RefuseRequest => call'.of = "429"
  BY Named DEF RefuseRequest
<1>6. ResolveAddress => call'.of = "address"
  BY Named DEF ResolveAddress
<1>7. ListPages => call'.of = "pages"
  BY Named DEF ListPages
<1>8. SubmitForm => call'.of = "form"
  BY Named DEF SubmitForm
<1>9. CheckSubmission => call'.of = "check"
  BY Named DEF CheckSubmission
<1>10. NextCall => call'.of = "none"
  BY DEF NextCall
<1>11. QED
  BY <1>1, <1>2, <1>3, <1>4, <1>5, <1>6, <1>7, <1>8, <1>9, <1>10 DEF Next

-----------------------------------------------------------------------------

\* The Retry-After and the reset of a 429, for any time left of the window
\* and any time of the clock.
LEMMA WaitIsHonest ==
    ASSUME NEW left \in Nat \ {0}, NEW now \in Nat
    PROVE  LET told == rate_limited_response(left, now)
           IN  /\ told.retry_after >= 1
               /\ 4 * told.retry_after \in left - 2 .. left + 3
               /\ 4 * told.reset \in now + left - 5 .. now + left + 3
BY DEF rate_limited_response, RedisTTL, AtLeastOne

\* ratelimit.py: whatever is left of a window, of any length, a client that
\* waits as it is told comes back at most half a second early.
THEOREM HonestRetryAfter == Spec => []RetryAfterHonest
<1>1. Init => RetryAfterHonest
  BY DEF Init, RetryAfterHonest
<1>2. RetryAfterHonest /\ [Next]_call => RetryAfterHonest'
  <2> SUFFICES ASSUME RetryAfterHonest, [Next]_call PROVE RetryAfterHonest'
    OBVIOUS
  <2>1. CASE RefuseRequest
    <3>1. PICK left \in 1 .. MaxLeft, now \in 0 .. MaxClock :
             call' = [of |-> "429", in |-> [left |-> left, now |-> now],
                      out |-> rate_limited_response(left, now)]
      BY <2>1 DEF RefuseRequest, Returned
    <3>2. left \in Nat \ {0} /\ now \in Nat
      OBVIOUS
    <3>3. QED
      BY <3>1, <3>2, WaitIsHonest DEF RetryAfterHonest
  <2>2. CASE Next /\ ~RefuseRequest
    BY <2>2, CallsNamed DEF RetryAfterHonest
  <2>3. CASE UNCHANGED call
    BY <2>3 DEF RetryAfterHonest
  <2>4. QED
    BY <2>1, <2>2, <2>3
<1>3. QED
  BY <1>1, <1>2, PTL DEF Spec

-----------------------------------------------------------------------------

\* What the two adapters make of one reply: the same verdict, or failures of
\* the same class to the ladder; but for the replies that they tell apart.
LEMMA RepliesCompared ==
    ASSUME NEW reply \in Replies
    PROVE  LET one == LLMTriage(reply)
               other == OllamaTriage(reply)
               fenced == reply.body = "fenced"
           IN  /\ other.class = "none" <=> reply.body = "sound"
               /\ reply \in Connections =>
                     /\ one.class # "none" /\ ~classify(one)
                     /\ other.class # "none" /\ classify(other)
                     /\ ~fenced
               /\ fenced => /\ one.class = "none"
                            /\ other.class # "none" /\ ~classify(other)
               /\ reply \notin Connections /\ ~fenced =>
                     /\ one.class = "none" <=> other.class = "none"
                     /\ one.class = "none" => one.verdict = other.verdict
                     /\ one.class # "none" => (classify(one) <=> classify(other))
<1> USE DEF LLMTriage, OllamaTriage, Validated, classify, RETRYABLE, Raises, Returns
<1>1. CASE reply = Failure("refused") \/ reply = Failure("no_connection")
  <2>1. /\ reply.kind \in {"refused", "no_connection"} /\ reply.body = "none"
        /\ ~Transient(reply.code) /\ reply \in Connections
    BY <1>1 DEF Failure, Reply, Transient, Connections
  <2>2. QED
    BY <2>1
<1>2. CASE reply = Failure("dropped") \/ reply = Failure("silent")
  <2>1. /\ reply.kind \in {"dropped", "silent"} /\ reply.body = "none"
        /\ ~Transient(reply.code) /\ reply \notin Connections
    BY <1>2 DEF Failure, Reply, Transient, Connections
  <2>2. QED
    BY <2>1
<1>3. CASE \E c \in Codes : reply = Status(c)
  <2>1. PICK c \in Codes : reply = Status(c)
    BY <1>3
  <2>2. /\ reply.kind = "status" /\ reply.body = "none" /\ reply.code = c
        /\ reply \notin Connections
    BY <2>1 DEF Status, Failure, Reply, Connections
  <2>3. CASE Transient(c)
    BY <2>2, <2>3
  <2>4. CASE ~Transient(c)
    BY <2>2, <2>4
  <2>5. QED
    BY <2>3, <2>4
<1>4. CASE \E b \in Broken : reply = Body(b)
  <2>1. PICK b \in Broken : reply = Body(b)
    BY <1>4
  <2>2. /\ ~Transient(reply.code) /\ reply.kind = "status" /\ reply.body = b
        /\ reply \notin Connections
    BY <2>1 DEF Body, Failure, Reply, Transient, Connections
  <2>3. b \notin {"none", "sound", "fenced"}
    BY DEF Broken
  <2>4. CASE b = "no_list"
    BY <2>2, <2>4
  <2>5. CASE b # "no_list"
    BY <2>2, <2>3, <2>5
  <2>6. QED
    BY <2>4, <2>5
<1>5. CASE \E n \in Confidences : reply = Sound(n)
  <2>1. /\ ~Transient(reply.code) /\ reply.kind = "status" /\ reply.body = "sound"
        /\ reply \notin Connections
    BY <1>5 DEF Sound, Failure, Reply, Transient, Connections
  <2>2. QED
    BY <2>1
<1>6. CASE \E n \in Confidences : reply = Fenced(n)
  <2>1. /\ ~Transient(reply.code) /\ reply.kind = "status" /\ reply.body = "fenced"
        /\ reply \notin Connections
    BY <1>6 DEF Fenced, Failure, Reply, Transient, Connections
  <2>2. QED
    BY <2>1
<1> HIDE DEF LLMTriage, OllamaTriage, Validated, classify, RETRYABLE, Raises, Returns
<1>7. QED
  BY <1>1, <1>2, <1>3, <1>4, <1>5, <1>6 DEF Replies, Connections

\* What the ladder makes of the results of two attempts.
LastOf(got) == IF got[1].class # "none" /\ classify(got[1]) THEN 2 ELSE 1
TakenFrom(got, rules) ==
    IF got[LastOf(got)].class = "none"
    THEN Outcome(Postvalidated(got[LastOf(got)].verdict), FALSE, LastOf(got))
    ELSE Outcome(rules, TRUE, LastOf(got))

\* It follows the first result if that is a verdict or a failure that will not
\* pass, else the second.
LEMMA TakenCases ==
    ASSUME NEW got, NEW rules
    PROVE  LET i == LastOf(got)
               out == TakenFrom(got, rules)
           IN  /\ i \in {1, 2} /\ out.attempts = i
               /\ out.fallback <=> got[i].class # "none"
               /\ out = IF got[i].class = "none"
                        THEN Outcome(Postvalidated(got[i].verdict), FALSE, i)
                        ELSE Outcome(rules, TRUE, i)
BY DEF TakenFrom, LastOf, Outcome

\* llm.py and ollama.py: for every status code and confidence a provider may
\* answer with, and every floor, two replies have the same outcome over either
\* transport, or differ as TransportsAgree says.
THEOREM TransportsAlike == Spec => []TransportsAgree
<1>1. Init => TransportsAgree
  BY DEF Init, TransportsAgree
<1>2. TransportsAgree /\ [Next]_call => TransportsAgree'
  <2> SUFFICES ASSUME TransportsAgree, [Next]_call PROVE TransportsAgree'
    OBVIOUS
  <2>1. CASE AskProvider
    <3> DEFINE rules == RuleVerdict(<<"flood">>, 1)
    <3>1. CASE \E met \in Simulations :
                 Returned("ladder",
                          [setting |-> "simulated", met |-> <<met, met>>],
                          LadderOutcome("simulated", <<met, met>>, rules))
      BY <3>1 DEF Returned, TransportsAgree
    <3>2. CASE \E setting \in {"llm", "ollama"}, met \in Replies \X Replies :
                 Returned("ladder", [setting |-> setting, met |-> met],
                          LadderOutcome(setting, met, rules))
      <4>1. PICK setting \in {"llm", "ollama"}, met \in Replies \X Replies :
               call' = [of |-> "ladder", in |-> [setting |-> setting, met |-> met],
                        out |-> LadderOutcome(setting, met, rules)]
        BY <3>2 DEF Returned
      <4> HIDE DEF rules
      <4> DEFINE llm == LadderOutcome("llm", met, rules)
                 ollama == LadderOutcome("ollama", met, rules)
                 fenced == met[llm.attempts].body = "fenced"
      <4>2. SUFFICES
              /\ met[1] \in Connections =>
                    /\ llm.fallback /\ llm.attempts = 1
                    /\ ollama.fallback <=> met[2].body # "sound"
                    /\ ollama.attempts = 2
              /\ (met[1] \notin Connections /\ fenced) =>
                    /\ ~llm.fallback /\ ollama.fallback
                    /\ ollama.attempts = llm.attempts
              /\ (met[1] \notin Connections /\ ~fenced) => llm = ollama
        <5>1. /\ call'.in.met = met /\ call'.in.setting = setting
              /\ setting = "llm" => call'.out = llm
          BY <4>1
        <5> HIDE DEF llm, ollama
        <5>2. QED
          BY <5>1, Zenon DEF TransportsAgree, rules, ollama
      <4> DEFINE one == [i \in 1 .. 2 |-> LLMTriage(met[i])]
                 other == [i \in 1 .. 2 |-> OllamaTriage(met[i])]
      <4>3. llm = TakenFrom(one, rules) /\ ollama = TakenFrom(other, rules)
        BY DEF LadderOutcome, build_triage_provider, TakenFrom, LastOf
      <4>4. \A i \in 1 .. 2 :
               /\ other[i].class = "none" <=> met[i].body = "sound"
               /\ met[i] \in Connections =>
                     /\ one[i].class # "none" /\ ~classify(one[i])
                     /\ other[i].class # "none" /\ classify(other[i])
                     /\ met[i].body # "fenced"
               /\ met[i].body = "fenced" =>
                     /\ one[i].class = "none"
                     /\ other[i].class # "none" /\ ~classify(other[i])
               /\ met[i] \notin Connections /\ met[i].body # "fenced" =>
                     /\ one[i].class = "none" <=> other[i].class = "none"
                     /\ one[i].class = "none" => one[i].verdict = other[i].verdict
                     /\ one[i].class # "none" =>
                           (classify(one[i]) <=> classify(other[i]))
        <5>1. \A i \in 1 .. 2 : met[i] \in Replies
          OBVIOUS
        <5>2. QED
          BY <5>1, RepliesCompared
      <4> HIDE DEF one, other, llm, ollama
      <4> DEFINE m == LastOf(one)
                 n == LastOf(other)
      <4>5. /\ m = IF one[1].class # "none" /\ classify(one[1]) THEN 2 ELSE 1
            /\ n = IF other[1].class # "none" /\ classify(other[1]) THEN 2 ELSE 1
            /\ m \in 1 .. 2 /\ n \in 1 .. 2
        BY DEF LastOf
      <4>6. /\ llm.attempts = m /\ (llm.fallback <=> one[m].class # "none")
            /\ llm = IF one[m].class = "none"
                     THEN Outcome(Postvalidated(one[m].verdict), FALSE, m)
                     ELSE Outcome(rules, TRUE, m)
            /\ ollama.attempts = n /\ (ollama.fallback <=> other[n].class # "none")
            /\ ollama = IF other[n].class = "none"
                        THEN Outcome(Postvalidated(other[n].verdict), FALSE, n)
                        ELSE Outcome(rules, TRUE, n)
        BY <4>3, TakenCases
      <4> HIDE DEF m, n
      <4>7. CASE met[1] \in Connections
        <5>1. m = 1 /\ n = 2 /\ one[m].class # "none"
          BY <4>4, <4>5, <4>7
        <5>2. other[2].class = "none" <=> met[2].body = "sound"
          BY <4>4
        <5>3. QED
          BY <4>6, <4>7, <5>1, <5>2
      <4>8. CASE met[1] \notin Connections
        <5>1. m = n
          <6>1. CASE met[1].body = "fenced"
            BY <4>4, <4>5, <6>1
          <6>2. CASE met[1].body # "fenced"
            BY <4>4, <4>5, <4>8, <6>2
          <6>3. QED
            BY <6>1, <6>2
        <5>2. CASE met[m].body = "fenced"
          <6>1. one[m].class = "none" /\ other[m].class # "none"
            BY <4>4, <4>5, <5>2
          <6>2. QED
            BY <4>6, <4>8, <5>1, <5>2, <6>1
        <5>3. CASE met[m].body # "fenced"
          <6>1. /\ one[m].class = "none" <=> other[m].class = "none"
                /\ one[m].class = "none" => one[m].verdict = other[m].verdict
            BY <4>4, <4>5, <5>3
          <6>2. llm = ollama
            BY <4>6, <5>1, <6>1
          <6>3. QED
            BY <4>6, <4>8, <5>3, <6>2
        <5>4. QED
          BY <5>2, <5>3
      <4>9. QED
        BY <4>7, <4>8
    <3>3. QED
      BY <2>1, <3>1, <3>2 DEF AskProvider
  <2>2. CASE Next /\ ~AskProvider
    BY <2>2, CallsNamed DEF TransportsAgree
  <2>3. CASE UNCHANGED call
    BY <2>3 DEF TransportsAgree, LadderOutcome
  <2>4. QED
    BY <2>1, <2>2, <2>3
<1>3. QED
  BY <1>1, <1>2, PTL DEF Spec

-----------------------------------------------------------------------------

\* prompt.py: no text, of any length, holds a delimiter of the prompt after
\* it was sanitised, not even one that was hidden in it.
THEOREM PromptHasNoSentinel == Spec => []NoSentinelLeft
<1>1. Init => NoSentinelLeft
  BY DEF Init, NoSentinelLeft
<1>2. NoSentinelLeft /\ [Next]_call => NoSentinelLeft'
  <2> SUFFICES ASSUME NoSentinelLeft, [Next]_call PROVE NoSentinelLeft'
    OBVIOUS
  <2>1. CASE BuildPrompt
    <3>1. PICK text \in SeqsUpTo(Marks, MaxMarks) :
             call' = [of |-> "prompt", in |-> text,
                      out |-> sanitise_user_text(text)]
      BY <2>1 DEF BuildPrompt, Returned
    <3>2. text \in Seq(Marks)
      BY SeqsAreSeqs, DecisionsAssumption
    <3>3. ~HasSentinel(sanitise_user_text(text))
      BY <3>2, SanitisedHasNoSentinel
    <3>4. QED
      BY <3>1, <3>3 DEF NoSentinelLeft
  <2>2. CASE Next /\ ~BuildPrompt
    BY <2>2, CallsNamed DEF NoSentinelLeft
  <2>3. CASE UNCHANGED call
    BY <2>3 DEF NoSentinelLeft
  <2>4. QED
    BY <2>1, <2>2, <2>3
<1>3. QED
  BY <1>1, <1>2, PTL DEF Spec

\* A sequence of one.
LEMMA OneIsSeq ==
    ASSUME NEW P, NEW a \in P
    PROVE  <<a>> \in Seq(P)
OBVIOUS

\* The deployments of the model: each proxy reports an address.
LEMMA ProxiesReport ==
    ASSUME NEW P, NEW x, {"nginx", "ingress"} \subseteq P, x \notin P, NEW k \in Nat,
           NEW d \in {Compose, OverlayDev, OverlayProd}
                     \cup {[path |-> path, hops |-> Len(path)] :
                              path \in SeqsUpTo(P, k)}
    PROVE  d.path \in Seq(P) /\ \A i \in 1 .. Len(d.path) : d.path[i] # x
<1>1. d.path \in {<<"nginx">>, <<"ingress">>} \/ d.path \in SeqsUpTo(P, k)
  BY DEF Compose, OverlayDev, OverlayProd
<1>2. "nginx" \in P /\ "ingress" \in P
  OBVIOUS
<1>3. d.path \in Seq(P)
  <2>1. CASE d.path \in {<<"nginx">>, <<"ingress">>}
    <3>1. <<"nginx">> \in Seq(P) /\ <<"ingress">> \in Seq(P)
      BY <1>2, OneIsSeq, Zenon
    <3>2. QED
      BY <2>1, <3>1, Zenon
  <2>2. CASE d.path \in SeqsUpTo(P, k)
    BY <2>2, SeqsAreSeqs
  <2>3. QED
    BY <1>1, <2>1, <2>2
<1>4. QED
  BY <1>3

\* client_ip.py: whatever header the citizen sent, the key of the limiter is
\* the citizen's address where the hops are the number of proxies.
THEOREM KeyComesFromProxies == Spec => []KeyFromProxies
<1>1. Init => KeyFromProxies
  BY DEF Init, KeyFromProxies
<1>2. KeyFromProxies /\ [Next]_call => KeyFromProxies'
  <2> SUFFICES ASSUME KeyFromProxies, [Next]_call PROVE KeyFromProxies'
    OBVIOUS
  <2>1. CASE ResolveAddress
    <3> DEFINE Deployed == {Compose, OverlayDev, OverlayProd}
                  \cup {[path |-> path, hops |-> Len(path)] :
                           path \in SeqsUpTo(Proxies, MaxProxies)}
               Key(sent, d) == client_ip(Forwarded(sent, "citizen", d.path),
                                         _peer_host("citizen", d.path), d.hops)
    <3>1. PICK sent \in SeqsUpTo(Forged, MaxForged), d \in Deployed :
             Returned("address", [sent |-> sent, deployed |-> d], Key(sent, d))
      BY <2>1, Zenon DEF ResolveAddress
    <3> DEFINE S == Forged \cup Proxies \cup {"citizen"}
    <3>2. "citizen" \in S /\ Forged \subseteq S /\ Proxies \subseteq S
      BY Zenon
    <3> HIDE DEF S
    <3>3. sent \in Seq(S)
      <4>1. sent \in Seq(Forged)
        BY SeqsAreSeqs, DecisionsAssumption
      <4>2. QED
        BY <3>2, <4>1
    <3>4. d.path \in Seq(S) /\ \A i \in 1 .. Len(d.path) : d.path[i] # ""
      <4>1. MaxProxies \in Nat /\ {"nginx", "ingress"} \subseteq Proxies
        BY DecisionsAssumption
      <4>2. "" \notin Proxies
        BY DecisionsAssumption, Zenon DEF IsAddress
      <4>3. d.path \in Seq(Proxies)
        BY <4>1, <4>2, ProxiesReport, Zenon
      <4>4. \A i \in 1 .. Len(d.path) : d.path[i] # ""
        BY <4>1, <4>2, ProxiesReport, Zenon
      <4> HIDE DEF Deployed
      <4>5. d.path \in Seq(S)
        BY <3>2, <4>3
      <4>6. QED
        BY <4>4, <4>5, Zenon
    <3>5. Len(d.path) = d.hops => Key(sent, d) = "citizen"
      <4>1. "citizen" # ""
        BY Zenon
      <4>2. client_ip(Forwarded(sent, "citizen", d.path),
                      _peer_host("citizen", d.path), Len(d.path)) = "citizen"
        BY <3>2, <3>3, <3>4, <4>1, AddressIsCitizens, Zenon
      <4>3. QED
        BY <4>2, Zenon
    <3> HIDE DEF Key, Deployed
    <3>6. QED
      BY <3>1, <3>5 DEF Returned, KeyFromProxies
  <2>2. CASE Next /\ ~ResolveAddress
    BY <2>2, CallsNamed DEF KeyFromProxies
  <2>3. CASE UNCHANGED call
    BY <2>3 DEF KeyFromProxies
  <2>4. QED
    BY <2>1, <2>2, <2>3
<1>3. QED
  BY <1>1, <1>2, PTL DEF Spec
-----------------------------------------------------------------------------

\* rules.py: for any set of texts, a category is chosen only if it beats every
\* other one, in whichever order they are compared, and a word of danger makes
\* the priority high.
THEOREM ClearWinner == Spec => []ClearWinnerOnly
<1>1. Init => ClearWinnerOnly
  BY DEF Init, ClearWinnerOnly
<1>2. ClearWinnerOnly /\ [Next]_call => ClearWinnerOnly'
  <2> SUFFICES ASSUME ClearWinnerOnly, [Next]_call PROVE ClearWinnerOnly'
    OBVIOUS
  <2>1. CASE AskRules
    <3>1. PICK text \in Texts, first \in Sentences :
             call' = [of |-> "rules", in |-> [text |-> text, first |-> first],
                      out |-> RuleVerdict(text, first)]
      BY <2>1 DEF AskRules, Returned
    <3> DEFINE chosen == _score_categories(text, CategoryOrder)
    <3>2. _summarise(first) < SUMMARY_MAX /\ ~(_summarise(first) > SUMMARY_MAX)
      BY DecisionsAssumption DEF _summarise, SUMMARY_MAX
    <3>3. RuleVerdict(text, first) =
             [category |-> chosen, priority |-> _classify_priority(text, chosen),
              summary |-> _summarise(first),
              confidence |-> Confidence(MatchedTotal(text))]
      BY <3>2 DEF RuleVerdict
    <3>4. /\ call'.in.text = text /\ call'.out.category = chosen
          /\ call'.out.priority = _classify_priority(text, chosen)
          /\ call'.out.summary = _summarise(first)
      <4> HIDE DEF chosen
      <4>1. QED
        BY <3>1, <3>3
    <3>5. _has_urgency_term(text) => _classify_priority(text, chosen) = "high"
      BY DEF _classify_priority
    <3>6. /\ chosen # "other" =>
                \A c \in Range(CategoryOrder) \ {chosen} :
                    Score(text, c) < Score(text, chosen)
          /\ _score_categories(text, Reverse(CategoryOrder)) = chosen
      BY RulesChooseClearly
    <3> DEFINE Clear(t, verdict) ==
                 /\ verdict.category # "other" =>
                       \A c \in Range(CategoryOrder) \ {verdict.category} :
                           Score(t, c) < Score(t, verdict.category)
                 /\ _score_categories(t, Reverse(CategoryOrder))
                       = verdict.category
                 /\ _has_urgency_term(t) => verdict.priority = "high"
                 /\ verdict.summary < SUMMARY_MAX
    <3> HIDE DEF chosen
    <3>7. Clear(text, call'.out)
      BY <3>2, <3>4, <3>5, <3>6
    <3>8. Clear(call'.in.text, call'.out)
      <4> HIDE DEF Clear
      <4>1. QED
        BY <3>4, <3>7
    <3>9. QED
      BY <3>8 DEF ClearWinnerOnly
  <2>2. CASE Next /\ ~AskRules
    BY <2>2, CallsNamed DEF ClearWinnerOnly
  <2>3. CASE UNCHANGED call
    BY <2>3 DEF ClearWinnerOnly
  <2>4. QED
    BY <2>1, <2>2, <2>3
<1>3. QED
  BY <1>1, <1>2, PTL DEF Spec

-----------------------------------------------------------------------------

\* The ladder's outcome on an answer that it meets twice.
LEMMA OutcomeOfOne ==
    ASSUME NEW setting, NEW met, NEW rules
    PROVE  LET one == build_triage_provider(setting, met)
               last == IF one.class # "none" /\ classify(one) THEN 2 ELSE 1
           IN  LadderOutcome(setting, <<met, met>>, rules) =
                 IF one.class = "none"
                 THEN Outcome(Postvalidated(one.verdict), FALSE, last)
                 ELSE Outcome(rules, TRUE, last)
<1> DEFINE one == build_triage_provider(setting, met)
           twice == <<met, met>>
           got == [i \in 1 .. 2 |-> build_triage_provider(setting, twice[i])]
           last == IF got[1].class # "none" /\ classify(got[1]) THEN 2 ELSE 1
           Taken == IF got[last].class = "none"
                    THEN Outcome(Postvalidated(got[last].verdict), FALSE, last)
                    ELSE Outcome(rules, TRUE, last)
<1>1. twice[1] = met /\ twice[2] = met
  OBVIOUS
<1>2. LadderOutcome(setting, twice, rules) = Taken
  BY DEF LadderOutcome
<1> HIDE DEF twice
<1>3. got[1] = one /\ got[2] = one
  BY <1>1
<1> HIDE DEF got, one
<1>4. last \in {1, 2} /\ got[last] = one
  BY <1>3
<1>5. last = IF one.class # "none" /\ classify(one) THEN 2 ELSE 1
  BY <1>3
<1>6. Taken = IF one.class = "none"
              THEN Outcome(Postvalidated(one.verdict), FALSE, last)
              ELSE Outcome(rules, TRUE, last)
  <2> HIDE DEF last
  <2>1. QED
    BY <1>4
<1> HIDE DEF last, Taken
<1>7. QED
  BY <1>2, <1>5, <1>6, Zenon DEF one, twice

\* What the ladder makes of two answers alike in all it looks at.
LEMMA SameOutcome ==
    ASSUME NEW setting, NEW other, NEW met, NEW answer, NEW rules,
           LET one == build_triage_provider(setting, met)
               two == build_triage_provider(other, answer)
           IN  /\ one.class = "none" <=> two.class = "none"
               /\ one.class = "none" => one.verdict = two.verdict
               /\ classify(one) <=> classify(two)
    PROVE  LadderOutcome(setting, <<met, met>>, rules)
               = LadderOutcome(other, <<answer, answer>>, rules)
<1> DEFINE one == build_triage_provider(setting, met)
           two == build_triage_provider(other, answer)
           Attempts(got) == IF got.class # "none" /\ classify(got) THEN 2 ELSE 1
           Taken(got) ==
               IF got.class = "none"
               THEN Outcome(Postvalidated(got.verdict), FALSE, Attempts(got))
               ELSE Outcome(rules, TRUE, Attempts(got))
<1>1. /\ LadderOutcome(setting, <<met, met>>, rules) = Taken(one)
      /\ LadderOutcome(other, <<answer, answer>>, rules) = Taken(two)
  BY OutcomeOfOne, Zenon
<1> HIDE DEF one, two
<1>2. /\ one.class = "none" <=> two.class = "none"
      /\ one.class = "none" => one.verdict = two.verdict
      /\ classify(one) <=> classify(two)
  BY Zenon DEF one, two
<1>3. CASE one.class = "none"
  BY <1>1, <1>2, <1>3
<1>4. CASE one.class # "none" /\ two.class # "none"
  <2>1. Attempts(one) = Attempts(two)
    BY <1>2, <1>4
  <2> HIDE DEF Attempts
  <2>2. QED
    BY <1>1, <1>4, <2>1
<1>5. QED
  BY <1>2, <1>3, <1>4

\* What the simulation meets, and the modes it returns a verdict in.
LEMMA SimulationsTyped ==
    ASSUME NEW met \in Simulations
    PROVE  /\ met.mode \in FailureMode
           /\ met.mode = "none" => met.drawn \in 50 .. 95
           /\ met.mode = "low_confidence" => met.drawn \in 0 .. 34
<1>1. PICK mode \in FailureMode :
         met \in {[mode |-> mode, drawn |-> n] : n \in Draws(mode)}
  BY DEF Simulations
<1>2. PICK n \in Draws(mode) : met = [mode |-> mode, drawn |-> n]
  BY <1>1
<1>3. met.mode = mode /\ met.drawn = n
  BY <1>2
<1>4. QED
  BY <1>3 DEF Draws

\* A mode of the simulation and the reply it stands for; it is a verdict in
\* the two modes that draw a confidence.
LEMMA ModesAlike ==
    ASSUME NEW met \in Simulations
    PROVE  LET one == SimulatedTriage(met)
               two == LLMTriage(StandsFor(met))
           IN  /\ one.class = "none" <=> two.class = "none"
               /\ one.class = "none" => one.verdict = two.verdict
               /\ classify(one) <=> classify(two)
               /\ met.mode \in {"none", "low_confidence"} =>
                     one = Returns(Labels(met.drawn))
               /\ one.class = "none" <=> met.mode \in {"none", "low_confidence"}
<1> DEFINE reply == StandsFor(met)
<1>1. met.mode \in FailureMode
  BY SimulationsTyped
<1>2. CASE met.mode = "none"
  <2>1. /\ reply.kind = "status" /\ reply.code = 200 /\ reply.body = "sound"
        /\ reply.confidence = met.drawn
    BY <1>2 DEF StandsFor, Sound, Reply
  <2>2. SimulatedTriage(met) = Returns(Labels(met.drawn))
    BY <1>2 DEF SimulatedTriage
  <2> HIDE DEF reply
  <2>3. LLMTriage(reply) = Returns(Labels(met.drawn))
    BY <2>1 DEF LLMTriage, Validated
  <2>4. QED
    BY <1>2, <2>2, <2>3 DEF Raises, Returns, classify, RETRYABLE, Transient, reply
<1>3. CASE met.mode = "low_confidence"
  <2>1. /\ reply.kind = "status" /\ reply.code = 200 /\ reply.body = "sound"
        /\ reply.confidence = met.drawn
    BY <1>3 DEF StandsFor, Sound, Reply
  <2>2. SimulatedTriage(met) = Returns(Labels(met.drawn))
    BY <1>3 DEF SimulatedTriage
  <2> HIDE DEF reply
  <2>3. LLMTriage(reply) = Returns(Labels(met.drawn))
    BY <2>1 DEF LLMTriage, Validated
  <2>4. QED
    BY <1>3, <2>2, <2>3 DEF Raises, Returns, classify, RETRYABLE, Transient, reply
<1>4. CASE met.mode = "raise"
  <2>1. /\ reply.kind = "status" /\ reply.code = 200 /\ reply.body = "no_list"
    BY <1>4 DEF StandsFor, Body, Reply
  <2>2. SimulatedTriage(met) = Raises("RuntimeError", 0)
    BY <1>4 DEF SimulatedTriage
  <2> HIDE DEF reply
  <2>3. LLMTriage(reply) = Raises("TypeError", 0)
    BY <2>1 DEF LLMTriage, Validated
  <2>4. QED
    BY <1>4, <2>2, <2>3 DEF Raises, Returns, classify, RETRYABLE, Transient, reply
<1>5. CASE met.mode = "timeout"
  <2>1. reply.kind = "silent" /\ reply.body = "none"
    BY <1>5 DEF StandsFor, Failure, Reply
  <2>2. SimulatedTriage(met) = Raises("TimeoutError", 0)
    BY <1>5 DEF SimulatedTriage
  <2> HIDE DEF reply
  <2>3. LLMTriage(reply) = Raises("TimeoutError", 0)
    BY <2>1 DEF LLMTriage, Validated
  <2>4. QED
    BY <1>5, <2>2, <2>3 DEF Raises, Returns, classify, RETRYABLE, Transient, reply
<1>6. CASE met.mode = "rate_limit"
  <2>1. /\ reply.kind = "status" /\ reply.code = 429 /\ reply.body = "none"
    BY <1>6 DEF StandsFor, Status, Reply
  <2>2. SimulatedTriage(met) = Raises("SimulatedRateLimitError", 0)
    BY <1>6 DEF SimulatedTriage
  <2> HIDE DEF reply
  <2>3. LLMTriage(reply) = Raises("APIStatusError", 429)
    BY <2>1 DEF LLMTriage, Validated
  <2>4. QED
    BY <1>6, <2>2, <2>3 DEF Raises, Returns, classify, RETRYABLE, Transient, reply
<1>7. CASE met.mode = "server_error"
  <2>1. /\ reply.kind = "status" /\ reply.code = 503 /\ reply.body = "none"
    BY <1>7 DEF StandsFor, Status, Reply
  <2>2. SimulatedTriage(met) = Raises("SimulatedServerError", 0)
    BY <1>7 DEF SimulatedTriage
  <2> HIDE DEF reply
  <2>3. LLMTriage(reply) = Raises("APIStatusError", 503)
    BY <2>1 DEF LLMTriage, Validated
  <2>4. QED
    BY <1>7, <2>2, <2>3 DEF Raises, Returns, classify, RETRYABLE, Transient, reply
<1>8. CASE met.mode = "malformed"
  <2>1. /\ reply.kind = "status" /\ reply.code = 200 /\ reply.body = "prose"
    BY <1>8 DEF StandsFor, Body, Reply
  <2>2. SimulatedTriage(met) = Raises("SimulatedMalformedResponseError", 0)
    BY <1>8 DEF SimulatedTriage
  <2> HIDE DEF reply
  <2>3. LLMTriage(reply) = Raises("LLMValidationError", 0)
    BY <2>1 DEF LLMTriage, Validated
  <2>4. QED
    BY <1>8, <2>2, <2>3 DEF Raises, Returns, classify, RETRYABLE, Transient, reply
<1>9. CASE met.mode = "overlong_summary"
  <2>1. /\ reply.kind = "status" /\ reply.code = 200 /\ reply.body = "overlong"
    BY <1>9 DEF StandsFor, Body, Reply
  <2>2. SimulatedTriage(met) = Raises("SimulatedValidationError", 0)
    BY <1>9 DEF SimulatedTriage
  <2> HIDE DEF reply
  <2>3. LLMTriage(reply) = Raises("LLMValidationError", 0)
    BY <2>1 DEF LLMTriage, Validated
  <2>4. QED
    BY <1>9, <2>2, <2>3 DEF Raises, Returns, classify, RETRYABLE, Transient, reply
<1>10. CASE met.mode = "bad_enum"
  <2>1. /\ reply.kind = "status" /\ reply.code = 200 /\ reply.body = "bad_enum"
    BY <1>10 DEF StandsFor, Body, Reply
  <2>2. SimulatedTriage(met) = Raises("SimulatedValidationError", 0)
    BY <1>10 DEF SimulatedTriage
  <2> HIDE DEF reply
  <2>3. LLMTriage(reply) = Raises("LLMValidationError", 0)
    BY <2>1 DEF LLMTriage, Validated
  <2>4. QED
    BY <1>10, <2>2, <2>3 DEF Raises, Returns, classify, RETRYABLE, Transient, reply
<1>11. CASE met.mode = "injection_obey"
  <2>1. /\ reply.kind = "status" /\ reply.code = 200 /\ reply.body = "bad_enum"
    BY <1>11 DEF StandsFor, Body, Reply
  <2>2. SimulatedTriage(met) = Raises("SimulatedValidationError", 0)
    BY <1>11 DEF SimulatedTriage
  <2> HIDE DEF reply
  <2>3. LLMTriage(reply) = Raises("LLMValidationError", 0)
    BY <2>1 DEF LLMTriage, Validated
  <2>4. QED
    BY <1>11, <2>2, <2>3 DEF Raises, Returns, classify, RETRYABLE, Transient, reply
<1>12. QED
  BY <1>1, <1>2, <1>3, <1>4, <1>5, <1>6,
     <1>7, <1>8, <1>9, <1>10, <1>11 DEF FailureMode

\* simulated.py: for every status code, floor and confidence drawn, the ladder
\* retries, downgrades and falls back on a mode as it does on the reply of the
\* real LLM that the mode stands for; and where the floor lies from 0.35 to
\* 0.50, low_confidence alone is downgraded.
THEOREM SimulationIsFaithful == Spec => []SimulationFaithful
<1>1. Init => SimulationFaithful
  BY DEF Init, SimulationFaithful
<1>2. SimulationFaithful /\ [Next]_call => SimulationFaithful'
  <2> SUFFICES ASSUME SimulationFaithful, [Next]_call
               PROVE SimulationFaithful'
    OBVIOUS
  <2>1. CASE AskProvider
    <3> DEFINE rules == RuleVerdict(<<"flood">>, 1)
    <3>1. CASE \E setting \in {"llm", "ollama"}, met \in Replies \X Replies :
                 Returned("ladder", [setting |-> setting, met |-> met],
                          LadderOutcome(setting, met, rules))
      BY <3>1 DEF Returned, SimulationFaithful
    <3>2. CASE \E met \in Simulations :
                 Returned("ladder",
                          [setting |-> "simulated", met |-> <<met, met>>],
                          LadderOutcome("simulated", <<met, met>>, rules))
      <4>1. PICK met \in Simulations :
               call' = [of |-> "ladder",
                        in |-> [setting |-> "simulated", met |-> <<met, met>>],
                        out |-> LadderOutcome("simulated", <<met, met>>, rules)]
        BY <3>2 DEF Returned
      <4> HIDE DEF rules
      <4> DEFINE out == LadderOutcome("simulated", <<met, met>>, rules)
                 reply == StandsFor(met)
                 one == SimulatedTriage(met)
      <4>2. call'.in.met[1] = met /\ call'.out = out
        BY <4>1
      <4>3. /\ build_triage_provider("simulated", met) = one
            /\ build_triage_provider("llm", reply) = LLMTriage(reply)
        BY DEF build_triage_provider
      <4>4. out = LadderOutcome("llm", <<reply, reply>>, rules)
        BY <4>3, ModesAlike, SameOutcome
      <4>5. /\ one.class = "none" <=> met.mode \in {"none", "low_confidence"}
            /\ met.mode \in {"none", "low_confidence"} =>
                  one.verdict = Labels(met.drawn)
        BY ModesAlike DEF Returns
      <4> DEFINE last == IF one.class # "none" /\ classify(one) THEN 2 ELSE 1
      <4>6. out = IF one.class = "none"
                  THEN Outcome(Postvalidated(one.verdict), FALSE, last)
                  ELSE Outcome(rules, TRUE, last)
        BY <4>3, OutcomeOfOne
      <4> HIDE DEF out, one, reply, last
      <4>7. ASSUME Floor \in 35 .. 50
            PROVE  (~out.fallback /\ out.verdict.category = "other")
                      <=> met.mode = "low_confidence"
        <5>1. CASE met.mode = "none"
          <6>1. met.drawn \in 50 .. 95
            BY <5>1, SimulationsTyped
          <6>2. Postvalidated(Labels(met.drawn)).category = "roads"
            BY <4>7, <6>1 DEF Postvalidated, Labels
          <6>3. QED
            BY <4>5, <4>6, <5>1, <6>2 DEF Outcome
        <5>2. CASE met.mode = "low_confidence"
          <6>1. met.drawn \in 0 .. 34
            BY <5>2, SimulationsTyped
          <6>2. Postvalidated(Labels(met.drawn)).category = "other"
            BY <4>7, <6>1 DEF Postvalidated, Labels
          <6>3. QED
            BY <4>5, <4>6, <5>2, <6>2 DEF Outcome
        <5>3. CASE met.mode \notin {"none", "low_confidence"}
          BY <4>5, <4>6, <5>3 DEF Outcome
        <5>4. QED
          BY <5>1, <5>2, <5>3
      <4>8. QED
        BY <4>2, <4>4, <4>7 DEF SimulationFaithful, rules, reply
    <3>3. QED
      BY <2>1, <3>1, <3>2 DEF AskProvider
  <2>2. CASE Next /\ ~AskProvider
    BY <2>2, CallsNamed DEF SimulationFaithful
  <2>3. CASE UNCHANGED call
    BY <2>3 DEF SimulationFaithful
  <2>4. QED
    BY <2>1, <2>2, <2>3
<1>3. QED
  BY <1>1, <1>2, PTL DEF Spec
-----------------------------------------------------------------------------

\* Submit.tsx: for any errors of any body, each is shown at its input, or all
\* of them above the form.
THEOREM ErrorsAreShown == Spec => []NoErrorSwallowed
<1>1. Init => NoErrorSwallowed
  BY DEF Init, NoErrorSwallowed
<1>2. NoErrorSwallowed /\ [Next]_call => NoErrorSwallowed'
  <2> SUFFICES ASSUME NoErrorSwallowed, [Next]_call PROVE NoErrorSwallowed'
    OBVIOUS
  <2>1. CASE SubmitForm
    <3>1. PICK body \in Drafts, over \in BOOLEAN :
             LET errors == IF over THEN {} ELSE ComplaintCreate(body)
             IN  Returned("form", body,
                          [refused |-> over \/ errors # {}, errors |-> errors,
                           shown |-> IF over \/ errors # {}
                                     THEN Shown(errors) ELSE {}])
      BY <2>1 DEF SubmitForm
    <3> DEFINE errors == IF over THEN {} ELSE ComplaintCreate(body)
               refused == over \/ errors # {}
    <3>2. /\ call'.out.refused = refused /\ call'.out.errors = errors
          /\ refused => call'.out.shown = Shown(errors)
      <4> DEFINE shown == IF over \/ errors # {} THEN Shown(errors) ELSE {}
      <4>1. Returned("form", body, [refused |-> refused, errors |-> errors,
                                    shown |-> shown])
        BY <3>1
      <4> HIDE DEF errors, shown
      <4>2. call'.out = [refused |-> refused, errors |-> errors,
                         shown |-> shown]
        BY <4>1 DEF Returned
      <4>3. QED
        BY <4>2 DEF shown
    <3> HIDE DEF errors, refused
    <3>3. \/ Shown(errors) = {"form"}
          \/ /\ Shown(errors) # {}
             /\ Shown(errors) = {e.field : e \in errors}
      BY DEF Shown
    <3>4. QED
      BY <3>2, <3>3 DEF NoErrorSwallowed
  <2>2. CASE Next /\ ~SubmitForm
    BY <2>2, CallsNamed DEF NoErrorSwallowed
  <2>3. CASE UNCHANGED call
    BY <2>3 DEF NoErrorSwallowed
  <2>4. QED
    BY <2>1, <2>2, <2>3
<1>3. QED
  BY <1>1, <1>2, PTL DEF Spec

-----------------------------------------------------------------------------

\* A flaw of a file is there only if the file is.
LEMMA FlawHasFile ==
    ASSUME NEW repo, NEW flaw, Flawed(repo, flaw), FlawIn[flaw] # "-"
    PROVE  Has(repo, FlawIn[flaw])
BY DEF Flawed, Has

\* The check that is to catch a flaw does not say PASS to it.
LEMMA CheckCatches ==
    ASSUME NEW repo, NEW flaw \in DOMAIN CheckFor, Flawed(repo, flaw),
           ~Unseen(repo, flaw)
    PROVE  CHECKS(repo)[CheckFor[flaw]] \in {"FAIL", "raises", "WARN", "SKIP"}
<1>1. flaw \in {"leaked", "secret", "bare_secret", "unpinned", "localhost",
                "open_network", "port", "ungated", "latest", "deployment",
                "no_claims", "direct_commit", "no_quickstart", "no_commands",
                "no_target", "adr_short"}
  BY DEF CheckFor
<1>2. CASE flaw = "leaked"
  <2>1. CheckFor[flaw] = "sec_env_history" /\ CHECKS(repo)["sec_env_history"] = sec_env_history(repo)
    BY <1>2 DEF CheckFor, CHECKS
  <2>2. sec_env_history(repo) \in {"FAIL", "raises", "WARN", "SKIP"}
    BY <1>2 DEF sec_env_history, Unseen
  <2>3. QED
    BY <2>1, <2>2
<1>3. CASE flaw = "secret"
  <2>1. CheckFor[flaw] = "sec_env_history" /\ CHECKS(repo)["sec_env_history"] = sec_env_history(repo)
    BY <1>3 DEF CheckFor, CHECKS
  <2>2. sec_env_history(repo) \in {"FAIL", "raises", "WARN", "SKIP"}
    BY <1>3 DEF sec_env_history
  <2>3. QED
    BY <2>1, <2>2
<1>4. CASE flaw = "bare_secret"
  <2>1. CheckFor[flaw] = "sec_k8s_secret" /\ CHECKS(repo)["sec_k8s_secret"] = sec_k8s_secret(repo)
    BY <1>4 DEF CheckFor, CHECKS
  <2>2. FlawIn[flaw] = "k8s" /\ FlawIn[flaw] # "-"
    BY <1>4 DEF FlawIn
  <2>3. Has(repo, "k8s")
    BY <2>2, FlawHasFile
  <2>4. sec_k8s_secret(repo) \in {"FAIL", "raises", "WARN", "SKIP"}
    BY <1>4, <2>3 DEF sec_k8s_secret
  <2>5. QED
    BY <2>1, <2>4
<1>5. CASE flaw = "unpinned"
  <2>1. CheckFor[flaw] = "img_unpinned" /\ CHECKS(repo)["img_unpinned"] = img_unpinned(repo)
    BY <1>5 DEF CheckFor, CHECKS
  <2>2. FlawIn[flaw] = "compose.yaml" /\ FlawIn[flaw] # "-"
    BY <1>5 DEF FlawIn
  <2>3. Has(repo, "compose.yaml")
    BY <2>2, FlawHasFile
  <2>4. img_unpinned(repo) \in {"FAIL", "raises", "WARN", "SKIP"}
    BY <1>5, <2>3 DEF img_unpinned, Has
  <2>5. QED
    BY <2>1, <2>4
<1>6. CASE flaw = "localhost"
  <2>1. CheckFor[flaw] = "net_localhost" /\ CHECKS(repo)["net_localhost"] = net_localhost(repo)
    BY <1>6 DEF CheckFor, CHECKS
  <2>2. FlawIn[flaw] = "backend/app" /\ FlawIn[flaw] # "-"
    BY <1>6 DEF FlawIn
  <2>3. Has(repo, "backend/app")
    BY <2>2, FlawHasFile
  <2>4. net_localhost(repo) \in {"FAIL", "raises", "WARN", "SKIP"}
    BY <1>6, <2>3 DEF net_localhost, Has, Unseen
  <2>5. QED
    BY <2>1, <2>4
<1>7. CASE flaw = "open_network"
  <2>1. CheckFor[flaw] = "net_segment" /\ CHECKS(repo)["net_segment"] = net_segment(repo)
    BY <1>7 DEF CheckFor, CHECKS
  <2>2. FlawIn[flaw] = "compose.yaml" /\ FlawIn[flaw] # "-"
    BY <1>7 DEF FlawIn
  <2>3. Has(repo, "compose.yaml")
    BY <2>2, FlawHasFile
  <2>4. net_segment(repo) \in {"FAIL", "raises", "WARN", "SKIP"}
    BY <1>7, <2>3 DEF net_segment
  <2>5. QED
    BY <2>1, <2>4
<1>8. CASE flaw = "port"
  <2>1. CheckFor[flaw] = "port_exposed_prod" /\ CHECKS(repo)["port_exposed_prod"] = port_exposed_prod(repo)
    BY <1>8 DEF CheckFor, CHECKS
  <2>2. FlawIn[flaw] = "compose.prod.yaml" /\ FlawIn[flaw] # "-"
    BY <1>8 DEF FlawIn
  <2>3. Has(repo, "compose.prod.yaml")
    BY <2>2, FlawHasFile
  <2>4. port_exposed_prod(repo) \in {"FAIL", "raises", "WARN", "SKIP"}
    BY <1>8, <2>3 DEF port_exposed_prod
  <2>5. QED
    BY <2>1, <2>4
<1>9. CASE flaw = "ungated"
  <2>1. CheckFor[flaw] = "ci_needs" /\ CHECKS(repo)["ci_needs"] = ci_needs(repo)
    BY <1>9 DEF CheckFor, CHECKS
  <2>2. FlawIn[flaw] = "cd.yml" /\ FlawIn[flaw] # "-"
    BY <1>9 DEF FlawIn
  <2>3. Has(repo, "cd.yml")
    BY <2>2, FlawHasFile
  <2>4. ci_needs(repo) \in {"FAIL", "raises", "WARN", "SKIP"}
    BY <1>9, <2>3 DEF ci_needs, _job_blocks, _publishes_or_deploys, _has_needs
  <2>5. QED
    BY <2>1, <2>4
<1>10. CASE flaw = "latest"
  <2>1. CheckFor[flaw] = "cd_latest_deploy" /\ CHECKS(repo)["cd_latest_deploy"] = cd_latest_deploy(repo)
    BY <1>10 DEF CheckFor, CHECKS
  <2>2. FlawIn[flaw] = "k8s/overlays" /\ FlawIn[flaw] # "-"
    BY <1>10 DEF FlawIn
  <2>3. Has(repo, "k8s/overlays")
    BY <2>2, FlawHasFile
  <2>4. cd_latest_deploy(repo) \in {"FAIL", "raises", "WARN", "SKIP"}
    BY <1>10, <2>3 DEF cd_latest_deploy
  <2>5. QED
    BY <2>1, <2>4
<1>11. CASE flaw = "deployment"
  <2>1. CheckFor[flaw] = "k8s_db_deployment" /\ CHECKS(repo)["k8s_db_deployment"] = k8s_db_deployment(repo)
    BY <1>11 DEF CheckFor, CHECKS
  <2>2. FlawIn[flaw] = "postgres-statefulset.yaml" /\ FlawIn[flaw] # "-"
    BY <1>11 DEF FlawIn
  <2>3. Has(repo, "postgres-statefulset.yaml")
    BY <2>2, FlawHasFile
  <2>4. k8s_db_deployment(repo) \in {"FAIL", "raises", "WARN", "SKIP"}
    BY <1>11, <2>3 DEF k8s_db_deployment
  <2>5. QED
    BY <2>1, <2>4
<1>12. CASE flaw = "no_claims"
  <2>1. CheckFor[flaw] = "k8s_db_deployment" /\ CHECKS(repo)["k8s_db_deployment"] = k8s_db_deployment(repo)
    BY <1>12 DEF CheckFor, CHECKS
  <2>2. FlawIn[flaw] = "postgres-statefulset.yaml" /\ FlawIn[flaw] # "-"
    BY <1>12 DEF FlawIn
  <2>3. Has(repo, "postgres-statefulset.yaml")
    BY <2>2, FlawHasFile
  <2>4. k8s_db_deployment(repo) \in {"FAIL", "raises", "WARN", "SKIP"}
    BY <1>12, <2>3 DEF k8s_db_deployment
  <2>5. QED
    BY <2>1, <2>4
<1>13. CASE flaw = "direct_commit"
  <2>1. CheckFor[flaw] = "vcs_direct_main" /\ CHECKS(repo)["vcs_direct_main"] = vcs_direct_main(repo)
    BY <1>13 DEF CheckFor, CHECKS
  <2>2. vcs_direct_main(repo) \in {"FAIL", "raises", "WARN", "SKIP"}
    BY <1>13 DEF vcs_direct_main
  <2>3. QED
    BY <2>1, <2>2
<1>14. CASE flaw = "no_quickstart"
  <2>1. CheckFor[flaw] = "doc_quickstart" /\ CHECKS(repo)["doc_quickstart"] = doc_quickstart(repo)
    BY <1>14 DEF CheckFor, CHECKS
  <2>2. FlawIn[flaw] = "README.md" /\ FlawIn[flaw] # "-"
    BY <1>14 DEF FlawIn
  <2>3. Has(repo, "README.md")
    BY <2>2, FlawHasFile
  <2>4. doc_quickstart(repo) \in {"FAIL", "raises", "WARN", "SKIP"}
    BY <1>14, <2>3 DEF doc_quickstart
  <2>5. QED
    BY <2>1, <2>4
<1>15. CASE flaw = "no_commands"
  <2>1. CheckFor[flaw] = "doc_quickstart" /\ CHECKS(repo)["doc_quickstart"] = doc_quickstart(repo)
    BY <1>15 DEF CheckFor, CHECKS
  <2>2. FlawIn[flaw] = "README.md" /\ FlawIn[flaw] # "-"
    BY <1>15 DEF FlawIn
  <2>3. Has(repo, "README.md")
    BY <2>2, FlawHasFile
  <2>4. doc_quickstart(repo) \in {"FAIL", "raises", "WARN", "SKIP"}
    BY <1>15, <2>3 DEF doc_quickstart
  <2>5. QED
    BY <2>1, <2>4
<1>16. CASE flaw = "no_target"
  <2>1. CheckFor[flaw] = "doc_quickstart" /\ CHECKS(repo)["doc_quickstart"] = doc_quickstart(repo)
    BY <1>16 DEF CheckFor, CHECKS
  <2>2. FlawIn[flaw] = "Makefile" /\ FlawIn[flaw] # "-"
    BY <1>16 DEF FlawIn
  <2>3. Has(repo, "Makefile")
    BY <2>2, FlawHasFile
  <2>4. doc_quickstart(repo) \in {"FAIL", "raises", "WARN", "SKIP"}
    BY <1>16, <2>3 DEF doc_quickstart
  <2>5. QED
    BY <2>1, <2>4
<1>17. CASE flaw = "adr_short"
  <2>1. CheckFor[flaw] = "rubric_adr" /\ CHECKS(repo)["rubric_adr"] = rubric_adr(repo)
    BY <1>17 DEF CheckFor, CHECKS
  <2>2. FlawIn[flaw] = "docs/adr" /\ FlawIn[flaw] # "-"
    BY <1>17 DEF FlawIn
  <2>3. Has(repo, "docs/adr")
    BY <2>2, FlawHasFile
  <2>4. rubric_adr(repo) \in {"FAIL", "raises", "WARN", "SKIP"}
    BY <1>17, <2>3 DEF rubric_adr
  <2>5. QED
    BY <2>1, <2>4
<1>18. QED
  BY <1>1, <1>2, <1>3, <1>4, <1>5, <1>6, <1>7, <1>8, <1>9, <1>10, <1>11,
     <1>12, <1>13, <1>14, <1>15, <1>16, <1>17

\* check_submission.py: for any repository, any flaws in it and any way its
\* tools end, exit code 0 leaves no flaw with a PASS but the two that a check
\* cannot see without git and without grep.
THEOREM NoFlawPasses == Spec => []NoFalsePass
<1>1. Init => NoFalsePass
  BY DEF Init, NoFalsePass
<1>2. NoFalsePass /\ [Next]_call => NoFalsePass'
  <2> SUFFICES ASSUME NoFalsePass, [Next]_call PROVE NoFalsePass'
    OBVIOUS
  <2>1. CASE CheckSubmission
    <3>1. PICK repo : Returned("check", repo,
                               [results |-> CHECKS(repo), exit |-> main(repo)])
      BY <2>1 DEF CheckSubmission
    <3>2. /\ call'.in = repo /\ call'.out.results = CHECKS(repo)
          /\ call'.out.exit = main(repo)
      BY <3>1 DEF Returned
    <3>3. ASSUME NEW flaw \in DOMAIN CheckFor, Flawed(repo, flaw),
                 ~Unseen(repo, flaw), main(repo) = 0
          PROVE  CHECKS(repo)[CheckFor[flaw]] \in {"WARN", "SKIP"}
      <4>1. CheckFor[flaw] \in DOMAIN CHECKS(repo)
        BY DEF CheckFor, CHECKS
      <4>2. CHECKS(repo)[CheckFor[flaw]] \in Range(CHECKS(repo))
        BY <4>1, Zenon DEF Range
      <4>3. {"FAIL", "raises"} \cap Range(CHECKS(repo)) = {}
        BY <3>3 DEF main
      <4>4. QED
        BY <3>3, <4>2, <4>3, CheckCatches
    <3>4. QED
      BY <3>2, <3>3 DEF NoFalsePass
  <2>2. CASE Next /\ ~CheckSubmission
    BY <2>2, CallsNamed DEF NoFalsePass
  <2>3. CASE UNCHANGED call
    BY <2>3 DEF NoFalsePass
  <2>4. QED
    BY <2>1, <2>2, <2>3
<1>3. QED
  BY <1>1, <1>2, PTL DEF Spec
-----------------------------------------------------------------------------

\* Where a request may go, and what may be raised there.
LEMMA RequestsTyped ==
    ASSUME NEW q \in Requests
    PROVE  /\ q.route \in Templates \cup {"unmatched"}
           /\ q.raises \in {"nothing", "path", "body", "NotFound",
                            "InvalidTransition", "NotReady", "HTTP404",
                            "HTTP405", "crash"}
           /\ q.over \in BOOLEAN
<1>1. /\ q.route \in Templates \cup {"unmatched"} /\ q.over \in BOOLEAN
      /\ q.raises \in RaisedOn[q.route]
  BY Zenon DEF Requests
<1>2. QED
  BY <1>1 DEF RaisedOn, Templates

\* What is in a response, or an exception, that leaves a layer.
Passage(raised, status, code, route, header, body, counted, lines, var) ==
    [raised |-> raised, status |-> status, code |-> code, route |-> route,
     header |-> header, body |-> body, counted |-> counted, lines |-> lines,
     var |-> var]

\* The changes a layer makes to what passes it.
Bare(p) == [p EXCEPT !.body = "none"]
Thrown(p, r) == [p EXCEPT !.raised = r]
Counted(p, c) == [p EXCEPT !.counted = c]

LEMMA PassageChanged ==
    ASSUME NEW raised, NEW status, NEW code, NEW route, NEW header, NEW body,
           NEW counted, NEW lines, NEW var, NEW x
    PROVE  LET p == Passage(raised, status, code, route, header, body, counted,
                            lines, var)
           IN  /\ Bare(p) = Passage(raised, status, code, route, header, "none",
                                    counted, lines, var)
               /\ Thrown(p, x) = Passage(x, status, code, route, header, body,
                                         counted, lines, var)
               /\ Counted(p, x) = Passage(raised, status, code, route, header,
                                          body, x, lines, var)
<1> DEFINE p == Passage(raised, status, code, route, header, body, counted,
                        lines, var)
<1>1. Bare(p) = Passage(raised, status, code, route, header, "none", counted,
                        lines, var)
  BY DEF Bare, Passage
<1>2. Thrown(p, x) = Passage(x, status, code, route, header, body, counted,
                             lines, var)
  BY DEF Thrown, Passage
<1>3. Counted(p, x) = Passage(raised, status, code, route, header, body, x,
                              lines, var)
  BY DEF Counted, Passage
<1>4. QED
  BY <1>1, <1>2, <1>3

\* A crash of no status, a success, or an error whose body has the id of the
\* request; with the request's template.
Inner(q, p, rid) ==
    /\ p = Passage(p.raised, p.status, p.code, p.route, request_id_of(rid),
                   p.body, {}, {}, rid)
    /\ p.raised \in BOOLEAN /\ (p.raised <=> p.status = 0)
    /\ p.raised <=> ~q.over /\ q.raises = "crash"
    /\ p.status \in {0, 200, 400, 404, 405, 409, 429, 503}
    /\ p.route = TemplateOf(q)
    /\ p.status >= 400 => p.body = request_id_of(rid)

\* What comes out of the routes and the limiter.
LEMMA InnerLayers ==
    ASSUME NEW q \in Requests, NEW rid
    PROVE  Inner(q, RateLimitMiddleware(q, rid), rid)
<1> DEFINE p == RateLimitMiddleware(q, rid)
           own == request_id_of(rid)
           Made(raised, status, code, route, body) ==
               Passage(raised, status, code, route, own, body, {}, {}, rid)
<1>1. /\ q.route \in Templates \cup {"unmatched"} /\ q.over \in BOOLEAN
      /\ q.raises \in {"nothing", "path", "body", "NotFound",
                       "InvalidTransition", "NotReady", "HTTP404", "HTTP405",
                       "crash"}
  BY RequestsTyped
<1>2. \A status, code, route :
         error_response(status, code, rid, route)
             = Made(FALSE, status, code, route, own)
  BY Zenon DEF error_response, Passage
<1>3. \A status, code, route :
         /\ [error_response(status, code, rid, route) EXCEPT !.body = "none"]
               = Made(FALSE, status, code, route, "none")
         /\ [error_response(status, code, rid, route) EXCEPT !.raised = TRUE]
               = Made(TRUE, status, code, route, own)
  <2> SUFFICES ASSUME NEW status, NEW code, NEW route
               PROVE  LET e == error_response(status, code, rid, route)
                      IN  /\ [e EXCEPT !.body = "none"]
                                = Made(FALSE, status, code, route, "none")
                          /\ [e EXCEPT !.raised = TRUE]
                                = Made(TRUE, status, code, route, own)
    OBVIOUS
  <2> DEFINE e == error_response(status, code, rid, route)
  <2>1. e = Made(FALSE, status, code, route, own)
    BY <1>2
  <2> HIDE DEF own, e
  <2> DEFINE made == Made(FALSE, status, code, route, own)
  <2>2. /\ Bare(made) = Made(FALSE, status, code, route, "none")
        /\ Thrown(made, TRUE) = Made(TRUE, status, code, route, own)
    <3> DEFINE no == FALSE
               yes == TRUE
    <3> HIDE DEF no, yes
    <3>1. LET m == Made(no, status, code, route, own)
          IN  /\ Bare(m) = Made(no, status, code, route, "none")
              /\ Thrown(m, yes) = Made(yes, status, code, route, own)
      BY PassageChanged
    <3>2. QED
      BY <3>1 DEF no, yes
  <2> HIDE DEF made
  <2>3. Bare(e) = Bare(made) /\ Thrown(e, TRUE) = Thrown(made, TRUE)
    BY <2>1, Zenon DEF made
  <2>4. QED
    BY <2>2, <2>3, Zenon DEF Bare, Thrown, e
<1> HIDE DEF p, own
<1>4. CASE q.over
  <2>1. p = Made(FALSE, 429, "rate_limited", "unmatched", own)
    BY <1>2, <1>4 DEF RateLimitMiddleware, p
  <2>2. QED
    BY <1>4, <2>1 DEF Passage, Inner, TemplateOf, p, own
<1>5. CASE ~q.over /\ q.raises = "nothing"
  <2>1. p = Made(FALSE, 200, "ok", q.route, "none")
    BY <1>3, <1>5 DEF RateLimitMiddleware, Route, p
  <2>2. QED
    BY <1>5, <1>1, <2>1 DEF Passage, Inner, TemplateOf, p, own
<1>6. CASE ~q.over /\ q.raises = "crash"
  <2>1. p = Made(TRUE, 0, "none", q.route, own)
    BY <1>3, <1>6 DEF RateLimitMiddleware, Route, p
  <2>2. QED
    BY <1>6, <1>1, <2>1 DEF Passage, Inner, TemplateOf, p, own
<1>7. CASE ~q.over /\ q.raises \notin {"nothing", "crash"}
  <2> DEFINE status == Handlers[q.raises][1]
             code == Handlers[q.raises][2]
  <2>1. status \in {400, 404, 405, 409, 503}
    BY <1>1, <1>7 DEF Handlers
  <2> HIDE DEF status, code
  <2>2. p = Made(FALSE, status, code, q.route, own)
    BY <1>2, <1>7 DEF RateLimitMiddleware, Route, p, status, code
  <2>3. QED
    BY <1>7, <1>1, <2>1, <2>2 DEF Passage, Inner, TemplateOf, p, own
<1>8. QED
  BY <1>1, <1>4, <1>5, <1>6, <1>7

\* A crash that is logged as one and not counted, or an answer, counted and
\* logged as such.
Served(q, answer, rid) ==
    LET own == request_id_of(rid)
    IN  \/ /\ answer.status = 500 /\ ~q.over /\ q.raises = "crash"
           /\ answer.header = own /\ answer.body = own
           /\ answer.counted = {}
           /\ {l.log : l \in answer.lines} = {"unhandled"}
        \/ /\ answer.status \in {200, 400, 404, 405, 409, 429, 503}
           /\ ~(~q.over /\ q.raises = "crash")
           /\ answer.header = rid
           /\ answer.status >= 400 => answer.body = own
           /\ answer.counted = IF q.route = "/metrics" THEN {}
                               ELSE {<<TemplateOf(q), answer.status>>}
           /\ {l.log : l \in answer.lines} =
                 IF q.route \in {"/ready", "/metrics"} THEN {} ELSE {"access"}

\* What the whole stack makes of it.
LEMMA OuterLayers ==
    ASSUME NEW q \in Requests
    PROVE  Served(q, Serve(q), IF _is_uuid4(q.id) THEN q.id ELSE "new")
<1> DEFINE rid == IF _is_uuid4(q.id) THEN q.id ELSE "new"
           own == request_id_of(rid)
           inner == RateLimitMiddleware(q, rid)
           counting == PrometheusMiddleware(q, rid)
           logging == AccessLogMiddleware(q, rid)
           outer == RequestIDMiddleware(q)
<1> DEFINE raised == inner.raised
           status == inner.status
           code == inner.code
           route == inner.route
           body == inner.body
<1>1. /\ inner = Passage(raised, status, code, route, own, body, {}, {}, rid)
      /\ raised \in BOOLEAN /\ (raised <=> status = 0)
      /\ status \in {0, 200, 400, 404, 405, 409, 429, 503}
      /\ raised <=> ~q.over /\ q.raises = "crash"
      /\ route = TemplateOf(q)
      /\ status >= 400 => body = own
  <2>1. Inner(q, inner, rid)
    BY InnerLayers
  <2> HIDE DEF inner, rid
  <2>2. QED
    BY <2>1, Zenon DEF Inner
<1>2. counting = IF inner.raised \/ q.route = "/metrics" THEN inner
                 ELSE [inner EXCEPT !.counted = {<<inner.route, inner.status>>}]
  BY DEF PrometheusMiddleware
<1>3. logging =
         IF counting.raised \/ q.route \in {"/ready", "/metrics"} THEN counting
         ELSE [counting EXCEPT !.lines = {[log |-> "access",
                                           id |-> counting.var]}]
  BY DEF AccessLogMiddleware
<1>4. outer = IF logging.raised THEN [logging EXCEPT !.var = "-"]
              ELSE [logging EXCEPT !.var = "-", !.header = rid]
  BY DEF RequestIDMiddleware
<1>5. Serve(q) = IF outer.raised THEN _on_unhandled(q, outer) ELSE outer
  BY DEF Serve
<1>6. _on_unhandled(q, outer) =
         [error_response(500, "internal_error", rid, outer.route) EXCEPT
            !.lines = outer.lines \cup {[log |-> "unhandled", id |-> outer.var]},
            !.counted = outer.counted]
  BY DEF _on_unhandled
<1> HIDE DEF rid, own, inner, counting, logging, outer, raised, status, code,
         route, body
<1>7. CASE raised
  <2>1. /\ counting = inner /\ logging = counting
        /\ outer = Passage(raised, status, code, route, own, body, {}, {}, "-")
    BY <1>1, <1>2, <1>3, <1>4, <1>7 DEF Passage
  <2>2. outer.raised /\ outer.lines = {} /\ outer.counted = {}
    BY <1>7, <2>1 DEF Passage
  <2>3. /\ Serve(q).status = 500 /\ Serve(q).header = own
        /\ Serve(q).body = own /\ Serve(q).counted = {}
        /\ Serve(q).lines = {[log |-> "unhandled", id |-> outer.var]}
    BY <1>5, <1>6, <2>2 DEF error_response, own
  <2>4. {l.log : l \in Serve(q).lines} = {"unhandled"}
    BY <2>3
  <2>5. QED
    BY <1>1, <1>7, <2>3, <2>4 DEF Served, own, rid
<1>8. CASE ~raised
  <2> DEFINE counted == IF q.route = "/metrics" THEN {} ELSE {<<route, status>>}
             lines == IF q.route \in {"/ready", "/metrics"} THEN {}
                      ELSE {[log |-> "access", id |-> rid]}
  <2>1. counting = Passage(raised, status, code, route, own, body, counted, {},
                           rid)
    <3>1. inner.raised = FALSE /\ inner.route = route /\ inner.status = status
      BY <1>1, <1>8 DEF raised, route, status
    <3>2. CASE q.route = "/metrics"
      BY <1>1, <1>2, <1>8, <3>1, <3>2
    <3>3. CASE q.route # "/metrics"
      <4>1. counted = {<<route, status>>}
        BY <3>3
      <4>2. counting = [inner EXCEPT !.counted = {<<route, status>>}]
        BY <1>2, <3>1, <3>3
      <4> HIDE DEF counted
      <4>3. QED
        <5> DEFINE made == Passage(FALSE, status, code, route, own, body, {}, {},
                                   rid)
        <5>1. inner = made
          BY <1>1, <1>8
        <5>2. Counted(made, counted) =
                 Passage(FALSE, status, code, route, own, body, counted, {}, rid)
          <6> DEFINE no == FALSE
          <6> HIDE DEF no
          <6>1. Counted(Passage(no, status, code, route, own, body, {}, {}, rid),
                        counted) =
                   Passage(no, status, code, route, own, body, counted, {}, rid)
            BY PassageChanged
          <6>2. QED
            BY <6>1 DEF no
        <5> HIDE DEF made
        <5>3. [inner EXCEPT !.counted = counted] = Counted(made, counted)
          BY <5>1, Zenon DEF Counted
        <5>4. QED
          BY <1>1, <1>8, <4>1, <4>2, <5>2, <5>3
    <3>4. QED
      BY <3>2, <3>3
  <2> HIDE DEF counted
  <2>2. logging = Passage(raised, status, code, route, own, body, counted,
                          lines, rid)
    BY <1>3, <1>8, <2>1 DEF Passage
  <2> HIDE DEF lines
  <2>3. outer = Passage(raised, status, code, route, rid, body, counted, lines,
                        "-")
    BY <1>4, <1>8, <2>2 DEF Passage
  <2>4. /\ Serve(q).status = status /\ Serve(q).header = rid
        /\ Serve(q).body = body /\ Serve(q).counted = counted
        /\ Serve(q).lines = lines
    BY <1>5, <1>8, <2>3 DEF Passage
  <2>5. {l.log : l \in Serve(q).lines} =
           IF q.route \in {"/ready", "/metrics"} THEN {} ELSE {"access"}
    <3>1. Serve(q).lines = lines
      BY <2>4
    <3>2. CASE q.route \in {"/ready", "/metrics"}
      BY <3>1, <3>2 DEF lines
    <3>3. CASE q.route \notin {"/ready", "/metrics"}
      BY <3>1, <3>3 DEF lines
    <3>4. QED
      BY <3>2, <3>3
  <2>6. Serve(q).counted = IF q.route = "/metrics" THEN {}
                           ELSE {<<TemplateOf(q), Serve(q).status>>}
    BY <1>1, <2>4 DEF counted
  <2>7. status \in {200, 400, 404, 405, 409, 429, 503}
    BY <1>1, <1>8
  <2>8. QED
    BY <1>1, <1>8, <2>4, <2>5, <2>6, <2>7, Zenon DEF Served, own, rid
<1>9. QED
  BY <1>7, <1>8

\* request_id.py, errors.py: for every request the header and the body of an
\* error carry one id, and the client's own if it sent a UUIDv4.
THEOREM EnvelopeNamesRequest == Spec => []EnvelopeNamesItsRequest
<1>1. Init => EnvelopeNamesItsRequest
  BY DEF Init, EnvelopeNamesItsRequest
<1>2. EnvelopeNamesItsRequest /\ [Next]_call => EnvelopeNamesItsRequest'
  <2> SUFFICES ASSUME EnvelopeNamesItsRequest, [Next]_call
               PROVE EnvelopeNamesItsRequest'
    OBVIOUS
  <2>1. CASE AnswerRequest
    <3>1. PICK q \in Requests : call' = [of |-> "edge", in |-> q,
                                         out |-> Serve(q)]
      BY <2>1 DEF AnswerRequest, Returned
    <3> DEFINE rid == IF _is_uuid4(q.id) THEN q.id ELSE "new"
               own == request_id_of(rid)
               answer == Serve(q)
    <3>2. answer.status >= 400 =>
             answer.body = own /\ answer.header \in {rid, own}
      <4>1. Served(q, answer, rid)
        BY OuterLayers
      <4> HIDE DEF answer, rid
      <4>2. QED
        BY <4>1, Zenon DEF Served, own
    <3>3. own = Lower(rid) /\ own = Lower(own)
      BY DEF request_id_of, Lower, _is_uuid4
    <3>4. _is_uuid4(q.id) => own = Lower(q.id)
      BY <3>3
    <3> HIDE DEF own, rid, answer
    <3>5. answer.status >= 400 =>
             /\ answer.body = Lower(answer.header)
             /\ _is_uuid4(q.id) => answer.body = Lower(q.id)
      BY <3>2, <3>3, <3>4
    <3>6. call'.in = q /\ call'.out = answer
      BY <3>1 DEF answer
    <3>7. QED
      BY <3>5, <3>6 DEF EnvelopeNamesItsRequest
  <2>2. CASE Next /\ ~AnswerRequest
    BY <2>2, CallsNamed DEF EnvelopeNamesItsRequest
  <2>3. CASE UNCHANGED call
    BY <2>3 DEF EnvelopeNamesItsRequest
  <2>4. QED
    BY <2>1, <2>2, <2>3
<1>3. QED
  BY <1>1, <1>2, PTL DEF Spec

\* prometheus.py, access_log.py: every answered request of an observed path
\* is counted once, under its own template and with the status the client saw,
\* and logged once, also when a layer below refused it; a crash is not counted
\* and leaves the line of its handler alone.
THEOREM CountsAndLogsAgree == Spec => []TelemetryAgrees
<1>1. Init => TelemetryAgrees
  BY DEF Init, TelemetryAgrees
<1>2. TelemetryAgrees /\ [Next]_call => TelemetryAgrees'
  <2> SUFFICES ASSUME TelemetryAgrees, [Next]_call PROVE TelemetryAgrees'
    OBVIOUS
  <2>1. CASE AnswerRequest
    <3>1. PICK q \in Requests : call' = [of |-> "edge", in |-> q,
                                         out |-> Serve(q)]
      BY <2>1 DEF AnswerRequest, Returned
    <3> DEFINE answer == Serve(q)
               crashed == answer.status = 500
    <3>2. /\ crashed <=> ~q.over /\ q.raises = "crash"
          /\ answer.counted =
                IF crashed \/ q.route = "/metrics" THEN {}
                ELSE {<<TemplateOf(q), answer.status>>}
          /\ {l.log : l \in answer.lines} =
                IF crashed THEN {"unhandled"}
                ELSE IF q.route \in {"/ready", "/metrics"} THEN {}
                ELSE {"access"}
      <4>1. Served(q, answer, IF _is_uuid4(q.id) THEN q.id ELSE "new")
        BY OuterLayers
      <4> HIDE DEF answer
      <4>2. CASE crashed
        BY <4>1, <4>2 DEF Served
      <4>3. CASE ~crashed
        BY <4>1, <4>3, Zenon DEF Served
      <4>4. QED
        BY <4>2, <4>3
    <3> HIDE DEF answer
    <3>3. call'.in = q /\ call'.out = answer
      BY <3>1 DEF answer
    <3>4. QED
      BY <3>2, <3>3 DEF TelemetryAgrees
  <2>2. CASE Next /\ ~AnswerRequest
    BY <2>2, CallsNamed DEF TelemetryAgrees
  <2>3. CASE UNCHANGED call
    BY <2>3 DEF TelemetryAgrees
  <2>4. QED
    BY <2>1, <2>2, <2>3
<1>3. QED
  BY <1>1, <1>2, PTL DEF Spec
-----------------------------------------------------------------------------

\* What the pages of one reading hold, and all of them together.
ReadRight(keys, pages, read, z) ==
    /\ Len(read) = Len(keys)
    /\ \A order \in Orders(keys) :
          /\ \A i \in DOMAIN read : keys[read[i]] = keys[order[i]]
          /\ \A row \in DOMAIN keys, page \in DOMAIN pages :
                (\A i \in DOMAIN keys :
                    keys[order[i]] = keys[row] => OnPage(i, page, z)) =>
                  \E i \in DOMAIN read :
                      \A j \in DOMAIN read : read[j] = row <=> j = i
    /\ \A page \in DOMAIN pages :
          IF page = 1 \/ page <= pages[1].pages
          THEN pages[page].total = Len(keys)
          ELSE pages[page].items = <<>> /\ pages[page].total = 0

\* A place is shown by one page.
LEMMA OnePage ==
    ASSUME NEW i \in Nat, NEW z \in Nat \ {0}, NEW p \in Nat \ {0},
           NEW q \in Nat \ {0}, OnPage(i, p, z), OnPage(i, q, z)
    PROVE  p = q
<1>1. ASSUME NEW a \in Nat \ {0}, NEW b \in Nat \ {0},
             OnPage(i, a, z), OnPage(i, b, z)
      PROVE  ~(a < b)
  <2>1. SUFFICES ASSUME a < b PROVE FALSE
    OBVIOUS
  <2>2. a * z <= (b - 1) * z
    <3>1. PICK d \in Nat : b - 1 = a + d
      BY <2>1
    <3>2. (a + d) * z = a * z + d * z /\ d * z \in Nat /\ a * z \in Nat
      OBVIOUS
    <3>3. QED
      BY <3>1, <3>2
  <2>3. a * z \in Nat /\ (b - 1) * z \in Nat
    OBVIOUS
  <2>4. QED
    BY <1>1, <2>2, <2>3 DEF OnPage
<1>2. QED
  BY <1>1

\* One reading of all the pages, and one page more, is right.
LEMMA ReadingIsRight ==
    ASSUME NEW keys \in Seq(Int), NEW z \in Nat \ {0}, NEW last \in Nat \ {0},
           NEW orders \in [1 .. last -> Orders(keys)], Len(keys) < last
    PROVE  ReadRight(keys, Reading(orders, last, z),
                     Joined(Reading(orders, last, z)), z)
<1> DEFINE n == Len(keys)
           pages == Reading(orders, last, z)
           read == Joined(pages)
<1>1. n \in Nat /\ n < last /\ DOMAIN keys = 1 .. n
      /\ \A m \in 1 .. n : keys[m] \in Int
  OBVIOUS
<1>2. n <= last * z
  <2>1. last <= last * z
    OBVIOUS
  <2> HIDE DEF n
  <2>2. QED
    BY <1>1, <2>1
<1>3. /\ Len(read) = n /\ DOMAIN read = 1 .. n
      /\ \A i \in 1 .. n : \E page \in 1 .. last :
            OnPage(i, page, z) /\ read[i] = orders[page][i]
  <2> HIDE DEF n
  <2>1. AllRead(read, keys, orders, last, z)
    <3> HIDE DEF read
    <3>1. AllRead(Joined(pages), keys, orders, last, z)
      <4> HIDE DEF pages
      <4>1. Len(keys) <= last * z
        BY <1>2 DEF n
      <4>2. QED
        BY <4>1, PagesRead DEF pages
    <3>2. QED
      BY <3>1 DEF read
  <2> HIDE DEF read
  <2>2. QED
    BY <2>1 DEF AllRead, n
<1>4. \A order \in Orders(keys) :
         /\ order \in [1 .. n -> 1 .. n]
         /\ \A i, j \in 1 .. n : i # j => order[i] # order[j]
  BY DEF Orders
<1>5. ASSUME NEW p \in Orders(keys), NEW q \in Orders(keys), NEW i \in 1 .. n
      PROVE  keys[p[i]] = keys[q[i]]
  <2>1. ~(keys[p[i]] < keys[q[i]]) /\ ~(keys[q[i]] < keys[p[i]])
    BY OrderNotLess
  <2> HIDE DEF n
  <2>2. keys[p[i]] \in Int /\ keys[q[i]] \in Int
    BY <1>1, <1>4
  <2>3. QED
    BY <2>1, <2>2
<1> HIDE DEF read, n
<1>6. ASSUME NEW order \in Orders(keys), NEW i \in 1 .. n
      PROVE  keys[read[i]] = keys[order[i]]
  <2>1. PICK page \in 1 .. last : read[i] = orders[page][i]
    BY <1>3
  <2>2. orders[page] \in Orders(keys)
    OBVIOUS
  <2>3. QED
    BY <1>5, <2>1, <2>2
<1>7. ASSUME NEW order \in Orders(keys), NEW row \in 1 .. n, NEW page \in 1 .. last,
             \A i \in 1 .. n : keys[order[i]] = keys[row] => OnPage(i, page, z)
      PROVE  \E i \in 1 .. n : \A j \in 1 .. n : read[j] = row <=> j = i
  <2> DEFINE o == orders[page]
  <2>1. o \in Orders(keys)
    OBVIOUS
  <2>2. o \in [1 .. n -> 1 .. n] /\ \A i, j \in 1 .. n : i # j => o[i] # o[j]
    BY <1>4, <2>1
  <2>3. \A i \in 1 .. n : OnPage(i, page, z) => read[i] = o[i]
    <3> SUFFICES ASSUME NEW i \in 1 .. n, OnPage(i, page, z) PROVE read[i] = o[i]
      OBVIOUS
    <3>1. PICK other \in 1 .. last :
             OnPage(i, other, z) /\ read[i] = orders[other][i]
      BY <1>3
    <3>2. other = page
      BY <3>1, OnePage
    <3>3. QED
      BY <3>1, <3>2
  <2>4. PICK i \in 1 .. n : o[i] = row
    BY <2>1, OrderHasAll DEF n
  <2>5. keys[order[i]] = keys[row]
    BY <1>5, <2>1, <2>4
  <2>6. read[i] = row
    BY <1>7, <2>3, <2>4, <2>5
  <2>7. ASSUME NEW j \in 1 .. n, read[j] = row PROVE j = i
    <3>1. keys[order[j]] = keys[row]
      BY <1>6, <2>7
    <3>2. o[j] = row
      BY <1>7, <2>3, <2>7, <3>1
    <3>3. QED
      BY <2>2, <2>4, <3>2
  <2>8. QED
    BY <2>6, <2>7
<1>8. ASSUME NEW page \in 1 .. last
      PROVE  PageIs(pages[page], orders[page], (page - 1) * z, n, z)
  <2>1. pages[page] = list_complaints(orders[page], page, z)
    BY DEF Reading
  <2>2. page \in Nat \ {0} /\ orders[page] \in [1 .. n -> 1 .. n]
    BY <1>4
  <2> HIDE DEF pages
  <2>3. PageIs(list_complaints(orders[page], page, z), orders[page],
               (page - 1) * z, n, z)
    BY <1>1, <2>2, PageHolds
  <2>4. QED
    BY <2>1, <2>3
<1>9. DOMAIN pages = 1 .. last
  BY DEF Reading
<1> HIDE DEF pages
<1>10. pages[1].total = n /\ pages[1].pages = (n + z - 1) \div z
  <2>1. 1 \in 1 .. last /\ (1 - 1) * z = 0
    OBVIOUS
  <2>2. PageIs(pages[1], orders[1], 0, n, z)
    BY <1>8, <2>1
  <2>3. CASE n = 0
    BY <2>2, <2>3 DEF PageIs
  <2>4. CASE n > 0
    BY <2>2, <2>4 DEF PageIs
  <2>5. QED
    BY <1>1, <2>3, <2>4
<1>11. ASSUME NEW page \in 1 .. last
       PROVE  IF page = 1 \/ page <= pages[1].pages
              THEN pages[page].total = n
              ELSE pages[page].items = <<>> /\ pages[page].total = 0
  <2> DEFINE a == (page - 1) * z
  <2>1. page <= pages[1].pages <=> a < n
    BY <1>1, <1>10, PagesCounted
  <2>2. PageIs(pages[page], orders[page], a, n, z)
    BY <1>8
  <2> HIDE DEF a
  <2>3. /\ a < n => pages[page].total = n
        /\ ~(a < n) => pages[page].items = <<>> /\ pages[page].total = 0
    BY <1>1, <2>2 DEF PageIs
  <2>4. QED
    BY <1>10, <2>1, <2>3
<1>12. /\ Len(read) = Len(keys)
       /\ \A order \in Orders(keys) :
             /\ \A i \in DOMAIN read : keys[read[i]] = keys[order[i]]
             /\ \A row \in DOMAIN keys, page \in DOMAIN pages :
                   (\A i \in DOMAIN keys :
                       keys[order[i]] = keys[row] => OnPage(i, page, z)) =>
                     \E i \in DOMAIN read :
                         \A j \in DOMAIN read : read[j] = row <=> j = i
       /\ \A page \in DOMAIN pages :
             IF page = 1 \/ page <= pages[1].pages
             THEN pages[page].total = Len(keys)
             ELSE pages[page].items = <<>> /\ pages[page].total = 0
  <2>1. /\ DOMAIN read = 1 .. n /\ DOMAIN keys = 1 .. n /\ DOMAIN pages = 1 .. last
        /\ Len(read) = Len(keys) /\ Len(keys) = n
    BY <1>1, <1>3, <1>9 DEF n
  <2>2. \A order \in Orders(keys) :
           /\ \A i \in DOMAIN read : keys[read[i]] = keys[order[i]]
           /\ \A row \in DOMAIN keys, page \in DOMAIN pages :
                 (\A i \in DOMAIN keys :
                     keys[order[i]] = keys[row] => OnPage(i, page, z)) =>
                   \E i \in DOMAIN read :
                       \A j \in DOMAIN read : read[j] = row <=> j = i
    <3>1. ASSUME NEW order \in Orders(keys), NEW i \in DOMAIN read
          PROVE  keys[read[i]] = keys[order[i]]
      BY <1>6, <2>1
    <3>2. ASSUME NEW order \in Orders(keys), NEW row \in DOMAIN keys,
                 NEW page \in DOMAIN pages,
                 \A i \in DOMAIN keys :
                     keys[order[i]] = keys[row] => OnPage(i, page, z)
          PROVE  \E i \in DOMAIN read :
                     \A j \in DOMAIN read : read[j] = row <=> j = i
      <4>1. /\ row \in 1 .. n /\ page \in 1 .. last
            /\ \A i \in 1 .. n : keys[order[i]] = keys[row] => OnPage(i, page, z)
        BY <2>1, <3>2
      <4>2. PICK i \in 1 .. n : \A j \in 1 .. n : read[j] = row <=> j = i
        BY <1>7, <4>1, Zenon
      <4>3. i \in DOMAIN read /\ \A j \in DOMAIN read : read[j] = row <=> j = i
        BY <2>1, <4>2
      <4>4. QED
        BY <4>3
    <3>3. QED
      BY <3>1, <3>2, Zenon
  <2>3. QED
    BY <1>11, <2>1, <2>2
<1>13. ReadRight(keys, pages, read, z)
  BY <1>12, Zenon DEF ReadRight
<1>14. QED
  BY <1>13 DEF read, pages

\* complaint_repo.py, list_page: for any keys, any page size and any order of
\* equal rows in each statement, all pages together hold rows with the keys
\* of a full listing, and exactly once each row whose key does not reach from
\* one page into another; the pages counted in the first answer are the ones
\* that hold any.
THEOREM PagesAreWhole == Spec => []PagesPartition
<1>1. Init => PagesPartition
  BY DEF Init, PagesPartition
<1>2. PagesPartition /\ [Next]_call => PagesPartition'
  <2> SUFFICES ASSUME PagesPartition, [Next]_call PROVE PagesPartition'
    OBVIOUS
  <2>1. CASE ListPages
    <3>1. PICK keys \in SeqsUpTo(1 .. MaxRows, MaxRows), z \in 1 .. MaxRows :
             \E orders \in [1 .. MaxRows + 1 -> Orders(keys)] :
                 Returned("pages", [keys |-> keys, page_size |-> z],
                          [page \in 1 .. MaxRows + 1 |->
                              list_complaints(orders[page], page, z)])
      BY <2>1 DEF ListPages
    <3>2. PICK orders \in [1 .. MaxRows + 1 -> Orders(keys)] :
             Returned("pages", [keys |-> keys, page_size |-> z],
                      [page \in 1 .. MaxRows + 1 |->
                          list_complaints(orders[page], page, z)])
      BY <3>1
    <3> DEFINE last == MaxRows + 1
               pages == Reading(orders, last, z)
    <3>3. /\ call'.in.keys = keys /\ call'.in.page_size = z
          /\ call'.out = pages
      <4>1. pages = [page \in 1 .. MaxRows + 1 |->
                        list_complaints(orders[page], page, z)]
        BY DEF Reading
      <4> HIDE DEF pages
      <4>2. Returned("pages", [keys |-> keys, page_size |-> z], pages)
        BY <3>2, <4>1
      <4>3. QED
        BY <4>2 DEF Returned
    <3>4. keys \in Seq(Int) /\ Len(keys) < last
      <4>1. PICK m \in 0 .. MaxRows : keys \in [1 .. m -> 1 .. MaxRows]
        BY DEF SeqsUpTo
      <4>2. QED
        BY <4>1, DecisionsAssumption
    <3>5. z \in Nat \ {0} /\ last \in Nat \ {0}
      BY DecisionsAssumption
    <3>6. ReadRight(keys, pages, Joined(pages), z)
      <4>1. orders \in [1 .. last -> Orders(keys)]
        OBVIOUS
      <4> HIDE DEF last
      <4>2. QED
        BY <3>4, <3>5, <4>1, ReadingIsRight
    <3> HIDE DEF pages
    <3>7. ReadRight(call'.in.keys, call'.out, Joined(call'.out), call'.in.page_size)
      BY <3>3, <3>6
    <3>8. QED
      BY <3>7 DEF PagesPartition, ReadRight
  <2>2. CASE Next /\ ~ListPages
    BY <2>2, CallsNamed DEF PagesPartition
  <2>3. CASE UNCHANGED call
    BY <2>3 DEF PagesPartition
  <2>4. QED
    BY <2>1, <2>2, <2>3
<1>3. QED
  BY <1>1, <1>2, PTL DEF Spec
=============================================================================
