----------------------------- MODULE RuleTriage -----------------------------
(***************************************************************************)
(* The keyword rules, the last rung of the triage ladder.  They are pure:  *)
(* this module has operators only.                                         *)
(*                                                                         *)
(* A normalised text is a sequence of words, and a term a sequence of one  *)
(* or two.  A single word matches a whole word of the text.  A longer term *)
(* is looked up as a substring, and so may begin and end inside a word, as *)
(* an escalation marker may.                                               *)
(* Scores are integers, and a confidence is in hundredths.                 *)
(***************************************************************************)
EXTENDS Integers, Sequences, FiniteSets, SequencesExt

CONSTANTS  \* pairs of different words <<a, b>>
    Inside, \* the letters of a occur in b
    Opens,  \* b begins with a
    Closes  \* b ends with a

ASSUME InsideAssumption == Opens \subseteq Inside /\ Closes \subseteq Inside

Priorities == {"high", "normal", "low"}

\* The keys of CATEGORY_TERMS in the order the loops visit them.
CategoryOrder ==
    <<"water", "electricity", "sanitation", "roads", "streetlights">>

Categories == Range(CategoryOrder) \cup {"other"}

Words(S) == {<<w>> : w \in S}

CATEGORY_TERMS ==
    [water |-> Words({"water", "pani", "burst", "main", "leak", "tank",
         "supply", "pipeline", "boring"}) \cup {<<"sewer", "line">>},
     electricity |-> Words({"electric", "bijli", "power", "transformer",
         "wire", "meter", "kunda", "tripping"}) \cup {<<"load", "shedding">>},
     sanitation |-> Words({"garbage", "kachra", "sewerage", "drain",
         "gutter", "sanitation", "waste", "smell", "choked"}),
     roads |-> Words({"road", "sarak", "pothole", "khudda", "footpath",
         "manhole", "tarcoal"}) \cup {<<"speed", "breaker">>},
     streetlights |-> Words({"streetlight", "pole", "lamp", "fused", "dark",
         "bulb"}) \cup {<<"street", "light">>, <<"light", "of", "pole">>}]

URGENCY_TERMS ==
    Words({"flood", "flooding", "burst", "fire", "current", "electrocut",
        "overflow", "collapse", "injur", "accident", "hospital", "child",
        "urgent", "emergency", "sinking"}) \cup {<<"live", "wire">>}

ESCALATION_MARKERS == {"since", "days", "night"}

SUMMARY_MAX == 140

-----------------------------------------------------------------------------

\* The words of a longer term stand in a row, the first maybe the end of a
\* longer word and the last the beginning of one.
PhraseAt(text, term, i) ==
    /\ i + Len(term) - 1 <= Len(text)
    /\ \A k \in 1 .. Len(term) :
          LET word == text[i + k - 1]
          IN  \/ word = term[k]
              \/ k = 1 /\ <<term[k], word>> \in Closes
              \/ k = Len(term) /\ <<term[k], word>> \in Opens

_contains_term(text, term) ==
    IF Len(term) > 1 THEN \E i \in 1 .. Len(text) : PhraseAt(text, term, i)
                     ELSE term[1] \in Range(text)

Matched(text, c) == {t \in CATEGORY_TERMS[c] : _contains_term(text, t)}

\* Two for a term of several words, one for a single word.
Score(text, c) ==
    Cardinality(Matched(text, c))
        + Cardinality({t \in Matched(text, c) : Len(t) > 1})

MatchedTotal(text) ==
    LET total[n \in 0 .. Len(CategoryOrder)] ==
            IF n = 0 THEN 0
            ELSE total[n - 1] + Cardinality(Matched(text, CategoryOrder[n]))
    IN  total[Len(CategoryOrder)]

\* The loop over the scores: the first of the best, and its score.
Better(text, best, c) ==
    IF Score(text, c) > best.score
    THEN [category |-> c, score |-> Score(text, c)] ELSE best

BestOf(text, order) ==
    LET best[n \in 0 .. Len(order)] ==
            IF n = 0 THEN [category |-> "other", score |-> 0]
            ELSE Better(text, best[n - 1], order[n])
    IN  best[Len(order)]

\* Mutant of _score_categories: no tie check.
FirstOfTheBest(text, order) == BestOf(text, order).category

_score_categories(text, order) ==
    LET best == BestOf(text, order)
        ties == {c \in Range(order) : Score(text, c) = best.score}
    IN  IF best.score = 0 \/ Cardinality(ties) > 1
        THEN "other" ELSE best.category

_has_urgency_term(text) == \E t \in URGENCY_TERMS : _contains_term(text, t)

_has_escalation_marker(text) ==
    \E m \in ESCALATION_MARKERS, i \in 1 .. Len(text) :
        m = text[i] \/ <<m, text[i]>> \in Inside

_classify_priority(text, category) ==
    IF \/ _has_urgency_term(text)
       \/ /\ category \in {"water", "electricity"}
          /\ _has_escalation_marker(text)
    THEN "high"
    ELSE IF category \in {"streetlights", "other"} THEN "low" ELSE "normal"

\* The length of the summary of a text whose first sentence has n characters:
\* 137 of them and an ellipsis, one character, at the most.
_summarise(n) == IF n > SUMMARY_MAX - 3 THEN SUMMARY_MAX - 2 ELSE n

Confidence(matched) == IF 15 * matched < 60 THEN 15 * matched ELSE 60

\* RuleBasedTriage.triage: a TriageResult, or the most careful one when its
\* constructor refuses the fields.
RuleVerdict(text, first) ==
    LET category == _score_categories(text, CategoryOrder)
        summary == _summarise(first)
    IN  IF summary > SUMMARY_MAX
        THEN [category |-> "other", priority |-> "normal",
              summary |-> 0, confidence |-> 0]
        ELSE [category |-> category,
              priority |-> _classify_priority(text, category),
              summary |-> summary,
              confidence |-> Confidence(MatchedTotal(text))]
=============================================================================
