---------------------------- MODULE TriagePrompt ----------------------------
(***************************************************************************)
(* What a citizen's text goes through before it is put between the         *)
(* delimiters of the prompt.  A text is a sequence of marks: an angle      *)
(* bracket, the capital letters END, a word character, a blank, or a       *)
(* hidden character: one of those the code strips, U+200B to U+200D,       *)
(* U+FEFF, the bidi controls U+202A to U+202E and U+2066 to U+2069, and    *)
(* the control characters but tab, newline and return.  Others that have   *)
(* no width (U+200E, U+200F, U+2060, U+00AD) it keeps; they are no mark    *)
(* here.                                                                   *)
(***************************************************************************)
EXTENDS Integers, Sequences, Sieve

Marks == {"<", ">", "END", "w", " ", "hidden"}

\* Layer 1.
normalise_for_prompt(text) == Without(text, "hidden")

\* The regular expression \b on either side: no word character.
Bounded(text, i) ==
    \A j \in {i - 1, i + 1} \cap DOMAIN text : text[j] \notin {"END", "w"}

\* s .. e is a longest run of one mark.
LongestRun(text, s, e) ==
    /\ \A k \in s .. e : text[k] = text[s]
    /\ s > 1 => text[s - 1] # text[s]
    /\ e < Len(text) => text[e + 1] # text[s]

\* Brackets are matched in threes from the left of their run, so of each run
\* the one or two left over at its end stay.
InSentinel(text, i) ==
    CASE text[i] \in {"<", ">"} ->
            \E s \in 1 .. i, e \in i .. Len(text) :
                /\ LongestRun(text, s, e)
                /\ i - s < 3 * ((e - s + 1) \div 3)
      [] text[i] = "END" -> Bounded(text, i)
      [] OTHER -> FALSE

_neutralise_match ==
    [mark \in {"<", ">", "END"} |->
        CASE mark = "<" -> "[" [] mark = ">" -> "]" [] mark = "END" -> "3ND"]

\* Layer 2.
neutralise_sentinels(text) ==
    [i \in 1 .. Len(text) |->
        IF InSentinel(text, i) THEN _neutralise_match[text[i]] ELSE text[i]]

\* Mutant of sanitise_user_text: the layers in the other order.
SanitiseLate(text) == normalise_for_prompt(neutralise_sentinels(text))

sanitise_user_text(text) == neutralise_sentinels(normalise_for_prompt(text))

-----------------------------------------------------------------------------

\* A delimiter of the prompt occurs in a text as the model reads it, the
\* hidden characters having no width.
HasSentinel(text) ==
    LET seen == normalise_for_prompt(text)
    IN  \E i \in 1 .. Len(seen) :
            \/ seen[i] = "END" /\ Bounded(seen, i)
            \/ /\ seen[i] \in {"<", ">"} /\ i + 2 <= Len(seen)
               /\ seen[i + 1] = seen[i] /\ seen[i + 2] = seen[i]
=============================================================================
