---------------------------- MODULE MCDecisions ----------------------------
(* TLC instance of Decisions: the inputs of its calls.                      *)
EXTENDS Decisions

MCVocabulary == {"water", "wires", "wire", "live", "street", "streetlight",
                 "light", "tonight", "flood", "days"}
MCTexts == SeqsUpTo(MCVocabulary, 3)
MCOpens == {<<"wire", "wires">>, <<"street", "streetlight">>}
MCCloses == {<<"light", "streetlight">>, <<"night", "tonight">>}
MCInside == MCOpens \cup MCCloses

MCDrafts ==
    [json : {"read"}, contact : Contacts, extra : {{}, {"note"}},
     location : [points : {2, LOCATION_MIN, LOCATION_MAX}, wide : {0, 1}],
     text : [points : {TEXT_MIN - 1, TEXT_MIN, TEXT_MAX}, wide : {0, 1}]]

\* At most one file is not there yet, one flaw is, one tool does not work.
AtMostOne(S) == {{}} \cup {{x} : x \in S}
Toolings == {[t \in Tools |-> "works"]} \cup
    {[t \in Tools |-> IF t = tool THEN ends ELSE "works"] :
        tool \in Tools, ends \in {"missing", "exits_1", "fails"}}
MCRepos == {[files |-> Files \ missing, flaws |-> flaws, tools |-> tools] :
               missing \in AtMostOne(Files), flaws \in AtMostOne(DOMAIN FlawIn),
               tools \in Toolings}
=============================================================================
