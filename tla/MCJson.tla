------------------------------- MODULE MCJson --------------------------------
(* The answers of the instance of LlmJson. *)
EXTENDS LlmJson

\* Strings that hold what the repairs look for: ] " , in a row, brackets, braces,
\* a line break, a backslash at the end.
Strings == {<<>>, <<"quote", "newline">>, <<"rbrace">>, <<"rbracket", "quote", "comma">>,
            <<"quote", "rbracket">>, <<"quote", "lbrace">>, <<"rbracket", "backslash">>}

SomeDocuments ==
  [items : {<<>>} \cup {<<s>> : s \in Strings} \cup {<< <<"word">>, <<"quote">> >>},
   note : {<<>>, <<"rbracket", "quote", "comma">>, <<"quote", "newline">>}]

SomeNoises ==
  {[think |-> t, fence |-> f, stray |-> s, raw |-> r, prose |-> p] :
     t, s, r \in BOOLEAN, f \in {"none", "json"}, p \in {"none", "around"}}
  \cup {[think |-> t, fence |-> "plain", stray |-> TRUE, raw |-> TRUE, prose |-> "before"] :
          t \in BOOLEAN}
==============================================================================
