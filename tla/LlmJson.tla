------------------------------- MODULE LlmJson -------------------------------
(***************************************************************************)
(* What is made of a model's answer: parse_llm_json_output, which strips what *)
(* surrounds the JSON object and repairs two frequent errors before it parses, *)
(* and generate_and_parse, which asks again.  A text is a sequence of tokens.  *)
(***************************************************************************)
EXTENDS Integers, FiniteSets, Sequences, SequencesExt

CONSTANTS
  Documents,      \* the objects a model means: [items |-> strings, note |-> string]
  Noises,         \* what it does to their text: [think, fence, stray, raw, prose]
  MaxJsonRetries  \* max_retries of generate_and_parse

\* Single characters, the three backticks of a fence and the tags around a thought; "n" is what
\* follows the backslash of an escaped line break, "json" the language of a fence, and
\* "word" any characters that mean nothing to the scanners.
Token ==
  {"lbrace", "rbrace", "lbracket", "rbracket", "comma", "colon", "quote", "backslash",
   "newline", "n", "word", "fence", "json", "think", "endthink"}

\* A document has any strings, but none opens a thought.
Characters == Token \ {"think"}

ASSUME JsonAssumption ==
  /\ MaxJsonRetries \in Nat
  /\ Documents \subseteq [items : Seq(Seq(Characters)), note : Seq(Characters)]
  /\ Noises \subseteq [think : BOOLEAN, fence : {"none", "plain", "json"}, stray : BOOLEAN,
                       raw : BOOLEAN, prose : {"none", "before", "after", "around"}]

VARIABLES
  answering,  \* the call in progress
  meant       \* history: the document that the last answer stands for, if any ({} or {it})

jsonVars == <<answering, meant>>

Nothing == "nothing"
NoText == <<>>

-----------------------------------------------------------------------------
(* The scanners *)

\* A quotation mark between the ] of an array and a comma.
StrayQuote(t, i) ==
  1 < i /\ i < Len(t) /\ t[i] = "quote" /\ t[i - 1] = "rbracket" /\ t[i + 1] = "comma"

\* Faulty: an escaped quotation mark ends the string.
ModeIgnoringEscapes(mode, token) ==
  CASE mode = "out" /\ token = "quote" -> "in"
    [] mode # "out" /\ token = "quote" -> "out"
    [] OTHER -> mode

\* Where the scanner is after a token: out of a string, in one, or behind a backslash.
ModeAfter(mode, token) ==
  CASE mode = "escape" -> "in"
    [] mode = "in" /\ token = "backslash" -> "escape"
    [] mode = "in" /\ token = "quote" -> "out"
    [] mode = "out" /\ token = "quote" -> "in"
    [] OTHER -> mode

\* The mode before each token of t, the tokens at the skipped places left out of account.
Modes(t, skipped) ==
  LET Next(mode, i) == IF mode = "out" /\ i \in skipped THEN "out" ELSE ModeAfter(mode, t[i])
      after[i \in 0..Len(t)] == IF i = 0 THEN "out" ELSE Next(after[i - 1], i)
  IN [i \in 1..Len(t) |-> after[i - 1]]

Without(t, places) == FlattenSeq([i \in 1..Len(t) |-> IF i \in places THEN <<>> ELSE <<t[i]>>])

\* _repair_trailing_quote_after_array
RepairTrailingQuote(t) ==
  LET stray == {i \in 1..Len(t) : StrayQuote(t, i)}
      mode == Modes(t, stray)
  IN Without(t, {i \in stray : mode[i] = "out"})

\* _repair_control_chars_in_json_strings
RepairControlChars(t) ==
  LET mode == Modes(t, {})
  IN FlattenSeq([i \in 1..Len(t) |-> IF mode[i] = "in" /\ t[i] = "newline"
                                     THEN <<"backslash", "n">> ELSE <<t[i]>>])

\* _extract_json_object_fallback: from the first { to the } that closes it.
ExtractObject(t) ==
  LET opens == {i \in 1..Len(t) : t[i] = "lbrace"}
      start == CHOOSE i \in opens : \A j \in opens : i <= j
      rest == SubSeq(t, start, Len(t))
      mode == Modes(rest, {})
      Outside(token, i) == {k \in 1..i : rest[k] = token /\ mode[k] = "out"}
      closes == {i \in 1..Len(rest) :
                   Cardinality(Outside("lbrace", i)) = Cardinality(Outside("rbrace", i))}
  IN IF opens = {} \/ closes = {} THEN NoText
     ELSE SubSeq(rest, 1, CHOOSE i \in closes : \A j \in closes : i <= j)

\* _strip_thinking_tags: each <think> up to the next </think>.
StripThinking(t) ==
  Without(t, {k \in 1..Len(t) : \E i \in 1..k, j \in k..Len(t) :
                 /\ t[i] = "think" /\ t[j] = "endthink"
                 /\ \A l \in i..(j - 1) : t[l] # "endthink"})

\* _strip_markdown_code_block: what is between the fence at the start, with its
\* language, and the last one.
StripFence(t) ==
  LET fences == {i \in 1..Len(t) : t[i] = "fence"}
      last == CHOOSE i \in fences : \A j \in fences : j <= i
      content == SubSeq(t, 2, last - 1)
  IN IF t = NoText \/ t[1] # "fence" \/ last = 1 THEN t
     ELSE IF content # NoText /\ content[1] = "json" THEN Tail(content) ELSE content

-----------------------------------------------------------------------------
(* json.loads: objects, arrays and strings *)

JsonStart == [expects |-> "value", open |-> <<>>]

Opened(s, bracket) ==
  [open |-> Append(s.open, bracket), expects |-> IF bracket = "lbrace" THEN "key" ELSE "item"]
Closed(s) == [open |-> Front(s.open), expects |-> "next"]

JsonStep(s, c) ==
  CASE s.expects = "value" /\ c \in {"lbrace", "lbracket"} -> Opened(s, c)
    [] s.expects = "item" /\ c = "lbracket" -> Opened(s, c)
    [] s.expects \in {"value", "item"} /\ c = "quote" -> [s EXCEPT !.expects = "string"]
    [] s.expects = "item" /\ c = "rbracket" -> Closed(s)
    [] s.expects = "key" /\ c = "rbrace" -> Closed(s)
    [] s.expects \in {"key", "name"} /\ c = "quote" -> [s EXCEPT !.expects = "in_name"]
    [] s.expects = "in_name" /\ c = "word" -> s
    [] s.expects = "in_name" /\ c = "quote" -> [s EXCEPT !.expects = "colon"]
    [] s.expects = "colon" /\ c = "colon" -> [s EXCEPT !.expects = "value"]
    [] s.expects = "string" /\ c = "quote" -> [s EXCEPT !.expects = "next"]
    [] s.expects = "string" /\ c = "backslash" -> [s EXCEPT !.expects = "escaped"]
    [] s.expects = "string" /\ c \notin {"quote", "backslash", "newline"} -> s
    [] s.expects = "escaped" /\ c \in {"quote", "backslash", "n"} -> [s EXCEPT !.expects = "string"]
    [] s.expects = "next" /\ c = "comma" /\ s.open # <<>> ->
         [s EXCEPT !.expects = IF Last(s.open) = "lbrace" THEN "name" ELSE "value"]
    [] s.expects = "next" /\ c \in {"rbrace", "rbracket"} /\ s.open # <<>> ->
         IF (c = "rbrace") = (Last(s.open) = "lbrace") THEN Closed(s)
         ELSE [s EXCEPT !.expects = "error"]
    [] s.expects \notin {"string", "in_name", "escaped"} /\ c = "newline" -> s
    [] OTHER -> [s EXCEPT !.expects = "error"]

IsJson(t) ==
  LET state[i \in 0..Len(t)] == IF i = 0 THEN JsonStart ELSE JsonStep(state[i - 1], t[i])
  IN state[Len(t)] = [expects |-> "next", open |-> <<>>]

-----------------------------------------------------------------------------
(* parse_llm_json_output *)

Prepared(raw) == RepairControlChars(RepairTrailingQuote(StripFence(StripThinking(raw))))

\* The text that is loaded: the prepared one, else the object within it.
LoadedText(raw) ==
  LET t == Prepared(raw) IN
  IF IsJson(t) THEN t
  ELSE LET object == ExtractObject(t) IN IF IsJson(object) THEN object ELSE NoText

\* model_validate: the DTO has required fields.
FitsContract(t) == t # <<"lbrace", "rbrace">>

\* The outcome: the JSON that was understood, or what is wrong.
Parse(raw) ==
  LET t == LoadedText(raw) IN
  CASE raw = NoText -> [error |-> "empty", json |-> NoText]
    [] raw # NoText /\ t = NoText -> [error |-> "not_json", json |-> NoText]
    [] t # NoText /\ t[1] # "lbrace" -> [error |-> "not_object", json |-> NoText]
    [] t # NoText /\ t[1] = "lbrace" /\ ~FitsContract(t) -> [error |-> "contract", json |-> NoText]
    [] OTHER -> [error |-> Nothing, json |-> t]

-----------------------------------------------------------------------------
(* What a model writes *)

\* A character of a string; a careless model leaves a line break as it is.
Escaped(c, raw) ==
  CASE c \in {"quote", "backslash"} -> <<"backslash", c>>
    [] c = "newline" /\ ~raw -> <<"backslash", "n">>
    [] OTHER -> <<c>>

Quoted(string, raw) ==
  <<"quote">> \o FlattenSeq([i \in 1..Len(string) |-> Escaped(string[i], raw)]) \o <<"quote">>

Name == <<"quote", "word", "quote", "colon">>

\* {"risk_warnings": [...], "reasoning": "..."}
TextOf(doc, raw, stray) ==
  <<"lbrace">> \o Name \o <<"lbracket">>
  \o FlattenSeq([i \in 1..Len(doc.items) |->
       (IF i = 1 THEN <<>> ELSE <<"comma">>) \o Quoted(doc.items[i], raw)])
  \o <<"rbracket">> \o (IF stray THEN <<"quote">> ELSE <<>>) \o <<"comma">>
  \o Name \o Quoted(doc.note, raw) \o <<"rbrace">>

\* The thought holds half an object, the prose neither brace nor quotation mark.
Noisy(doc, noise) ==
  (IF noise.think THEN <<"think", "lbrace", "quote", "word", "endthink">> ELSE <<>>)
  \o (IF noise.prose \in {"before", "around"} THEN <<"word", "newline">> ELSE <<>>)
  \o (CASE noise.fence = "json" -> <<"fence", "json">>
        [] noise.fence = "plain" -> <<"fence">> [] OTHER -> <<>>)
  \o TextOf(doc, noise.raw, noise.stray)
  \o (IF noise.fence # "none" THEN <<"fence">> ELSE <<>>)
  \o (IF noise.prose \in {"after", "around"} THEN <<"newline", "word">> ELSE <<>>)

\* Answers that stand for no document.
Useless == {NoText, <<"word">>, <<"lbracket", "rbracket">>, <<"lbrace", "rbrace">>,
            <<"lbrace", "quote", "word">>, <<"fence", "lbrace", "fence">>}

-----------------------------------------------------------------------------
(* generate_and_parse *)

JsonTypeOK ==
  /\ answering.pc \in {"idle", "asked", "parsed", "refused", "raised"}
  /\ answering.attempt \in 0..MaxJsonRetries
  /\ answering.told \in {Nothing, "empty", "not_json", "not_object", "contract"}
  /\ Cardinality(meant) <= 1 /\ meant \subseteq Documents

JsonInit ==
  /\ answering = [pc |-> "idle", attempt |-> 0, told |-> Nothing, json |-> NoText]
  /\ meant = {}

AskModel ==
  /\ answering.pc = "idle"
  /\ answering' = [answering EXCEPT !.pc = "asked"]
  /\ UNCHANGED meant

\* The answer is parsed; after an error the model is asked again, with the first
\* prompt and the error of this answer, until the retries are used up.
Understand(raw) ==
  LET outcome == Parse(raw)
      again == answering.attempt < MaxJsonRetries
  IN answering' = IF outcome.error = Nothing
                  THEN [answering EXCEPT !.pc = "parsed", !.json = outcome.json]
                  ELSE [answering EXCEPT !.pc = IF again THEN "asked" ELSE "refused",
                                         !.attempt = IF again THEN @ + 1 ELSE @,
                                         !.told = outcome.error]

ModelWrites(doc, noise) ==
  /\ answering.pc = "asked"
  /\ Understand(Noisy(doc, noise))
  /\ meant' = {doc}

ModelBabbles(raw) ==
  /\ answering.pc = "asked"
  /\ Understand(raw)
  /\ meant' = {}

\* The call's own error is not retried.
ModelCallRaises ==
  /\ answering.pc = "asked"
  /\ answering' = [answering EXCEPT !.pc = "raised"]
  /\ meant' = {}

JsonNext ==
  \/ AskModel \/ ModelCallRaises
  \/ \E doc \in Documents, noise \in Noises : ModelWrites(doc, noise)
  \/ \E raw \in Useless : ModelBabbles(raw)

JsonSpec == JsonInit /\ [][JsonNext]_jsonVars

-----------------------------------------------------------------------------
\* Stripping and repairing lose and invent nothing: an answer that stands for a
\* document is read as exactly that document, however its strings mix brackets,
\* commas and escaped quotation marks with what the repairs look for, and whatever
\* surrounds it; an answer that stands for none is never read as one.
RepairsAreExact ==
  /\ \A doc \in meant : /\ answering.pc = "parsed"
                        /\ answering.json = TextOf(doc, FALSE, FALSE)
  /\ answering.pc = "parsed" => meant # {}
==============================================================================
