----------------------------- MODULE ModelAnswer -----------------------------
(***************************************************************************)
(* How the fast path finds the program in what a model sends: the answer   *)
(* text in the JSON body of the provider (parse_provider_text), then the   *)
(* program in the text (extract_code_from_response), both in avc-core.     *)
(*                                                                         *)
(* A text is a sequence of tokens: "fence" for three backticks, "tag" for  *)
(* a language tag and the blank after it, "nl", "quote", "open", "close",  *)
(* "use" and "fn" for the words that begin a declaration ("fn" that of     *)
(* main), "word" for anything else.  An escaped quote is a word.           *)
(***************************************************************************)
EXTENDS Integers, Sequences, FiniteSets

\* The first place of a token in text from a place on, 0 if there is none.
FindFrom(text, token, from) ==
  LET found == {i \in from..Len(text) : text[i] = token}
  IN  IF found = {} THEN 0 ELSE CHOOSE i \in found : \A j \in found : i <= j

\* Whether place i lies within a string literal, read from a place on.
InString(text, from, i) ==
  Cardinality({j \in from..(i - 1) : text[j] = "quote"}) % 2 = 1

\* Variant: a fence in a string literal ends the block.
ClosingFenceNaive(text, from) == FindFrom(text, "fence", from)

ClosingFence(text, from) ==
  LET found == {i \in from..Len(text) : text[i] = "fence" /\ ~InString(text, from, i)}
  IN  IF found = {} THEN 0 ELSE CHOOSE i \in found : \A j \in found : i <= j

\* Where the block opened at a fence begins: after its line, or after its tag
\* when the text has no further line.
BodyStart(text, fence) ==
  LET nl == FindFrom(text, "nl", fence + 1)
  IN  IF nl # 0 THEN nl + 1
      ELSE IF fence < Len(text) /\ text[fence + 1] = "tag" THEN fence + 2 ELSE fence + 1

\* First and last place of the last fenced block, << >> if there is none.
LastBlock(text) ==
  LET blocks[from \in 1..(Len(text) + 1)] ==
        LET fence == FindFrom(text, "fence", from) IN
        IF fence = 0 THEN <<>>
        ELSE LET start == BodyStart(text, fence)
                 close == ClosingFence(text, start)
             IN IF close = 0 THEN <<>>
                ELSE IF blocks[close + 1] # <<>> THEN blocks[close + 1]
                ELSE <<start, close - 1>>
  IN blocks[1]

Declarations == {"use", "fn"}
LineStarts(text) == {i \in 1..Len(text) : i = 1 \/ text[i - 1] = "nl"}
LooksLikeRust(text) == \E i \in LineStarts(text) : text[i] \in Declarations

\* The first line that is not empty begins a declaration.
FirstLineIsRust(text) ==
  \E i \in 1..Len(text) : text[i] \in Declarations /\ \A j \in 1..(i - 1) : text[j] = "nl"

NoNewlinesAfter(text) ==
  LET keep == {i \in 1..Len(text) : text[i] # "nl"}
  IN  IF keep = {} THEN <<>>
      ELSE SubSeq(text, 1, CHOOSE i \in keep : \A j \in keep : j <= i)

\* Cuts what follows the last closing brace of the outermost level.
TrimProse(code) ==
  LET count(token, i) ==
        Cardinality({j \in 1..i : code[j] = token /\ ~InString(code, 1, j)})
      cuts == {i \in 1..Len(code) :
                 /\ code[i] = "close" /\ ~InString(code, 1, i)
                 /\ count("open", i) = count("close", i)}
  IN  IF cuts = {} THEN code
      ELSE LET cut == CHOOSE i \in cuts : \A j \in cuts : j <= i IN
           IF \A i \in (cut + 1)..Len(code) : code[i] = "nl" THEN code
           ELSE SubSeq(code, 1, cut)

\* From the first line that begins a declaration on, if main is among them.
SliceFromProse(text) ==
  LET starts == {i \in LineStarts(text) : text[i] \in Declarations}
      tail   == SubSeq(text, CHOOSE i \in starts : \A j \in starts : i <= j, Len(text))
  IN  IF starts = {} \/ ~\E i \in LineStarts(text) : text[i] = "fn" THEN <<>>
      ELSE TrimProse(tail)

\* extract_code_from_response; << >> for no program.
ProgramIn(text) ==
  LET block  == LastBlock(text)
      fenced == IF block = <<>> THEN <<>>
                ELSE NoNewlinesAfter(SubSeq(text, block[1], block[2]))
  IN  IF LooksLikeRust(fenced) THEN fenced
      ELSE IF FirstLineIsRust(text) THEN TrimProse(text)
      ELSE SliceFromProse(text)

(***************************************************************************)
(* The answer text of a body.  A body is a sequence of <<"open", "">>,     *)
(* <<"close", "">>, <<"colon", "">>, <<"comma", "">> and <<"string", s>>.  *)
(***************************************************************************)
Str(s) == <<"string", s>>

\* read_json_string_field between two places: the string after the first key
\* that has one, or "none".
ReadField(body, from, to, key) ==
  LET found == {i \in from..(to - 2) :
                  body[i] = Str(key) /\ body[i + 1][1] = "colon" /\ body[i + 2][1] = "string"}
  IN  IF found = {} THEN "none" ELSE body[(CHOOSE i \in found : \A j \in found : i <= j) + 2][2]

MatchingBrace(body, at) ==
  LET depth(i) == Cardinality({j \in at..i : body[j][1] = "open"})
                - Cardinality({j \in at..i : body[j][1] = "close"})
      found    == {i \in at..Len(body) : depth(i) = 0}
  IN  CHOOSE i \in found : \A j \in found : i <= j

\* Variant: a field of the body, whatever object it belongs to.
MessageFieldAnywhere(body, key) == ReadField(body, 1, Len(body), key)

\* The field within the object that follows the first "message".
MessageField(body, key) ==
  LET named  == {i \in 1..Len(body) : body[i] = Str("message")}
      name   == CHOOSE i \in named : \A j \in named : i <= j
      opened == {i \in name..Len(body) : body[i][1] = "open"}
      brace  == CHOOSE i \in opened : \A j \in opened : i <= j
  IN  IF named = {} \/ opened = {} THEN "none"
      ELSE ReadField(body, brace, MatchingBrace(body, brace), key)

HasText(s) == s \notin {"none", ""}

Ladder(preferred) ==
  <<preferred, "output_text", "content", "response", "text", "reasoning_content", "reasoning">>

\* parse_provider_text; "none" for ResponseTextMissing.
TextIn(body, preferred) ==
  LET scoped  == MessageField(body, preferred)
      content == MessageField(body, "content")
      ladder  == Ladder(preferred)
      field(k) == ReadField(body, 1, Len(body), ladder[k])
      rungs   == {k \in 1..Len(ladder) : HasText(field(k))}
  IN  IF HasText(scoped) THEN scoped
      ELSE IF HasText(content) THEN content
      ELSE IF rungs = {} THEN "none"
      ELSE field(CHOOSE k \in rungs : \A j \in rungs : k <= j)

(***************************************************************************)
(* Properties of an input.                                                 *)
(***************************************************************************)
\* Code whose quotes pair - one in a comment or a character literal counts as any
\* other - with fences in strings only, and with a line that begins a declaration.
WellFormed(code) ==
  /\ LooksLikeRust(code) /\ code = NoNewlinesAfter(code)
  /\ ~InString(code, 1, Len(code) + 1)
  /\ \A i \in 1..Len(code) : code[i] = "fence" => InString(code, 1, i)

\* Text whose blocks are closed: every other fence opens a block that begins on the
\* next line and has its quotes paired where the following fence closes it.
Fences(text) == {i \in DOMAIN text : text[i] = "fence"}
BlocksAreClosed(text) ==
  /\ Cardinality(Fences(text)) % 2 = 0
  /\ \A i, j \in Fences(text) :
       /\ i < j /\ {k \in Fences(text) : i < k /\ k < j} = {}
       /\ Cardinality({k \in Fences(text) : k <= i}) % 2 = 1
       => LET nl == FindFrom(text, "nl", i) IN
          nl \in i..j /\ ~InString(text, nl + 1, j)

\* "the last fence pair is the answer" and "Scan string-literal-aware instead"
\* (extract_fenced_code): an answer of the form the prompt asks for is extracted
\* whole, whatever is said and whichever blocks are closed before it, if no other
\* block follows.
FencedCodeIsFound(before, code, after) ==
  WellFormed(code) /\ BlocksAreClosed(before) /\ Cardinality(Fences(after)) < 2 =>
    ProgramIn(before \o <<"fence", "tag", "nl">> \o code \o <<"nl", "fence">> \o after) = code

\* "cut at the LAST point depth returns to zero" (trim_trailing_prose): a program
\* sent without a fence, from the line of main on, loses the words around it and
\* nothing else, unless there is a declaration among the words before it, a block
\* left open or an opening brace behind it.
BareCodeIsFound(before, code, after) ==
  LET count(token) == Cardinality({i \in 1..Len(code) :
                        code[i] = token /\ ~InString(code, 1, i)})
      blank(n) == [k \in 1..n |-> "nl"]
  IN  /\ WellFormed(code) /\ code[1] = "fn" /\ code[Len(code)] = "close"
      /\ count("open") = count("close") /\ Fences(code) = {}
      /\ before = <<>> \/ before[Len(before)] = "nl"
      /\ BlocksAreClosed(before) /\ Cardinality(Fences(after)) < 2
      /\ ~LooksLikeRust(before) /\ "open" \notin {after[i] : i \in DOMAIN after}
      => \E m, n \in 0..(Len(before) + Len(after) + 1) :
           ProgramIn(before \o code \o <<"nl">> \o after) = blank(m) \o code \o blank(n)

Joined(parts) ==
  LET join[k \in 0..Len(parts)] ==
        IF k = 0 THEN <<>>
        ELSE join[k - 1] \o (IF k = 1 THEN <<>> ELSE <<<<"comma", "">>>>) \o parts[k]
  IN join[Len(parts)]
Object(parts) == <<<<"open", "">>>> \o Joined(parts) \o <<<<"close", "">>>>
Member(key, value) == <<Str(key), <<"colon", "">>>> \o value

\* "makes that class of collision impossible for ChatCompletions/Ollama-shaped
\* bodies" (parse_provider_text): thoughts in a nested or a neighbouring object
\* are never taken for the content of the message; without content they are.
ContentWins(outer, inner, content, preferred) ==
  LET message == [k \in DOMAIN inner |->
                    IF inner[k] = "content" THEN Member("content", <<Str(content)>>)
                    ELSE IF inner[k] = "details"
                         THEN Member("details", Object(<<Member("text", <<Str("thought")>>)>>))
                         ELSE Member(inner[k], <<Str("thought")>>)]
      body    == Object([k \in 1..2 |->
                   IF outer[k] = "message" THEN Member("message", Object(message))
                   ELSE Member(outer[k], <<Str("thought")>>)])
      thoughts == {inner[k] : k \in DOMAIN inner} \cap {"reasoning", "text", "details"}
  IN  /\ content # "" => TextIn(body, preferred) = content
      /\ content = "" /\ thoughts # {} => TextIn(body, preferred) = "thought"
==============================================================================
