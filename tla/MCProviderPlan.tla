---------------------------- MODULE MCProviderPlan ----------------------------
(***************************************************************************)
(* Small instances of ProviderPlan, and of what its steps are made of.  A  *)
(* behaviour is of the one `part` chosen at the start: the calls of a      *)
(* route, the expansion of its plan (WorkPlan), the harness that runs a    *)
(* program (HarnessEvidence), a fast build (FastBuild), or one input of    *)
(* the functions of PacketEvidence and CandidateEvidence (the stores),     *)
(* ProviderCalls (settings, requests, responses), ModelAnswer and JsonText *)
(* (what is read from an answer).                                          *)
(***************************************************************************)
EXTENDS ProviderPlan, HarnessEvidence, FastBuild, FiniteSets, TLC

CONSTANTS PlanFiles, MaxDepth

VARIABLES
  part, input,
  manifest, packets, phase, contracts, corrections, inputs    (* WorkPlan   *)

planVars == <<manifest, packets, phase, contracts, corrections, inputs>>

Expansion == INSTANCE WorkPlan WITH MaxFiles <- PlanFiles, files <- manifest
PlanStore == INSTANCE PacketEvidence WITH MaxFiles <- PlanFiles
Runner    == INSTANCE CandidateEvidence
Adapter   == INSTANCE ProviderCalls
Reply     == INSTANCE ModelAnswer
Json      == INSTANCE JsonText

\* A repair has to change the failed contents: with three of them a repair
\* that is asked for twice can be answered differently.
Symmetry == Permutations(Contents)
ASSUME PlanFilesAssumption == PlanFiles \in Nat \ {0}
ASSUME ThreeContents == Contents \cap {None, Torn} = {} /\ \E c, d, e \in Contents :
                          c # d /\ d # e /\ c # e

Upto(pieces, n) == UNION {[1..k -> pieces] : k \in 0..n}

(***************************************************************************)
(* Inputs of CandidateEvidence: one or two attempts, and how many of the   *)
(* commands failed.                                                        *)
(***************************************************************************)
File(name, text) == Runner!File(name, <<text>>)
Bundles ==
  {<<File("src/main.rs", "x")>>, <<File("util.rs", "x")>>, <<File("util.rs", "y")>>,
   <<File("Cargo.toml", "x"), File("src/main.rs", "x")>>,
   <<File("Cargo.toml", "x"), File("src/main.rs", "y")>>,
   <<File("a.json", "x")>>, <<File("a.json", "x"), File("b.json", "broken")>>,
   <<File("a.json", "x"), File("b.json", "y")>>,
   <<File("src/main.rs", "x"), File("util.rs", "y")>>,
   <<File("util.rs", "x"), File("a.json", "y")>>, <<File("notes.md", "x")>>,
   <<File("build.rs", "x"), File("src/main.rs", "x")>>}
Judged(c, failed) ==
  Runner!Materializes(c) /\ (Runner!Profile(c) = "json" /\ ~Runner!Parses(c) => failed = 1)
CandidateInputs ==
  {i \in [candidates : {<<c>> : c \in Bundles}, failed : {<<n>> : n \in 0..3}]
       \cup [candidates : Bundles \X Bundles, failed : {1, 2, 3} \X {0, 1}] :
     /\ \A k \in DOMAIN i.candidates : Judged(i.candidates[k], i.failed[k])
     /\ Len(i.candidates) = 2 =>
          Runner!Bundle(i.candidates[1]) # Runner!Bundle(i.candidates[2])}

AnswerInputs == [stage : Stages, answer : PlanStore!Answers]

(***************************************************************************)
(* Inputs of ProviderCalls.                                                *)
(***************************************************************************)
WordsOf(n) ==
  CASE n = "kind" -> {"unset", "blank", "other", "deepseek-pro"} \cup Adapter!Kinds
    [] n = "url" -> {"unset", "blank", "own", "remote", "openai"}
    [] n = "model" -> {"unset", "deepseek-v4-pro", "other-pro"}
    [] n = "key_env" -> {"unset", "blank", "own"}
    [] n = "format" -> {"unset", "chat", "ollama-chat", "responses"}
    [] n = "header" -> {"unset", "bad", "X-Key"}
    [] n = "scheme" -> {"unset", "blank", "raw", "Token"}
    [] n = "response_key" -> {"unset", "bad", "answer"}
    [] n = "thinking" -> {"unset", "high", "max"}
    [] n = "template" ->
         {<<>>, <<"instructions", "data_json", "thinking">>, <<"data", "instructions_json">>,
          <<"data_json", "thinking_json", "instructions", "lit">>}
    [] n = "timeout" -> {<<>>, <<5>>, <<10>>, <<1801>>}
    [] n = "plan" -> {<<>>, <<60>>, <<59>>}
    [] n = "attempts" -> {<<>>, <<32>>, <<33>>}
    [] n = "verify" -> {<<>>, <<1800>>}
Unset ==
  [kind |-> "unset", url |-> "unset", model |-> "unset", key_env |-> "unset", format |-> "unset",
   header |-> "unset", scheme |-> "unset", response_key |-> "unset", thinking |-> "unset",
   template |-> <<>>, timeout |-> <<>>, plan |-> <<>>, attempts |-> <<>>, verify |-> <<>>]
\* Settings with one and with two of the variables set.
With(s) == UNION {{[s EXCEPT ![n] = w] : w \in WordsOf(n)} : n \in DOMAIN Unset}
WithTwo == UNION {With(s) : s \in With(Unset)}
KeyNames == Adapter!Kinds \cup {"own"}
Keys(names) == [k \in KeyNames |-> IF k \in names THEN "key" ELSE ""]
KeySets == {Keys(Adapter!Kinds), Keys({"openai"}), Keys({"own", "openai", "deepseek"})}

Nine == [k \in 1..9 |-> [node |-> k, title |-> ToString(k), excerpt |-> "x", score |-> 10 - k]]
Retrievals == {Nine, SubSeq(Nine, 1, 6), SubSeq(Nine, 1, 8)}
                \cup {[Nine EXCEPT ![k].excerpt = "y"] : k \in {1, 2, 6, 7, 8, 9}}
                \cup {[Nine EXCEPT ![k].title = "new"] : k \in {6, 7}}

Block(type) == [type |-> type, text |-> <<IF type \in Adapter!Reasons THEN "hidden" ELSE "say">>]
Blocks == {Block(t) : t \in {"text", "reasoning", "image"}}
Items  == [type : {"message", "reasoning"}, content : {<<>>} \cup {<<b>> : b \in Upto(Blocks, 2)}]
Responses ==
  [direct : {<<>>, <<"say">>}, preferred : {<<>>, <<"say">>}, reasoning : {<<>>, <<"hidden">>},
   tokens : {0, 1}, error : BOOLEAN, items : Upto(Items, 2)]

SettingInputs   == [settings : WithTwo, keys : KeySets]
PairInputs      == [one : With(Unset), other : With(Unset), keys : KeySets]
RetrievalInputs == [one : Retrievals, other : Retrievals]
EndInputs       == [1..3 -> Adapter!Ends]
ResponseInputs  == [format : {"responses", "chat", "ollama-chat"}, key : {"output_text", "answer"},
                    response : Responses]

(***************************************************************************)
(* Inputs of ModelAnswer and JsonText.                                     *)
(***************************************************************************)
Codes == {c \in Upto({"fn", "word", "open", "close", "quote", "fence", "nl"}, 5) :
            Len(c) > 1 /\ Reply!WellFormed(c)}
\* Few surroundings of many codes, and many of a few.
TextInputs ==
  [before : {<<>>, <<"word", "nl">>, <<"fence", "tag", "nl", "word", "nl", "fence", "nl">>,
             <<"quote", "word", "nl">>, <<"open", "nl">>},
   code   : Codes,
   after  : {<<>>, <<"nl", "word">>, <<"word", "quote">>, <<"nl", "close">>}]
  \cup
  [before : Upto({"fence", "quote", "nl", "word"}, 4)
              \cup {<<"fence", "nl", "fn", "nl", "fence", "nl">>, <<"fn", "close", "nl">>,
                    <<"fence", "nl", "quote", "fence", "quote", "nl", "fence", "nl">>},
   code   : {<<"fn", "open", "close">>, <<"fn", "open", "quote", "close", "quote", "close">>,
             <<"fn", "quote", "fence", "quote">>},
   after  : {<<>>, <<"nl", "fence", "nl", "close">>, <<"nl", "word", "quote", "nl", "fn">>,
             <<"nl", "fence", "nl", "fn", "nl", "fence">>, <<"open", "close">>}]
Members == {"id", "reasoning", "details", "text", "content"}
BodyInputs ==
  [outer : {<<"message", "id">>} \cup {<<m, "message">> : m \in Members \ {"details"}},
   inner : {i \in Upto(Members, 3) : Len(i) > 1 /\ "content" \in {i[k] : k \in DOMAIN i}
                                     /\ Cardinality({i[k] : k \in DOMAIN i}) = Len(i)},
   content : {"", "answer"}]

Quoted == <<"\"", "a", "\"">>
Single(tokens) == {<<t>> : t \in tokens}
NumberPieces == Single({"-", "0", "1", ".", "e", "+"})
StringPieces ==
  Single({"\\", "a", "ctl", "del", "\""})
    \cup {<<"\\", "u", "d800">>, <<"\\", "u", "dfff">>, <<"\\", "u", "0041">>, <<"\\", "n">>}
ValuePieces  == Single({"{", "}", "[", "]", ",", ":", " ", "0"}) \cup {Quoted}
Starts == {<<>>, <<"{">> \o Quoted \o <<":", "0", ",">>, <<"[", "0", ",">>, <<"[", "{">>,
           <<"{">> \o Quoted \o <<":", "{">>, <<"[", "0", ",", "{">> \o Quoted \o <<":">> \o Quoted}
JsonInputs ==
  [pieces : {"number"}, start : Upto(NumberPieces, 2)]
    \cup [pieces : {"string"}, start : {<<<<"\"">>, p>> : p \in StringPieces}]
    \cup [pieces : {"value"}, start : Starts \X ValuePieces]
\* What may follow a start.
Rests(pieces) ==
  Upto(CASE pieces = "number" -> NumberPieces [] pieces = "string" -> StringPieces
         [] pieces = "value" -> ValuePieces, 3)
Flat(pieces) ==
  LET flat[k \in 0..Len(pieces)] == IF k = 0 THEN <<>> ELSE flat[k - 1] \o pieces[k]
  IN  flat[Len(pieces)]

(***************************************************************************)
(* The sum.                                                                *)
(***************************************************************************)
NoInput == [kind |-> "none"]
Chosen(kind) == part = kind /\ input # NoInput

Parts == {"route", "plan", "harness", "fast", "answer", "candidate", "settings", "pair",
          "retrieval", "ends", "response", "text", "body", "json"}

PlanInit ==
  /\ part \in Parts /\ input = NoInput
  /\ Init /\ HarnessInit /\ fast = FastIdle
  /\ IF part = "plan" THEN Expansion!Init
     ELSE /\ manifest = 0 /\ phase = "done"
          /\ packets = <<>> /\ contracts = <<>> /\ corrections = <<>> /\ inputs = <<>>

Choose(kind, values) ==
  /\ part = kind /\ input = NoInput
  /\ \E v \in values : input' = [kind |-> kind, of |-> v]
  /\ UNCHANGED <<part, vars, planVars, harness, fast>>

PlanNext ==
  \/ part = "route" /\ Next /\ UNCHANGED <<part, input, planVars, harness, fast>>
  \/ part = "plan" /\ Expansion!Next /\ UNCHANGED <<part, input, vars, harness, fast>>
  \/ part = "harness" /\ HarnessNext /\ UNCHANGED <<part, input, vars, planVars, fast>>
  \/ part = "fast" /\ FastNext /\ UNCHANGED <<part, input, vars, planVars, harness>>
  \/ Choose("answer", AnswerInputs)
  \/ Choose("candidate", CandidateInputs)
  \/ Choose("settings", SettingInputs)
  \/ Choose("pair", PairInputs)
  \/ Choose("retrieval", RetrievalInputs)
  \/ Choose("ends", EndInputs)
  \/ Choose("response", ResponseInputs)
  \/ Choose("text", TextInputs)
  \/ Choose("body", BodyInputs)
  \/ Choose("json", JsonInputs)

PlanSpec == PlanInit /\ [][PlanNext]_<<part, input, vars, planVars, harness, fast>>

(***************************************************************************)
(* Properties.                                                             *)
(***************************************************************************)
\* The plan of every manifest of 1 to 32 files, grown packet by packet, is the one
\* the verifier of its evidence expects, in an order that never misses a
\* dependency, with every finding read and every prompt within its context
\* (WorkPlan); an executed plan verifies and with any of its files changed, lost
\* or added does not; every answer taken is taken again when it is read back
\* (PacketEvidence).
PlansAreSound ==
  /\ part = "plan" =>
       /\ Expansion!TypeOK /\ Expansion!DependenciesPrecede /\ Expansion!EvidenceVerifies
       /\ Expansion!FindingsAreRead /\ Expansion!PromptsCarryEveryDependency
       /\ phase = "done" /\ manifest <= 4 => PlanStore!PlanDamageIsRefused(packets, manifest)
  /\ Chosen("answer") => PlanStore!StoredAnswersReverify(input.of.stage, input.of.answer)

\* An attestation stands only for a program that ran to its end and printed what
\* was expected, with the files it names unchanged (HarnessEvidence); what the
\* runner writes of a candidate verifies, and damaged does not
\* (CandidateEvidence).
EvidenceIsEarned ==
  /\ AttestationsAreEarned /\ ProgramsAreEnded
  /\ Chosen("candidate") =>
       /\ Runner!WrittenEvidenceVerifies(input.of.candidates, input.of.failed)
       /\ Runner!DamageIsRefused(input.of.candidates, input.of.failed)

\* A call goes, with its own key and its whole prompt, to the provider it is
\* configured for, again only after a curl that came back with neither a status nor
\* an error of its own, and the plan it belongs to is known by all that is sent but
\* the titles of its evidence; only an answer that was thought about is read, and
\* never the thinking (ProviderCalls).
CallsAreFaithful ==
  /\ Chosen("settings") =>
       /\ Adapter!SettingsAgree(input.of.settings, input.of.keys)
       /\ Adapter!BodiesCarryTheirPrompt(input.of.settings, input.of.keys,
            [instructions |-> <<"do", "it">>, data |-> <<"with", "this">>])
  /\ Chosen("pair") =>
       Adapter!PlansFollowTheirCalls(input.of.one, input.of.other, Keys(KeyNames),
         [input.of.keys EXCEPT !["openai"] = "later"], <<>>, <<>>)
  /\ Chosen("retrieval") =>
       Adapter!PlansFollowTheirCalls(Unset, Unset, Keys(KeyNames), Keys(KeyNames),
         input.of.one, input.of.other)
  /\ Chosen("ends") => Adapter!FailuresAreFinal(input.of)
  /\ Chosen("response") =>
       Adapter!AnswersAreThought(input.of.format, input.of.key, input.of.response)

\* The program in an answer is found whole behind text whose blocks are closed, if
\* no other block follows, the answer in a body is the content of its message
\* (ModelAnswer), and the strict parser takes the texts of the JSON grammar but
\* those with raw characters of U+007F to U+009F, and finds the fields in them
\* (JsonText): of every input i a step may choose.
AnswersAreFound ==
  [][\A i \in {input'} :
       /\ i.kind = "text" =>
            /\ Reply!FencedCodeIsFound(i.of.before, i.of.code, i.of.after)
            /\ Reply!BareCodeIsFound(i.of.before, i.of.code, i.of.after)
       /\ i.kind = "body" =>
            \A preferred \in {"output_text", "content"} :
              Reply!ContentWins(i.of.outer, i.of.inner, i.of.content, preferred)
       /\ i.kind = "json" =>
            /\ \A rest \in Rests(i.of.pieces) :
                 LET t == Flat(i.of.start \o rest) IN
                   Json!TextsParse(t) /\ Json!FieldsAreFound(t, <<"a">>)
            /\ Json!SurrogatesPair]_input

\* "a typed reasoning/thinking response block" (PROVIDER_RUNTIME.md) is accepted as
\* evidence of thinking: an answer after such a block is read.
ReasonedAnswersAreRead ==
  Chosen("response") =>
    Adapter!ReasonedAnswersAreRead(input.of.format, input.of.key, input.of.response)

\* "Such a retry cannot double-submit" (post_json): a call sends its request at most
\* once, however its curls end.
RequestsAreSentOnce == Chosen("ends") => Adapter!RequestsAreSentOnce(input.of)
==============================================================================
