---------------------------- MODULE ProviderCalls ----------------------------
(***************************************************************************)
(* One call of a model provider: the settings it is configured by, in the  *)
(* full and in the fast crate ("core", "fast"), the request it becomes,    *)
(* the curl processes that carry it, and the reading of its response by    *)
(* the work-packet adapter ("core") and by the durable one ("vibe").       *)
(*                                                                         *)
(* Settings s: a word, "unset" or "blank" for each MATH_ATOMS_PROVIDER_*   *)
(* variable - the aliases of a kind are one word - a tuple of parts for    *)
(* the body template, and <<>> or <<n>> for each number.  An endpoint is   *)
(* the kind that answers there, "own" (another, over https), "remote"      *)
(* (another, over http) or "".  keys maps each credential's name to it.    *)
(***************************************************************************)
EXTENDS Integers, SequencesExt

Kinds == {"openai", "ollama", "mistral", "deepseek", "custom"}

Or(value, default) == IF value \in {"unset", "blank"} THEN default ELSE value

\* provider_kind_from: deepseek-pro is a kind's name to the full crate only.
KindOf(crate, word) ==
  IF word \in Kinds THEN word
  ELSE IF crate = "core" /\ word = "deepseek-pro" THEN "deepseek" ELSE "openai"

\* provider_wire_format_from, default_wire_format.
FormatOf(word) == IF word \in {"chat", "ollama-chat"} THEN word ELSE "responses"
DefaultFormat(kind) ==
  IF kind = "openai" THEN "responses" ELSE IF kind = "ollama" THEN "ollama-chat" ELSE "chat"

\* default_model, default_endpoint.
DefaultModel(crate, kind) ==
  IF kind = "custom" THEN ""
  ELSE IF kind = "deepseek" THEN IF crate = "core" THEN "deepseek-v4-pro" ELSE "flash"
  ELSE kind \o "-model"
DefaultEndpoint(kind) == IF kind = "custom" THEN "" ELSE kind

\* Variant: every kind but DeepSeek shares the key of the first.
KeyEnvShared(kind) == IF kind = "deepseek" THEN kind ELSE "openai"
\* default_key_env: each kind has a credential of its own.
KeyEnv(kind) == kind

\* normalize_header_name, normalize_auth_scheme, normalize_response_key: "bad" has no
\* character that is kept, "raw" stands for no prefix.
Header(word)      == IF Or(word, "bad") = "bad" THEN "Authorization" ELSE word
Scheme(form, word) ==
  IF word = "unset" \/ (form = "values" /\ word = "blank") THEN "Bearer"
  ELSE IF word \in {"blank", "raw"} THEN "" ELSE word
ResponseKey(word) == IF word = "bad" THEN "" ELSE Or(word, "output_text")

Thinking(word) ==
  IF Or(word, "low") \in {"low", "medium", "high"} THEN <<Or(word, "low")>> ELSE <<>>

Within(number, low, high, fallback) ==
  IF number # <<>> /\ number[1] \in low..high THEN number[1] ELSE fallback
Clamped(n, low, high) == IF n < low THEN low ELSE IF n > high THEN high ELSE n
IsPro(model) == model \in {"deepseek-v4-pro", "other-pro"}

Scope(endpoint, key) == IF key = "" THEN <<>> ELSE <<endpoint, key>>

\* What the settings ask for, with the defaults of its kind.
Kind(crate, s)      == KindOf(crate, Or(s.kind, "openai"))
Endpoint(crate, s)  == Or(s.url, DefaultEndpoint(Kind(crate, s)))
Model(crate, s)     == Or(s.model, DefaultModel(crate, Kind(crate, s)))
KeyName(crate, s)   == Or(s.key_env, KeyEnv(Kind(crate, s)))
Format(crate, s)    ==
  IF Or(s.format, "") = "" THEN DefaultFormat(Kind(crate, s)) ELSE FormatOf(s.format)
Timeouts == 10..1800
Timeout(crate, s) ==
  Within(s.timeout, 10, 1800,
         IF Kind(crate, s) = "deepseek" /\ IsPro(Model(crate, s)) THEN 900 ELSE 120)
PlanLimit(crate, s) ==
  Within(s.plan, 60, 86400, Clamped(96 * Timeout(crate, s), 600, 86400))
AttemptLimit(s)     == Within(s.attempts, 1, 32, 8)
VerifyLimit(s)      == Within(s.verify, 10, 1800, 180)

\* ProviderConfig: from_process_env and from_pairs ("environment"), from_values_full
\* ("values").  The fast crate has no thinking level, scope or limits.
Config(crate, form, s, keys) ==
  [kind |-> Kind(crate, s), endpoint |-> Endpoint(crate, s), model |-> Model(crate, s),
   key_env |-> KeyName(crate, s), format |-> Format(crate, s),
   header |-> Header(s.header), scheme |-> Scheme(form, s.scheme),
   template |-> s.template, response_key |-> ResponseKey(s.response_key),
   present |-> keys[KeyName(crate, s)] # "", thinking |-> Thinking(s.thinking),
   scope |-> Scope(Endpoint(crate, s), keys[KeyName(crate, s)]), timeout |-> Timeout(crate, s),
   plan |-> PlanLimit(crate, s), attempts |-> AttemptLimit(s), verify |-> VerifyLimit(s)]

Ready(crate, c) ==
  /\ c.present /\ c.endpoint # "" /\ c.model # "" /\ c.header # ""
  /\ crate = "core" => c.thinking # <<>>

\* template_has_value.
Carries(template, names) == Range(template) \cap names # {}
CarriesAll(template) ==
  \/ template = <<>>
  \/ /\ Carries(template, {"instructions", "instructions_json"})
     /\ Carries(template, {"data", "data_json"}) /\ Carries(template, {"thinking", "thinking_json"})

\* prepare_call_with_atoms: the first thing it misses, "" for nothing.
Missing(crate, c, intent) ==
  IF intent = <<>> THEN "EmptyPrompt"
  ELSE IF c.endpoint = "" THEN "MissingEndpoint"
  ELSE IF c.model = "" THEN "MissingModel"
  ELSE IF ~c.present THEN "MissingApiKey"
  ELSE IF crate = "core" /\ c.thinking = <<>> THEN "ThinkingRequired"
  ELSE IF crate = "core" /\ ~CarriesAll(c.template) THEN "InvalidBodyTemplate" ELSE ""

\* validate_config of the durable adapter.
Valid(c) ==
  /\ c.present /\ c.endpoint \notin {"", "remote"} /\ c.model # "" /\ c.header # ""
  /\ c.thinking # <<>> /\ c.timeout \in Timeouts

\* execution_api_key: the credential found when the call is made.
KeyHolds(c, keys) == keys[c.key_env] # "" /\ Scope(c.endpoint, keys[c.key_env]) = c.scope

(***************************************************************************)
(* The request.                                                            *)
(***************************************************************************)
Replaced(text, name, value) ==
  LET replaced[i \in 0..Len(text)] ==
        IF i = 0 THEN <<>>
        ELSE replaced[i - 1] \o IF text[i] = name THEN value ELSE <<text[i]>>
  IN  replaced[Len(text)]

\* render_body_template: one placeholder after the other, in the text so far.
Rendered(template, model, prompt, level) ==
  LET plain == Replaced(Replaced(Replaced(template, "model", <<model>>),
                                 "instructions", prompt.instructions), "data", prompt.data)
      json  == Replaced(Replaced(Replaced(plain, "model_json", <<model>>),
                                 "instructions_json", prompt.instructions),
                        "data_json", prompt.data)
  IN  Replaced(Replaced(json, "thinking", <<level>>), "thinking_json", <<level>>)

\* provider_body, request_body: how a body asks for thinking differs.
Body(adapter, c, prompt) ==
  IF c.template # <<>> THEN Rendered(c.template, c.model, prompt, c.thinking[1])
  ELSE <<c.format, c.model>> \o prompt.instructions \o prompt.data
         \o IF c.format = "chat" /\ (IF adapter = "core" THEN c.model = "deepseek-v4-pro"
                                     ELSE c.kind = "deepseek" /\ IsPro(c.model))
            THEN <<"enabled">> ELSE c.thinking

EvidenceShown  == 6   (* take(6) of prepare_call_with_atoms *)
EvidenceHashed == 8   (* take(8) of work_fingerprint        *)

First(evidence, n) == SubSeq(evidence, 1, IF Len(evidence) < n THEN Len(evidence) ELSE n)

\* What a fingerprint takes of the evidence; a title is not in it.
Identified(evidence, n) ==
  LET best == First(evidence, n) IN
  [i \in DOMAIN best |-> <<best[i].node, best[i].score, best[i].excerpt>>]

\* Variant: only the best evidence identifies a plan.
FingerprintOfBest(c, evidence) ==
  <<c.kind, c.model, c.endpoint, c.format, c.header, c.scheme, c.response_key, c.thinking,
    c.template, c.scope, c.timeout, c.plan, c.attempts, c.verify, Identified(evidence, 1)>>
\* work_fingerprint: what the identity of a work plan depends on.
Fingerprint(c, evidence) ==
  <<c.kind, c.model, c.endpoint, c.format, c.header, c.scheme, c.response_key, c.thinking,
    c.template, c.scope, c.timeout, c.plan, c.attempts, c.verify,
    Identified(evidence, EvidenceHashed)>>

\* The context of the prompts: title and excerpt of the best evidence.
Shown(evidence) ==
  LET best == First(evidence, EvidenceShown) IN
  [i \in DOMAIN best |-> best[i].title \o ": " \o best[i].excerpt]

\* PreparedProviderCall and the prompt of its packets: all that is sent, and how it
\* is read and bounded.
Call(c, evidence) ==
  [to |-> <<c.endpoint, c.header, c.scheme, c.scope>>,
   body |-> Body("core", c, [instructions |-> <<"contract">>,
                             data |-> Shown(evidence)]),
   read |-> <<c.format, c.response_key>>,
   limits |-> <<c.timeout, c.plan, c.attempts, c.verify>>]

(***************************************************************************)
(* The transport: how each curl process in turn ends.                      *)
(***************************************************************************)
Tries == 3   (* MAX_ATTEMPTS of post_json *)

\* How a curl ends: whether it has sent the request, the class of its exit code -
\* none (killed by a signal), 0, 1..99 (its own errors), any other - and of the
\* status it leaves behind its output: none at all, one that is no number in
\* 100..599, 200..299 or another; "lost" if it could not be started or fed, or its
\* output was too large or not text.  A status of a server says that the request was
\* sent, and so does 0.
Lost == {[sent |-> sent, code |-> "none", status |-> "lost"] : sent \in BOOLEAN}
Captures ==
  {c \in [sent : BOOLEAN, code : {"none", "0", "1..99", "other"},
          status : {"missing", "odd", "2xx", "other"}] :
     c.sent \/ (c.code # "0" /\ c.status \in {"missing", "odd"})}
Ends == Lost \cup Captures

\* classify_curl_capture and the errors of run_curl: CurlFailed but for an answer,
\* for what was lost and for a good exit without any marker.
Answered(end) == end.code = "0" /\ end.status = "2xx"
CurlFailed(end) ==
  ~Answered(end) /\ end.status # "lost" /\ (end.code = "0" => end.status # "missing")

\* Variant: a curl that failed by itself is started again.
RetriedOnFailure(end) == CurlFailed(end) /\ end.status \in {"missing", "odd"}
\* is_transient_launch_failure: no status, and no exit code curl documents as an error.
Retried(end) == CurlFailed(end) /\ end.status \in {"missing", "odd"} /\ end.code # "1..99"

\* post_json: the processes started.
Started(ends) ==
  CHOOSE n \in 1..Tries :
    /\ \A k \in 1..(n - 1) : Retried(ends[k])
    /\ n = Tries \/ ~Retried(ends[n])

(***************************************************************************)
(* The response: its text at output_text or as the message's content,      *)
(* the items of its output (of a chat message, one), the text of its       *)
(* reasoning field, the reasoning tokens it counts, the text under the     *)
(* configured key, and whether it has an error.  An item is a type and     *)
(* <<>> or its blocks; a block a type and a text.                          *)
(***************************************************************************)
Reasons == {"reasoning", "thinking"}
Speaks(block) == block.type \in {"output_text", "text"}
Spoken(blocks) ==
  LET said[i \in 0..Len(blocks)] ==
        IF i = 0 THEN <<>>
        ELSE said[i - 1] \o IF Speaks(blocks[i]) THEN blocks[i].text ELSE <<>>
  IN  said[Len(blocks)]
Least(places) == CHOOSE i \in places : \A j \in places : i <= j
Speaking(blocks) == {i \in DOMAIN blocks : Speaks(blocks[i])}

\* responses_output_text gives up at an item without content; responses_text of the
\* durable adapter goes on to the next.
Silent(item) == item.content = <<>>
Reads(adapter, items) ==
  {i \in DOMAIN items : IF adapter = "core" THEN \A j \in 1..i : ~Silent(items[j])
                        ELSE ~Silent(items[i])}
ReadItems(adapter, items) ==
  LET spoken == {i \in Reads(adapter, items) : Speaking(items[i].content[1]) # {}}
      blocks == items[Least(spoken)].content[1]
  IN  IF spoken = {} THEN <<>> ELSE blocks[Least(Speaking(blocks))].text

\* chat_completion_text, ollama_chat_text.
TextOf(adapter, format, r) ==
  IF r.direct # <<>> THEN r.direct
  ELSE CASE format = "responses" -> ReadItems(adapter, r.items)
         [] format = "chat" ->
              IF r.items = <<>> \/ r.items[1].content = <<>> THEN <<>>
              ELSE Spoken(r.items[1].content[1])
         [] OTHER -> <<>>

\* validate_thinking_evidence, thinking_evidence.
Thought(format, r) ==
  CASE format = "responses" -> r.tokens > 0 \/ \E i \in DOMAIN r.items : r.items[i].type \in Reasons
    [] format = "chat" ->
         \/ r.tokens > 0 \/ r.reasoning # <<>>
         \/ /\ r.direct = <<>> /\ r.items # <<>> /\ r.items[1].content # <<>>
            /\ \E b \in Range(r.items[1].content[1]) : b.type \in Reasons
    [] OTHER -> r.reasoning # <<>>

\* Variant: the text is enough.
AnswerUnproved(adapter, format, key, r) ==
  IF r.error THEN <<>>
  ELSE IF key \notin {"", "output_text"} /\ r.preferred # <<>> THEN r.preferred
  ELSE TextOf(adapter, format, r)
\* execute_body_with_curl_timeout, parse_provider_text, parse_receipt: <<>> is an error.
Answer(adapter, format, key, r) ==
  IF r.error \/ ~Thought(format, r) THEN <<>>
  ELSE IF key \notin {"", "output_text"} /\ r.preferred # <<>> THEN r.preferred
  ELSE TextOf(adapter, format, r)

(***************************************************************************)
(* Properties.                                                             *)
(***************************************************************************)
\* However a call is configured, its key goes to the provider it belongs to in the
\* format that provider speaks, unless another endpoint, key or format was asked
\* for; what is ready can be prepared, and is accepted by the durable adapter but
\* for a remote http endpoint; and the two crates and the two forms of settings
\* agree wherever both know the words (from_process_env, from_values_full and their
\* copies in avc-core).
SettingsAgree(s, keys) ==
  LET core == Config("core", "environment", s, keys)
      fast == Config("fast", "environment", s, keys)
  IN  /\ \A c \in {core, fast} :
           /\ {s.url, s.key_env} \subseteq {"unset", "blank"} /\ c.endpoint # "" =>
                c.key_env = c.endpoint
           /\ {s.url, s.format} \subseteq {"unset", "blank"} /\ c.endpoint # "" =>
                c.format = DefaultFormat(c.endpoint)
      /\ Ready("core", core) <=> Missing("core", core, <<"task">>) \in {"", "InvalidBodyTemplate"}
      /\ Ready("fast", fast) <=> Missing("fast", fast, <<"task">>) = ""
      /\ Valid(core) <=> Ready("core", core) /\ core.endpoint # "remote"
      /\ s.kind # "deepseek-pro" =>
           \A field \in {"kind", "format", "endpoint", "key_env", "header", "scheme",
                         "response_key", "present"} : core[field] = fast[field]
      /\ s.scheme # "blank" => core = Config("core", "values", s, keys)

\* A node of both has one title.
TitlesKept(evidence, other) ==
  \A i \in DOMAIN evidence, j \in DOMAIN other :
    evidence[i].node = other[j].node => evidence[i].title = other[j].title

\* A work plan is resumed by its identity: two calls of one identity send the same,
\* as long as a node keeps its title, which the identity leaves out; and a call is
\* not made with another credential than it was prepared for
\* ("work_plan_identity_changes_with_provider_request_contract").
PlansFollowTheirCalls(s, t, keys, later, evidence, other) ==
  LET c == Config("core", "environment", s, keys)
      d == Config("core", "environment", t, later)
      Same == Fingerprint(c, evidence) = Fingerprint(d, other)
  IN  Ready("core", c) /\ Ready("core", d) =>
        /\ Same /\ TitlesKept(evidence, other) => Call(c, evidence) = Call(d, other)
        /\ Same /\ c.key_env = d.key_env => KeyHolds(c, later)

\* A body that can be prepared carries the whole prompt and asks for thinking, for
\* prompts that hold no placeholder themselves.
BodiesCarryTheirPrompt(s, keys, prompt) ==
  LET c == Config("core", "environment", s, keys) IN
  Missing("core", c, <<"task">>) = "" =>
    \A adapter \in {"core", "vibe"} :
      LET words == Range(Body(adapter, c, prompt)) IN
        /\ Range(prompt.instructions) \cup Range(prompt.data) \subseteq words
        /\ words \cap {"low", "medium", "high", "enabled"} # {}

\* "HTTP-status failures (4xx/5xx) and curl's own request-level errors are never
\* retried", and neither is an answer or a call whose outcome was lost; a request is
\* sent again only after a curl that was killed, exited with a code that is not curl's
\* or exited well without a status; and a curl that was killed before it could send
\* anything does not end the call while there is a try left ("keeps one transient
\* hiccup ... from discarding an entire multi-packet build").
FailuresAreFinal(ends) ==
  LET n == Started(ends) IN
  /\ n <= Tries
  /\ \A k \in 1..(n - 1) :
       /\ ends[k].status \notin {"2xx", "other", "lost"} /\ ends[k].code # "1..99"
       /\ ends[k].sent => \/ ends[k].code \in {"none", "other"}
                          \/ ends[k].code = "0" /\ ends[k].status = "odd"
  /\ n < Tries => ends[n].sent \/ ends[n].status = "lost" \/ ends[n].code \in {"0", "1..99"}

\* "Such a retry cannot double-submit": a call sends its request at most once (the code
\* starts another curl also after one that had sent it).
RequestsAreSentOnce(ends) ==
  \A j, k \in 1..Started(ends) : ends[j].sent /\ ends[k].sent => j = k

\* What is read from a response is an answer that was thought about, never the
\* thinking itself, and both adapters read the same, unless an item without content
\* comes before it.
AnswersAreThought(format, key, r) ==
  LET core == Answer("core", format, key, r)
      vibe == Answer("vibe", format, key, r)
  IN  /\ core # <<>> => r.tokens > 0 \/ r.reasoning # <<>>
                        \/ \E i \in DOMAIN r.items :
                             \/ r.items[i].type \in Reasons
                             \/ /\ r.items[i].content # <<>>
                                /\ \E b \in Range(r.items[i].content[1]) : b.type \in Reasons
      /\ "hidden" \notin Range(core) \cup Range(vibe)
      /\ core \in {<<>>, vibe}
      /\ (\A i \in DOMAIN r.items : r.items[i].content # <<>>) => core = vibe

\* PROVIDER_RUNTIME.md: "a typed reasoning/thinking response block" is evidence of
\* thinking: an answer that comes after such a block is read.
ReasonedAnswersAreRead(format, key, r) ==
  (\A i \in DOMAIN r.items : r.items[i].content = <<>> => r.items[i].type \in Reasons) =>
    (Answer("vibe", format, key, r) # <<>>
       => Answer("core", format, key, r) # <<>>)
=============================================================================
