-------------------------------- MODULE JsonText --------------------------------
(***************************************************************************)
(* The JSON parser every ledger, manifest and provider answer is read with *)
(* (math-atoms-json/src/lib.rs): a recursive descent that consumes all of  *)
(* its input, refuses duplicate keys, and is bounded in depth.  A reader   *)
(* that takes less or more than JSON would lose records or answers, or     *)
(* take damaged ones.                                                      *)
(*                                                                         *)
(* A text is a sequence of tokens: the characters the grammar tells apart, *)
(* the literals as one token each, and the four digits of a \u escape as   *)
(* one token.  "a" is any other character, "ctl" a control character below *)
(* U+0020, "del" one from U+007F to U+009F.                                *)
(***************************************************************************)
EXTENDS Integers, Sequences, SequencesExt, FiniteSets

CONSTANT MaxDepth          \* MAX_DEPTH

Blank == {" "}             \* ' ', '\t', '\n' and '\r' are alike
Digits == {"0", "1"}
Literals == {"true", "false", "null"}
(* Escapes of one character, and what they stand for. *)
Escapes == [c \in {"q", "b", "/", "n"} |->
              CASE c = "q" -> "\"" [] c = "b" -> "\\" [] c = "n" -> "ctl" [] OTHER -> "/"]
(* The units of \u escapes at the ends of the surrogate ranges. *)
Unit == [u \in {"0041", "d800", "dbff", "dc00", "dfff"} |->
           CASE u = "0041" -> 65 [] u = "d800" -> 55296 [] u = "dbff" -> 56319
             [] u = "dc00" -> 56320 [] OTHER -> 57343]
High == 55296..56319
Low == 56320..57343

At(t, i) == IF i \in 1..Len(t) THEN t[i] ELSE "end"

(* Values of JsonValue. *)
Literal(w) == [kind |-> w]
Number(n) == [kind |-> "number", text |-> n]
Text(s) == [kind |-> "string", chars |-> s]
Array(vs) == [kind |-> "array", items |-> vs]
Object(fs) == [kind |-> "object", fields |-> fs]

(* What a production returns: the value and the next position, or an error. *)
Error == [ok |-> FALSE]
Ok(v, i) == [ok |-> TRUE, value |-> v, next |-> i]

(* The first place from i on whose token is none of the set. *)
RunEnd(t, i, tokens) ==
  CHOOSE j \in i..(Len(t) + 1) : At(t, j) \notin tokens /\ \A k \in i..(j - 1) : t[k] \in tokens
SkipWhitespace(t, i) == RunEnd(t, i, Blank)
ConsumeDigits(t, i) == RunEnd(t, i, Digits)

(* parse_unicode_scalar, from the unit after \u: the code point as a       *)
(* character of the string, and the position after it.                     *)
Scalar(high, low) == 65536 + (high - 55296) * 1024 + (low - 56320)

(* Variant: a unit of the low range is taken as it is. *)
ParseScalarLoose(t, i) ==
  IF At(t, i) \notin DOMAIN Unit THEN Error
  ELSE LET unit == Unit[At(t, i)] IN
       IF /\ unit \in High /\ At(t, i + 1) = "\\" /\ At(t, i + 2) = "u" /\ At(t, i + 3) \in DOMAIN Unit
       THEN Ok(ToString(Scalar(unit, Unit[At(t, i + 3)])), i + 4)
       ELSE IF unit \in High THEN Error ELSE Ok(ToString(unit), i + 1)

ParseScalar(t, i) ==
  IF At(t, i) \notin DOMAIN Unit THEN Error
  ELSE LET unit == Unit[At(t, i)] IN
       CASE unit \in High ->
              IF /\ At(t, i + 1) = "\\" /\ At(t, i + 2) = "u"
                 /\ At(t, i + 3) \in DOMAIN Unit /\ Unit[At(t, i + 3)] \in Low
              THEN Ok(ToString(Scalar(unit, Unit[At(t, i + 3)])), i + 4)
              ELSE Error
         [] unit \in Low -> Error
         [] OTHER -> Ok(ToString(unit), i + 1)

(* parse_string from the character after the quote. *)
Before(char, rest) == IF rest.ok THEN Ok(<<char>> \o rest.value, rest.next) ELSE Error
ParseChars(t, start) ==
  LET chars[i \in 1..(Len(t) + 1)] ==
        CASE At(t, i) \in {"end", "ctl", "del"} -> Error
          [] At(t, i) = "\"" -> Ok(<<>>, i + 1)
          [] At(t, i) = "\\" /\ At(t, i + 1) = "u" ->
               LET s == ParseScalar(t, i + 2) IN
               IF s.ok THEN Before(s.value, chars[s.next]) ELSE Error
          [] At(t, i) = "\\" /\ At(t, i + 1) # "u" ->
               IF At(t, i + 1) \in DOMAIN Escapes
               THEN Before(Escapes[At(t, i + 1)], chars[i + 2]) ELSE Error
          [] OTHER -> Before(t[i], chars[i + 1])
  IN  chars[start]

(* Variant: a zero may be followed by digits. *)
IntegerEndLoose(t, i) ==
  LET s == IF At(t, i) = "-" THEN i + 1 ELSE i IN
  IF At(t, s) \in Digits THEN ConsumeDigits(t, s) ELSE 0

(* parse_number: sign, integer without leading zeros, fraction, exponent.  *)
(* Each part is the position after it, or 0 when it is refused.            *)
IntegerEnd(t, i) ==
  LET s == IF At(t, i) = "-" THEN i + 1 ELSE i IN
  CASE At(t, s) = "0" -> IF At(t, s + 1) \in Digits THEN 0 ELSE s + 1
    [] At(t, s) = "1" -> ConsumeDigits(t, s)
    [] OTHER -> 0
FractionEnd(t, i) ==
  IF At(t, i) # "." THEN i
  ELSE IF At(t, i + 1) \in Digits THEN ConsumeDigits(t, i + 1) ELSE 0
ExponentEnd(t, i) ==
  LET s == IF At(t, i + 1) \in {"+", "-"} THEN i + 2 ELSE i + 1 IN
  IF At(t, i) # "e" THEN i
  ELSE IF At(t, s) \in Digits THEN ConsumeDigits(t, s) ELSE 0
ParseNumber(t, i) ==
  LET whole == IntegerEnd(t, i)
      fraction == IF whole = 0 THEN 0 ELSE FractionEnd(t, whole)
      end == IF fraction = 0 THEN 0 ELSE ExponentEnd(t, fraction) IN
  IF end = 0 THEN Error ELSE Ok(Number(SubSeq(t, i, end - 1)), end)

(* parse_object and parse_array from behind the last comma; blanks are     *)
(* skipped around every part, and an empty container is closed at once.    *)
(* `parse` is what the other productions return, of their name, the place  *)
(* they start at and their depth.                                          *)
ParseItems(parse, t, i, depth) ==
  LET v == parse[<<"value", i, depth>>]
      after == IF v.ok THEN SkipWhitespace(t, v.next) ELSE i
      rest == IF v.ok /\ At(t, after) = "," THEN parse[<<"items", after + 1, depth>>] ELSE Error IN
  CASE v.ok /\ At(t, after) = "]" -> Ok(Array(<<v.value>>), after + 1)
    [] rest.ok -> Ok(Array(<<v.value>> \o rest.value.items), rest.next)
    [] OTHER -> Error
ParseFields(parse, t, i, depth) ==
  LET start == SkipWhitespace(t, i)
      key == IF At(t, start) = "\"" THEN ParseChars(t, start + 1) ELSE Error
      colon == IF key.ok THEN SkipWhitespace(t, key.next) ELSE i
      v == IF key.ok /\ At(t, colon) = ":" THEN parse[<<"value", colon + 1, depth>>] ELSE Error
      after == IF v.ok THEN SkipWhitespace(t, v.next) ELSE i
      rest == IF v.ok /\ At(t, after) = "," THEN parse[<<"fields", after + 1, depth>>] ELSE Error
      field == [key |-> key.value, value |-> v.value] IN
  CASE v.ok /\ At(t, after) = "}" -> Ok(Object(<<field>>), after + 1)
    [] rest.ok -> IF \E f \in Range(rest.value.fields) : f.key = key.value THEN Error
                  ELSE Ok(Object(<<field>> \o rest.value.fields), rest.next)
    [] OTHER -> Error

ParseValue(parse, t, at, depth) ==
  LET i == SkipWhitespace(t, at)
      inner == SkipWhitespace(t, i + 1) IN
  CASE depth > MaxDepth -> Error
    [] depth <= MaxDepth /\ At(t, i) = "{" ->
         IF At(t, inner) = "}" THEN Ok(Object(<<>>), inner + 1) ELSE parse[<<"fields", i + 1, depth + 1>>]
    [] depth <= MaxDepth /\ At(t, i) = "[" ->
         IF At(t, inner) = "]" THEN Ok(Array(<<>>), inner + 1) ELSE parse[<<"items", i + 1, depth + 1>>]
    [] depth <= MaxDepth /\ At(t, i) = "\"" ->
         LET s == ParseChars(t, i + 1) IN IF s.ok THEN Ok(Text(s.value), s.next) ELSE Error
    [] depth <= MaxDepth /\ At(t, i) \in Literals -> Ok(Literal(t[i]), i + 1)
    [] depth <= MaxDepth /\ At(t, i) \in Digits \cup {"-"} -> ParseNumber(t, i)
    [] OTHER -> Error

(* parse: one value and nothing behind it. *)
Parse(t) ==
  LET parse[p \in {"value", "items", "fields"} \X (1..(Len(t) + 1)) \X (0..(MaxDepth + 1))] ==
        CASE p[1] = "value"  -> ParseValue(parse, t, p[2], p[3])
          [] p[1] = "items"  -> ParseItems(parse, t, p[2], p[3])
          [] p[1] = "fields" -> ParseFields(parse, t, p[2], p[3])
      v == parse[<<"value", 1, 0>>] IN
  IF v.ok /\ SkipWhitespace(t, v.next) = Len(t) + 1 THEN v ELSE Error

(* The values in a value, itself included. *)
Children(v) ==
  CASE v.kind = "object" -> {f.value : f \in Range(v.fields)}
    [] v.kind = "array" -> Range(v.items)
    [] OTHER -> {}
Within(v) ==
  LET level[n \in 0..MaxDepth] ==
        IF n = 0 THEN {v} ELSE UNION {Children(w) : w \in level[n - 1]}
  IN  UNION {level[n] : n \in 0..MaxDepth}

(* string_field: the first field of that name, level by level in document  *)
(* order; one that is not a string ends the search of its object.          *)
NotFound == [found |-> FALSE]
FirstOf(answers) ==
  LET hits == {i \in DOMAIN answers : answers[i].found} IN
  IF hits = {} THEN NotFound ELSE answers[CHOOSE i \in hits : \A j \in hits : i <= j]
StringField(value, key) ==
  LET field[v \in Within(value)] ==
        CASE v.kind = "object" ->
               LET named == SelectSeq(v.fields, LAMBDA f : f.key = key) IN
               IF named # <<>>
               THEN IF named[1].value.kind = "string"
                    THEN [found |-> TRUE, chars |-> named[1].value.chars] ELSE NotFound
               ELSE FirstOf([i \in DOMAIN v.fields |-> field[v.fields[i].value]])
          [] v.kind = "array" -> FirstOf([i \in DOMAIN v.items |-> field[v.items[i]]])
          [] OTHER -> NotFound
  IN  field[value]

(***************************************************************************)
(* Properties.                                                             *)
(***************************************************************************)
(* The grammar, stated on whole texts: what a value is, whatever the order *)
(* in which a parser finds it out.                                         *)
Strip(t) ==
  LET ink == {i \in DOMAIN t : t[i] \notin Blank} IN
  IF ink = {} THEN <<>>
  ELSE SubSeq(t, CHOOSE i \in ink : \A j \in ink : i <= j, CHOOSE i \in ink : \A j \in ink : j <= i)
AllDigits(t) == t # <<>> /\ Range(t) \subseteq Digits
NumberText(t) ==
  \E w, f \in 0..Len(t) :
    /\ w <= f
    /\ LET whole == SubSeq(t, 1, w)
           unsigned == IF At(whole, 1) = "-" THEN Tail(whole) ELSE whole
           fraction == SubSeq(t, w + 1, f)
           exponent == SubSeq(t, f + 1, Len(t))
           power == IF At(exponent, 2) \in {"+", "-"} THEN SubSeq(exponent, 3, Len(exponent))
                    ELSE SubSeq(exponent, 2, Len(exponent)) IN
       /\ AllDigits(unsigned) /\ (unsigned[1] = "0" => Len(unsigned) = 1)
       /\ fraction = <<>> \/ (fraction[1] = "." /\ AllDigits(Tail(fraction)))
       /\ exponent = <<>> \/ (exponent[1] = "e" /\ AllDigits(power))
CharsText(t) ==
  LET chars[i \in 1..(Len(t) + 1)] ==
        \/ i = Len(t) + 1
        \/ At(t, i) \notin {"\"", "\\", "ctl", "end"} /\ chars[i + 1]
        \/ At(t, i) = "\\" /\ At(t, i + 1) \in DOMAIN Escapes /\ chars[i + 2]
        \/ At(t, i) = "\\" /\ At(t, i + 1) = "u" /\ At(t, i + 2) = "0041" /\ chars[i + 3]
        \/ /\ At(t, i) = "\\" /\ At(t, i + 1) = "u" /\ At(t, i + 2) \in {"d800", "dbff"}
           /\ At(t, i + 3) = "\\" /\ At(t, i + 4) = "u" /\ At(t, i + 5) \in {"dc00", "dfff"}
           /\ chars[i + 6]
  IN  chars[1]
StringText(t) == Len(t) >= 2 /\ t[1] = "\"" /\ t[Len(t)] = "\"" /\ CharsText(SubSeq(t, 2, Len(t) - 1))
\* A value, the items of an array, the fields of an object without some keys;
\* `derives` says which texts the others derive, from which depth.
ValueText(derives, s, depth) ==
  LET t == Strip(s)
      inside == SubSeq(t, 2, Len(t) - 1) IN
  /\ depth <= MaxDepth
  /\ \/ Len(t) = 1 /\ t[1] \in Literals
     \/ NumberText(t)
     \/ StringText(t)
     \/ Len(t) >= 2 /\ t[1] = "[" /\ t[Len(t)] = "]"
          /\ (Strip(inside) = <<>> \/ derives[<<"items", inside, depth + 1, {}>>])
     \/ Len(t) >= 2 /\ t[1] = "{" /\ t[Len(t)] = "}"
          /\ (Strip(inside) = <<>> \/ derives[<<"fields", inside, depth + 1, {}>>])
ItemsText(derives, t, depth) ==
  \/ derives[<<"value", t, depth, {}>>]
  \/ \E i \in DOMAIN t : t[i] = "," /\ derives[<<"value", SubSeq(t, 1, i - 1), depth, {}>>]
                       /\ derives[<<"items", SubSeq(t, i + 1, Len(t)), depth, {}>>]
FieldsText(derives, t, depth, keys) ==
  \E c \in DOMAIN t :
    LET key == Strip(SubSeq(t, 1, c - 1)) IN
    /\ t[c] = ":" /\ StringText(key)
    /\ LET name == ParseChars(key, 2).value IN
       /\ name \notin keys
       /\ \/ derives[<<"value", SubSeq(t, c + 1, Len(t)), depth, {}>>]
          \/ \E i \in c + 1..Len(t) :
               /\ t[i] = "," /\ derives[<<"value", SubSeq(t, c + 1, i - 1), depth, {}>>]
               /\ derives[<<"fields", SubSeq(t, i + 1, Len(t)), depth, keys \cup {name}>>]
JsonValueText(t) ==
  LET derives[p \in {"value", "items", "fields"} \X Seq(STRING) \X Nat \X SUBSET Seq(STRING)] ==
        CASE p[1] = "value"  -> ValueText(derives, p[2], p[3])
          [] p[1] = "items"  -> ItemsText(derives, p[2], p[3])
          [] p[1] = "fields" -> FieldsText(derives, p[2], p[3], p[4])
  IN  derives[<<"value", t, 0, {}>>]

(* The parser takes the texts of the grammar but those whose strings hold  *)
(* a character of U+007F to U+009F as it is, which JSON allows and         *)
(* is_control refuses: nothing cut off, trailing, too deep or ambiguous    *)
(* passes, and nothing else that is well-formed is refused (parse).        *)
TextsParse(t) == Parse(t).ok <=> JsonValueText(t) /\ "del" \notin Range(t)

(* Every pair of surrogates is one scalar of the supplementary planes, and *)
(* no two pairs are the same one (parse_unicode_scalar).                   *)
SurrogatesPair ==
  /\ Scalar(55296, 56320) = 65536 /\ Scalar(56319, 57343) = 1114111
  /\ \A h, g \in {55296, 55297, 56319} : \A l, k \in {56320, 56321, 57343} :
       Scalar(h, l) = Scalar(g, k) => <<h, l>> = <<g, k>>

(* A string field asked for is found wherever it is, unless a field of the *)
(* same name that holds no string may hide it (string_field).              *)
Named(v, key) ==
  UNION {{f.value : f \in {g \in Range(w.fields) : g.key = key}} :
           w \in {u \in Within(v) : u.kind = "object"}}
Holds(v, key) == \E w \in Named(v, key) : w.kind = "string"
Hides(v, key) == \E w \in Named(v, key) : w.kind # "string"
FieldsAreFound(t, key) ==
  LET p == Parse(t) IN
  p.ok /\ ~Hides(p.value, key) => (StringField(p.value, key).found <=> Holds(p.value, key))
=============================================================================
