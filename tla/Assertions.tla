----------------------------- MODULE Assertions -----------------------------
(***************************************************************************)
(* What is made of one response: assert.Evaluate, group after group of     *)
(* checks, then the extraction rules.  Every check leaves one result.      *)
(*                                                                         *)
(* Texts are told apart by how they are written, not by their characters:  *)
(* a word, a number in plain or in exponent notation, a rendered structure.*)
(* Which text is part of which, and how long it is, are constants.         *)
(* Numbers are non-negative integers below 2 * Exact; a text that parses as*)
(* NaN passes no comparison, as one that does not parse.                   *)
(***************************************************************************)
EXTENDS Integers, Sequences

CONSTANTS
    Exact,            \* every integer up to it is a float64 (2^53)
    ExpFrom,          \* where %v turns to exponent notation (10^6)
    PartOf(_, _),     \* strings.Contains, the part first
    LengthOf(_),      \* utf8.RuneCountInString
    Responses,        \* the responses to consider
    Specs             \* the assertions to consider

ASSUME ExactAssumption == Exact \in Nat \ {0} /\ Exact % 4 = 0
ASSUME ExpFromAssumption == ExpFrom \in 1..Exact

ValueOps == {"exists", "exists_false", "eq", "contains", "matches", "not_matches",
             "gt", "lt", "gte", "lte", "not_eq", "not_contains", "len"}
BodyOps == {"eq", "contains", "not_contains", "matches", "not_matches"}
StatusOps == {"status", "status_in", "max_ms"}

ASSUME SpecsAssumption ==
    \A s \in Specs :
        /\ s.statusOps \subseteq StatusOps
        /\ s.bodyOps \subseteq BodyOps
        /\ s.pathOps \subseteq ValueOps
        /\ s.headerOps \subseteq ValueOps
        /\ s.number \in Nat

VARIABLES
    response,     \* what arrived
    spec,         \* what is asserted; operators of a target share operands
    stage,        \* the next group of checks
    out,          \* the results so far
    extracted     \* what the rules put into variables, NoText where nothing

vars == <<response, spec, stage, out, extracted>>

-----------------------------------------------------------------------------
(* Values and texts.  `of' is a text, a number, a Boolean, or the sequence *)
(* of the elements.                                                        *)

Json(kind, of) == [kind |-> kind, of |-> of]
Null == Json("null", 0)

Text(kind, of) == [kind |-> kind, of |-> of]
Plain(n) == Text("plain", n)
NoText == Text("none", 0)
NoNumber == -1

(* Above Exact only every other integer is a float64; the one in between   *)
(* goes to the neighbour whose significand is even.                        *)
Round(n) ==
    IF n <= Exact \/ n % 2 = 0 THEN n
    ELSE IF n % 4 = 1 THEN n - 1 ELSE n + 1

(* strconv.ParseFloat. *)
ParseFloat(t) == IF t.kind \in {"plain", "exponent"} THEN Round(t.of) ELSE NoNumber

(* fmt.Sprint of a float64. *)
SprintFloat(n) == IF n >= ExpFrom THEN Text("exponent", n) ELSE Plain(n)

(* Mutant: every number becomes a float64. *)
AllToFloat(v) == IF v.kind \in {"integer", "decimal"} THEN Json("float", Round(v.of)) ELSE v

(* normalizeJSONNumbers: an integer a float64 may not hold stays a literal.*)
NormalScalar(v) ==
    IF v.kind = "integer" /\ v.of > Exact THEN Json("literal", v.of)
    ELSE IF v.kind \in {"integer", "decimal"} THEN Json("float", Round(v.of))
    ELSE v

Normal(v) ==
    IF v.kind = "list" THEN Json("list", [i \in DOMAIN v.of |-> NormalScalar(v.of[i])])
    ELSE NormalScalar(v)

(* A list of one match stands for the match. *)
Unwrapped(v) == IF v.kind = "list" /\ Len(v.of) = 1 THEN v.of[1] ELSE v

(* NoText where the code has an error. *)
ValueToString(value) ==
    LET v == Unwrapped(value) IN
    CASE v.kind = "text" -> v.of
      [] v.kind \in {"literal", "float"} -> Plain(v.of)
      [] v.kind = "bool" -> Text("bool", v.of)
      [] v.kind = "null" -> NoText
      [] v.kind = "list" -> Text("json", v.of)
      [] v.kind = "object" -> Text("sprint", v.of)

(* NoNumber where the code has an error. *)
ValueToFloat64(value) ==
    LET v == Unwrapped(value) IN
    CASE v.kind = "text" -> ParseFloat(v.of)
      [] v.kind \in {"literal", "float"} -> Round(v.of)
      [] OTHER -> NoNumber

(* toString of the extraction rules: %v, where assertions use FormatFloat. *)
ExtractToString(value) ==
    LET v == Unwrapped(value) IN
    CASE v.kind = "text" -> v.of
      [] v.kind = "literal" -> Plain(v.of)
      [] v.kind = "float" -> SprintFloat(v.of)
      [] v.kind = "bool" -> Text("bool", v.of)
      [] v.kind = "null" -> Text("nil", 0)
      [] v.kind \in {"list", "object"} -> Text("json", v.of)

(* JSON nests at most one list here; its numbers are the naturals.         *)
IsText(t) == t.kind \in {"plain", "exponent"} => t.of \in Nat
IsScalar(v) ==
    /\ v.kind \in {"text", "integer", "decimal", "bool", "null", "object"}
    /\ v.kind \in {"integer", "decimal"} => v.of \in Nat
    /\ v.kind = "text" => IsText(v.of)
IsValue(v) ==
    IF v.kind = "list"
    THEN Len(v.of) \in Nat /\ DOMAIN v.of = 1..Len(v.of) /\ \A i \in DOMAIN v.of : IsScalar(v.of[i])
    ELSE IsScalar(v)

ASSUME ResponsesAssumption ==
    \A r \in Responses :
        /\ IsValue(r.path.value)
        /\ r.path.how = "found" \/ r.path.value = Null
        /\ r.header = <<>> \/ IsText(r.header[1])

-----------------------------------------------------------------------------
(* Lookups: a value, a miss, or a body or path nothing is looked up in.    *)

Found(v) == [how |-> "found", value |-> v]
Absent == [how |-> "absent", value |-> Null]
Unreadable == [how |-> "unreadable", value |-> Null]

PathLookup ==
    IF ~response.json \/ ~spec.pathValid THEN Unreadable
    ELSE [how |-> response.path.how, value |-> Normal(response.path.value)]

(* Several values of a header are joined for assertions. *)
HeaderLookup ==
    CASE response.header = <<>> -> Absent
      [] Len(response.header) = 1 -> Found(Json("text", response.header[1]))
      [] OTHER -> Found(Json("text", Text("joined", response.header)))

-----------------------------------------------------------------------------
(* One check. *)

(* Mutant: a body that cannot be read is a value that is absent. *)
ExistsIsAll(look, expected) == (look.how = "found" /\ look.value.kind # "null") = expected

Exists(look, expected) ==
    look.how # "unreadable" /\ (look.how = "found" /\ look.value.kind # "null") = expected

(* Mutant: an invalid pattern matches nothing. *)
MatchesLoosely(t, negate) == (spec.pattern.valid /\ t \in spec.pattern.texts) # negate

Matches(t, negate) == spec.pattern.valid /\ (t \in spec.pattern.texts) # negate

HasLength(v) ==
    CASE v.kind = "text" -> LengthOf(v.of) = spec.length
      [] v.kind \in {"list", "object"} -> Len(v.of) = spec.length
      [] OTHER -> FALSE

TextPasses(op, t) ==
    /\ t # NoText
    /\ CASE op = "eq" -> t = spec.text
         [] op = "contains" -> PartOf(spec.text, t)
         [] op = "matches" -> Matches(t, FALSE)

(* A value without a text passes no negated check either. *)
NegatedPasses(op, t) ==
    /\ t # NoText
    /\ CASE op = "not_eq" -> t # spec.text
         [] op = "not_contains" -> ~PartOf(spec.text, t)
         [] op = "not_matches" -> Matches(t, TRUE)

StringPasses(op, t) ==
    IF op \in {"eq", "contains", "matches"} THEN TextPasses(op, t) ELSE NegatedPasses(op, t)

NumberPasses(op, n) ==
    /\ n # NoNumber
    /\ CASE op = "gt" -> n > spec.number
         [] op = "lt" -> n < spec.number
         [] op = "gte" -> n >= spec.number
         [] op = "lte" -> n <= spec.number

ValuePasses(op, look) ==
    CASE op = "exists" -> Exists(look, TRUE)
      [] op = "exists_false" -> Exists(look, FALSE)
      [] op = "len" -> look.how = "found" /\ HasLength(look.value)
      [] op \in {"gt", "lt", "gte", "lte"} ->
            look.how = "found" /\ NumberPasses(op, ValueToFloat64(look.value))
      [] OTHER -> look.how = "found" /\ StringPasses(op, ValueToString(look.value))

Result(target, op, passed) == [target |-> target, op |-> op, passed |-> passed]

ValueChecks(target, ops, look) == {Result(target, op, ValuePasses(op, look)) : op \in ops}

-----------------------------------------------------------------------------
(* Evaluate and the rules, in the order of the code. *)

Init ==
    /\ response \in Responses
    /\ spec \in Specs
    /\ stage = "status"
    /\ out = {}
    /\ extracted = [body |-> NoText, header |-> NoText]

Group(from, to, results) ==
    /\ stage = from
    /\ out' = out \cup results
    /\ stage' = to
    /\ UNCHANGED <<response, spec, extracted>>

CheckStatus ==
    Group("status", "body",
        {Result("response", op,
            CASE op = "status" -> response.status = spec.status
              [] op = "status_in" -> response.status \in spec.statusIn
              [] op = "max_ms" -> response.latency <= spec.maxMs) : op \in spec.statusOps})

CheckBody ==
    Group("body", "schema",
        {Result("body", op, ~response.truncated /\ StringPasses(op, response.body)) :
            op \in spec.bodyOps})

CheckSchema ==
    Group("schema", "jsonpath",
        IF spec.schema THEN {Result("body", "schema", response.json /\ response.valid)} ELSE {})

CheckPath == Group("jsonpath", "header", ValueChecks("jsonpath", spec.pathOps, PathLookup))

CheckHeader == Group("header", "extract", ValueChecks("header", spec.headerOps, HeaderLookup))

(* A missing or null value fails the rule. *)
BodyVariable ==
    IF PathLookup.value.kind = "null" THEN NoText ELSE ExtractToString(PathLookup.value)

HeaderVariable == IF response.header = <<>> THEN NoText ELSE response.header[1]

Extract ==
    /\ stage = "extract"
    /\ extracted' = [body |-> BodyVariable, header |-> HeaderVariable]
    /\ stage' = "done"
    /\ UNCHANGED <<response, spec, out>>

Idles == stage = "done" /\ UNCHANGED vars

Next ==
    \/ CheckStatus
    \/ CheckBody
    \/ CheckSchema
    \/ CheckPath
    \/ CheckHeader
    \/ Extract
    \/ Idles

Spec == Init /\ [][Next]_vars

-----------------------------------------------------------------------------
(* Properties. *)

Passed(target) == {r.op : r \in {q \in out : q.target = target /\ q.passed}}

Reported(target) == {r.op : r \in {q \in out : q.target = target}}

LookupOf(target) == IF target = "jsonpath" THEN PathLookup ELSE HeaderLookup

(* A check never passes because there was nothing to check: a body cut off *)
(* or no JSON, a path that does not compile, or a value that is not there  *)
(* fail every operator, the negated ones too; only exists: false accepts   *)
(* an absent value (assert.go:120-137, 224-226, 311-321).                  *)
NothingPassesUnread ==
    /\ response.truncated => Passed("body") \subseteq {"schema"}
    /\ ~response.json => Passed("jsonpath") = {} /\ "schema" \notin Passed("body")
    /\ ~spec.pathValid => Passed("jsonpath") = {}
    /\ \A target \in {"jsonpath", "header"} :
        LookupOf(target).value.kind = "null" => Passed(target) \subseteq {"exists_false"}

Opposites ==
    {<<"eq", "not_eq">>, <<"contains", "not_contains">>,
     <<"matches", "not_matches">>, <<"gt", "lte">>, <<"lt", "gte">>}

Comparable(value, op) ==
    /\ value.kind # "null"
    /\ op = "matches" => spec.pattern.valid
    /\ IF op \in {"gt", "lt"}
       THEN ValueToFloat64(value) # NoNumber
       ELSE ValueToString(value) # NoText

(* An operator and its opposite never both pass, and one of them does      *)
(* exactly when the value is there and can be compared: rounding and       *)
(* unwrapping serve both the same, and a pattern that does not compile     *)
(* passes neither (assert.go:437-469, 471-509, 552-612).                   *)
OppositesDisagree ==
    \A target \in {"jsonpath", "header"}, pair \in Opposites :
        {pair[1], pair[2]} \subseteq Reported(target) =>
            /\ ~({pair[1], pair[2]} \subseteq Passed(target))
            /\ ({pair[1], pair[2]} \cap Passed(target) # {})
                <=> Comparable(LookupOf(target).value, pair[1])

(* Identifiers beyond 2^53 are compared digit by digit: eq with a number   *)
(* passes on that integer and on no neighbour that rounds to the same      *)
(* float64 (assert.go:660-664).                                            *)
EqIsExact ==
    LET v == Unwrapped(response.path.value) IN
    "eq" \in Passed("jsonpath") /\ spec.text.kind = "plain" /\ v.kind = "integer" =>
        spec.text.of = v.of

-----------------------------------------------------------------------------
(* What the repository says and the code does not do. *)

(* "same semantics as extract" (assert.go:627-628): a value extracted into *)
(* a variable passes eq against that variable.                             *)
EqAfterExtract ==
    /\ stage = "done"
    /\ extracted.body # NoText
    /\ spec.text = extracted.body
    /\ "eq" \in Reported("jsonpath")
    => "eq" \in Passed("jsonpath")
=============================================================================
