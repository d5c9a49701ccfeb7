-------------------------- MODULE AssertionsProofs --------------------------
(***************************************************************************)
(* What a passed check is worth, and that none is left out, for any        *)
(* responses, any assertions, and any reading of contains and of length.   *)
(***************************************************************************)
EXTENDS Assertions, SequenceTheorems, TLAPS

(* A check on a value that passes has looked at it: the lookup succeeded,  *)
(* and a null is accepted by exists: false alone.                          *)
LEMMA PassesOnValue ==
    ASSUME NEW op, NEW look, ValuePasses(op, look)
    PROVE  /\ look.how # "unreadable"
           /\ look.value.kind = "null" => op = "exists_false"
<1>1. look.how # "unreadable"
  BY DEF ValuePasses, Exists
<1>2. ASSUME look.value.kind = "null", op # "exists_false"
      PROVE  FALSE
  <2>1. Unwrapped(look.value) = look.value
    BY <1>2 DEF Unwrapped
  <2>2. ValueToString(look.value) = NoText
    BY <1>2, <2>1 DEF ValueToString
  <2>3. ValueToFloat64(look.value) = NoNumber
    BY <1>2, <2>1 DEF ValueToFloat64
  <2>4. ~HasLength(look.value)
    BY <1>2 DEF HasLength
  <2>5. \A o : ~StringPasses(o, NoText) /\ ~NumberPasses(o, NoNumber)
    BY DEF StringPasses, TextPasses, NegatedPasses, NumberPasses
  <2>6. ~Exists(look, TRUE)
    BY <1>2 DEF Exists
  <2> QED
    BY <1>2, <2>2, <2>3, <2>4, <2>5, <2>6 DEF ValuePasses
<1> QED
  BY <1>1, <1>2

-----------------------------------------------------------------------------
(* What a result must have behind it to say that it passed. *)
Warranted(r) ==
    /\ r.target = "body" => IF r.op = "schema" THEN response.json ELSE ~response.truncated
    /\ r.target \in {"jsonpath", "header"} =>
        /\ LookupOf(r.target).how # "unreadable"
        /\ LookupOf(r.target).value.kind = "null" => r.op = "exists_false"

ResultsWarranted ==
    /\ spec \in Specs
    /\ \A r \in out : r.passed => Warranted(r)

LEMMA ValueChecksWarranted ==
    ASSUME NEW target \in {"jsonpath", "header"}, NEW ops,
           NEW r \in ValueChecks(target, ops, LookupOf(target)), r.passed
    PROVE  Warranted(r)
<1>1. PICK op \in ops : r = Result(target, op, ValuePasses(op, LookupOf(target)))
  BY DEF ValueChecks
<1>2. r.target = target /\ r.op = op /\ ValuePasses(op, LookupOf(target))
  BY <1>1 DEF Result
<1>3. /\ LookupOf(target).how # "unreadable"
      /\ LookupOf(target).value.kind = "null" => op = "exists_false"
  BY <1>2, PassesOnValue
<1> QED
  BY <1>2, <1>3 DEF Warranted

LEMMA GroupKeepsWarrants ==
    ASSUME ResultsWarranted, NEW from, NEW to, NEW results, Group(from, to, results),
           \A r \in results : r.passed => Warranted(r)
    PROVE  ResultsWarranted'
  BY DEF ResultsWarranted, Group, Warranted, LookupOf, PathLookup, HeaderLookup

LEMMA WarrantsInductive == ResultsWarranted /\ [Next]_vars => ResultsWarranted'
<1> SUFFICES ASSUME ResultsWarranted, [Next]_vars
             PROVE  ResultsWarranted'
  OBVIOUS
<1>1. CASE CheckStatus
  <2>1. PICK results : /\ Group("status", "body", results)
                       /\ \A r \in results : r.target = "response"
    BY <1>1 DEF CheckStatus, Result
  <2> QED
    BY <2>1, GroupKeepsWarrants DEF Warranted
<1>2. CASE CheckBody
  <2> DEFINE R == {Result("body", op, ~response.truncated /\ StringPasses(op, response.body)) :
                      op \in spec.bodyOps}
  <2>1. Group("body", "schema", R)
    BY <1>2 DEF CheckBody
  <2>2. "schema" \notin spec.bodyOps
    BY SpecsAssumption DEF ResultsWarranted, BodyOps
  <2>3. ASSUME NEW r \in R, r.passed
        PROVE  Warranted(r)
    <3>1. PICK op \in spec.bodyOps :
            r = Result("body", op, ~response.truncated /\ StringPasses(op, response.body))
      OBVIOUS
    <3>2. r.passed = (~response.truncated /\ StringPasses(op, response.body))
      BY <3>1 DEF Result
    <3>3. ~response.truncated
      BY <2>3, <3>2, Zenon
    <3>4. r.target = "body" /\ r.op # "schema"
      BY <2>2, <3>1 DEF Result
    <3> QED
      BY <3>3, <3>4 DEF Warranted
  <2> QED
    BY <2>1, <2>3, GroupKeepsWarrants
<1>3. CASE CheckSchema
  <2>1. PICK results : /\ Group("schema", "jsonpath", results)
                       /\ results \subseteq {Result("body", "schema", response.json /\ response.valid)}
    BY <1>3 DEF CheckSchema
  <2>2. ASSUME NEW r \in results, r.passed
        PROVE  Warranted(r)
    <3>1. r = Result("body", "schema", response.json /\ response.valid)
      BY <2>1, <2>2
    <3>2. r.passed = (response.json /\ response.valid)
      BY <3>1 DEF Result
    <3>3. response.json
      BY <2>2, <3>2, Zenon
    <3>4. r.target = "body" /\ r.op = "schema"
      BY <3>1 DEF Result
    <3> QED
      BY <3>3, <3>4 DEF Warranted
  <2> QED
    BY <2>1, <2>2, GroupKeepsWarrants
<1>4. CASE CheckPath
  BY <1>4, ValueChecksWarranted, GroupKeepsWarrants DEF CheckPath, LookupOf
<1>5. CASE CheckHeader
  BY <1>5, ValueChecksWarranted, GroupKeepsWarrants DEF CheckHeader, LookupOf
<1>6. CASE Extract \/ Idles \/ UNCHANGED vars
  BY <1>6 DEF Extract, Idles, vars, ResultsWarranted, Warranted, LookupOf, PathLookup, HeaderLookup
<1> QED
  BY <1>1, <1>2, <1>3, <1>4, <1>5, <1>6 DEF Next

(* On any response a check passes only on what could be read, and a null   *)
(* or absent value passes exists: false alone (assert.go:120-161).         *)
THEOREM NothingPassesUnreadCorrect == Spec => []NothingPassesUnread
<1>1. Init => ResultsWarranted
  BY DEF Init, ResultsWarranted
<1>2. ResultsWarranted => NothingPassesUnread
  BY DEF ResultsWarranted, Warranted, NothingPassesUnread, Passed, LookupOf, PathLookup, Unreadable
<1> QED
  BY <1>1, <1>2, WarrantsInductive, PTL DEF Spec

-----------------------------------------------------------------------------
(* An integer is written as it was sent, whichever side of Exact it is on. *)
LEMMA ScalarKeepsInteger ==
    ASSUME NEW u, IsScalar(u), u.kind = "integer"
    PROVE  /\ NormalScalar(u).kind \in {"literal", "float"}
           /\ NormalScalar(u).of = u.of
<1>1. CASE u.of > Exact
  BY <1>1 DEF NormalScalar, Json
<1>2. CASE ~(u.of > Exact)
  <2>1. u.of <= Exact
    BY <1>2, ExactAssumption DEF IsScalar
  <2> QED
    BY <1>2, <2>1 DEF NormalScalar, Json, Round
<1> QED
  BY <1>1, <1>2

LEMMA TextOfScalar ==
    ASSUME NEW u, u.kind \in {"literal", "float"}
    PROVE  Unwrapped(u) = u /\ ValueToString(u) = Plain(u.of)
<1>1. Unwrapped(u) = u
  BY DEF Unwrapped
<1>2. u.kind # "text"
  OBVIOUS
<1> QED
  BY <1>1, <1>2, Zenon DEF ValueToString

LEMMA TextOfInteger ==
    ASSUME NEW v, IsValue(v), Unwrapped(v).kind = "integer"
    PROVE  ValueToString(Normal(v)) = Plain(Unwrapped(v).of)
<1>1. CASE v.kind = "list"
  <2> DEFINE f == [i \in DOMAIN v.of |-> NormalScalar(v.of[i])]
  <2>1. Len(v.of) = 1 /\ Unwrapped(v) = v.of[1]
    BY <1>1 DEF Unwrapped
  <2>2. DOMAIN v.of = 1..1 /\ IsScalar(v.of[1])
    BY <1>1, <2>1 DEF IsValue
  <2>3. f \in Seq({NormalScalar(v.of[1])})
    BY <2>2
  <2>4. Len(f) = 1 /\ f[1] = NormalScalar(v.of[1])
    BY <2>2, <2>3, LenProperties
  <2>5. Normal(v) = Json("list", f)
    BY <1>1 DEF Normal
  <2> HIDE DEF f
  <2>6. Unwrapped(Normal(v)) = f[1]
    BY <2>4, <2>5 DEF Unwrapped, Json
  <2>7. f[1].kind \in {"literal", "float"} /\ f[1].of = v.of[1].of
    BY <2>1, <2>2, <2>4, ScalarKeepsInteger
  <2>8. ValueToString(f[1]) = Plain(v.of[1].of) /\ Unwrapped(f[1]) = f[1]
    BY <2>7, TextOfScalar
  <2>9. ValueToString(Normal(v)) = ValueToString(f[1])
    BY <2>6, <2>8, Zenon DEF ValueToString
  <2> QED
    BY <2>1, <2>8, <2>9
<1>2. CASE v.kind # "list"
  <2>1. Unwrapped(v) = v /\ Normal(v) = NormalScalar(v) /\ IsScalar(v)
    BY <1>2 DEF Unwrapped, Normal, IsValue
  <2> QED
    BY <2>1, ScalarKeepsInteger, TextOfScalar
<1> QED
  BY <1>1, <1>2

EqPassesExactly ==
    LET v == Unwrapped(response.path.value) IN
    (\E r \in out : r.target = "jsonpath" /\ r.op = "eq" /\ r.passed) =>
        (spec.text.kind = "plain" /\ v.kind = "integer" => spec.text.of = v.of)

EqWarranted ==
    /\ response \in Responses
    /\ EqPassesExactly

LEMMA EqInductive == EqWarranted /\ [Next]_vars => EqWarranted'
<1> SUFFICES ASSUME EqWarranted, [Next]_vars
             PROVE  EqWarranted'
  OBVIOUS
<1>1. ASSUME NEW from, NEW to, NEW results, Group(from, to, results),
             \A r \in results : r.target # "jsonpath"
      PROVE  EqWarranted'
  BY <1>1 DEF EqWarranted, EqPassesExactly, Group
<1>2. CASE CheckStatus
  <2>1. PICK results : /\ Group("status", "body", results)
                       /\ \A r \in results : r.target = "response"
    BY <1>2 DEF CheckStatus, Result
  <2> QED
    BY <1>1, <2>1
<1>3. CASE CheckBody
  <2>1. PICK results : /\ Group("body", "schema", results)
                       /\ \A r \in results : r.target = "body"
    BY <1>3 DEF CheckBody, Result
  <2> QED
    BY <1>1, <2>1
<1>4. CASE CheckSchema
  <2>1. PICK results : /\ Group("schema", "jsonpath", results)
                       /\ \A r \in results : r.target = "body"
    BY <1>4 DEF CheckSchema, Result
  <2> QED
    BY <1>1, <2>1
<1>5. CASE CheckPath
  <2>1. Group("jsonpath", "header", ValueChecks("jsonpath", spec.pathOps, PathLookup))
    BY <1>5 DEF CheckPath
  <2>2. ASSUME NEW r \in ValueChecks("jsonpath", spec.pathOps, PathLookup),
               r.op = "eq", r.passed,
               spec.text.kind = "plain", Unwrapped(response.path.value).kind = "integer"
        PROVE  spec.text.of = Unwrapped(response.path.value).of
    <3>1. r = Result("jsonpath", "eq", ValuePasses("eq", PathLookup))
      BY <2>2 DEF ValueChecks, Result
    <3>2. ValuePasses("eq", PathLookup)
      BY <2>2, <3>1 DEF Result
    <3>3. PathLookup.how = "found" /\ StringPasses("eq", ValueToString(PathLookup.value))
      BY <3>2 DEF ValuePasses
    <3>4. PathLookup.value = Normal(response.path.value)
      BY <3>3 DEF PathLookup, Unreadable
    <3>5. ValueToString(PathLookup.value) = spec.text
      BY <3>3 DEF StringPasses, TextPasses
    <3>6. spec.text = Plain(Unwrapped(response.path.value).of)
      BY <2>2, <3>4, <3>5, TextOfInteger, ResponsesAssumption DEF EqWarranted
    <3> QED
      BY <3>6 DEF Plain, Text
  <2> QED
    BY <2>1, <2>2 DEF EqWarranted, EqPassesExactly, Group
<1>6. CASE CheckHeader
  <2>1. PICK results : /\ Group("header", "extract", results)
                       /\ \A r \in results : r.target = "header"
    BY <1>6 DEF CheckHeader, ValueChecks, Result
  <2> QED
    BY <1>1, <2>1
<1>7. CASE Extract \/ Idles \/ UNCHANGED vars
  BY <1>7 DEF Extract, Idles, vars, EqWarranted, EqPassesExactly
<1> QED
  BY <1>2, <1>3, <1>4, <1>5, <1>6, <1>7 DEF Next

(* eq on an integer of a body passes on that very integer, however large   *)
(* and whatever the precision of a float64 (assert.go:614-640, 689-702).   *)
THEOREM EqIsExactCorrect == Spec => []EqIsExact
<1>1. Init => EqWarranted
  BY DEF Init, EqWarranted, EqPassesExactly
<1>2. EqWarranted => EqIsExact
  BY DEF EqWarranted, EqPassesExactly, EqIsExact, Passed
<1> QED
  BY <1>1, <1>2, EqInductive, PTL DEF Spec

-----------------------------------------------------------------------------
(* Operators and their opposites. *)

(* Whatever is looked up, what it is compared as is a number or none.      *)
LEMMA RoundIsNumber == \A n \in Nat : Round(n) \in Nat
BY ExactAssumption DEF Round

LEMMA ScalarNumber ==
    ASSUME NEW u, IsScalar(u)
    PROVE  /\ ValueToFloat64(NormalScalar(u)) \in Int
           /\ Unwrapped(NormalScalar(u)) = NormalScalar(u)
<1> DEFINE w == NormalScalar(u)
<1>1. /\ w.kind \in {"literal", "float", "text", "bool", "null", "object"}
      /\ w.kind \in {"literal", "float"} => w.of \in Nat
      /\ w.kind = "text" => IsText(w.of)
  BY RoundIsNumber DEF NormalScalar, Json, IsScalar
<1> HIDE DEF w
<1>2. Unwrapped(w) = w
  BY <1>1 DEF Unwrapped
<1>3. w.kind = "text" => ParseFloat(w.of) \in Int
  BY <1>1, RoundIsNumber DEF ParseFloat, IsText, NoNumber
<1>4. ValueToFloat64(w) \in Int
  BY <1>1, <1>2, <1>3, RoundIsNumber DEF ValueToFloat64, NoNumber
<1> QED
  BY <1>2, <1>4 DEF w

LEMMA ValueNumber ==
    ASSUME NEW v, IsValue(v)
    PROVE  ValueToFloat64(Normal(v)) \in Int
<1>1. CASE v.kind # "list"
  BY <1>1, ScalarNumber DEF Normal, IsValue
<1>2. CASE v.kind = "list" /\ Len(v.of) = 1
  <2> DEFINE f == [i \in DOMAIN v.of |-> NormalScalar(v.of[i])]
  <2>1. DOMAIN v.of = 1..1 /\ IsScalar(v.of[1])
    BY <1>2 DEF IsValue
  <2>2. f \in Seq({NormalScalar(v.of[1])})
    BY <2>1
  <2>3. Len(f) = 1 /\ f[1] = NormalScalar(v.of[1])
    BY <2>1, <2>2, LenProperties
  <2>4. Normal(v) = Json("list", f)
    BY <1>2 DEF Normal
  <2> HIDE DEF f
  <2>5. Unwrapped(Normal(v)) = NormalScalar(v.of[1])
    BY <2>3, <2>4 DEF Unwrapped, Json
  <2>6. ValueToFloat64(Normal(v)) = ValueToFloat64(NormalScalar(v.of[1]))
    BY <2>1, <2>5, ScalarNumber, Zenon DEF ValueToFloat64
  <2> QED
    BY <2>1, <2>6, ScalarNumber
<1>3. CASE v.kind = "list" /\ Len(v.of) # 1
  <2> DEFINE f == [i \in DOMAIN v.of |-> NormalScalar(v.of[i])]
  <2>1. DOMAIN f = 1..Len(v.of) /\ Len(v.of) \in Nat
    BY <1>3 DEF IsValue
  <2>2. Len(f) = Len(v.of)
    <3>1. f \in Seq({NormalScalar(v.of[i]) : i \in DOMAIN v.of})
      BY <2>1
    <3> QED
      BY <2>1, <3>1, LenProperties
  <2>3. Normal(v) = Json("list", f)
    BY <1>3 DEF Normal
  <2> HIDE DEF f
  <2>4. Unwrapped(Normal(v)).kind = "list"
    BY <1>3, <2>2, <2>3 DEF Unwrapped, Json
  <2> QED
    BY <2>4 DEF ValueToFloat64, NoNumber
<1> QED
  BY <1>1, <1>2, <1>3

(* A value that is there is found, and is compared as a number or as none. *)
LEMMA LookupFacts ==
    ASSUME response \in Responses, NEW target \in {"jsonpath", "header"}
    PROVE  /\ LookupOf(target).value.kind # "null" => LookupOf(target).how = "found"
           /\ ValueToFloat64(LookupOf(target).value) \in Int
<1>1. ValueToFloat64(Null) = NoNumber /\ NoNumber \in Int /\ Null.kind = "null"
  BY DEF ValueToFloat64, Unwrapped, Null, Json, NoNumber
<1>2. CASE target = "jsonpath" /\ ~(~response.json \/ ~spec.pathValid)
  <2>1. LookupOf(target) = [how |-> response.path.how, value |-> Normal(response.path.value)]
    BY <1>2 DEF LookupOf, PathLookup
  <2>2. Normal(Null) = Null
    BY DEF Normal, NormalScalar, Null, Json
  <2> QED
    BY <1>1, <2>1, <2>2, ValueNumber, ResponsesAssumption
<1>3. CASE target = "jsonpath" /\ (~response.json \/ ~spec.pathValid)
  BY <1>1, <1>3 DEF LookupOf, PathLookup, Unreadable
<1>4. CASE target = "header" /\ response.header = <<>>
  BY <1>1, <1>4 DEF LookupOf, HeaderLookup, Absent
<1>5. CASE target = "header" /\ response.header # <<>>
  <2>1. PICK t : HeaderLookup = Found(Json("text", t)) /\ IsText(t)
    BY <1>5, ResponsesAssumption DEF HeaderLookup, Text, IsText
  <2> DEFINE v == Json("text", t)
  <2>2. v.kind = "text" /\ v.of = t /\ Unwrapped(v) = v
    BY DEF Json, Unwrapped
  <2>3. ValueToFloat64(v) = ParseFloat(t)
    BY <2>2 DEF ValueToFloat64
  <2>4. ParseFloat(t) \in Int
    BY <2>1, RoundIsNumber DEF ParseFloat, IsText, NoNumber
  <2> QED
    BY <1>5, <2>1, <2>2, <2>3, <2>4 DEF LookupOf, Found
<1> QED
  BY <1>2, <1>3, <1>4, <1>5

(* Of an operator and its opposite one passes, on what can be compared.    *)
LEMMA OneOfOpposites ==
    ASSUME spec \in Specs, NEW look, NEW pair \in Opposites,
           look.value.kind # "null" => look.how = "found",
           ValueToFloat64(look.value) \in Int
    PROVE  /\ ~(ValuePasses(pair[1], look) /\ ValuePasses(pair[2], look))
           /\ ValuePasses(pair[1], look) \/ ValuePasses(pair[2], look)
              <=> Comparable(look.value, pair[1])
<1> DEFINE t == ValueToString(look.value)
           n == ValueToFloat64(look.value)
<1>1. spec.number \in Int
  BY SpecsAssumption
<1>2. CASE look.value.kind = "null"
  <2>1. pair[1] # "exists_false" /\ pair[2] # "exists_false"
    BY DEF Opposites
  <2> QED
    BY <1>2, <2>1, PassesOnValue DEF Comparable
<1>3. CASE look.value.kind # "null"
  <2>0. look.how = "found"
    BY <1>3
  <2>1. CASE pair = <<"eq", "not_eq">>
    BY <1>3, <2>0, <2>1 DEF ValuePasses, StringPasses, TextPasses, NegatedPasses, Comparable
  <2>2. CASE pair = <<"contains", "not_contains">>
    BY <1>3, <2>0, <2>2 DEF ValuePasses, StringPasses, TextPasses, NegatedPasses, Comparable
  <2>3. CASE pair = <<"matches", "not_matches">>
    <3>1. /\ Matches(t, FALSE) <=> spec.pattern.valid /\ t \in spec.pattern.texts
          /\ Matches(t, TRUE) <=> spec.pattern.valid /\ t \notin spec.pattern.texts
      <4>1. CASE t \in spec.pattern.texts
        <5>1. (t \in spec.pattern.texts) = TRUE
          BY <4>1
        <5> QED
          BY <5>1 DEF Matches
      <4>2. CASE t \notin spec.pattern.texts
        <5>1. (t \in spec.pattern.texts) = FALSE
          BY <4>2
        <5> QED
          BY <5>1 DEF Matches
      <4> QED
        BY <4>1, <4>2
    <3>2. /\ ValuePasses("matches", look) <=> t # NoText /\ Matches(t, FALSE)
          /\ ValuePasses("not_matches", look) <=> t # NoText /\ Matches(t, TRUE)
      BY <2>0 DEF ValuePasses, StringPasses, TextPasses, NegatedPasses
    <3>3. Comparable(look.value, "matches") <=> spec.pattern.valid /\ t # NoText
      BY <1>3 DEF Comparable
    <3>4. pair[1] = "matches" /\ pair[2] = "not_matches"
      BY <2>3
    <3> HIDE DEF t
    <3> QED
      BY <3>1, <3>2, <3>3, <3>4
  <2>4. CASE pair = <<"gt", "lte">>
    BY <1>1, <1>3, <2>0, <2>4 DEF ValuePasses, NumberPasses, Comparable
  <2>5. CASE pair = <<"lt", "gte">>
    BY <1>1, <1>3, <2>0, <2>5 DEF ValuePasses, NumberPasses, Comparable
  <2> QED
    BY <2>1, <2>2, <2>3, <2>4, <2>5 DEF Opposites
<1> QED
  BY <1>2, <1>3

(* A result says what its check does. *)
ResultsTrue ==
    /\ response \in Responses
    /\ spec \in Specs
    /\ \A r \in out : r.target \in {"jsonpath", "header"} =>
            (r.passed <=> ValuePasses(r.op, LookupOf(r.target)))

LEMMA TrueInductive == ResultsTrue /\ [Next]_vars => ResultsTrue'
<1> SUFFICES ASSUME ResultsTrue, [Next]_vars
             PROVE  ResultsTrue'
  OBVIOUS
<1>1. ASSUME UNCHANGED <<response, spec>>
      PROVE  \A target, op : ValuePasses(op, LookupOf(target))' <=> ValuePasses(op, LookupOf(target))
  BY <1>1 DEF ValuePasses, LookupOf, PathLookup, HeaderLookup, StringPasses, TextPasses,
     NegatedPasses, Matches, NumberPasses, HasLength
<1>2. ASSUME NEW from, NEW to, NEW results, Group(from, to, results),
             \A r \in results : r.target \in {"jsonpath", "header"} =>
                (r.passed <=> ValuePasses(r.op, LookupOf(r.target)))
      PROVE  ResultsTrue'
  BY <1>1, <1>2 DEF Group, ResultsTrue
<1>3. ASSUME NEW target \in {"jsonpath", "header"}, NEW ops,
             NEW r \in ValueChecks(target, ops, LookupOf(target))
      PROVE  r.target = target /\ (r.passed <=> ValuePasses(r.op, LookupOf(target)))
  <2>1. PICK op \in ops : r = Result(target, op, ValuePasses(op, LookupOf(target)))
    BY DEF ValueChecks
  <2> QED
    BY <2>1 DEF Result
<1>4. CASE CheckStatus
  <2>1. PICK results : /\ Group("status", "body", results)
                       /\ \A r \in results : r.target = "response"
    BY <1>4 DEF CheckStatus, Result
  <2> QED
    BY <1>2, <2>1
<1>5. CASE CheckBody
  <2>1. PICK results : /\ Group("body", "schema", results)
                       /\ \A r \in results : r.target = "body"
    BY <1>5 DEF CheckBody, Result
  <2> QED
    BY <1>2, <2>1
<1>6. CASE CheckSchema
  <2>1. PICK results : /\ Group("schema", "jsonpath", results)
                       /\ \A r \in results : r.target = "body"
    BY <1>6 DEF CheckSchema, Result
  <2> QED
    BY <1>2, <2>1
<1>7. CASE CheckPath
  BY <1>2, <1>3, <1>7 DEF CheckPath, LookupOf
<1>8. CASE CheckHeader
  BY <1>2, <1>3, <1>8 DEF CheckHeader, LookupOf
<1>9. CASE Extract \/ Idles \/ UNCHANGED vars
  BY <1>1, <1>9 DEF Extract, Idles, vars, ResultsTrue
<1> QED
  BY <1>4, <1>5, <1>6, <1>7, <1>8, <1>9 DEF Next

(* Exactly one of an operator and its opposite passes on what can be       *)
(* compared, neither on anything else (assert.go:437-509, 552-612).        *)
THEOREM OppositesDisagreeCorrect == Spec => []OppositesDisagree
<1>1. Init => ResultsTrue
  BY DEF Init, ResultsTrue
<1>2. ResultsTrue => OppositesDisagree
  <2> SUFFICES ASSUME ResultsTrue, NEW target \in {"jsonpath", "header"}, NEW pair \in Opposites,
                      {pair[1], pair[2]} \subseteq Reported(target)
               PROVE  /\ ~({pair[1], pair[2]} \subseteq Passed(target))
                      /\ ({pair[1], pair[2]} \cap Passed(target) # {})
                            <=> Comparable(LookupOf(target).value, pair[1])
    BY DEF OppositesDisagree
  <2>1. ASSUME NEW op \in Reported(target)
        PROVE  op \in Passed(target) <=> ValuePasses(op, LookupOf(target))
    <3>1. PICK r \in out : r.target = target /\ r.op = op
      BY DEF Reported
    <3>2. r.passed <=> ValuePasses(op, LookupOf(target))
      BY <3>1 DEF ResultsTrue
    <3>3. \A q \in out : q.target = target /\ q.op = op /\ q.passed => ValuePasses(op, LookupOf(target))
      BY DEF ResultsTrue
    <3> QED
      BY <3>1, <3>2, <3>3 DEF Passed
  <2>2. /\ ~(ValuePasses(pair[1], LookupOf(target)) /\ ValuePasses(pair[2], LookupOf(target)))
        /\ ValuePasses(pair[1], LookupOf(target)) \/ ValuePasses(pair[2], LookupOf(target))
              <=> Comparable(LookupOf(target).value, pair[1])
    BY LookupFacts, OneOfOpposites DEF ResultsTrue
  <2> QED
    BY <2>1, <2>2
<1> QED
  BY <1>1, <1>2, TrueInductive, PTL DEF Spec
-----------------------------------------------------------------------------
(* Extraction and assertions. *)

(* What both write alike: %v turns to exponents at ExpFrom, objects are    *)
(* written as Go does by one and as JSON by the other, and a null is a     *)
(* text to the rules only.                                                 *)
WrittenAlike ==
    LET v == Unwrapped(Normal(response.path.value)) IN
    /\ v.kind \notin {"object", "null"}
    /\ v.kind = "float" => v.of < ExpFrom

IsNormal(w) ==
    /\ w.kind \in {"literal", "float", "text", "bool", "null", "object"}
    /\ w.kind = "float" => w.of \in Nat

LEMMA ScalarKinds ==
    ASSUME NEW u, IsScalar(u)
    PROVE  IsNormal(NormalScalar(u)) /\ Unwrapped(NormalScalar(u)) = NormalScalar(u)
<1> DEFINE w == NormalScalar(u)
<1>1. IsNormal(w)
  BY RoundIsNumber DEF NormalScalar, Json, IsScalar, IsNormal
<1> HIDE DEF w
<1>2. Unwrapped(w) = w
  BY <1>1 DEF Unwrapped, IsNormal
<1> QED
  BY <1>1, <1>2 DEF w

LEMMA NormalKinds ==
    ASSUME NEW v, IsValue(v)
    PROVE  IsNormal(Unwrapped(Normal(v))) \/ Unwrapped(Normal(v)).kind = "list"
<1>1. CASE v.kind # "list"
  BY <1>1, ScalarKinds DEF Normal, IsValue
<1>2. CASE v.kind = "list"
  <2> DEFINE f == [i \in DOMAIN v.of |-> NormalScalar(v.of[i])]
  <2>1. DOMAIN f = 1..Len(v.of) /\ Len(v.of) \in Nat /\ \A i \in DOMAIN f : IsScalar(v.of[i])
    BY <1>2 DEF IsValue
  <2>2. Normal(v) = Json("list", f)
    BY <1>2 DEF Normal
  <2>3. Len(f) = 1 => IsNormal(f[1])
    <3>1. Len(f) = Len(v.of)
      <4>1. f \in Seq({NormalScalar(v.of[i]) : i \in DOMAIN v.of})
        BY <2>1
      <4> QED
        BY <2>1, <4>1, LenProperties
    <3>2. ASSUME Len(f) = 1 PROVE 1 \in DOMAIN f
      BY <2>1, <3>1, <3>2
    <3> QED
      BY <2>1, <3>2, ScalarKinds
  <2> HIDE DEF f
  <2> QED
    BY <2>2, <2>3 DEF Unwrapped, Json
<1> QED
  BY <1>1, <1>2

LEMMA TextsAgree ==
    ASSUME response \in Responses
    PROVE  LET n == Normal(response.path.value) IN
           ExtractToString(n) = ValueToString(n) <=> WrittenAlike
<1> DEFINE n == Normal(response.path.value)
           v == Unwrapped(n)
<1>1. IsNormal(v) \/ v.kind = "list"
  BY NormalKinds, ResponsesAssumption
<1>2. WrittenAlike <=> v.kind \notin {"object", "null"} /\ (v.kind = "float" => v.of < ExpFrom)
  BY DEF WrittenAlike
<1> DEFINE extract == ExtractToString(n)
           value == ValueToString(n)
<1> SUFFICES extract = value <=> WrittenAlike
  OBVIOUS
<1> HIDE DEF v, n
<1>3. CASE v.kind = "text"
  <2>1. extract = v.of /\ value = v.of
    BY <1>3, Zenon DEF ExtractToString, ValueToString, v
  <2> QED
    BY <1>2, <1>3, <2>1
<1>4. CASE v.kind = "literal"
  <2>1. extract = Plain(v.of) /\ value = Plain(v.of)
    BY <1>4, Zenon DEF ExtractToString, ValueToString, v
  <2> QED
    BY <1>2, <1>4, <2>1
<1>5. CASE v.kind = "float"
  <2>1. extract = SprintFloat(v.of) /\ value = Plain(v.of)
    BY <1>5, Zenon DEF ExtractToString, ValueToString, v
  <2>2. v.of \in Nat
    BY <1>1, <1>5 DEF IsNormal
  <2>3. SprintFloat(v.of) = Plain(v.of) <=> v.of < ExpFrom
    BY <2>2, ExpFromAssumption, ExactAssumption DEF SprintFloat, Plain, Text
  <2> QED
    BY <1>2, <1>5, <2>1, <2>3
<1>6. CASE v.kind = "bool"
  <2>1. extract = Text("bool", v.of) /\ value = Text("bool", v.of)
    BY <1>6, Zenon DEF ExtractToString, ValueToString, v
  <2> QED
    BY <1>2, <1>6, <2>1
<1>7. CASE v.kind = "null"
  <2>1. extract = Text("nil", 0) /\ value = NoText
    BY <1>7, Zenon DEF ExtractToString, ValueToString, v
  <2> QED
    BY <1>2, <1>7, <2>1 DEF Text, NoText
<1>8. CASE v.kind = "object"
  <2>1. extract = Text("json", v.of) /\ value = Text("sprint", v.of)
    BY <1>8, Zenon DEF ExtractToString, ValueToString, v
  <2> QED
    BY <1>2, <1>8, <2>1 DEF Text
<1>9. CASE v.kind = "list"
  <2>1. extract = Text("json", v.of) /\ value = Text("json", v.of)
    BY <1>9, Zenon DEF ExtractToString, ValueToString, v
  <2> QED
    BY <1>2, <1>9, <2>1
<1> QED
  BY <1>1, <1>3, <1>4, <1>5, <1>6, <1>7, <1>8, <1>9 DEF IsNormal

(* Nothing but the rules of this response put a value into a variable.     *)
ExtractedFromBody == extracted.body \in {NoText, BodyVariable}

LEMMA ExtractedInductive == ExtractedFromBody /\ [Next]_vars => ExtractedFromBody'
<1> SUFFICES ASSUME ExtractedFromBody, [Next]_vars PROVE ExtractedFromBody'
  OBVIOUS
<1>1. UNCHANGED <<response, spec>>
  BY DEF Next, CheckStatus, CheckBody, CheckSchema, CheckPath, CheckHeader, Group, Extract, Idles, vars
<1>2. BodyVariable' = BodyVariable
  BY <1>1 DEF BodyVariable, PathLookup
<1>3. extracted'.body \in {extracted.body, BodyVariable}
  <2>1. CASE Extract
    BY <2>1 DEF Extract
  <2>2. CASE UNCHANGED extracted
    BY <2>2
  <2> QED
    BY <2>1, <2>2
    DEF Next, CheckStatus, CheckBody, CheckSchema, CheckPath, CheckHeader, Group, Idles, vars
<1> QED
  BY <1>2, <1>3 DEF ExtractedFromBody

(* A value extracted into a variable passes eq against that variable, as   *)
(* assert.go:627-628 says, if and only if both write it alike: a number    *)
(* with an exponent, an object and a list of one null fail, nothing else.  *)
THEOREM EqAfterExtractIffAlike ==
    Spec => [](/\ extracted.body # NoText
               /\ spec.text = extracted.body
               /\ "eq" \in Reported("jsonpath")
               => ("eq" \in Passed("jsonpath") <=> WrittenAlike))
<1> DEFINE Exactly ==
        /\ extracted.body # NoText
        /\ spec.text = extracted.body
        /\ "eq" \in Reported("jsonpath")
        => ("eq" \in Passed("jsonpath") <=> WrittenAlike)
<1>1. Init => ResultsTrue /\ ExtractedFromBody
  BY DEF Init, ResultsTrue, ExtractedFromBody
<1>2. ResultsTrue /\ ExtractedFromBody => Exactly
  <2> SUFFICES ASSUME ResultsTrue, ExtractedFromBody,
                      extracted.body # NoText, spec.text = extracted.body,
                      "eq" \in Reported("jsonpath")
               PROVE  "eq" \in Passed("jsonpath") <=> WrittenAlike
    OBVIOUS
  <2>1. /\ spec.text # NoText
        /\ PathLookup.value.kind # "null"
        /\ spec.text = ExtractToString(PathLookup.value)
    BY DEF ExtractedFromBody, BodyVariable
  <2>2. PathLookup.how = "found" /\ PathLookup.value = Normal(response.path.value)
    <3>1. LookupOf("jsonpath") = PathLookup
      BY DEF LookupOf
    <3>2. PathLookup.how = "found"
      BY <2>1, <3>1, LookupFacts DEF ResultsTrue
    <3> QED
      BY <3>2 DEF PathLookup, Unreadable
  <2>3. ValueToString(PathLookup.value) = spec.text <=> WrittenAlike
    BY <2>1, <2>2, TextsAgree DEF ResultsTrue
  <2>4. ValuePasses("eq", LookupOf("jsonpath")) <=> WrittenAlike
    BY <2>1, <2>2, <2>3 DEF LookupOf, ValuePasses, StringPasses, TextPasses
  <2>5. PICK r \in out : r.target = "jsonpath" /\ r.op = "eq"
    BY DEF Reported
  <2> QED
    BY <2>4, <2>5 DEF ResultsTrue, Passed
<1> QED
  BY <1>1, <1>2, TrueInductive, ExtractedInductive, PTL DEF Spec
=============================================================================
