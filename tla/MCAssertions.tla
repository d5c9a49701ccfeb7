---------------------------- MODULE MCAssertions ----------------------------
(* Every kind of value on both sides of every boundary, under all operators *)
(* at once: 2^53 is 16 here and %v turns to exponents at 10.                *)
EXTENDS Assertions

Word(w) == Text("word", w)
Number(n) == Json("integer", n)
MCScalars ==
    {Number(3), Number(12), Number(16), Number(17), Number(18), Json("decimal", 12),
     Json("text", Word("a")), Json("text", Plain(17)), Json("bool", TRUE), Null}
MCValues ==
    MCScalars
    \cup {Json("list", <<v>>) : v \in MCScalars}
    \cup {Json("list", <<>>), Json("list", <<Number(3), Null>>), Json("object", <<Number(3)>>)}

MCPartOf(part, t) ==
    part = t \/ part = Word("") \/ (part = Word("a") /\ t.kind = "joined")

MCLengthOf(t) ==
    CASE t.kind = "plain" -> IF t.of < 10 THEN 1 ELSE 2
      [] t = Word("") -> 0
      [] OTHER -> 1

(* What is looked up in a body that is no JSON never matters.              *)
MCResponses ==
    {r \in [status: {200}, latency: {5}, json: BOOLEAN, truncated: BOOLEAN, valid: {TRUE},
            body: {Word("a"), Word("")},
            path: {Found(v) : v \in MCValues} \cup {Absent},
            header: {<<>>, <<Plain(17)>>, <<Word("a"), Plain(3)>>}] :
        /\ ~r.json => r.path = Absent /\ r.header # <<>>
        /\ r.json => r.body = Word("a") /\ (r.truncated => r.path = Absent)}
    \cup [status: {200, 500}, latency: {5, 6}, json: {TRUE}, truncated: {FALSE},
          valid: BOOLEAN, body: {Word("a")}, path: {Absent}, header: {<<>>}]

Compared == ValueOps \ {"exists", "exists_false"}

MCSpecs ==
    {s \in [statusOps: {StatusOps}, status: {200}, statusIn: {{200, 201}}, maxMs: {5},
            bodyOps: {BodyOps}, schema: BOOLEAN, pathValid: BOOLEAN,
            pathOps: {Compared \cup {"exists"}, Compared \cup {"exists_false"}},
            headerOps: {Compared \cup {"exists"}, Compared \cup {"exists_false"}},
            text: {Plain(12), Text("exponent", 12), Plain(16), Plain(17), Word("a"),
                   Text("json", <<Number(3)>>)},
            pattern: [valid: BOOLEAN, texts: {{Word("a"), Plain(17)}}],
            number: {3, 16}, length: {1}] :
        /\ s.pathOps = s.headerOps
        /\ s.schema = (s.number = 3)
        /\ ~s.pathValid => s.pattern.valid}
    \cup [statusOps: {{}, {"max_ms"}}, status: {200}, statusIn: {{}}, maxMs: {5}, bodyOps: {{}},
          schema: {FALSE}, pathValid: {TRUE}, pathOps: {{}, {"len"}}, headerOps: {{}},
          text: {Word("a")}, pattern: {[valid |-> TRUE, texts |-> {}]}, number: {3}, length: {0}]
=============================================================================
