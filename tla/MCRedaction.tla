----------------------------- MODULE MCRedaction -----------------------------
(* One field on every surface, of one leaf or two; secrets that lie within  *)
(* one another or overlap, that are escaped, too short or too common, or    *)
(* that hold the placeholder, in texts and in keys.                         *)
EXTENDS Redaction

MCLetters == {"p", "q", "%q", "j"}

MCCommon == {<<"q", "q">>}

SomeValues == {<<"p", "p">>, <<"p", "q">>, <<"p", "p", "q">>}

MCSources ==
    [secrets: {{}, {<<"p", "p">>, <<"p", "q">>}, {<<"p", "p", "q">>, <<"q", "q">>}, {<<"%q", "p">>}, {<<"p", "p">>, <<Mask, "q">>}},
     env: {{}, {<<"bodyKey", <<"p", "p", "q">>>>}, {<<"plain", <<"p", "p">>>>, <<"anyKey", <<"p">>>>}},
     cli: {{}, {<<"headerKey", <<"p", "p">>>>}} \cup {{<<"ruled", v>>} : v \in SomeValues}]

AllFlags ==
    [enabled |-> TRUE, requestHeader |-> TRUE, responseHeader |-> TRUE, requestBody |-> TRUE,
     responseBody |-> TRUE, query |-> TRUE, scopes |-> {}]

MCConfigs ==
    {[AllFlags EXCEPT !.scopes = s] : s \in {{}, {"all"}, {"header"}, {"body"}, {"query"}, {"header", "query"}}}
    \cup {[AllFlags EXCEPT ![flag] = FALSE, !.scopes = {"all"}] : flag \in DOMAIN AllFlags \ {"scopes"}}

Key(class) == [class |-> class, text |-> <<>>]

(* A key with a secret in it, escaped or not. *)
SecretKey(class, text) == [class |-> class, text |-> text]

(* In escaped form: what a URL or a JSON document holds. *)
EscapedTexts ==
    {<<"p">>, <<"%q">>, <<"j">>, <<"p", "p">>, <<"p", "%q">>, <<"p", "p", "%q">>, <<"%q", "p", "p">>}

Texts == EscapedTexts \cup {<<"p", "q">>, <<"q", "p", "p", "q">>}

(* Secrets that follow one another, with something before and behind. *)
LongTexts ==
    {<<"p", "p", "q", "p", "q">>, <<"q", "p", "p", "p", "q">>, <<"p", "p", "p", "p">>, <<"p", "q", "j", "p", "p">>,
     <<"q", "p", "q", Mask, "p", "p", "q">>}

Leaf(paths, texts) == [path: paths, text: texts, kind: {"string"}]

Path1 == {<<Key(c)>> : c \in Classes}
Path2 == {<<Key(c[1]), Key(c[2])>> :
            c \in {<<"plain", "bodyKey">>, <<"plain", "ruled">>, <<"anyKey", "plain">>, <<"anyKey", "bodyKey">>}}
SecretPath ==
    {<<SecretKey("plain", <<"p", "p">>)>>, <<SecretKey("plain", <<"p", "%q">>)>>, <<SecretKey("bodyKey", <<"p", "q">>)>>,
     <<SecretKey("plain", <<"q">>)>>}

One(paths, texts) == {{l} : l \in Leaf(paths, texts)}

Two(first, second) == {{l, m} : l \in first, m \in second}

(* A pair of a query or a form with a bad escape or a semicolon. *)
Malformed == [path: {<<Key("plain")>>, <<Key("bodyKey")>>, <<SecretKey("plain", <<"p", "p">>)>>},
              text: {<<"p">>, <<"p", "p">>, <<"p", "%q">>}, kind: {"malformed"}]

Docs ==
    One(Path1 \cup Path2 \cup {<<>>}, EscapedTexts)
    \cup One(SecretPath \cup {<<Key("plain"), k[1]>> : k \in SecretPath}, {<<"p">>, <<"p", "%q">>})
    \cup Two(Leaf({<<Key("anyKey"), Key("plain")>>, <<Key("plain"), Key("bodyKey")>>}, {<<"p">>}),
             Leaf({<<Key("plain")>>, <<Key("anyKey"), Key("ruled")>>}, EscapedTexts))
    \cup {{[path |-> <<Key(c)>>, text |-> t, kind |-> "number"]} : c \in {"plain", "ruled"}, t \in {<<"p">>, <<"p", "p">>}}

(* What follows the first value, or a member that is replaced. *)
Rest == {[path |-> p, text |-> t, kind |-> "rest"] : p \in {<<>>, <<Key("bodyKey")>>}, t \in {<<"p">>, <<"p", "p">>}}

WithRest == {d \cup {r} : d \in One({<<>>, <<Key("bodyKey")>>}, EscapedTexts), r \in Rest}

Urls ==
    One(Path1 \cup {<<>>}, EscapedTexts)
    \cup One(SecretPath, {<<"p">>, <<"p", "%q">>})
    \cup Two(Leaf({<<Key("ruled")>>, <<Key("plain")>>}, {<<"p", "%q">>, <<"p">>}),
             Leaf({<<>>, <<Key("plain")>>, <<Key("bodyKey")>>}, EscapedTexts))
    \cup Two(Leaf(Path1, {<<"p">>, <<"p", "p">>}), Malformed)

Forms ==
    One(Path1 \cup {<<>>}, Texts)
    \cup One(SecretPath, {<<"p">>, <<"p", "%q">>})
    \cup Two(Leaf({<<Key("ruled")>>, <<Key("plain")>>} \cup SecretPath, {<<"p", "q">>, <<"p">>}),
             Leaf({<<>>, <<Key("plain")>>, <<Key("bodyKey")>>}, Texts) \cup Malformed)

Bodies(at) ==
    [at: {at}, shape: {"json"}, leaves: Docs \cup WithRest]
    \cup [at: {at}, shape: {"jsonAndMore"}, leaves: WithRest]
    \cup [at: {at}, shape: {"form"}, leaves: Forms]
    \cup [at: {at}, shape: {"text"}, leaves: One({<<>>}, Texts \cup LongTexts)]

MCFields ==
    [at: {"name", "message"}, shape: {"text"}, leaves: One({<<>>}, Texts \cup LongTexts)]
    \cup [at: {"url", "error"}, shape: {"parsed"}, leaves: Urls]
    \cup [at: {"url"}, shape: {"unparsable"}, leaves: One({<<>>}, Texts)]
    \cup [at: {"error"}, shape: {"text"}, leaves: One({<<>>}, Texts)]
    \cup [at: {"requestHeader", "responseHeader", "extracted"}, shape: {"pairs"},
           leaves: One(Path1, Texts) \cup One(SecretPath, {<<"p">>, <<"p", "q">>})]
    \cup Bodies("requestBody")
    \cup [at: {"responseBody"}, shape: {"json"}, leaves: Docs]
=============================================================================
