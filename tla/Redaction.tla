----------------------------- MODULE Redaction -----------------------------
(***************************************************************************)
(* The redactor.  `lynix run' registers the secret values it knows, runs,  *)
(* and masks the result it saves and prints; fail_on_detected_secret then  *)
(* checks that nothing was left unmasked.                                  *)
(*                                                                         *)
(* A text is a sequence of symbols: letters, the placeholder, the letter   *)
(* "q" that URLs and JSON escape, in its escaped form "%q", and "j", a     *)
(* credential of a well-known format.  A field of a result (a URL, a       *)
(* header, a body ...) is a set of leaves, each under the keys that lead   *)
(* to it; the keys of an array are left out.  A secret lies in one leaf or *)
(* key and not across two, and what a key matches is no part of a secret.  *)
(***************************************************************************)
EXTENDS Integers, Sequences, SequencesExt

CONSTANTS
    Letters,      \* the symbols of texts, the placeholder excepted
    Configs,      \* masking sections of lynix.yaml to consider
    Sources,      \* environments and --var overrides to consider
    Fields,       \* fields a result may have
    Common,       \* values like true, false and null
    MinSecretLen  \* shorter values are not taken for secrets

Mask == "*"

Symbols == Letters \cup {Mask}

(* What a key matches: a builtin pattern for headers, one for other keys,  *)
(* one of both, or a rule of the configuration.                            *)
Classes == {"plain", "headerKey", "bodyKey", "anyKey", "ruled"}

(* A key: what it matches, and the rest of its text. *)
Keys == [class: Classes, text: Seq(Symbols)]

Scopes == {"all", "header", "body", "query"}

(* "rest": of a JSON body, what decoding its first value drops: what       *)
(* follows it, and a member that a later one of the same name replaces.    *)
(* "malformed": a pair of a query or a form that url.ParseQuery refuses.   *)
Leaves == [path: Seq(Keys), text: Seq(Symbols), kind: {"string", "number", "rest", "malformed"}]

Shapes ==
    [name |-> {"text"}, url |-> {"parsed", "unparsable"}, error |-> {"parsed", "text"}, message |-> {"text"},
     requestHeader |-> {"pairs"}, responseHeader |-> {"pairs"}, extracted |-> {"pairs"},
     requestBody |-> {"json", "jsonAndMore", "form", "text"},
     responseBody |-> {"json", "jsonAndMore", "form", "text"}]

Surfaces == DOMAIN Shapes

MaskingConfig ==
    [enabled: BOOLEAN, requestHeader: BOOLEAN, responseHeader: BOOLEAN, requestBody: BOOLEAN,
     responseBody: BOOLEAN, query: BOOLEAN, scopes: SUBSET Scopes]

ASSUME LettersAssumption == {"q", "%q"} \subseteq Letters /\ Mask \notin Letters
ASSUME ConfigsAssumption == Configs \subseteq MaskingConfig
ASSUME SourcesAssumption ==
    \A s \in Sources :
        /\ s.secrets \subseteq Seq(Symbols) /\ IsFiniteSet(s.secrets)
        /\ s.env \subseteq Classes \X Seq(Symbols) /\ IsFiniteSet(s.env)
        /\ s.cli \subseteq Classes \X Seq(Symbols) /\ IsFiniteSet(s.cli)
ASSUME FieldsAssumption ==
    \A f \in Fields :
        /\ f \in [at: Surfaces, shape: UNION {Shapes[s] : s \in Surfaces}, leaves: SUBSET Leaves]
        /\ f.shape \in Shapes[f.at]
        /\ \A l \in f.leaves :
            /\ f.shape \in {"text", "unparsable"} => l.path = <<>>
            /\ f.shape = "pairs" => Len(l.path) = 1
            /\ f.shape \in {"parsed", "form"} => Len(l.path) <= 1
            /\ l.kind \in {"rest", "number"} => f.shape \in {"json", "jsonAndMore"}
            /\ l.kind = "number" => {"q", "%q"} \cap ToSet(l.text) = {}
            /\ l.kind = "malformed" => f.shape \in {"parsed", "form"} /\ l.path # <<>>
ASSUME MinAssumption == MinSecretLen \in Nat \ {0}

VARIABLES
    cfg,           \* the masking configuration
    source,        \* secret values, and pairs of a key and a value of variables
    secretValues,  \* the registered values, in the order they are replaced
    result,        \* a field of the run's results
    redacted,      \* that field as saved and printed
    step           \* "env", "vars", "redact", "check", "clean" or "detected"

vars == <<cfg, source, secretValues, result, redacted, step>>

-----------------------------------------------------------------------------
(* Keys. *)

RuledFor(scopes) == cfg.scopes \cap scopes # {}

IsHeaderSensitive(class) ==
    class \in {"headerKey", "anyKey"} \/ (class = "ruled" /\ RuledFor({"all", "header"}))

IsKeySensitive(class) ==
    class \in {"bodyKey", "anyKey"} \/ (class = "ruled" /\ RuledFor({"all", "body", "query"}))

IsQueryParamSensitive(class) ==
    class \in {"bodyKey", "anyKey"} \/ (class = "ruled" /\ RuledFor({"all", "query"}))

-----------------------------------------------------------------------------
(* Texts. *)

Decoded(t) == [i \in DOMAIN t |-> IF t[i] = "%q" THEN "q" ELSE t[i]]

Encoded(t) == [i \in DOMAIN t |-> IF t[i] = "q" THEN "%q" ELSE t[i]]

OccursAt(v, t, i) == i + Len(v) - 1 <= Len(t) /\ SubSeq(t, i, i + Len(v) - 1) = v

(* strings.ReplaceAll(t, v, mask): leftmost first, without overlaps. *)
Replaced(t, v) ==
    LET from[i \in 1..(Len(t) + 1)] ==
            IF i > Len(t) THEN <<>>
            ELSE IF OccursAt(v, t, i) THEN <<Mask>> \o from[i + Len(v)]
            ELSE <<t[i]>> \o from[i + 1]
    IN from[1]

HasFormat(t) == \E i \in DOMAIN t : t[i] = "j"

ScrubText(t) ==
    LET after[i \in 0..Len(secretValues)] ==
            IF i = 0 THEN t ELSE Replaced(after[i - 1], secretValues[i])
        known == after[Len(secretValues)]
    IN [i \in DOMAIN known |-> IF known[i] = "j" THEN Mask ELSE known[i]]

(* A leaf with its text and the texts of its keys rewritten. *)
Rewritten(l, Rewrite(_)) ==
    [path |-> [i \in DOMAIN l.path |-> [class |-> l.path[i].class, text |-> Rewrite(l.path[i].text)]],
     text |-> Rewrite(l.text),
     kind |-> l.kind]

Scrubbed(l) == Rewritten(l, ScrubText)

ScrubbedValue(l) == [l EXCEPT !.text = ScrubText(@)]

Masked(l) == [l EXCEPT !.text = <<Mask>>, !.kind = "string"]

HasKnownValue(t) == \E i \in DOMAIN secretValues : \E k \in DOMAIN t : OccursAt(secretValues[i], t, k)

HoldsSecret(t) == HasKnownValue(t) \/ HasFormat(t)

-----------------------------------------------------------------------------
(* Fields. *)

(* maskStringMap, and the same for response headers. *)
MaskStringMap(leaves, sensitive) ==
    {IF l.path[1].class \in sensitive THEN Masked(l) ELSE ScrubbedValue(l) : l \in leaves}

(* The leaf without a key is the URL up to its query. *)
IsParam(l) == l.path # <<>>

(* u.Query() drops a pair it cannot parse, without a word. *)
ParamChanges(l) ==
    /\ IsParam(l) /\ l.kind # "malformed"
    /\ IsQueryParamSensitive(l.path[1].class) \/ ScrubText(Decoded(l.text)) # Decoded(l.text)

MaskParam(l) ==
    IF ~IsParam(l) THEN l
    ELSE LET pair == Rewritten(l, Decoded)
         IN Rewritten(IF IsQueryParamSensitive(l.path[1].class) THEN Masked(pair) ELSE ScrubbedValue(pair), Encoded)

(* Mutant: only the parameters that change are written back. *)
MaskQueryParamsOnly(leaves) ==
    IF \E l \in leaves : ParamChanges(l)
    THEN {MaskParam(l) : l \in {m \in leaves : ParamChanges(m) \/ ~IsParam(m)}}
    ELSE leaves

(* The query is written anew if a parameter changes, from the pairs that   *)
(* could be parsed.                                                        *)
MaskQueryParams(leaves) ==
    IF \E l \in leaves : ParamChanges(l)
    THEN {MaskParam(l) : l \in {m \in leaves : m.kind # "malformed"}}
    ELSE leaves

Sensitive(key) == IsKeySensitive(key.class)

(* The place of the outermost sensitive key on a path, 0 if there is none. *)
SensitiveAt(path) == SelectInSeq(path, Sensitive)

(* Mutant: the document is not walked below its top. *)
WalkTopAndMask(l) ==
    IF l.path # <<>> /\ Sensitive(l.path[1]) THEN Masked([l EXCEPT !.path = <<l.path[1]>>])
    ELSE IF l.kind = "number" THEN l
    ELSE ScrubbedValue(l)

WalkAndMask(l) ==
    IF SensitiveAt(l.path) > 0 THEN Masked([l EXCEPT !.path = SubSeq(@, 1, SensitiveAt(@))])
    ELSE IF l.kind = "number" THEN l
    ELSE ScrubbedValue(l)

(* The document is decoded, walked, marshalled, and scrubbed as a text.    *)
MaskJSONLeaf(l) == Scrubbed(Rewritten(WalkAndMask(Rewritten(l, Decoded)), Encoded))

FormValue(l) ==
    IF l.kind # "malformed" /\ ScrubText(Decoded(l.text)) # Decoded(l.text) THEN <<Mask>> ELSE ScrubText(l.text)

FormChanges(l) == IsParam(l) /\ (Sensitive(l.path[1]) \/ FormValue(l) # l.text)

MaskFormLeaf(l) ==
    IF ~IsParam(l) THEN l
    ELSE IF Sensitive(l.path[1]) THEN Masked(l)
    ELSE [l EXCEPT !.text = FormValue(l)]

(* A number that holds a secret leaves something that is no JSON. *)
MaskJSONBody(f) ==
    LET decoded == {l \in f.leaves : l.kind # "rest"}
        cut(l) == l.kind = "number" /\ SensitiveAt(l.path) = 0 /\ HoldsSecret(l.text)
    IN [at |-> f.at,
        shape |-> IF \E l \in decoded : cut(l) THEN "text" ELSE "json",
        leaves |-> {MaskJSONLeaf(l) : l \in decoded}]

MaskBodyBytes(f) ==
    CASE f.shape \in {"json", "jsonAndMore"} -> MaskJSONBody(f)
      [] f.shape = "form" /\ (\E l \in f.leaves : FormChanges(l)) ->
            [f EXCEPT !.leaves = {MaskFormLeaf(l) : l \in f.leaves}]
      [] OTHER -> [f EXCEPT !.leaves = {Scrubbed(l) : l \in f.leaves}]

MasksQuery(f) == f.shape = "parsed" /\ (f.at = "error" \/ cfg.query)

RedactField(f) ==
    CASE f.at = "name" -> f
      [] f.at \in {"url", "error"} ->
            LET masked == IF MasksQuery(f) THEN MaskQueryParams(f.leaves) ELSE f.leaves
            IN [f EXCEPT !.leaves = {Scrubbed(l) : l \in masked}]
      [] f.at \in {"requestHeader", "responseHeader"} ->
            [f EXCEPT !.leaves = MaskStringMap(@, {c \in Classes : cfg[f.at] /\ IsHeaderSensitive(c)})]
      [] f.at = "extracted" ->
            [f EXCEPT !.leaves = MaskStringMap(@, {c \in Classes : IsKeySensitive(c)})]
      [] f.at \in {"requestBody", "responseBody"} /\ cfg[f.at] -> MaskBodyBytes(f)
      [] OTHER -> [f EXCEPT !.leaves = {Scrubbed(l) : l \in f.leaves}]

-----------------------------------------------------------------------------
(* The check. *)

TextsOf(l) == {l.text} \cup {l.path[i].text : i \in DOMAIN l.path}

(* All of the artifact as it is written, which escapes "q"; bodies also as *)
(* they are.                                                               *)
CheckTextForSecrets(f) ==
    \E l \in f.leaves : \E t \in TextsOf(l) :
        HoldsSecret(Encoded(t)) \/ (f.at \in {"requestBody", "responseBody"} /\ HoldsSecret(t))

(* findUnmaskedKey: a sensitive key over anything but the placeholder. *)
FindUnmaskedKey(f) ==
    \E l \in f.leaves :
        /\ l.kind # "rest"
        /\ SensitiveAt(l.path) > 0
        /\ ~(SensitiveAt(l.path) = Len(l.path) /\ l.text = <<Mask>> /\ l.kind = "string")

UnmaskedKey(f) ==
    CASE f.at \in {"requestHeader", "responseHeader"} ->
            \E l \in f.leaves : IsHeaderSensitive(l.path[1].class) /\ l.text # <<Mask>>
      [] f.at = "extracted" -> \E l \in f.leaves : Sensitive(l.path[1]) /\ l.text # <<Mask>>
      [] f.at = "url" /\ f.shape = "parsed" ->
            \E l \in f.leaves :
                /\ IsParam(l) /\ l.kind # "malformed"
                /\ IsQueryParamSensitive(l.path[1].class) /\ Decoded(l.text) # <<Mask>>
      [] f.at \in {"requestBody", "responseBody"} /\ f.shape = "json" -> FindUnmaskedKey(f)
      [] OTHER -> FALSE

-----------------------------------------------------------------------------
(* Steps. *)

NoField == [at |-> "name", shape |-> "text", leaves |-> {}]

Init ==
    /\ cfg \in Configs
    /\ source \in Sources
    /\ result = NoField
    /\ redacted = NoField
    /\ secretValues = <<>>
    /\ step = "env"

IsSecretValue(v) == Len(v) >= MinSecretLen /\ v \notin Common /\ \E i \in DOMAIN v : v[i] # Mask

(* Mutant: in the order they come. *)
AddSecretValuesUnsorted(values) ==
    \E order \in SetToSeqs({v \in values : IsSecretValue(v)}) :
        secretValues' = secretValues \o order

(* Longest first; sort.Slice leaves values of one length in any order.     *)
AddSecretValues(values) ==
    \E order \in SetToSeqs(ToSet(secretValues) \cup {v \in values : IsSecretValue(v)}) :
        /\ \A i, j \in DOMAIN order : i < j => Len(order[i]) >= Len(order[j])
        /\ secretValues' = order

SensitiveValues(variables) == {p[2] : p \in {q \in variables : IsKeySensitive(q[1])}}

AddSecretsFromEnv ==
    /\ step = "env"
    /\ AddSecretValues(source.secrets \cup SensitiveValues(source.env))
    /\ step' = "vars"
    /\ UNCHANGED <<cfg, source, result, redacted>>

AddSecretsFromVars ==
    /\ step = "vars"
    /\ AddSecretValues(SensitiveValues(source.cli))
    /\ step' = "redact"
    /\ UNCHANGED <<cfg, source, result, redacted>>

(* Of whatever the run returned. *)
Redact ==
    /\ step = "redact"
    /\ result' \in Fields
    /\ redacted' = IF cfg.enabled THEN RedactField(result') ELSE result'
    /\ step' = "check"
    /\ UNCHANGED <<cfg, source, secretValues>>

CheckForSecrets ==
    /\ step = "check"
    /\ step' = IF cfg.enabled /\ (CheckTextForSecrets(redacted) \/ UnmaskedKey(redacted))
               THEN "detected" ELSE "clean"
    /\ UNCHANGED <<cfg, source, secretValues, result, redacted>>

Done == step \in {"clean", "detected"} /\ UNCHANGED vars

Next == AddSecretsFromEnv \/ AddSecretsFromVars \/ Redact \/ CheckForSecrets \/ Done

Spec == Init /\ [][Next]_vars

-----------------------------------------------------------------------------
(* Properties. *)

AllOn == \A flag \in DOMAIN cfg \ {"scopes"} : cfg[flag]

NoValueHolds(symbol) == \A i \in DOMAIN secretValues : symbol \notin ToSet(secretValues[i])

(* What masking does not look at: names, those of headers and extracted    *)
(* variables, and in a form with a pair to mask the keys and the segments  *)
(* without one.                                                            *)
SecretLeft(f) ==
    CASE f.at = "name" -> \E l \in f.leaves : HoldsSecret(Encoded(l.text))
      [] f.at \in {"requestHeader", "responseHeader", "extracted"} ->
            \E l \in f.leaves : HoldsSecret(Encoded(l.path[1].text))
      [] f.shape = "form" /\ (\E l \in f.leaves : FormChanges(l)) ->
            \E l \in f.leaves : HoldsSecret(IF IsParam(l) THEN l.path[1].text ELSE l.text)
      [] OTHER -> FALSE

(* With every flag on, the check finds what masking does not look at and   *)
(* nothing else: of keys and values the two halves of the redactor agree   *)
(* on every other surface, scope of a rule and escaped form, or            *)
(* fail_on_detected_secret would refuse runs that were masked              *)
(* (redactor.go:413-418).  Registered values that hold the placeholder or  *)
(* an escape are excepted: replacing another value may make up the first,  *)
(* and writing the artifact the second.                                    *)
MaskedPassesCheck ==
    step \in {"clean", "detected"} /\ AllOn /\ NoValueHolds(Mask) /\ NoValueHolds("%q") =>
        (step = "detected" <=> SecretLeft(result))

(* The registered value at place k of a text is apart: another lies within *)
(* it or beside it.                                                        *)
Apart(v, t, k) ==
    /\ OccursAt(v, t, k)
    /\ \A i \in DOMAIN secretValues : \A p \in DOMAIN t :
        OccursAt(secretValues[i], t, p) =>
            LET end == p + Len(secretValues[i]) IN
            end <= k \/ p >= k + Len(v) \/ (p >= k /\ end <= k + Len(v))

(* Where a registered value stands in a text, one placeholder stands after *)
(* the scrub: the value goes as a whole and never in part, whichever of    *)
(* the other values lie within it, and in whatever order they were         *)
(* registered (redactor.go:62-65); what precedes and what follows is       *)
(* scrubbed as if it stood alone.  Not so where two values overlap in part,*)
(* nor if a value holds the placeholder.                                   *)
ReplacedWhole ==
    /\ step = "check" /\ cfg.enabled /\ NoValueHolds(Mask)
    /\ result.at # "name" /\ result.shape \in {"text", "unparsable"}
    => \A l \in result.leaves : \A i \in DOMAIN secretValues : \A k \in DOMAIN l.text :
        Apart(secretValues[i], l.text, k) =>
            \E m \in redacted.leaves :
                m.text = ScrubText(SubSeq(l.text, 1, k - 1)) \o <<Mask>>
                         \o ScrubText(SubSeq(l.text, k + Len(secretValues[i]), Len(l.text)))

SensitiveKey(f, l) ==
    CASE f.at \in {"requestHeader", "responseHeader"} -> IsHeaderSensitive(l.path[1].class)
      [] f.at \in {"url", "error"} -> IsParam(l) /\ IsQueryParamSensitive(l.path[1].class)
      [] OTHER -> SensitiveAt(l.path) > 0

(* Under no sensitive key, and without a secret, escaped or not. *)
Innocent(f, l) ==
    /\ ~SensitiveKey(f, l)
    /\ \A t \in TextsOf(l) : ~HoldsSecret(t) /\ ~HoldsSecret(Decoded(t)) /\ ~HoldsSecret(Encoded(t))

(* What is lost without having been looked at: what decoding drops of a    *)
(* JSON body, and the malformed pairs of a query that is written anew.     *)
Lost(f, l) ==
    /\ cfg.enabled
    /\ \/ l.kind = "rest" /\ cfg[f.at]
       \/ l.kind = "malformed" /\ MasksQuery(f) /\ \E k \in f.leaves : ParamChanges(k)

(* Masking one thing changes nothing beside it: what is under no sensitive *)
(* key and holds no secret is in the artifact, at most escaped             *)
(* differently, whatever else of the field was masked (redactor.go:282-310,*)
(* 346-350), except for exactly what is lost.                              *)
OnlySensitiveChanges ==
    step = "check" =>
        \A l \in result.leaves :
            Innocent(result, l) =>
                ((\E m \in redacted.leaves : Rewritten(m, Decoded) = Rewritten(l, Decoded)) <=> ~Lost(result, l))

-----------------------------------------------------------------------------
(* What the repository says and the redactor does not do. *)

(* "JSON or form-urlencoded bodies ... a value scrub for everything else   *)
(* (XML, plain text, ...)" (redactor.go:312-313): a body that is neither   *)
(* and holds no secret stays as it is.                                     *)
TextOnlyScrubbed ==
    /\ step = "check"
    /\ result.shape \in {"text", "jsonAndMore"}
    /\ \A l \in result.leaves :
        l.path = <<>> /\ ~HoldsSecret(l.text) /\ ~HoldsSecret(Decoded(l.text))
    => redacted.leaves = result.leaves
=============================================================================
