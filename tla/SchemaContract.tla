---------------------------- MODULE SchemaContract ----------------------------
(***************************************************************************)
(* JSON schemas on both sides of the generated API client: the subset that *)
(* the generator lets through (generate-api-client.mjs), what the client   *)
(* enforces of it at run time (validator.ts), and, as the reference, what  *)
(* JSON Schema says that a schema means.                                   *)
(*                                                                         *)
(* A schema is a record with the keywords it uses; a value is a record     *)
(* with a type t.  A text is known by its length and by whether it has the *)
(* form that a pattern or format asks for; annotations are one keyword,    *)
(* note.  additionalProperties is a record with a kind.                    *)
(***************************************************************************)
EXTENDS Integers, Sequences, FiniteSets

CONSTANTS
    Schemas,        \* schemas that somebody writes
    Values,
    Components      \* the named schemas: a function from names to schemas

Types == {"array", "boolean", "integer", "null", "number", "object", "string"}
Keywords == {"ref", "additional", "anyOf", "const", "enum", "form", "items", "maxLength", "maximum", "minLength",
             "minimum", "note", "properties", "required", "type"}

Uses(s, k) == k \in DOMAIN s

-----------------------------------------------------------------------------
(***************************************************************************)
(* The generator                                                           *)
(***************************************************************************)
RECURSIVE validateSchema(_)

\* Mutant: a named schema may have anything beside it.
RefAlone_Unchecked(s) == Uses(s, "ref") => s.ref \in DOMAIN Components

RefAlone(s) == Uses(s, "ref") => s.ref \in DOMAIN Components /\ DOMAIN s \subseteq {"ref", "note"}

Bounds(s, low, high) == Uses(s, low) /\ Uses(s, high) => s[low] <= s[high]

validateSchema(s) ==
    /\ DOMAIN s \subseteq Keywords
    /\ RefAlone(s)
    /\ Uses(s, "type") => s.type \in Types
    /\ Uses(s, "minLength") => s.minLength >= 0
    /\ Uses(s, "maxLength") => s.maxLength >= 0
    /\ Bounds(s, "minLength", "maxLength") /\ Bounds(s, "minimum", "maximum")
    /\ Uses(s, "enum") => s.enum # {}
    /\ Uses(s, "properties") => \A k \in DOMAIN s.properties : validateSchema(s.properties[k])
    /\ Uses(s, "items") => validateSchema(s.items)
    /\ Uses(s, "anyOf") => s.anyOf # <<>> /\ \A i \in DOMAIN s.anyOf : validateSchema(s.anyOf[i])
    /\ Uses(s, "additional") /\ s.additional.kind = "schema" => validateSchema(s.additional.schema)

-----------------------------------------------------------------------------
(***************************************************************************)
(* The validator                                                           *)
(***************************************************************************)
RECURSIVE validate(_, _, _)

validateNumber(s, v) ==
    (Uses(s, "minimum") => v.n >= s.minimum) /\ (Uses(s, "maximum") => v.n <= s.maximum)

validateString(s, v) ==
    /\ v.t = "string"
    /\ Uses(s, "minLength") => v.n >= s.minLength
    /\ Uses(s, "maxLength") => v.n <= s.maxLength
    /\ Uses(s, "form") => v.formed

\* Additional properties that the schema does not allow are refused in a
\* request only.
Unknown(s, v, mode) == ~(mode = "request" /\ Uses(s, "additional") /\ s.additional.kind = "false")

validateObject(s, v, mode) ==
    LET properties == IF Uses(s, "properties") THEN s.properties ELSE [k \in {} |-> 0] IN
    /\ v.t = "object"
    /\ Uses(s, "required") => s.required \subseteq DOMAIN v.f
    /\ \A k \in DOMAIN v.f :
          IF k \in DOMAIN properties THEN validate(properties[k], v.f[k], mode)
          ELSE IF Uses(s, "additional") /\ s.additional.kind = "schema" THEN validate(s.additional.schema, v.f[k], mode)
          ELSE Unknown(s, v, mode)

\* The rest of validate: const, enum, and the switch on the type, which a
\* schema must have.
validateTyped(s, v, mode) ==
    /\ Uses(s, "const") => v = s.const
    /\ Uses(s, "enum") => v \in s.enum
    /\ Uses(s, "type")
    /\ CASE s.type \in {"null", "boolean"} -> v.t = s.type
         [] s.type = "integer" -> v.t = "number" /\ v.whole /\ validateNumber(s, v)
         [] s.type = "number" -> v.t = "number" /\ validateNumber(s, v)
         [] s.type = "string" -> validateString(s, v)
         [] s.type = "array" -> v.t = "array" /\ Uses(s, "items") /\ \A i \in DOMAIN v.e : validate(s.items, v.e[i], mode)
         [] s.type = "object" -> validateObject(s, v, mode)
         [] OTHER -> FALSE

\* A reference is followed, an anyOf is tried; what stands beside either is
\* not looked at.
validate(s, v, mode) ==
    IF Uses(s, "ref") THEN s.ref \in DOMAIN Components /\ validate(Components[s.ref], v, mode)
    ELSE IF Uses(s, "anyOf") THEN \E i \in DOMAIN s.anyOf : validate(s.anyOf[i], v, mode)
    ELSE validateTyped(s, v, mode)

-----------------------------------------------------------------------------
(***************************************************************************)
(* The reference: every keyword asks for something of the values of its    *)
(* type, and a value must satisfy them all.                                *)
(***************************************************************************)
RECURSIVE Means(_, _)

Means(s, v) ==
    /\ Uses(s, "ref") => Means(Components[s.ref], v)
    /\ Uses(s, "anyOf") => \E i \in DOMAIN s.anyOf : Means(s.anyOf[i], v)
    /\ Uses(s, "const") => v = s.const
    /\ Uses(s, "enum") => v \in s.enum
    /\ Uses(s, "type") => (v.t = s.type \/ (s.type = "integer" /\ v.t = "number" /\ v.whole))
    /\ v.t = "number" => (Uses(s, "minimum") => v.n >= s.minimum) /\ (Uses(s, "maximum") => v.n <= s.maximum)
    /\ v.t = "string" => /\ Uses(s, "minLength") => v.n >= s.minLength
                         /\ Uses(s, "maxLength") => v.n <= s.maxLength
                         /\ Uses(s, "form") => v.formed
    /\ v.t = "array" /\ Uses(s, "items") => \A i \in DOMAIN v.e : Means(s.items, v.e[i])
    /\ v.t = "object" =>
          LET known == IF Uses(s, "properties") THEN DOMAIN s.properties ELSE {} IN
          /\ Uses(s, "required") => s.required \subseteq DOMAIN v.f
          /\ \A k \in DOMAIN v.f \cap known : Means(s.properties[k], v.f[k])
          /\ Uses(s, "additional") =>
                \A k \in DOMAIN v.f \ known :
                    s.additional.kind = "true" \/ (s.additional.kind = "schema" /\ Means(s.additional.schema, v.f[k]))

-----------------------------------------------------------------------------
\* Every schema within is typed where the validator asks for it, and nothing
\* that constrains a value stands beside an anyOf: the form in which the
\* server's models write them.
RECURSIVE Plain(_)
Plain(s) ==
    /\ Uses(s, "ref") \/ Uses(s, "anyOf") \/ Uses(s, "type")
    /\ Uses(s, "anyOf") => DOMAIN s \subseteq {"anyOf", "note"}
    /\ Uses(s, "anyOf") => \A i \in DOMAIN s.anyOf : Plain(s.anyOf[i])
    /\ Uses(s, "properties") => \A k \in DOMAIN s.properties : Plain(s.properties[k])
    /\ Uses(s, "type") /\ s.type = "array" => Uses(s, "items") /\ Plain(s.items)
    /\ Uses(s, "additional") /\ s.additional.kind = "schema" => Plain(s.additional.schema)

\* What is left of a value when the properties the schema does not name are
\* dropped; it does not look into an anyOf.
RECURSIVE Known(_, _)
Known(s, v) ==
    LET properties == IF Uses(s, "properties") THEN s.properties ELSE [k \in {} |-> 0]
        extra == IF Uses(s, "additional") THEN s.additional.kind ELSE "true"
        kept == IF extra = "false" THEN DOMAIN v.f \cap DOMAIN properties ELSE DOMAIN v.f
    IN  IF Uses(s, "ref") THEN Known(Components[s.ref], v)
        ELSE IF v.t = "array" /\ Uses(s, "items") THEN [v EXCEPT !.e = [i \in DOMAIN v.e |-> Known(s.items, v.e[i])]]
        ELSE IF v.t # "object" THEN v
        ELSE [v EXCEPT !.f = [k \in kept |-> IF k \in DOMAIN properties THEN Known(properties[k], v.f[k])
                                              ELSE IF extra = "schema" THEN Known(s.additional.schema, v.f[k]) ELSE v.f[k]]]

\* For every schema that generate lets through, in the form that the server
\* writes them: assertValid lets out of the client exactly the requests that
\* the contract means; an answer that the contract allows is never refused;
\* and one with properties that a later server added is judged by those that
\* the client knows.
ValidatorAgrees ==
    \A s \in {x \in Schemas : validateSchema(x) /\ Plain(x)}, v \in Values :
        /\ validate(s, v, "request") <=> Means(s, v)
        /\ Means(s, v) => validate(s, v, "response")
        /\ ~Uses(s, "anyOf") => (validate(s, v, "response") <=> Means(s, Known(s, v)))

\* Not so, although the generator "fails on unsupported constructs": that what
\* it lets through is enforced whatever form it has.  A type beside an anyOf
\* passes the generator and is not looked at by validate.
SupportedIsEnforced ==
    \A s \in {x \in Schemas : validateSchema(x)}, v \in Values : validate(s, v, "request") => Means(s, v)
=============================================================================
