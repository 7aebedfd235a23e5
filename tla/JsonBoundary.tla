----------------------------- MODULE JsonBoundary -----------------------------
(* What the bus takes as data (platform/json-value.ts) and what it holds it   *)
(* against (command/validate.ts).  A schema is proven well formed when the    *)
(* server is composed; a value a caller or a provider hands over is a graph   *)
(* of objects of the language, which is validated, serialized once, read      *)
(* back and only then checked.                                                *)
(*                                                                          *)
(* A graph has a root and one node more: enough for a cycle through either,   *)
(* for a node reached twice, and for a level below the root.                  *)
EXTENDS Naturals, Sequences, FiniteSets

CONSTANTS
  MaxDepth,    \* JsonValueBounds
  MaxEntries,
  MaxBytes

VARIABLES
  side,     \* "input", which is bounded, or "output", which is not
  stage,    \* "given", "kept", "proven", "checked", "refused"
  heap,     \* node -> what it is; <<>> once the value has been read back
  root,     \* a leaf, or the node 1
  kept,     \* the canonical value, a tree
  schema,
  verdict   \* of the check: "ok", "violation", "crash"

vars == <<side, stage, heap, root, kept, schema, verdict>>

BoundaryAssumption == MaxDepth \in Nat /\ MaxEntries \in Nat /\ MaxBytes \in Nat
----------------------------------------
(* Values.  A leaf is a string of a length, a number in halves, or something  *)
(* JSON does not have.                                                       *)
Leaf(type, size) == [type |-> type, size |-> size]
String(n) == Leaf("string", n)
Number(halves) == Leaf("number", halves)
Null == Leaf("null", 0)
NegativeZero == Leaf("-0", 0)
NaN == Leaf("NaN", 0)
Undefined == Leaf("undefined", 0)   \* or a function, or a symbol; a BigInt

Leaves == {String(1), Number(1), NegativeZero, NaN, Undefined}
Hole == Leaf("hole", 0)
Ref(n) == Leaf("ref", n)
Nodes == {1, 2}

\* "odd": keys beyond the enumerable ones of a string name or an index.
Object(fields, odd) == [kind |-> "object", entries |-> fields, odd |-> odd]
Array(items, odd) == [kind |-> "array", entries |-> items, odd |-> odd]
Foreign == [kind |-> "foreign", entries |-> <<>>, odd |-> "none"]   \* a Date, a class, a box

Slots == Leaves \cup {Ref(n) : n \in Nodes}
Fields(names) == UNION {[N -> Slots] : N \in SUBSET names}
Items(n) == UNION {[1..k -> Slots \cup {Hole}] : k \in 0..n}
Containers(names, n) ==
  {Object(f, "none") : f \in Fields(names)} \cup {Array(s, "none") : s \in Items(n)}
  \cup {Object(f, odd) : f \in Fields({"a"}), odd \in {"symbol", "hidden"}}
  \cup {Array(s, odd) : s \in Items(1), odd \in {"symbol", "hidden", "extra"}}
  \cup {Foreign}
----------------------------------------
(* canonicalJsonValue.                                                       *)
Refused == [ok |-> FALSE]
Took(tree) == [ok |-> TRUE, tree |-> tree]
Tree(kind, entries) == [type |-> kind, size |-> 0, entries |-> entries]

\* Mutant: a node that was met is never left.
MetBefore(seen, node, beside) == seen \cup {node} \cup beside
\* The nodes on the way from the root, and not those met beside it.
Seen(seen, node, beside) == seen \cup {node}

Beside(node, i) == {m \in Nodes : \E j \in DOMAIN node.entries : j # i /\ node.entries[j] = Ref(m)}
Dense(node) == \A i \in DOMAIN node.entries : node.entries[i] # Hole

RECURSIVE Validate(_, _, _)
Validate(v, depth, seen) ==
  CASE v.type \in {"null", "string", "boolean", "number"} -> Took(v)
    [] v = NegativeZero -> Took(Number(0))
    [] v.type \in {"NaN", "undefined"} -> Refused
    [] OTHER ->
         LET node == heap[v.size]
             below == [i \in DOMAIN node.entries |->
                         IF node.entries[i] = Hole THEN Refused
                         ELSE Validate(node.entries[i], depth + 1,
                                       Seen(seen, v.size, Beside(node, i)))]
         IN IF \/ side = "input" /\ (depth >= MaxDepth \/ Cardinality(DOMAIN below) > MaxEntries)
               \/ v.size \in seen
               \/ node.kind = "foreign"
               \/ node.odd # "none"
               \/ ~Dense(node)
               \/ \E i \in DOMAIN below : ~below[i].ok
            THEN Refused
            ELSE Took(Tree(node.kind, [i \in DOMAIN below |-> below[i].tree]))

RECURSIVE Bytes(_)
Bytes(tree) ==
  IF tree.type \in {"object", "array"}
  THEN LET N == DOMAIN tree.entries
           rest[S \in SUBSET N] ==
             IF S = {} THEN 2
             ELSE LET i == CHOOSE i \in S : TRUE IN Bytes(tree.entries[i]) + rest[S \ {i}]
       IN rest[N]
  ELSE 1 + tree.size

Init ==
  /\ stage = "given" /\ side \in {"input", "output"}
  /\ heap \in {<<r, n>> : r \in Containers({"a", "b"}, 2), n \in Containers({"a"}, 1)}
  /\ root \in Leaves \cup {Ref(1)}
  /\ root # Ref(1) => heap = <<Foreign, Foreign>>
  /\ kept = Null /\ schema = <<>> /\ verdict = ""

\* A value that is no graph, for a part of a run that does not ask this question.
Rests ==
  /\ side = "input" /\ stage = "given" /\ heap = <<Foreign, Foreign>> /\ root = String(1)
  /\ kept = Null /\ schema = <<>> /\ verdict = ""

Canonicalize ==
  /\ stage = "given"
  /\ LET taken == Validate(root, 0, {})
     IN IF taken.ok /\ (side = "input" => Bytes(taken.tree) <= MaxBytes)
        THEN stage' = "kept" /\ kept' = taken.tree /\ heap' = <<>> /\ root' = Null
        ELSE stage' = "refused" /\ UNCHANGED <<kept, heap, root>>
  /\ UNCHANGED <<side, schema, verdict>>
----------------------------------------
(* Schemas.  A schema has the keywords it has; "malformed" is a value of a    *)
(* keyword that is of another type than the validator reads it as.           *)
Malformed == "malformed"
Garbled == <<Leaf(Malformed, 0)>>
Types == {"string", "number", "integer", "null", "object", "array"}

\* The schemas of a property or an item: a leaf of its own, one that is no object, and one that is
\* not well formed.
Inner ==
  {[type |-> <<"string">>], [type |-> <<"integer", "null">>], [type |-> <<"array">>],
   [minimum |-> 1, maximum |-> 0], [no_schema |-> TRUE]}

With(keyword, values) == {<<>>} \cup {[k \in {keyword} |-> v] : v \in values}
Merge(f, g) == [k \in DOMAIN f \cup DOMAIN g |-> IF k \in DOMAIN f THEN f[k] ELSE g[k]]
Joined(S, T) == {Merge(s, t) : s \in S, t \in T}

Typing == With("type", {<<"string">>, <<"integer">>, <<"object", "array">>, <<"string", "stranger">>, <<>>})
Sizes ==
  {[minLength |-> 1, maxLength |-> 2], [minLength |-> 2], [minItems |-> 2, maxItems |-> 1],
   [maxItems |-> 1], [minimum |-> 1, maximum |-> 3], [maximum |-> 0], [minLength |-> 1, maxLength |-> 0]}
Enums == With("enum", {<<String(1)>>, <<Number(0), Null>>, <<>>, Garbled})
Naming ==
  Joined(With("properties", {[a |-> p] : p \in Inner} \cup {[no_schema |-> TRUE]}),
  Joined(With("required", {<<"a">>, <<"b">>, <<Malformed>>}),
         With("additionalProperties", {"closed", "open", Malformed})))
Schemas ==
  Joined(Typing, Enums \cup Sizes \cup With("items", Inner)) \cup Naming \cup {[stranger |-> TRUE]}

Has(s, keyword) == keyword \in DOMAIN s
Plain(s) == ~Has(s, "no_schema")    \* isPlainObject

Keywords ==
  {"type", "enum", "properties", "required", "additionalProperties", "items", "minLength",
   "maxLength", "minimum", "maximum", "minItems", "maxItems", "description", "title"}

\* declaredTypes, defineEnum, defineBounds, defineObject, defineArray
TypesDefined(s) ==
  Has(s, "type") => s.type # <<>> /\ \A i \in DOMAIN s.type : s.type[i] \in Types
EnumDefined(s) == Has(s, "enum") => s.enum \notin {<<>>, Garbled}
Ordered(s, low, high) == Has(s, low) /\ Has(s, high) => s[low] <= s[high]
BoundsDefined(s) ==
  Ordered(s, "minLength", "maxLength") /\ Ordered(s, "minItems", "maxItems")
  /\ Ordered(s, "minimum", "maximum")
Declared(s) == IF Has(s, "properties") /\ Plain(s.properties) THEN DOMAIN s.properties ELSE {}

\* Mutant: a required name is not looked up.
RequiredUndeclared(s) == Has(s, "required") => s.required # <<Malformed>>
RequiredDefined(s) ==
  Has(s, "required") => \A i \in DOMAIN s.required : s.required[i] \in Declared(s)

RECURSIVE Defined(_)
Defined(s) ==
  /\ DOMAIN s \subseteq Keywords
  /\ TypesDefined(s) /\ EnumDefined(s) /\ BoundsDefined(s)
  /\ Has(s, "additionalProperties") => s.additionalProperties # Malformed
  /\ Has(s, "properties") => Plain(s.properties)
  /\ \A name \in Declared(s) : Plain(s.properties[name]) /\ Defined(s.properties[name])
  /\ RequiredDefined(s)
  /\ Has(s, "items") => Plain(s.items) /\ Defined(s.items)

\* The registry is composed: one schema that is not well formed fails the server.
Compose ==
  /\ stage = "kept"
  /\ schema' \in Schemas
  /\ stage' = IF Defined(schema') THEN "proven" ELSE "refused"
  /\ UNCHANGED <<side, heap, root, kept, verdict>>
----------------------------------------
(* validateJsonSchema.                                                       *)
Matches(v, type) ==
  CASE type = "number" -> v.type = "number"
    [] type = "integer" -> v.type = "number" /\ v.size % 2 = 0
    [] OTHER -> v.type = type

Worst(results) ==
  CASE "crash" \in results -> "crash" [] "violation" \in results -> "violation" [] OTHER -> "ok"
Must(holds) == IF holds THEN "ok" ELSE "violation"

Among(v, allowed) == \E i \in DOMAIN allowed : allowed[i] = v

\* checkString, checkNumber, checkArray
Within(s, low, high, n) ==
  (Has(s, low) => s[low] <= n) /\ (Has(s, high) => n <= s[high])
\* Mutant: the bounds of a string are those of an array.
SizedAlike(v, s) == v.type = "string" => Within(s, "minItems", "maxItems", v.size)
Sized(v, s) ==
  CASE v.type = "string" -> Within(s, "minLength", "maxLength", v.size)
    [] v.type = "number" -> Within(s, "minimum", "maximum", v.size)
    [] v.type = "array" -> Within(s, "minItems", "maxItems", Len(v.entries))
    [] OTHER -> TRUE

RECURSIVE Check(_, _)

CheckItems(v, s) ==
  IF v.type = "array" /\ Has(s, "items")
  THEN Worst({Check(v.entries[i], s.items) : i \in DOMAIN v.entries}) ELSE "ok"

\* checkRequired and the loop of checkObject
CheckObject(v, s) ==
  LET of == IF Has(s, "properties") THEN s.properties ELSE <<>>
      names == DOMAIN v.entries
  IN IF v.type # "object" THEN "ok"
     ELSE Worst(
       {IF s.required[i] = Malformed THEN "crash" ELSE Must(s.required[i] \in names) :
          i \in (IF Has(s, "required") THEN DOMAIN s.required ELSE {})}
       \cup {IF n \in DOMAIN of THEN Check(v.entries[n], of[n])
             ELSE Must(~(Has(s, "additionalProperties") /\ s.additionalProperties = "closed")) :
               n \in names})

Check(v, s) ==
  IF ~Plain(s) THEN "crash"
  ELSE Worst(
    {Must(Has(s, "type") => \E i \in DOMAIN s.type : Matches(v, s.type[i])),
     IF Has(s, "enum") /\ s.enum = Garbled THEN "crash"
     ELSE Must(Has(s, "enum") => Among(v, s.enum)),
     Must(Sized(v, s)), CheckItems(v, s), CheckObject(v, s)})

Validated ==
  /\ stage = "proven"
  /\ verdict' = Check(kept, schema)
  /\ stage' = "checked"
  /\ UNCHANGED <<side, heap, root, kept, schema>>

Next == Canonicalize \/ Compose \/ Validated

Spec == Init /\ [][Next]_vars
----------------------------------------
(* The references: what a value is, what a plain JSON.stringify and           *)
(* JSON.parse would make of it, and what a schema says of every place.        *)

\* The nodes on a way down from the root that comes back to one of them.
Children(n) == {m \in Nodes : \E i \in DOMAIN heap[n].entries : heap[n].entries[i] = Ref(m)}
Cyclic ==
  /\ root = Ref(1)
  /\ \/ 1 \in Children(1)
     \/ 2 \in Children(1) /\ Children(2) # {}

\* Without a cycle there is one level below the root.
Levels == IF root # Ref(1) THEN 0 ELSE IF 2 \in Children(1) THEN 2 ELSE 1

Trip(leaf, inArray) ==
  CASE leaf = NegativeZero -> Number(0)
    [] leaf \in {NaN, Hole} -> Null
    [] leaf = Undefined -> IF inArray THEN Null ELSE leaf
    [] OTHER -> leaf
Reshaped(node) ==
  \/ node.kind = "foreign" \/ node.odd # "none"
  \/ \E i \in DOMAIN node.entries :
       LET e == node.entries[i]
       IN e # NegativeZero /\ (Trip(e, node.kind = "array") # e \/ e = Undefined)
Reached == IF root = Ref(1) THEN {1} \cup Children(1) ELSE {}
Reshapes ==
  \/ root \in {NaN, Undefined}
  \/ \E n \in Reached : Reshaped(heap[n])

\* Where neither holds, the bytes of the value: an object takes two more than what is in it.
Weight(e) == CASE e.type = "ref" -> 0 [] e = NegativeZero -> 1 [] OTHER -> 1 + e.size
Weighs(n) ==
  LET N == DOMAIN heap[n].entries
      rest[S \in SUBSET N] ==
        IF S = {} THEN 2 ELSE LET i == CHOOSE i \in S : TRUE IN Weight(heap[n].entries[i]) + rest[S \ {i}]
  IN rest[N]
Heavy ==
  MaxBytes < IF root # Ref(1) THEN Weight(root)
             ELSE Weighs(1) + Weighs(2) * Cardinality({i \in DOMAIN heap[1].entries :
                                                         heap[1].entries[i] = Ref(2)})

Crowded == \E n \in Reached : Cardinality(DOMAIN heap[n].entries) > MaxEntries

\* What is kept is what the bytes of it are read back as: nothing JSON does not have is in it.
RECURSIVE Survives(_)
Survives(tree) ==
  IF tree.type \in {"object", "array"} THEN \A i \in DOMAIN tree.entries : Survives(tree.entries[i])
  ELSE tree.type \in {"string", "number", "null"}

(* The stages of a value: it is a graph until it is taken, and a tree after,  *)
(* and only what was proven is checked.                                      *)
TypeOK ==
  /\ side \in {"input", "output"}
  /\ stage \in {"given", "kept", "proven", "checked", "refused"}
  /\ stage = "given" => heap # <<>>
  /\ stage \in {"kept", "proven", "checked"} => heap = <<>> /\ root = Null
  /\ verdict \in {"", "ok", "violation", "crash"}
  /\ verdict # "" <=> stage = "checked"

(* A value is refused for what a round trip would do to it or for a bound it  *)
(* exceeds, and for nothing else: a node that is met twice is no cycle        *)
(* (json-value.ts: "reject everything a round trip would reshape").           *)
RefusedIsReshaped ==
  stage = "refused" /\ heap # <<>> =>
    \/ Cyclic \/ Reshapes
    \/ side = "input" /\ (Crowded \/ Levels > MaxDepth \/ Heavy)

(* What the bus keeps is the value a reader gets back from its bytes.         *)
KeptIsReadBack == stage = "kept" => Survives(kept)

\* What a schema says of a place in a value, the places below it having their own.
Says(v, s) ==
  /\ Has(s, "type") => \E i \in DOMAIN s.type : Matches(v, s.type[i])
  /\ Has(s, "enum") => \E i \in DOMAIN s.enum : s.enum[i] = v
  /\ v.type = "string" =>
       (Has(s, "minLength") => v.size >= s.minLength) /\ (Has(s, "maxLength") => v.size <= s.maxLength)
  /\ v.type = "number" =>
       (Has(s, "minimum") => v.size >= s.minimum) /\ (Has(s, "maximum") => v.size <= s.maximum)
  /\ v.type = "array" =>
       (Has(s, "minItems") => Len(v.entries) >= s.minItems)
       /\ (Has(s, "maxItems") => Len(v.entries) <= s.maxItems)
  /\ v.type = "object" =>
       /\ Has(s, "required") => {s.required[i] : i \in DOMAIN s.required} \subseteq DOMAIN v.entries
       /\ Has(s, "additionalProperties") /\ s.additionalProperties = "closed" =>
            DOMAIN v.entries \subseteq Declared(s)
Below(v, s) ==
  CASE v.type = "object" -> {<<v.entries[n], s.properties[n]>> : n \in DOMAIN v.entries \cap Declared(s)}
    [] v.type = "array" -> IF Has(s, "items") THEN {<<v.entries[i], s.items>> : i \in DOMAIN v.entries} ELSE {}
    [] OTHER -> {}

(* A schema that composed a server never fails one of its calls, and takes    *)
(* the values that satisfy it in every place and no others; none of its       *)
(* required names is one no value may have (command/validate.ts).             *)
ProvenSchemaDecides ==
  stage = "checked" =>
    /\ verdict # "crash"
    /\ verdict = "ok" <=> Says(kept, schema) /\ \A p \in Below(kept, schema) : Says(p[1], p[2])
    /\ Has(schema, "required") => \A i \in DOMAIN schema.required : schema.required[i] \in Declared(schema)
========================================
