------------------------------ MODULE JsonSchema ------------------------------
(***************************************************************************)
(* The reader of an emitted schema, which is not part of the SDK: a client *)
(* that loads the YAML document by the 1.2 core rules and validates it by  *)
(* JSON Schema draft 2020-12 with the x-anolis-* keywords of               *)
(* docs/config-schema.md (here anolisType and anolisUnique).               *)
(***************************************************************************)
EXTENDS ConfigScalars, FiniteSetsExt, SequencesExt

Json(type, value) == [type |-> type, value |-> value]

(* Numbers are exact and in halves; JSON has none that are not finite. *)
ScalarToJson(node) ==
  LET t == node.text IN
  CASE node.quoted \/ t.form \in {"HEX", "word"} -> Json("string", t)
    [] ~node.quoted /\ t.form \in {"empty", "null"} -> Json("null", None)
    [] ~node.quoted /\ t.form = "bool" -> Json("boolean", t.value)
    [] ~node.quoted /\ t.form \in {"dec", "hex"} -> Json("number", 2 * t.value)
    [] ~node.quoted /\ t.form = "float" -> Json("number", t.value)
    [] ~node.quoted /\ t.form = "tiny" -> Json("number", 0)
    [] OTHER -> Json("none", None)

(* What is inside an array or an object has a place of its own. *)
ToJson(node) ==
  CASE node.tag = "scalar" -> ScalarToJson(node)
    [] node.tag = "seq" -> Json("array", None)
    [] node.tag = "map" -> Json("object", None)

(* Whether two arrays or two objects are the same is never asked of a document *)
(* that is valid otherwise: only scalars may have to differ.                   *)
SameJson(a, b) == a.type \notin {"array", "object"} /\ a.type = b.type /\ a.value = b.value

KeysIn(node) == {node.keys[i] : i \in DOMAIN node.keys}

(* The position of a key's value: the first, if a key comes twice. *)
First(node, key) == Min({i \in DOMAIN node.keys : node.keys[i] = key})
ValueAt(document, p, key) == document[Append(p, First(document[p], key))]

(* An integer is a number without a fraction.  The documented deviation: one *)
(* of 2^63 or more, or below -2^63 - 1024, is none, and one below -2^63 is   *)
(* taken for -2^63.                                                          *)
IsInteger(v) ==
  /\ v.type = "number" /\ v.value % 2 = 0
  /\ v.value \div 2 <= IntMax
  /\ v.value \div 2 >= IntMin - PowerOfTwo[IntWidth - 1 - Precision]

(* A "number" is a double to its reader, an "integer" is exact. *)
Compared(type, v) ==
  CASE type = "number" /\ v.value % 2 = 0 -> 2 * RoundToDouble(v.value \div 2)
    [] type = "integer" /\ v.value < 2 * IntMin -> 2 * IntMin
    [] OTHER -> v.value

(* A schema of one value. *)
Plain(k, s, v) ==
  CASE k = "type" -> IF s[k] = "integer" THEN IsInteger(v) ELSE v.type = s[k]
    [] k = "const" -> SameJson(v, s[k])
    [] k = "enum" -> \E e \in s[k] : SameJson(v, e)
    [] k = "pattern" -> v.type = "string" => v.value \in s[k]
    [] k = "minLength" -> v.type = "string" => v.value.form # "empty"
    [] k = "minimum" -> v.type = "number" => Compared(s["type"], v) >= s[k]
    [] k = "maximum" -> v.type = "number" => Compared(s["type"], v) <= s[k]
    [] k = "exclusiveMinimum" -> v.type = "number" => Compared(s["type"], v) > s[k]
    [] k = "exclusiveMaximum" -> v.type = "number" => Compared(s["type"], v) < s[k]
    [] k = "false" -> FALSE
    [] OTHER -> TRUE
Fits(s, v) == \A k \in DOMAIN s : Plain(k, s, v)

(* One that may be made of schemas of the same value. *)
Composed(k, s, v) ==
  CASE k = "oneOf" -> \E e \in s[k] : Fits(e, v) /\ \A f \in s[k] \ {e} : ~Fits(f, v)
    [] k = "anyOf" -> \E i \in DOMAIN s[k] : Fits(s[k][i], v)
    [] k = "not" -> ~Fits(s[k], v)
    [] OTHER -> Plain(k, s, v)
FieldAccepts(s, v) == \A k \in DOMAIN s : Composed(k, s, v)

(* A branch of a conditional, about an object and its members. *)
BranchAccepts(s, document, p) ==
  document[p].tag = "map" =>
    /\ "required" \in DOMAIN s => s.required \subseteq KeysIn(document[p])
    /\ "properties" \in DOMAIN s =>
         \A key \in DOMAIN s.properties \cap KeysIn(document[p]) :
           Fits(s.properties[key], ToJson(ValueAt(document, p, key)))

-----------------------------------------------------------------------------
(* What anolisUnique compares, of values that are of the field's type. *)
ParsedJson(s, v) ==
  CASE "anolisType" \in DOMAIN s /\ v.type = "string" -> 2 * v.value.value
    [] "type" \in DOMAIN s /\ v.type = "number" -> Compared(s["type"], v)
    [] OTHER -> v.value
SameParsed(s, a, b) ==
  FieldAccepts(s, a) /\ FieldAccepts(s, b) /\ ParsedJson(s, a) = ParsedJson(s, b)

UniqueItems(s, document, p) ==
  \A i, j \in 1..document[p].size :
    i # j => ~SameParsed(s, ToJson(document[Append(p, i)]), ToJson(document[Append(p, j)]))

UniqueAmong(s, key, document, p) ==
  \A i, j \in {x \in 1..document[p].size :
                /\ document[Append(p, x)].tag = "map" /\ key \in KeysIn(document[Append(p, x)])} :
    i # j => ~SameParsed(s, ToJson(ValueAt(document, Append(p, i), key)),
                         ToJson(ValueAt(document, Append(p, j), key)))

(* A keyword of the schema at d, of the value at p; what is said of the      *)
(* members and the items is said at their places.  An array among the items' *)
(* members has an anolisUnique that is about its own items.                  *)
Holds(k, schema, d, document, p) ==
  LET s == schema[d]
      v == document[p] IN
  CASE k = "items" ->
         v.tag = "seq" =>
           /\ "properties" \in DOMAIN schema[s[k]] =>
                \A key \in DOMAIN schema[s[k]].properties :
                  LET member == schema[schema[s[k]].properties[key]] IN
                  /\ "anolisUnique" \in DOMAIN member
                  /\ "items" \notin DOMAIN member
                  => UniqueAmong(member, key, document, p)
           /\ "anolisUnique" \in DOMAIN s => UniqueItems(schema[s[k]], document, p)
    [] k = "minItems" -> v.tag = "seq" => v.size >= s[k]
    [] k = "maxItems" -> v.tag = "seq" => v.size <= s[k]
    [] k = "uniqueItems" ->
         v.tag = "seq" =>
           \A i, j \in 1..v.size :
             i # j => ~SameJson(ToJson(document[Append(p, i)]), ToJson(document[Append(p, j)]))
    [] k = "properties" -> TRUE
    [] k = "required" -> v.tag = "map" => s[k] \subseteq KeysIn(v)
    [] k = "additionalProperties" ->
         v.tag = "map" =>
           KeysIn(v) \subseteq IF "properties" \in DOMAIN s THEN DOMAIN s.properties ELSE {}
    [] k = "dependentRequired" ->
         v.tag = "map" =>
           \A i \in DOMAIN s[k] :
             s[k][i].key \in KeysIn(v) => Range(s[k][i].also_required) \subseteq KeysIn(v)
    [] k = "allOf" ->
         \A i \in DOMAIN s[k] :
           BranchAccepts(s[k][i].if, document, p) => BranchAccepts(s[k][i].then, document, p)
    [] OTHER -> Composed(k, s, ToJson(v))

(* From a schema to the ones it has for the members and the items of a value. *)
Applies(s, below, node, i) ==
  \/ /\ "properties" \in DOMAIN s /\ node.tag = "map"
     /\ \E key \in DOMAIN s.properties \cap KeysIn(node) :
          below = s.properties[key] /\ i = First(node, key)
  \/ "items" \in DOMAIN s /\ node.tag = "seq" /\ below = s.items

AppliedTo(schema, document) ==
  {at \in (DOMAIN schema) \X (DOMAIN document) :
     /\ Len(at[1]) = Len(at[2])
     /\ \A k \in 1..Len(at[1]) :
          Applies(schema[SubSeq(at[1], 1, k - 1)], SubSeq(at[1], 1, k),
                  document[SubSeq(at[2], 1, k - 1)], at[2][k])}

Accepts(schema, document) ==
  \A at \in AppliedTo(schema, document) :
    \A k \in DOMAIN schema[at[1]] : Holds(k, schema, at[1], document, at[2])
=============================================================================
