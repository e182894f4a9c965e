---------------------------- MODULE ConfigValidate ----------------------------
(***************************************************************************)
(* The declare-once toolkit from a provider's declaration to its parsed    *)
(* configuration: a field is built by setter calls, placed in a tree that  *)
(* Schema checks, and a document is validated against it (validate,        *)
(* config_validate.cpp) and read with the typed helpers.  Its promise is   *)
(* that the emitted JSON Schema and the validator accept the same          *)
(* documents, and that what was accepted can be extracted.                 *)
(***************************************************************************)
EXTENDS ConfigSchema, JsonSchema

CONSTANTS
  Calls(_),     \* the setter calls on a field of a kind: [setter, value]
  Trees(_),     \* the declarations with a field as a member, in a sequence
  Documents(_), \* the documents tried on a declaration
  MaxCalls      \* bound: setter calls

VARIABLES
  pc,     \* "field", "declared", "checked", or "threw": std::logic_error
  field,  \* the field being built
  calls,  \* how many setters have been called
  root,   \* the declaration
  doc,    \* the document
  errors  \* what validate() found: where, and which rule

ASSUME CallsAssumption ==
  \A kind \in Kinds : \A c \in Calls(kind) :
    c.setter \in SettersOf(kind) => c.value \in ArgumentsOf(kind, c.setter)

vars == <<pc, field, calls, root, doc, errors>>

Init ==
  /\ pc = "field" /\ field \in {NewSpec(kind) : kind \in Kinds}
  /\ calls = 0 /\ root = None /\ doc = None /\ errors = {}

CallSetter ==
  /\ pc = "field" /\ calls < MaxCalls /\ calls' = calls + 1
  /\ \E c \in Calls(field.kind) :
       LET spec == Set(field, c.setter, c.value) IN
       \/ spec # None /\ field' = spec /\ UNCHANGED pc
       \/ spec = None /\ pc' = "threw" /\ UNCHANGED field
  /\ UNCHANGED <<root, doc, errors>>

(* The tree is built around the field, and Schema(root) checks it. *)
Declare ==
  /\ pc = "field"
  /\ \E i \in DOMAIN Trees(field) :
       /\ IsDeclaration(Trees(field)[i])
       /\ root' = Trees(field)[i]
       /\ pc' = IF IsSchema(Trees(field)[i]) THEN "declared" ELSE "threw"
  /\ UNCHANGED <<field, calls, doc, errors>>

-----------------------------------------------------------------------------
(* validate_object and validate_array, which call each other on the way in.   *)
(* An error is a place of the document, a key of the node there or "", and a  *)
(* rule.                                                                      *)

Errors(p, rules) == {<<p, "", rule>> : rule \in rules}
KeyErrors(p, keys, rule) == {<<p, key, rule>> : key \in keys}

Duplicates(node) ==
  {node.keys[i] : i \in {j \in DOMAIN node.keys : \E k \in 1..(j - 1) : node.keys[k] = node.keys[j]}}

(* Indices whose value an earlier one of the same field has already. *)
Repeats(kind, values) ==
  {i \in DOMAIN values :
     /\ canonical_value(kind, values[i]) # None
     /\ \E j \in DOMAIN values :
          j < i /\ canonical_value(kind, values[j]) = canonical_value(kind, values[i])}

(* The fields that are compared between the items of the array at d, and the *)
(* values of a key, by the items that have it.                               *)
UniqueMembers(tree, d) ==
  IF tree[ItemAt(d)].kind # "Object" THEN {} ELSE
  {m \in MembersAt(tree, ItemAt(d)) : tree[m].kind = "Scalar" /\ tree[m].spec.unique}
Having(document, p, key) ==
  {i \in 1..document[p].size :
     document[Append(p, i)].tag = "map" /\ key \in KeysIn(document[Append(p, i)])}
ValuesOf(document, p, key) ==
  [i \in Having(document, p, key) |-> ValueAt(document, Append(p, i), key)]

validate_array(tree, d, document, p) ==
  IF document[p].tag # "seq" THEN Errors(p, {"type"}) ELSE
  LET array == tree[d].spec
      n == document[p].size
      item == tree[ItemAt(d)]
  IN  Errors(p, If(array.min_items # None /\ n < array.min_items, "minItems")
                  \cup If(array.max_items # None /\ n > array.max_items, "maxItems"))
        \cup {<<Append(p, i), "", "unique">> : i \in
                 IF item.kind = "Scalar" /\ array.unique
                 THEN Repeats(item.spec.kind, [i \in 1..n |-> document[Append(p, i)]]) ELSE {}}
        \cup UNION {{<<Append(p, i), tree[m].key, "unique">> :
                       i \in Repeats(tree[m].spec.kind, ValuesOf(document, p, tree[m].key))} :
                      m \in UniqueMembers(tree, d)}

(* A branch applies when its discriminator is there and is that string. *)
Selected(c, document, p) ==
  /\ c.key \in KeysIn(document[p])
  /\ LET r == resolve_scalar(ValueAt(document, p, c.key)) IN r.kind = "String" /\ r.value = c.equals

validate_object(tree, d, document, p) ==
  IF document[p].tag # "map" THEN Errors(p, {"type"}) ELSE
  LET object == tree[d].spec
      keys == KeysIn(document[p])
      deprecated == keys \cap object.deprecated_keys
      unknown == IF object.openness = "Closed" THEN keys \ KeysAt(tree, d) ELSE {}
  IN  KeyErrors(p, Duplicates(document[p]), "duplicate")
        \cup KeyErrors(p, deprecated, "deprecated")
        \cup KeyErrors(p, unknown \ deprecated, "unknown")
        \cup KeyErrors(p, RequiredAt(tree, d) \ keys, "required")
        \cup (UNION {KeyErrors(p, Range(c.require) \ keys, "required")
                        \cup KeyErrors(p, Range(c.forbid) \cap keys, "forbidden") :
                       c \in {x \in Range(object.conditionals) : Selected(x, document, p)}})
        \cup (UNION {KeyErrors(p, Range(r.also_required) \ keys, "required") :
                       r \in {x \in Range(object.dependent_required) : x.key \in keys}})

(* From a part to the one at `below`, one position further in, and from a node *)
(* to its i-th: a member with the value of its key, the item with each item.   *)
Leads(tree, d, below, node, i) ==
  \/ /\ tree[d].kind = "Object" /\ node.tag = "map"
     /\ tree[below].key \in KeysIn(node) /\ i = First(node, tree[below].key)
  \/ tree[d].kind = "Array" /\ node.tag = "seq"

(* What validate() gets to: a part of the declaration and a node, at places of *)
(* the same depth.                                                             *)
Reached(tree, document) ==
  {at \in (DOMAIN tree) \X (DOMAIN document) :
     /\ Len(at[1]) = Len(at[2])
     /\ \A k \in 1..Len(at[1]) :
          Leads(tree, Upto(at[1], k - 1), Upto(at[1], k), document[Upto(at[2], k - 1)], at[2][k])}

ErrorsAt(tree, d, document, p) ==
  CASE tree[d].kind = "Scalar" -> Errors(p, validate_field(tree[d].spec, document[p]))
    [] tree[d].kind = "Array" -> validate_array(tree, d, document, p)
    [] tree[d].kind = "Object" -> validate_object(tree, d, document, p)

validate(tree, document) ==
  UNION {ErrorsAt(tree, at[1], document, at[2]) : at \in Reached(tree, document)}

-----------------------------------------------------------------------------
(* A provider's load_config: the file is loaded, and its errors are all *)
(* collected; without any, it is read with the typed helpers.           *)
CheckConfig ==
  /\ pc = "declared" /\ pc' = "checked"
  /\ doc' \in {y \in Documents(root) : IsYaml(y)}
  /\ errors' = validate(root, doc')
  /\ UNCHANGED <<field, calls, root>>

Done == pc \in {"checked", "threw"} /\ UNCHANGED vars

Next == CallSetter \/ Declare \/ CheckConfig \/ Done

Spec == Init /\ [][Next]_vars

-----------------------------------------------------------------------------
(* Properties *)

(* Literals that resolve to another value than they denote: a hex integer   *)
(* beyond int64 is a string, and a literal without a near double is zero or  *)
(* infinite by the looks of it.                                              *)
Misread(n) ==
  /\ n.tag = "scalar" /\ ~n.quoted
  /\ \/ n.text.form = "hex" /\ ~InInt64(n.text.value)
     \/ n.text.form = "tiny" /\ ~TakenForZero(n.text)
     \/ n.text.form = "huge" /\ TakenForZero(n.text)

(* config_validate.hpp: "the schema a client reads and the validation that   *)
(* --check-config enforces cannot drift".  They accept the same documents;   *)
(* validate alone refuses duplicate keys, and deprecated ones on an object   *)
(* that is open.                                                             *)
SchemaAndValidatorAgree ==
  pc = "checked" =>
    LET reached == Reached(root, doc) IN
    IF \E at \in reached :
         LET part == root[at[1]]
             node == doc[at[2]]
         IN  /\ part.kind = "Object" /\ node.tag = "map"
             /\ \/ Duplicates(node) # {}
                \/ part.spec.openness = "Open" /\ part.spec.deprecated_keys \cap KeysIn(node) # {}
    THEN errors # {}
    ELSE (\A at \in reached : ~Misread(doc[at[2]])) =>
           (errors = {} <=> Accepts(emitted(root), doc))

(* config_validate.hpp: "After a passing validate(), extraction of a        *)
(* declared field cannot fail"; and what is extracted is what the document  *)
(* says, to the nearest double for a number.  Exempt are the literals that  *)
(* resolution and extraction read differently (Misread), of which only the  *)
(* success is said, and a number below the least integer that rounds to it. *)
ExtractionCannotFail ==
  pc = "checked" /\ errors = {} =>
    \A at \in Reached(root, doc) :
      root[at[1]].kind = "Scalar" =>
        LET kind == root[at[1]].spec.kind
            node == doc[at[2]]
            x == extract(kind, node)
            json == ScalarToJson(node)
        IN  /\ x # None
            /\ ~Misread(node) =>
                 CASE kind = "Integer" -> json.value = 2 * x \/ (x = IntMin /\ json.value < 2 * x)
                   [] kind = "Number" -> x = Compared("number", json)
                   [] kind = "I2cAddress" ->
                        x = IF json.type = "number" THEN json.value \div 2 ELSE node.text.value
                   [] OTHER -> x = json.value

(* A document's spelling of a declared value. *)
Spelled(kind, value) ==
  LET form == CASE kind = "Number" -> "float" [] kind = "Boolean" -> "bool" [] OTHER -> "dec" IN
  IF kind = "String" THEN TextNode(TRUE, value)
  ELSE TextNode(FALSE, [form |-> form, value |-> value])

(* config.hpp: a declaration that was accepted keeps its promises.  Each     *)
(* default, enum value and const is one that validate accepts, whatever else *)
(* was declared; and a unique field is one that validate compares, between   *)
(* the items of an array.                                                    *)
DeclarationsKeepPromises ==
  pc \in {"declared", "checked"} =>
    \A d \in PlacesOf(root, "Scalar") :
      LET spec == root[d].spec IN
      /\ \A value \in Named(spec) \cup ({spec.default} \ {None}) :
           validate_field(spec, Spelled(spec.kind, value)) = {}
      /\ spec.unique => \E a \in PlacesOf(root, "Array") : d \in UniqueMembers(root, a)
=============================================================================
