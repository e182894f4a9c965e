----------------------------- MODULE ConfigSchema -----------------------------
(***************************************************************************)
(* Declarations (config.cpp): the setters of Field, the checks that Schema *)
(* makes of a whole tree, and the JSON Schema that is emitted for it.      *)
(***************************************************************************)
EXTENDS ConfigScalars

-----------------------------------------------------------------------------
(* Field's setters.  A call is a setter with its argument; None: it throws. *)

SettersOf(kind) ==
  {"required", "unique"} \cup
  CASE kind = "String" -> {"non_empty", "pattern", "enum_value", "titled_enum_value",
                           "const_value", "forbid_value", "default"}
    [] kind = "Integer" -> {"min", "max", "default"}
    [] kind = "Number" -> {"min", "max", "exclusive_min", "exclusive_max", "default"}
    [] OTHER -> {"default"}

(* Only the last of two values that replace each other counts; values of a  *)
(* set may not come twice, and a bound has one form on a side.              *)
Conflicts(spec, setter, value) ==
  \/ setter \notin SettersOf(spec.kind)
  \/ setter \in {"enum_value", "titled_enum_value"} /\ value \in spec.enum_values
  \/ setter = "forbid_value" /\ value \in spec.forbidden_values
  \/ setter = "min" /\ spec.exclusive_min # None
  \/ setter = "max" /\ spec.exclusive_max # None
  \/ setter = "exclusive_min" /\ spec.min # None
  \/ setter = "exclusive_max" /\ spec.max # None

Set(spec, setter, value) ==
  CASE Conflicts(spec, setter, value) -> None
    [] ~Conflicts(spec, setter, value) /\ setter \in {"required", "unique", "non_empty", "pattern"} ->
         [spec EXCEPT ![setter] = TRUE]
    [] ~Conflicts(spec, setter, value) /\ setter \in {"enum_value", "titled_enum_value"} ->
         [spec EXCEPT !.enum_values = @ \cup {value},
                      !.titled = @ \/ setter = "titled_enum_value"]
    [] ~Conflicts(spec, setter, value) /\ setter = "forbid_value" ->
         [spec EXCEPT !.forbidden_values = @ \cup {value}]
    [] OTHER -> [spec EXCEPT ![setter] = value]

ArgumentsOf(kind, setter) ==
  CASE setter \in {"required", "unique", "non_empty", "pattern"} -> {None}
    [] setter \in {"enum_value", "titled_enum_value", "const_value", "forbid_value"} -> TextsOf(kind)
    [] setter \in {"min", "max"} -> LimitsOf(kind)
    [] setter \in {"exclusive_min", "exclusive_max"} -> ExclusiveOf(kind)
    [] setter = "default" -> DefaultsOf(kind)

-----------------------------------------------------------------------------
(* Members, arrays and objects.  A declaration is a function from places to  *)
(* parts: the root object is at <<>>, the i-th member of an object and the   *)
(* item of an array are one position further in.                             *)

Upto(place, k) == SubSeq(place, 1, k)
RootObject(object) == [key |-> "", kind |-> "Object", required |-> TRUE, spec |-> object]
Scalar(key, spec) == [key |-> key, kind |-> "Scalar", required |-> spec.required, spec |-> spec]
Child(key, object, required) ==
  [key |-> key, kind |-> "Object", required |-> required, spec |-> object]
List(key, array, required) ==
  [key |-> key, kind |-> "Array", required |-> required, spec |-> array]

(* What the types of Field, Array and Object let a declaration be. *)
Branches ==
  [key : STRING, equals : ScalarTexts, require : Seq(STRING), forbid : Seq(STRING)]
Objects ==
  [openness : {"Open", "Closed"}, size : Nat, conditionals : Seq(Branches),
   dependent_required : Seq([key : STRING, also_required : Seq(STRING)]),
   deprecated_keys : SUBSET STRING]
Arrays == [unique : BOOLEAN, min_items : {None} \cup Nat, max_items : {None} \cup Nat]
IsPart(part) ==
  /\ part.key \in STRING /\ part.required \in BOOLEAN
  /\ \/ part.kind = "Scalar" /\ \E kind \in Kinds : part.spec \in SpecsOf(kind)
     \/ part.kind = "Object" /\ part.spec \in Objects
     \/ part.kind = "Array" /\ part.spec \in Arrays
SizeOf(part) ==
  CASE part.kind = "Scalar" -> 0 [] part.kind = "Array" -> 1 [] part.kind = "Object" -> part.spec.size
IsDeclaration(tree) ==
  /\ <<>> \in DOMAIN tree /\ tree[<<>>].kind = "Object"
  /\ \A d \in DOMAIN tree :
       /\ d \in Seq(Nat) /\ IsPart(tree[d])
       /\ \A i \in 1..SizeOf(tree[d]) : Append(d, i) \in DOMAIN tree
       /\ d # <<>> => /\ Front(d) \in DOMAIN tree
                     /\ Last(d) \in 1..SizeOf(tree[Front(d)])
       /\ tree[d].kind = "Array" => tree[Append(d, 1)].kind # "Array"

PlacesOf(tree, kind) == {d \in DOMAIN tree : tree[d].kind = kind}
MembersAt(tree, d) == {Append(d, i) : i \in 1..tree[d].spec.size}
KeysAt(tree, d) == {tree[m].key : m \in MembersAt(tree, d)}
MemberAt(tree, d, key) == CHOOSE m \in MembersAt(tree, d) : tree[m].key = key
RequiredAt(tree, d) == {tree[m].key : m \in {x \in MembersAt(tree, d) : tree[x].required}}
ItemAt(d) == Append(d, 1)
IsItem(tree, d) == d # <<>> /\ tree[Front(d)].kind = "Array"

(* What the calls that build a tree refuse: insert_member, when() and *)
(* Array::unique().                                                   *)
AnyKeys(tree, d) == TRUE  \* a slip: the members there are not looked at
insert_member(tree, d) ==
  \A m, n \in MembersAt(tree, d) : tree[m].key = tree[n].key => m = n
when(branch) == branch.require # <<>> \/ branch.forbid # <<>>
UniqueAllowed(tree, d) == tree[d].spec.unique => tree[ItemAt(d)].kind = "Scalar"

IsBuilt(tree) ==
  /\ \A d \in PlacesOf(tree, "Object") :
       /\ insert_member(tree, d)
       /\ \A i \in DOMAIN tree[d].spec.conditionals : when(tree[d].spec.conditionals[i])
  /\ \A d \in PlacesOf(tree, "Array") : UniqueAllowed(tree, d)

(* check_field accepts.  A value that a constraint promises to accept has to *)
(* satisfy the others.  That every text is UTF-8, which check_field and      *)
(* check_object ask as well, is ProviderMain's: a text is no bytes here.     *)
AcceptsString(spec, t) ==
  /\ spec.non_empty => t.form # "empty"
  /\ t \notin spec.forbidden_values
  /\ spec.pattern => t \in PatternTexts

DefaultUnchecked(spec) == TRUE  \* a slip
DefaultFits(spec) ==
  CASE spec.kind = "String" ->
         /\ AcceptsString(spec, spec.default)
         /\ spec.const_value # None => spec.default = spec.const_value
         /\ spec.enum_values # {} => spec.default \in spec.enum_values
    [] spec.kind \in {"Integer", "Number"} -> Bounds(spec, spec.default) = {}
    [] spec.kind = "I2cAddress" -> spec.default \in kI2cAddressMin..kI2cAddressMax
    [] OTHER -> TRUE

check_field(spec, in_array_item) ==
  /\ spec.unique => in_array_item
  /\ spec.const_value # None => spec.enum_values = {} /\ AcceptsString(spec, spec.const_value)
  /\ spec.min # None /\ spec.max # None => spec.min <= spec.max
  /\ spec.min # None /\ spec.exclusive_max # None => spec.min < spec.exclusive_max
  /\ spec.exclusive_min # None /\ spec.max # None => spec.exclusive_min < spec.max
  /\ spec.exclusive_min # None /\ spec.exclusive_max # None =>
       spec.exclusive_min < spec.exclusive_max
  /\ \A t \in spec.enum_values : AcceptsString(spec, t)
  /\ spec.default # None => DefaultFits(spec)

(* The values a String field takes, if it names them. *)
Named(spec) ==
  spec.enum_values \cup IF spec.const_value = None THEN {} ELSE {spec.const_value}

check_conditional(tree, d, c) ==
  /\ c.key \in KeysAt(tree, d)
  /\ LET m == tree[MemberAt(tree, d, c.key)] IN
     /\ m.kind = "Scalar" /\ m.spec.kind = "String"
     /\ Named(m.spec) # {} => c.equals \in Named(m.spec)
  /\ Range(c.require) \cup Range(c.forbid) \subseteq KeysAt(tree, d)
  /\ Range(c.forbid) \cap (RequiredAt(tree, d) \cup Range(c.require)) = {}

(* check_object looks at an object and, by calling itself, at every object   *)
(* below it: these are its checks of the one at d, of the arrays among its   *)
(* members, and of the fields it has or they hold.                           *)
check_array(tree, d) ==
  LET array == tree[d].spec
      item == tree[ItemAt(d)] IN
  /\ array.min_items # None /\ array.max_items # None => array.min_items <= array.max_items
  /\ item.kind = "Scalar" =>
       ~item.spec.required /\ ~item.spec.unique /\ check_field(item.spec, FALSE)

check_object(tree, d) ==
  LET object == tree[d].spec IN
  /\ \A m \in MembersAt(tree, d) :
       /\ tree[m].kind = "Scalar" => check_field(tree[m].spec, IsItem(tree, d))
       /\ tree[m].kind = "Array" => check_array(tree, m)
  /\ \A i \in DOMAIN object.conditionals :
       /\ check_conditional(tree, d, object.conditionals[i])
       /\ \A j \in 1..(i - 1) :
            \/ object.conditionals[i].key # object.conditionals[j].key
            \/ object.conditionals[i].equals # object.conditionals[j].equals
  /\ \A i \in DOMAIN object.dependent_required :
       LET r == object.dependent_required[i] IN
       /\ {r.key} \cup Range(r.also_required) \subseteq KeysAt(tree, d)
       /\ r.key \notin Range(r.also_required) /\ IsInjective(r.also_required)
       /\ \A j \in 1..(i - 1) : object.dependent_required[j].key # r.key
  /\ object.deprecated_keys \cap KeysAt(tree, d) = {}

IsSchema(tree) == IsBuilt(tree) /\ \A d \in PlacesOf(tree, "Object") : check_object(tree, d)

-----------------------------------------------------------------------------
(* A key that a branch forbids twice is one property here; how it is printed *)
(* is ProviderMain's.  The emitted schema: at each place a function from keywords to arguments,  *)
(* where the schema of a member or of the items stands for the place it is   *)
(* at.  Titles, descriptions, placeholders and defaults assert nothing and   *)
(* are left out; x-anolis-type and x-anolis-unique are anolisType and        *)
(* anolisUnique.  "json" texts are strings, numbers are in halves.           *)

StringValue(t) == [type |-> "string", value |-> t]
Constant(t) == [const |-> StringValue(t)]

emit_string(spec) ==
  [k \in {"type"} \cup If(spec.const_value # None, "const")
           \cup If(spec.enum_values # {}, IF spec.titled THEN "oneOf" ELSE "enum")
           \cup If(spec.pattern, "pattern") \cup If(spec.non_empty, "minLength")
           \cup If(spec.forbidden_values # {}, "not") \cup If(spec.unique, "anolisUnique") |->
     CASE k = "type" -> "string"
       [] k = "const" -> StringValue(spec.const_value)
       [] k = "oneOf" -> {Constant(t) : t \in spec.enum_values}
       [] k = "enum" -> {StringValue(t) : t \in spec.enum_values}
       [] k = "pattern" -> PatternTexts
       [] k = "minLength" -> 1
       [] k = "not" -> [enum |-> {StringValue(t) : t \in spec.forbidden_values}]
       [] k = "anolisUnique" -> TRUE]

emit_number(spec, type, unit) ==
  [k \in {"type"} \cup If(spec.min # None, "minimum") \cup If(spec.max # None, "maximum")
           \cup If(spec.exclusive_min # None, "exclusiveMinimum")
           \cup If(spec.exclusive_max # None, "exclusiveMaximum")
           \cup If(spec.unique, "anolisUnique") |->
     CASE k = "type" -> type
       [] k = "minimum" -> unit * spec.min
       [] k = "maximum" -> unit * spec.max
       [] k = "exclusiveMinimum" -> spec.exclusive_min
       [] k = "exclusiveMaximum" -> spec.exclusive_max
       [] k = "anolisUnique" -> TRUE]

HexTexts ==
  {[form |-> f, value |-> v] : f \in {"hex", "HEX"}, v \in kI2cAddressMin..kI2cAddressMax}

AddressNumber ==
  [type |-> "integer", minimum |-> 2 * kI2cAddressMin, maximum |-> 2 * kI2cAddressMax]
AddressString == [type |-> "string", pattern |-> HexTexts]
emit_address(spec) ==
  [k \in {"anolisType", "anyOf"} \cup If(spec.unique, "anolisUnique") |->
     CASE k = "anolisType" -> "i2c_address"
       [] k = "anyOf" -> <<AddressNumber, AddressString>>
       [] k = "anolisUnique" -> TRUE]

emit_boolean(spec) ==
  [k \in {"type"} \cup If(spec.unique, "anolisUnique") |->
     IF k = "type" THEN "boolean" ELSE TRUE]

emit_field(spec) ==
  CASE spec.kind = "String" -> emit_string(spec)
    [] spec.kind = "Integer" -> emit_number(spec, "integer", 2)
    [] spec.kind = "Number" -> emit_number(spec, "number", 1)
    [] spec.kind = "Boolean" -> emit_boolean(spec)
    [] spec.kind = "I2cAddress" -> emit_address(spec)

emit_array(tree, d) ==
  LET array == tree[d].spec IN
  [k \in {"type", "items"} \cup If(array.min_items # None, "minItems")
           \cup If(array.max_items # None, "maxItems")
           \cup (IF array.unique THEN {"uniqueItems", "anolisUnique"} ELSE {}) |->
     CASE k = "type" -> "array"
       [] k = "items" -> ItemAt(d)
       [] k = "minItems" -> array.min_items
       [] k = "maxItems" -> array.max_items
       [] k \in {"uniqueItems", "anolisUnique"} -> TRUE]

(* A slip: a branch applies also where its discriminator is absent. *)
IfWithoutRequired(c) ==
  [properties |-> [key \in {c.key} |-> Constant(c.equals)], required |-> {}]
emit_if(c) == [properties |-> [key \in {c.key} |-> Constant(c.equals)], required |-> {c.key}]

emit_then(c) ==
  [k \in If(Range(c.require) # {}, "required")
           \cup If(Range(c.forbid) # {}, "properties") |->
     IF k = "required" THEN Range(c.require)
     ELSE [key \in Range(c.forbid) |-> [false |-> TRUE]]]

emit_object(tree, d) ==
  LET object == tree[d].spec IN
  [k \in {"type"} \cup If(MembersAt(tree, d) # {}, "properties")
           \cup If(RequiredAt(tree, d) # {}, "required")
           \cup If(object.openness = "Closed", "additionalProperties")
           \cup If(object.dependent_required # <<>>, "dependentRequired")
           \cup If(object.conditionals # <<>>, "allOf") |->
     CASE k = "type" -> "object"
       [] k = "properties" -> [key \in KeysAt(tree, d) |-> MemberAt(tree, d, key)]
       [] k = "required" -> RequiredAt(tree, d)
       [] k = "additionalProperties" -> FALSE
       [] k = "dependentRequired" -> object.dependent_required
       [] k = "allOf" ->
            [i \in DOMAIN object.conditionals |->
               [if |-> emit_if(object.conditionals[i]),
                then |-> emit_then(object.conditionals[i])]]]

emitted(tree) ==
  [d \in DOMAIN tree |->
     CASE tree[d].kind = "Scalar" -> emit_field(tree[d].spec)
       [] tree[d].kind = "Array" -> emit_array(tree, d)
       [] tree[d].kind = "Object" -> emit_object(tree, d)]
=============================================================================
