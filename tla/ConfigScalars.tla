---------------------------- MODULE ConfigScalars ----------------------------
(***************************************************************************)
(* The scalars of a configuration (config_validate.cpp): how the text of a *)
(* YAML scalar resolves, what a declared field accepts, and what the typed *)
(* extraction helpers make of it.                                          *)
(*                                                                         *)
(* A text is a form and a number: "dec" 16 is 16, "hex" 16 is 0x10, "float" *)
(* 3 is 1.5 (numbers that may have a fraction are counted in halves), "word" *)
(* 1 is some text without a meaning of its own.                            *)
(***************************************************************************)
EXTENDS Integers, SequencesExt

CONSTANTS
  IntWidth,       \* bits of an int64_t: 64
  Precision,      \* bits of a double's significand: 53
  kI2cAddressMin, kI2cAddressMax,
  PatternTexts,   \* the texts that match the pattern of this instance
  None            \* std::nullopt

ASSUME WidthAssumption ==
  /\ IntWidth \in Nat /\ Precision \in Nat /\ 2 <= Precision /\ Precision < IntWidth

(* The last two are literals that no double is near to.  Their number says   *)
(* how they are written: 0 with a leading "0.", 1 with other digits only, 2  *)
(* with a negative exponent and 3 with a positive one.                       *)
Forms == {"empty", "null", "bool", "dec", "hex", "HEX", "float", "special", "word",
          "tiny", "huge"}

PowerOfTwo[n \in Nat] == IF n = 0 THEN 1 ELSE 2 * PowerOfTwo[n - 1]

IntMin == -PowerOfTwo[IntWidth - 1]
IntMax == PowerOfTwo[IntWidth - 1] - 1
InInt64(n) == n \in IntMin..IntMax

ASSUME AddressAssumption ==
  /\ kI2cAddressMin \in Nat /\ kI2cAddressMax \in Nat
  /\ kI2cAddressMin <= kI2cAddressMax /\ InInt64(kI2cAddressMax)

(* The double nearest to an integer, ties to the even significand. *)
Magnitude(n) == IF n < 0 THEN -n ELSE n
Exponent(n) ==
  CHOOSE e \in 0..Magnitude(n) :
    /\ Magnitude(n) <= PowerOfTwo[Precision + e]
    /\ e = 0 \/ Magnitude(n) > PowerOfTwo[Precision + e - 1]
Spacing(n) == PowerOfTwo[Exponent(n)]
RoundToDouble(n) ==
  LET s == Spacing(n)
      q == Magnitude(n) \div s
      r == Magnitude(n) % s
      up == 2 * r > s \/ (2 * r = s /\ q % 2 = 1)
      m == (IF up THEN q + 1 ELSE q) * s
  IN  IF n < 0 THEN -m ELSE m

-----------------------------------------------------------------------------
(* resolve_scalar.  The value of a Float is None if it is not finite. *)

(* A text that is a number with a fraction is a double; a text of digits may *)
(* be any integer.                                                           *)
IsDouble(halves) == halves % 2 = 0 => RoundToDouble(halves \div 2) = halves \div 2
ScalarTexts ==
  {t \in [form : Forms, value : Int] :
     /\ t.form = "float" => IsDouble(t.value)
     /\ t.form \in {"hex", "HEX"} => t.value >= 0}

ASSUME PatternAssumption == PatternTexts \subseteq ScalarTexts
ASSUME NoneAssumption == None \notin Int /\ None \notin ScalarTexts

(* A node of a document: a scalar, a sequence of so many nodes, or a map with *)
(* these keys in their order.  What is inside it are nodes of their own, each *)
(* at its place in the document.                                              *)
Node(tag, quoted, text, size, keys) ==
  [tag |-> tag, quoted |-> quoted, text |-> text, size |-> size, keys |-> keys]
NoText == [form |-> "empty", value |-> 0]
TextNode(quoted, text) == Node("scalar", quoted, text, 0, <<>>)
SeqNode(size) == Node("seq", FALSE, NoText, size, <<>>)
MapNode(keys) == Node("map", FALSE, NoText, Len(keys), keys)

(* A document: its nodes at their places, the i-th inside a node one position *)
(* further in.                                                                *)
IsNode(node) ==
  /\ node.tag \in {"scalar", "seq", "map"} /\ node.quoted \in BOOLEAN
  /\ node.text \in ScalarTexts /\ node.size \in Nat /\ node.keys \in Seq(STRING)
  /\ node.tag = "scalar" => node.size = 0
  /\ Len(node.keys) = IF node.tag = "map" THEN node.size ELSE 0
IsYaml(document) ==
  /\ <<>> \in DOMAIN document
  /\ \A p \in DOMAIN document :
       /\ p \in Seq(Nat) /\ IsNode(document[p])
       /\ \A i \in 1..document[p].size : Append(p, i) \in DOMAIN document
       /\ p # <<>> => /\ Front(p) \in DOMAIN document
                     /\ Last(p) \in 1..document[Front(p)].size

Resolved(kind, value) == [kind |-> kind, value |-> value]

(* Where from_chars finds a literal out of range, the text decides. *)
TakenForZero(t) == t.value \in {0, 2}

resolve_plain(t) ==
  CASE t.form \in {"empty", "null"} -> Resolved("Null", None)
    [] t.form = "bool" -> Resolved("Bool", t.value)
    [] t.form \in {"dec", "hex"} /\ InInt64(t.value) -> Resolved("Int", t.value)
    [] t.form = "dec" /\ ~InInt64(t.value) -> Resolved("Float", 2 * RoundToDouble(t.value))
    [] t.form = "float" -> Resolved("Float", t.value)
    [] t.form = "special" -> Resolved("Float", None)
    [] t.form \in {"tiny", "huge"} ->
         Resolved("Float", IF TakenForZero(t) THEN 0 ELSE None)
    [] OTHER -> Resolved("String", t)

resolve_scalar(node) ==
  CASE node.tag # "scalar" -> Resolved("NonScalar", None)
    [] node.tag = "scalar" /\ node.quoted -> Resolved("String", node.text)
    [] OTHER -> resolve_plain(node.text)

integer_of(r) ==
  CASE r.kind = "Int" -> r.value
    [] r.kind = "Float" /\ r.value # None ->
         IF r.value % 2 = 0 /\ InInt64(r.value \div 2) THEN r.value \div 2 ELSE None
    [] OTHER -> None

(* kI2cHexPattern: two digits of either case of x, in the range. *)
MatchesHexPattern(t) ==
  t.form \in {"hex", "HEX"} /\ t.value \in kI2cAddressMin..kI2cAddressMax

i2c_address_of(r) ==
  LET value == CASE integer_of(r) # None -> integer_of(r)
                 [] integer_of(r) = None /\ r.kind = "String" ->
                      IF MatchesHexPattern(r.value) THEN r.value.value ELSE None
                 [] OTHER -> None
  IN  IF value # None /\ value \in kI2cAddressMin..kI2cAddressMax THEN value ELSE None

(* In halves, or None. *)
number_of(r) ==
  CASE r.kind = "Int" -> 2 * RoundToDouble(r.value)
    [] r.kind = "Float" -> r.value
    [] OTHER -> None

-----------------------------------------------------------------------------
(* A scalar field's declaration, Field::Spec. *)

Kinds == {"String", "Integer", "Number", "Boolean", "I2cAddress"}

NewSpec(kind) ==
  [kind |-> kind, required |-> FALSE, unique |-> FALSE, non_empty |-> FALSE,
   pattern |-> FALSE, titled |-> FALSE, enum_values |-> {}, const_value |-> None,
   forbidden_values |-> {}, min |-> None, max |-> None, exclusive_min |-> None,
   exclusive_max |-> None, default |-> None]

(* What the setters of a field take: texts, and numbers as its kind has them. *)
TextsOf(kind) == IF kind = "String" THEN ScalarTexts ELSE {}
FlagsOf(kind) == IF kind = "String" THEN BOOLEAN ELSE {FALSE}
LimitsOf(kind) ==
  CASE kind = "Integer" -> IntMin..IntMax [] kind = "Number" -> Int [] OTHER -> {}
ExclusiveOf(kind) == IF kind = "Number" THEN Int ELSE {}
DefaultsOf(kind) ==
  CASE kind = "String" -> ScalarTexts
    [] kind \in {"Integer", "I2cAddress"} -> IntMin..IntMax
    [] OTHER -> Int
SpecsOf(kind) ==
  [kind : {kind}, required : BOOLEAN, unique : BOOLEAN, non_empty : FlagsOf(kind),
   pattern : FlagsOf(kind), titled : FlagsOf(kind), enum_values : SUBSET TextsOf(kind),
   const_value : {None} \cup TextsOf(kind), forbidden_values : SUBSET TextsOf(kind),
   min : {None} \cup LimitsOf(kind), max : {None} \cup LimitsOf(kind),
   exclusive_min : {None} \cup ExclusiveOf(kind), exclusive_max : {None} \cup ExclusiveOf(kind),
   default : {None} \cup DefaultsOf(kind)]

(* What is wrong with a value, by the keyword of the rule. *)
If(condition, error) == IF condition THEN {error} ELSE {}

validate_string_constraints(spec, t) ==
  If(spec.non_empty /\ t.form = "empty", "minLength") \cup
  CASE spec.const_value # None /\ t # spec.const_value -> {"const"}
    [] (spec.const_value = None \/ t = spec.const_value)
         /\ spec.enum_values # {} /\ t \notin spec.enum_values -> {"enum"}
    [] OTHER -> If(spec.pattern /\ t \notin PatternTexts, "pattern")
                  \cup If(t \in spec.forbidden_values, "not")

Bounds(spec, v) ==
  If(spec.min # None /\ v < spec.min, "minimum")
    \cup If(spec.max # None /\ v > spec.max, "maximum")
    \cup If(spec.exclusive_min # None /\ v <= spec.exclusive_min, "exclusiveMinimum")
    \cup If(spec.exclusive_max # None /\ v >= spec.exclusive_max, "exclusiveMaximum")

validate_field(spec, node) ==
  LET r == resolve_scalar(node) IN
  CASE spec.kind = "String" ->
         IF r.kind = "String" THEN validate_string_constraints(spec, r.value) ELSE {"type"}
    [] spec.kind = "Integer" ->
         IF integer_of(r) # None THEN Bounds(spec, integer_of(r)) ELSE {"type"}
    [] spec.kind = "Number" ->
         IF number_of(r) # None THEN Bounds(spec, number_of(r)) ELSE {"type"}
    [] spec.kind = "Boolean" -> If(r.kind # "Bool", "type")
    [] spec.kind = "I2cAddress" -> If(i2c_address_of(r) = None, "type")

(* What a field's kind makes of a resolved scalar, or None. *)
parsed(kind, r) ==
  CASE kind = "String" -> IF r.kind = "String" THEN r.value ELSE None
    [] kind = "Integer" -> integer_of(r)
    [] kind = "Number" -> number_of(r)
    [] kind = "Boolean" -> IF r.kind = "Bool" THEN r.value ELSE None
    [] kind = "I2cAddress" -> i2c_address_of(r)

(* What uniqueness compares. *)
canonical_value(kind, node) == parsed(kind, resolve_scalar(node))

(* as_string, as_int64, as_double, as_bool and parse_i2c_address: the helper *)
(* that a provider uses for a field of the kind.  As a slip, an integer goes  *)
(* by way of as_double.                                                       *)
extract_through_double(kind, node) ==
  IF kind = "Integer" THEN LET v == number_of(resolve_scalar(node)) IN
                           IF v = None THEN None ELSE v \div 2
  ELSE parsed(kind, resolve_scalar(node))
extract(kind, node) == parsed(kind, resolve_scalar(node))
=============================================================================
