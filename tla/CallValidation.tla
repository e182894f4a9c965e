---------------------------- MODULE CallValidation ----------------------------
(***************************************************************************)
(* validate_call_args (call_validation.cpp): the check of a call's         *)
(* arguments against the ArgSpecs of the function it names, and the typed  *)
(* getters a provider then reads them with (values.hpp).                   *)
(*                                                                         *)
(* A value has a type tag and a oneof field; either may be unset, and the  *)
(* two need not agree.  A number is an integer or NonFinite, a string or a *)
(* sequence of bytes a model value.                                        *)
(***************************************************************************)
EXTENDS Integers, FiniteSetsExt

CONSTANTS
  Unset,      \* no type (or one the SDK does not know), no oneof field, no bound
  NonFinite,  \* a NaN or an infinity
  Empty       \* the empty string

Numeric == {"int64", "uint64", "double"}
Checked == Numeric \cup {"bool", "string", "bytes"}

ASSUME UnsetAssumption == Unset \notin Checked \cup Int /\ NonFinite \notin Int

(* adpp::ArgSpec and adpp::Value, as far as this module looks at them. *)
IsArgSpec(arg) ==
  /\ arg.type \in Checked \cup {Unset} /\ arg.required \in BOOLEAN
  /\ arg.lo \in Int \cup {Unset} /\ arg.hi \in Int \cup {Unset}
IsValue(value) ==
  CASE value.field = "int64" -> value.v \in Int
    [] value.field = "uint64" -> value.v \in Nat
    [] value.field = "double" -> value.v \in Int \cup {NonFinite}
    [] value.field = "bool" -> value.v \in BOOLEAN
    [] OTHER -> TRUE

(* make_bool_val and the others: tag and field are the type's. *)
make_val(type, v) == [tag |-> type, field |-> type, v |-> v]

(* The payload a typed accessor returns: the field's, or its default. *)
Payload(type, value) ==
  IF value.field = type THEN value.v
  ELSE IF type \in Numeric THEN 0 ELSE IF type = "bool" THEN FALSE ELSE Empty

(* The oneof field that carries a value of a declared type. *)
field_for(type) == IF type \in Checked THEN type ELSE Unset

(* A slip: any field will do when the tag is right or unset. *)
TagOnly(arg, value) ==
  \/ field_for(arg.type) = Unset
  \/ value.tag \in {arg.type, Unset} /\ (value.tag # Unset \/ value.field # Unset)

(* Rule 3: tag and field are each the declared type's or unset, not both   *)
(* unset.  A declared type that the SDK does not know cannot be checked.   *)
check_type(arg, value) ==
  \/ field_for(arg.type) = Unset
  \/ /\ value.tag \in {arg.type, Unset}
     /\ value.field \in {field_for(arg.type), Unset}
     /\ value.tag # Unset \/ value.field # Unset

(* Rules 4 and 5: a number is finite, then within its inclusive bounds. *)
check_bounds(arg, value) ==
  LET v == Payload(arg.type, value) IN
  CASE arg.type \notin Numeric -> "OK"
    [] arg.type \in Numeric /\ v = NonFinite -> "INVALID_ARGUMENT"
    [] OTHER -> IF \/ arg.lo # Unset /\ v < arg.lo
                   \/ arg.hi # Unset /\ v > arg.hi
                THEN "OUT_OF_RANGE" ELSE "OK"

(* Rule 6: allowed_values constrains strings; no other value can be in it. *)
check_allowed(arg, value) ==
  \/ arg.allowed = {}
  \/ arg.type = "string" /\ Payload("string", value) \in arg.allowed

(* Rules 2 to 6 for one declared argument. *)
CheckArg(arg, args) ==
  CASE arg.name \notin DOMAIN args ->
         IF arg.required THEN "INVALID_ARGUMENT" ELSE "OK"
    [] OTHER ->
         LET value == args[arg.name] IN
         CASE ~check_type(arg, value) -> "INVALID_ARGUMENT"
           [] check_type(arg, value) /\ check_bounds(arg, value) # "OK" ->
                check_bounds(arg, value)
           [] OTHER -> IF check_allowed(arg, value) THEN "OK" ELSE "INVALID_ARGUMENT"

(* Rule 1, then the first declared argument that breaks a rule. *)
validate_call_args(spec, args) ==
  LET declared == {spec[i].name : i \in DOMAIN spec}
      broken == {i \in DOMAIN spec : CheckArg(spec[i], args) # "OK"}
  IN  IF ~(DOMAIN args \subseteq declared) THEN "INVALID_ARGUMENT"
      ELSE IF broken # {} THEN CheckArg(spec[Min(broken)], args) ELSE "OK"

(* The getters: false unless the tag is the type's own. *)
get_arg(type, args, name, dflt) ==
  IF name \in DOMAIN args /\ args[name].tag = type
  THEN Payload(type, args[name]) ELSE dflt

-----------------------------------------------------------------------------
(* What an ArgSpec says of a value, written from its meaning: the value is *)
(* of the type, finite, between the bounds and among the allowed ones.     *)
Allows(arg, v) ==
  /\ arg.type \in Numeric =>
       v \in Int /\ (arg.lo # Unset => arg.lo <= v) /\ (arg.hi # Unset => v <= arg.hi)
  /\ arg.allowed # {} => arg.type = "string" /\ v \in arg.allowed

Conforms(arg, value) ==
  /\ arg.type # Unset => {value.tag, value.field} \in {{arg.type}, {arg.type, Unset}}
  /\ Allows(arg, Payload(arg.type, value))

ArgsConform(spec, args) ==
  /\ \A name \in DOMAIN args : \E i \in DOMAIN spec : spec[i].name = name
  /\ \A i \in DOMAIN spec :
       /\ spec[i].required => spec[i].name \in DOMAIN args
       /\ spec[i].name \in DOMAIN args => Conforms(spec[i], args[spec[i].name])
=============================================================================
