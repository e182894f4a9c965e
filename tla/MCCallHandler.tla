---------------------------- MODULE MCCallHandler ----------------------------
(***************************************************************************)
(* A function like the reference provider's set_power, with an optional    *)
(* argument of every other type beside it, two of which list strings that  *)
(* they cannot be, and argument maps that break each rule of               *)
(* validate_call_args alone and in pairs.                                  *)
(***************************************************************************)
EXTENDS CallHandler, TLC

CONSTANTS Allowed, Other  \* strings

Optional(name, type, lo, hi, allowed) ==
  [name |-> name, type |-> type, required |-> FALSE, lo |-> lo, hi |-> hi,
   allowed |-> allowed]

MCDeclaredArgs ==
  << [name |-> "level", type |-> "double", required |-> TRUE,
      lo |-> 0, hi |-> 1, allowed |-> {}],
     [name |-> "note", type |-> "string", required |-> FALSE,
      lo |-> Unset, hi |-> Unset, allowed |-> {Allowed}],
     Optional("count", "uint64", 1, 2, {}), Optional("step", "int64", -1, Unset, {}),
     Optional("flag", "bool", Unset, Unset, {}),
     Optional("data", "bytes", Unset, Unset, {Allowed}),
     Optional("later", Unset, 1, 1, {}), Optional("sooner", Unset, Unset, Unset, {Allowed}) >>

V(tag, field, v) == [tag |-> tag, field |-> field, v |-> v]
Level(v) == make_val("double", v)

Levels ==
  {Level(v) : v \in {-1, 0, 1, 2, NonFinite}}
    \cup {V(Unset, "double", 1), V(Unset, "double", 2), V("double", Unset, 0),
          V("double", "int64", 1), make_val("int64", 1), V(Unset, "int64", 1),
          V(Unset, Unset, 0)}
Notes ==
  {make_val("string", Allowed), make_val("string", Other),
   V("string", Unset, Empty), V(Unset, "string", Allowed)}

Others ==
  {("count" :> make_val("uint64", n)) : n \in {0, 1, 3}} \cup
  {("count" :> make_val("int64", 1)), ("count" :> V("uint64", Unset, 0)),
   ("step" :> make_val("int64", -2)), ("step" :> V(Unset, "int64", -1)),
   ("flag" :> make_val("bool", TRUE)), ("flag" :> V("bool", "string", Empty)),
   ("data" :> make_val("bytes", Allowed)),
   ("later" :> make_val("string", Other)), ("later" :> V(Unset, Unset, 0)),
   ("sooner" :> make_val("string", Allowed))}

MCArgMaps ==
  {("level" :> l) : l \in Levels}
    \cup {("level" :> l) @@ ("note" :> n) : l \in {Level(1), Level(2)}, n \in Notes}
    \cup {("note" :> make_val("string", Allowed)),
          ("level" :> Level(1)) @@ ("extra" :> Level(1))}
    \cup {("level" :> Level(1)) @@ x : x \in Others}

MCDeadlines == {1, 2, Malformed, Unset}
=============================================================================
