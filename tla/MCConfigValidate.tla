--------------------------- MODULE MCConfigValidate ---------------------------
(***************************************************************************)
(* Integers of 5 bits and doubles with significands of 3, so that every    *)
(* corner of the 64-bit ones has a counterpart: 9 lies between two doubles, *)
(* 16 is beyond the integers, -17 and -18 round to the least of them.      *)
(***************************************************************************)
EXTENDS ConfigValidate

Text(form, value) == [form |-> form, value |-> value]
a == Text("word", 1)
b == Text("word", 2)
MCPatternTexts == {a, Text("dec", 3)}

Call(setter, value) == [setter |-> setter, value |-> value]
StringCalls ==
  {Call(s, None) : s \in {"non_empty", "pattern"}} \cup
  {Call(s, t) : s \in {"enum_value", "const_value", "forbid_value", "default"}, t \in {a, b}} \cup
  {Call("titled_enum_value", Text("dec", 3)), Call("default", NoText)}
(* 16 halves are 8, which 9 rounds to. *)
BoundCalls(n) == {Call(s, v) : s \in {"min", "max", "default"}, v \in {3, n}}
ExclusiveCalls == {Call(s, v) : s \in {"exclusive_min", "exclusive_max"}, v \in {3, 16}}
MCCalls(kind) ==
  {Call("required", None), Call("unique", None)} \cup
  CASE kind = "String" -> StringCalls \cup {Call("min", None)}
    [] kind = "Integer" -> BoundCalls(9)
    [] kind = "Number" -> BoundCalls(16) \cup ExclusiveCalls
    [] OTHER -> {Call("default", v) : v \in IF kind = "Boolean" THEN {1} ELSE {3, 8}}
                  \cup {Call("pattern", None)}

-----------------------------------------------------------------------------
(* A declaration or a document is written as a tree here: what is at its root, *)
(* and the trees inside it.                                                    *)
Tree(at, inside) == [at |-> at, inside |-> inside]

RECURSIVE Placed(_, _)
Placed(tree, place) ==
  {<<place, tree.at>>}
    \cup UNION {Placed(tree.inside[i], Append(place, i)) : i \in DOMAIN tree.inside}
Table(tree) ==
  LET placed == Placed(tree, <<>>)
  IN  [d \in {x[1] : x \in placed} |-> (CHOOSE x \in placed : x[1] = d)[2]]

(* Declarations.  The field is "f". *)
Open(members) ==
  [openness |-> "Open", size |-> Len(members), conditionals |-> <<>>,
   dependent_required |-> <<>>, deprecated_keys |-> {}]
Closed(members) == [Open(members) EXCEPT !.openness = "Closed"]
Array(unique, min, max) == [unique |-> unique, min_items |-> min, max_items |-> max]
Root(object, members) == Table(Tree(RootObject(object), members))
Field(key, spec) == Tree(Scalar(key, spec), <<>>)
Flag == Field("g", NewSpec("Boolean"))
When(equals, require, forbid) ==
  [key |-> "f", equals |-> equals, require |-> require, forbid |-> forbid]
Holder(openness, f, conditionals) ==
  LET members == <<Field("f", f), Flag>> IN
  Root([Open(members) EXCEPT
          !.openness = openness, !.conditionals = conditionals,
          !.dependent_required = <<[key |-> "g", also_required |-> <<"f">>]>>,
          !.deprecated_keys = {"old"}],
       members)
Only(member) == Root(Closed(<<member>>), <<member>>)
ListOf(array, required, item) == Tree(List("l", array, required), <<item>>)
Item(members) == Tree(Child("", Closed(members), FALSE), members)

MCTrees(f) ==
  LET member == Field("f", f)
      members == <<member, Flag>>
      child == Tree(Child("o", Closed(members), TRUE), members)
  IN
  << Only(member),
     Root(Open(<<child>>), <<child>>),
     Only(ListOf(Array(TRUE, 1, None), FALSE, member)),
     Only(ListOf(Array(FALSE, None, 1), TRUE, member)),
     Only(ListOf(Array(FALSE, None, None), FALSE, Item(<<member>>))),
     Root(Closed(members), <<member, Field("f", NewSpec("Boolean"))>>),
     Only(ListOf(Array(TRUE, None, None), FALSE, Item(<<member>>))) >>
  \o IF f.kind # "String" THEN <<>>
     ELSE << Holder("Open", f, <<When(a, <<"g">>, <<>>)>>),
             Holder("Closed", f, <<When(a, <<>>, <<"g", "g">>), When(b, <<"g">>, <<>>)>>),
             Holder("Closed", f, <<When(a, <<>>, <<>>)>>) >>

-----------------------------------------------------------------------------
(* Documents, by the shape of the declaration. *)
Scalared(quoted, text) == Tree(TextNode(quoted, text), <<>>)
Unquoted(form, value) == Scalared(FALSE, Text(form, value))
Numerals ==
  {Unquoted("dec", n) : n \in {-19, -18, -16, 1, 3, 4, 8, 9, 15, 16}} \cup
  {Unquoted("hex", n) : n \in {2, 3, 16}} \cup {Unquoted("float", n) : n \in {3, 6, 16, 32, -32}}
Literals ==
  {Unquoted("HEX", 3), Unquoted("HEX", 7), Unquoted("special", 0)} \cup
  {Unquoted("tiny", n) : n \in 0..3} \cup {Unquoted("huge", n) : n \in 1..3}
WordNodes ==
  {Scalared(q, t) : q \in BOOLEAN,
     t \in {a, b, NoText, Text("null", 0), Text("bool", 1), Text("dec", 3), Text("hex", 3)}}
Scalars == Numerals \cup Literals \cup WordNodes
Few == {Unquoted("dec", 3), Unquoted("dec", 8), Unquoted("dec", 9), Unquoted("hex", 3),
        Unquoted("float", 6), Unquoted("HEX", 3), Scalared(TRUE, Text("hex", 3)),
        Unquoted("bool", 1), Unquoted("word", 1), Scalared(TRUE, a), Scalared(TRUE, b),
        Unquoted("null", 0)}
Null == Unquoted("null", 0)
UpToTwo(S) == {<<>>} \cup {<<x>> : x \in S} \cup (S \X S)

Entry(key, value) == [key |-> key, value |-> value]
Map(entries) ==
  Tree(MapNode([i \in DOMAIN entries |-> entries[i].key]),
       [i \in DOMAIN entries |-> entries[i].value])
Maps(key, S) == {Map(<<>>), Map(<<Entry("x", Unquoted("word", 1))>>)}
                  \cup {Map(<<Entry(key, v)>>) : v \in S}
Siblings ==
  {Entry("f", v) : v \in {Scalared(TRUE, a), Unquoted("word", 1), Unquoted("word", 2),
                          Unquoted("dec", 3)}}
    \cup {Entry("g", Unquoted("bool", 1)), Entry("old", Unquoted("bool", 1)),
          Entry("x", Unquoted("bool", 1))}

Sequences(S) == {Tree(SeqNode(Len(s)), s) : s \in UpToTwo(S)} \cup {Null}

TriedOn(tree) ==
  LET m == tree[<<1>>] IN
  CASE tree[<<>>].spec.size = 2 ->
         {Map(s) : s \in UpToTwo(Siblings)} \cup
         {Map(<<x, y, Entry("g", Unquoted("bool", 1))>>) : x, y \in Siblings}
    [] tree[<<>>].spec.size = 1 /\ m.kind = "Scalar" ->
         Maps("f", Scalars) \cup {Null} \cup
         {Map(<<Entry("f", Unquoted("dec", 3)), Entry("f", Unquoted("word", 1))>>)}
    [] tree[<<>>].spec.size = 1 /\ m.kind = "Object" -> Maps("o", Maps("f", Few) \cup {Null})
    [] OTHER -> IF tree[<<1, 1>>].kind = "Scalar" THEN Maps("l", Sequences(Few))
                ELSE Maps("l", Sequences(Maps("f", Few) \cup {Null}))
MCDocuments(tree) == {Table(y) : y \in TriedOn(tree)}
=============================================================================
