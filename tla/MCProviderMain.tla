---------------------------- MODULE MCProviderMain ----------------------------
(***************************************************************************)
(* Texts with every byte on either side of a limit of UTF-8, up to four of  *)
(* them, and every ASCII character, in each place a text can stand.         *)
(***************************************************************************)
EXTENDS ProviderMain, MCConfigValidate

MCWords ==
  LET names == <<"config_schema_version", "provider", "schema", "dialect", "draft", "id",
                 "title", "description", "type", "object", "string", "enum", "pattern",
                 "placeholder", "properties", "allOf", "if", "then", "const", "required", "false",
                 "check_host_version", "requirements", "status", "detail", "remedy", "met",
                 "unmet", "unknown", "1">>
  IN  [w \in Range(names) |-> <<255 + CHOOSE k \in DOMAIN names : names[k] = w>>]

(* LeadBytes, second bytes and the bytes after them. *)
LeadBytes == {128, 191, 192, 193, 194, 223, 224, 225, 237, 238, 239, 240, 241, 243, 244, 245, 255}
Seconds == {34, 127, 128, 143, 144, 159, 160, 191, 192}
Thirds == {65, 128, 191, 192}
Bytes ==
  {<<c>> : c \in 0..127} \cup {<<92, c>> : c \in {34, 92, 110, 117}} \cup
  {<<x>> : x \in LeadBytes} \cup {<<x, y>> : x \in LeadBytes, y \in Seconds} \cup
  {<<x, y, z>> : x \in LeadBytes, y \in Seconds, z \in Thirds} \cup
  {<<x, y, z, 128>> : x \in {l \in LeadBytes : l >= 224}, y \in Seconds, z \in Thirds}
Odd == <<92, 34, 10, 195, 169>>
Bad == <<97, 237, 160, 128>>
SomeTexts == {<<>>, <<97>>, Odd, Bad}

Unsaid ==
  [id |-> None, title |-> None, description |-> None, members |-> <<>>, conditionals |-> <<>>,
   provider |-> <<>>, extra |-> <<>>]
(* Fields "a" and "b" with a text in one place, and a conditional on "a". *)
Bare(key) ==
  [key |-> key, title |-> <<>>, description |-> <<>>, placeholder |-> <<>>, pattern |-> None,
   enum_values |-> <<>>]
A == <<97>>
B == <<98>>
Membered(m) == [Unsaid EXCEPT !.members = <<m>>]
Branched(c) == [Unsaid EXCEPT !.members = <<Bare(A), Bare(B)>>, !.conditionals = <<c>>]
DeclaredTexts ==
  {Membered([Bare(A) EXCEPT !.title = t, !.description = d, !.placeholder = p]) :
     t, d, p \in SomeTexts} \cup
  {Membered([Bare(k) EXCEPT !.pattern = p]) : k \in SomeTexts, p \in {A, <<92, 92>>, Bad, <<>>}} \cup
  {Membered([Bare(A) EXCEPT !.enum_values = v]) :
     v \in {<<t>> : t \in SomeTexts} \cup {<<A, t>> : t \in SomeTexts \ {A}}} \cup
  {[Unsaid EXCEPT !.title = Odd, !.members = <<Bare(j), Bare(k)>>] : j, k \in {A, Odd, MCWords["title"]}} \cup
  {Branched([key |-> k, equals |-> e, require |-> r, forbid |-> f]) :
     k \in {A, Odd}, e \in {<<>>, Odd, Bad},
     r \in {<<>>, <<A>>}, f \in {<<>>, <<B>>, <<B, B>>}}
ExtraKeys == {<<97>>, Odd, Bad, MCWords["provider"], MCWords["title"], MCWords["schema"]}
MCTexts ==
  {[Unsaid EXCEPT !.title = s] : s \in Bytes} \cup
  {[Unsaid EXCEPT !.id = i, !.title = t, !.description = d, !.provider = p] :
     i, t, d \in SomeTexts \cup {None}, p \in SomeTexts} \cup DeclaredTexts \cup
  {[Unsaid EXCEPT !.extra = <<<<k, v>>>>] : k \in ExtraKeys, v \in SomeTexts} \cup
  {[Unsaid EXCEPT !.extra = <<<<j, <<97>>>>, <<k, Odd>>>>] : j, k \in ExtraKeys}

Need(id, status, detail, remedy) ==
  [id |-> id, status |-> status, detail |-> detail, remedy |-> remedy]
Report(provider, report) == [provider |-> provider, report |-> report]
MCReports ==
  {Report(<<97>>, <<Need(<<97>>, "met", <<97>> \o s, <<>>)>>) : s \in Bytes} \cup
  {Report(p, <<Need(i, st, d, r)>>) :
     p \in {A, Bad}, i, d, r \in SomeTexts, st \in {"met", "unmet", "unknown"}} \cup
  {Report(<<>>, <<Need(<<97>>, x, <<>>, Odd), Need(Odd, y, Bad, <<>>)>>) :
     x, y \in {"met", "unmet", "unknown"}} \cup
  {Report(Odd, <<>>)}

MCSpeaks(tree) == tree = MCTrees(NewSpec("Boolean"))[1]
=============================================================================
