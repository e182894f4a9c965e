----------------------------- MODULE ProviderMain -----------------------------
(***************************************************************************)
(* The verbs of a provider's main (reference_provider.cpp) that print and   *)
(* exit: --config-schema, --check-config and --check-host, around the       *)
(* declaration and the validation of ConfigValidate.  What is printed is    *)
(* read by programs, so it has to be JSON whatever texts it is made of: the *)
(* author's in the schema, the host's (paths, strerror) in the host check.  *)
(***************************************************************************)
EXTENDS ConfigValidate, JsonText

CONSTANTS
  Words,     \* the fixed texts of the two envelopes
  Texts,     \* what an author says of a schema and its envelope
  Reports,   \* what a host check may find
  Speaks(_)  \* bound: the declarations whose provider goes on to a verb

WordNames ==
  {"config_schema_version", "provider", "schema", "dialect", "draft", "id", "title",
   "description", "type", "object", "string", "enum", "pattern", "placeholder", "properties",
   "allOf", "if", "then", "const", "required", "false", "check_host_version", "requirements",
   "status", "detail", "remedy", "met", "unmet", "unknown", "1"}
ASSUME WordsAssumption ==
  /\ Words \in [WordNames -> Seq(Nat)]
  /\ \A w \in WordNames : Len(Words[w]) = 1 /\ Words[w][1] > 255
  /\ \A v, w \in WordNames : Words[v] = Words[w] => v = w

(* The texts of a Schema of String fields, of its conditionals and of an   *)
(* EnvelopeOptions, and a report, may be of any bytes.                      *)
Fields ==
  [key : Seq(Nat), title : Seq(Nat), description : Seq(Nat), placeholder : Seq(Nat),
   pattern : Seq(Nat) \cup {None}, enum_values : Seq(Seq(Nat))]
Whens == [key : Seq(Nat), equals : Seq(Nat), require : Seq(Seq(Nat)), forbid : Seq(Seq(Nat))]
ASSUME TextsAssumption ==
  /\ None \notin Seq(Nat)
  /\ \A t \in Texts :
       t \in [id : Seq(Nat) \cup {None}, title : Seq(Nat) \cup {None},
             description : Seq(Nat) \cup {None}, members : Seq(Fields),
             conditionals : Seq(Whens), provider : Seq(Nat),
             extra : Seq(Seq(Nat) \X Seq(Nat))]
(* What ConfigSchema's checks refuse for another reason is not among them.  *)
ASSUME DeclaredAssumption ==
  \A t \in Texts :
    /\ \A m \in Range(t.members) :
         IsInjective(m.enum_values) /\ (m.pattern = None \/ m.enum_values = <<>>)
    /\ IsInjective([k \in DOMAIN t.conditionals |->
                      <<t.conditionals[k].key, t.conditionals[k].equals>>])
    /\ \A c \in Range(t.conditionals) :
         /\ Range(c.require) \cap Range(c.forbid) = {}
         /\ \A m \in Range(t.members) :
              m.key = c.key /\ m.enum_values # <<>> => c.equals \in Range(m.enum_values)
ASSUME ReportsAssumption ==
  \A r \in Reports :
    r \in [provider : Seq(Nat),
          report : Seq([id : Seq(Nat), status : {"met", "unmet", "unknown"},
                        detail : Seq(Nat), remedy : Seq(Nat)])]

Verbs == {"--config-schema", "--check-config", "--check-host"}
ASSUME VerbAssumption == None \notin Verbs

VARIABLES
  verb,    \* the verb, once it matters
  said,    \* the texts it is given
  stdout,  \* what it has printed
  exit     \* the process's exit code

mainVars == <<verb, said, stdout, exit>>

MainInit == Init /\ verb = None /\ said = None /\ stdout = <<>> /\ exit = None

-----------------------------------------------------------------------------
(* --config-schema *)

KeyValue(word, value) == <<Words[word], value>>
OptionalText(word, text) ==
  IF text = None THEN <<>> ELSE <<KeyValue(word, escape_json(text))>>
NonEmptyText(word, text) ==
  IF text \in {None, <<>>} THEN <<>> ELSE <<KeyValue(word, escape_json(text))>>

NonEmptyList(word, texts) ==
  IF texts = <<>> THEN <<>>
  ELSE <<KeyValue(word, write_array([k \in DOMAIN texts |-> escape_json(texts[k])]))>>

(* What is refused of the texts: by Schema::id, title and description; by     *)
(* Field's constructor, insert_member and check_field; by when() and          *)
(* check_object.  The keys of a conditional are those of members, so they     *)
(* need no check of their own.  The other checks are ConfigSchema's.          *)
KeysOf(t) == {m.key : m \in Range(t.members)}
FieldTexts(m) ==
  {m.key, m.title, m.description, m.placeholder} \cup ({m.pattern} \ {None}) \cup Range(m.enum_values)
PatternUnchecked(t, k) ==  \* a slip
  \/ t.members[k].key = <<>> \/ \E j \in 1..(k - 1) : t.members[j].key = t.members[k].key
  \/ \E text \in FieldTexts(t.members[k]) \ {t.members[k].pattern} : ~is_valid_utf8(text)
FieldRefused(t, k) ==
  \/ t.members[k].key = <<>> \/ \E j \in 1..(k - 1) : t.members[j].key = t.members[k].key
  \/ \E text \in FieldTexts(t.members[k]) : ~is_valid_utf8(text)
BranchKeys(c) == {c.key} \cup Range(c.require) \cup Range(c.forbid)
BranchRefused(t, c) ==
  \/ c.require = <<>> /\ c.forbid = <<>>
  \/ ~is_valid_utf8(c.equals) \/ ~(BranchKeys(c) \subseteq KeysOf(t))
SchemaThrows(t) ==
  \/ \E text \in {t.id, t.title, t.description} : text # None /\ ~is_valid_utf8(text)
  \/ \E k \in DOMAIN t.members : FieldRefused(t, k)
  \/ \E k \in DOMAIN t.conditionals : BranchRefused(t, t.conditionals[k])

(* The text of what ConfigSchema's emit_field, emit_if, emit_then and emit_object *)
(* have the keywords of.  A key that a branch forbids twice is written twice.     *)
field_text(m) ==
  write_object(<<KeyValue("type", escape_json(Words["string"]))>>
                 \o NonEmptyText("title", m.title) \o NonEmptyText("description", m.description)
                 \o NonEmptyList("enum", m.enum_values) \o OptionalText("pattern", m.pattern)
                 \o NonEmptyText("placeholder", m.placeholder))
if_text(c) ==
  write_object(<<KeyValue("properties", write_object(
                   <<<<c.key, write_object(<<KeyValue("const", escape_json(c.equals))>>)>>>>))>>
                 \o NonEmptyList("required", <<c.key>>))
then_text(c) ==
  write_object(NonEmptyList("required", c.require)
                 \o IF c.forbid = <<>> THEN <<>>
                    ELSE <<KeyValue("properties", write_object(
                             [k \in DOMAIN c.forbid |-> <<c.forbid[k], Words["false"]>>]))>>)
branch_text(c) == write_object(<<KeyValue("if", if_text(c))>> \o <<KeyValue("then", then_text(c))>>)

properties_text(t) ==
  IF t.members = <<>> THEN <<>>
  ELSE <<KeyValue("properties", write_object(
           [k \in DOMAIN t.members |-> <<t.members[k].key, field_text(t.members[k])>>]))>>
allOf_text(t) ==
  IF t.conditionals = <<>> THEN <<>>
  ELSE <<KeyValue("allOf", write_array(
           [k \in DOMAIN t.conditionals |-> branch_text(t.conditionals[k])]))>>
emit_schema(t) ==
  write_object(<<KeyValue("dialect", escape_json(Words["draft"]))>> \o OptionalText("id", t.id)
                 \o <<KeyValue("type", escape_json(Words["object"]))>>
                 \o NonEmptyText("title", t.title) \o NonEmptyText("description", t.description)
                 \o properties_text(t) \o allOf_text(t))

(* config_schema_envelope *)
KeyUnchecked(t, k) == FALSE  \* a slip
KeyRefused(t, k) ==
  \/ t.extra[k][1] \in {Words[w] : w \in {"config_schema_version", "schema", "provider"}}
  \/ \E j \in 1..(k - 1) : t.extra[j][1] = t.extra[k][1]
EnvelopeThrows(t) ==
  \/ ~is_valid_utf8(t.provider)
  \/ \E k \in DOMAIN t.extra :
       ~is_valid_utf8(t.extra[k][1]) \/ ~is_valid_utf8(t.extra[k][2]) \/ KeyRefused(t, k)
config_schema_envelope(t) ==
  write_object(<<KeyValue("config_schema_version", Words["1"])>>
                 \o NonEmptyText("provider", t.provider)
                 \o [k \in DOMAIN t.extra |-> <<t.extra[k][1], escape_json(t.extra[k][2])>>]
                 \o <<KeyValue("schema", emit_schema(t))>>)

(* An exception that leaves main ends the process. *)
PrintSchema ==
  /\ pc = "declared" /\ Speaks(root) /\ verb' = "--config-schema"
  /\ said' \in Texts
  /\ \/ /\ SchemaThrows(said') \/ EnvelopeThrows(said')
        /\ pc' = "threw" /\ UNCHANGED <<stdout, exit>>
     \/ /\ ~SchemaThrows(said') /\ ~EnvelopeThrows(said')
        /\ pc' = "exited" /\ exit' = 0
        /\ stdout' = config_schema_envelope(said')
  /\ UNCHANGED <<field, calls, root, doc, errors>>

-----------------------------------------------------------------------------
(* --check-config and --check-host, of a document that was just validated. *)

RefuseConfig ==
  /\ pc = "checked" /\ Speaks(root) /\ errors # {}
  /\ verb' \in {"--check-config", "--check-host"} /\ pc' = "exited"
  /\ exit' = IF verb' = "--check-host" THEN 2 ELSE 1
  /\ UNCHANGED <<field, calls, root, doc, errors, said, stdout>>

AcceptConfig ==
  /\ pc = "checked" /\ Speaks(root) /\ errors = {}
  /\ verb' = "--check-config" /\ pc' = "exited" /\ exit' = 0
  /\ UNCHANGED <<field, calls, root, doc, errors, said, stdout>>

exit_code(report) ==
  IF \E k \in DOMAIN report : report[k].status = "unmet" THEN 1 ELSE 0

(* envelope (host_check.cpp), which writes its JSON by hand. *)
Member(word, text) == escape_json(Words[word]) \o <<58>> \o json_string(text)
OptionalMember(word, text) == IF text = <<>> THEN <<>> ELSE <<44>> \o Member(word, text)
envelope(name, report) ==
  <<123>> \o escape_json(Words["check_host_version"]) \o <<58>> \o Words["1"]
    \o OptionalMember("provider", name)
    \o <<44>> \o escape_json(Words["requirements"]) \o <<58, 91>>
    \o Commas([k \in DOMAIN report |->
         <<123>> \o Member("id", report[k].id) \o <<44>> \o Member("status", Words[report[k].status])
           \o OptionalMember("detail", report[k].detail)
           \o OptionalMember("remedy", report[k].remedy) \o <<125>>])
    \o <<93, 125>>

(* write_envelope.  A requirement without an id throws. *)
PrintHostCheck ==
  /\ pc = "checked" /\ Speaks(root) /\ errors = {} /\ verb' = "--check-host"
  /\ said' \in Reports
  /\ \/ /\ \E k \in DOMAIN said'.report : said'.report[k].id = <<>>
        /\ pc' = "threw" /\ UNCHANGED <<stdout, exit>>
     \/ /\ \A k \in DOMAIN said'.report : said'.report[k].id # <<>>
        /\ pc' = "exited" /\ exit' = exit_code(said'.report)
        /\ stdout' = envelope(said'.provider, said'.report)
  /\ UNCHANGED <<field, calls, root, doc, errors>>

Exited == pc = "exited" /\ UNCHANGED <<vars, mainVars>>

MainNext ==
  \/ Next /\ UNCHANGED mainVars
  \/ PrintSchema \/ RefuseConfig \/ AcceptConfig \/ PrintHostCheck \/ Exited

MainSpec == MainInit /\ [][MainNext]_<<vars, mainVars>>

-----------------------------------------------------------------------------
(* Properties *)

(* The texts of a declaration, as a reader of the schema should find them. *)
Says(word, text) == <<<<Words[word], JText(text)>>>>
SaysIfGiven(word, text) == IF text = None THEN <<>> ELSE Says(word, text)
SaysIfAny(word, text) == IF text \in {None, <<>>} THEN <<>> ELSE Says(word, text)
ListsIfAny(word, texts) ==
  IF texts = <<>> THEN <<>>
  ELSE <<<<Words[word], JArray([k \in DOMAIN texts |-> JText(texts[k])])>>>>
FieldSaid(m) ==
  JObject(Says("type", Words["string"]) \o SaysIfAny("title", m.title)
            \o SaysIfAny("description", m.description) \o ListsIfAny("enum", m.enum_values)
            \o SaysIfGiven("pattern", m.pattern) \o SaysIfAny("placeholder", m.placeholder))
IfSaid(c) ==
  JObject(<<<<Words["properties"], JObject(<<<<c.key, JObject(Says("const", c.equals))>>>>)>>>>
            \o ListsIfAny("required", <<c.key>>))
Forbidden(c) == [k \in DOMAIN c.forbid |-> <<c.forbid[k], JNumber(Words["false"][1])>>]
ThenSaid(c) ==
  JObject(ListsIfAny("required", c.require)
            \o IF c.forbid = <<>> THEN <<>> ELSE <<<<Words["properties"], JObject(Forbidden(c))>>>>)
BranchSaid(c) == JObject(<<<<Words["if"], IfSaid(c)>>>> \o <<<<Words["then"], ThenSaid(c)>>>>)
Properties(t) == [k \in DOMAIN t.members |-> <<t.members[k].key, FieldSaid(t.members[k])>>]
SchemaSaid(t) ==
  JObject(Says("dialect", Words["draft"]) \o SaysIfGiven("id", t.id)
            \o Says("type", Words["object"])
            \o SaysIfAny("title", t.title) \o SaysIfAny("description", t.description)
            \o (IF t.members = <<>> THEN <<>> ELSE <<<<Words["properties"], JObject(Properties(t))>>>>)
            \o (IF t.conditionals = <<>> THEN <<>>
                ELSE <<<<Words["allOf"], JArray([k \in DOMAIN t.conditionals |->
                                                   BranchSaid(t.conditionals[k])])>>>>))
EnvelopeSaid(t) ==
  JObject(<<<<Words["config_schema_version"], JNumber(Words["1"][1])>>>>
            \o SaysIfAny("provider", t.provider)
            \o [k \in DOMAIN t.extra |-> <<t.extra[k][1], JText(t.extra[k][2])>>]
            \o <<<<Words["schema"], SchemaSaid(t)>>>>)

(* Every text is UTF-8, and each key is given once and where it may be. *)
GivenTexts(t) ==
  ({t.id, t.title, t.description, t.provider} \ {None})
    \cup (UNION {FieldTexts(m) : m \in Range(t.members)})
    \cup {c.equals : c \in Range(t.conditionals)}
    \cup (UNION {{e[1], e[2]} : e \in Range(t.extra)})
WellSaid(t) ==
  LET taken == {Words[w] : w \in {"config_schema_version", "schema", "provider"}} IN
  /\ \A text \in GivenTexts(t) : IsText(text)
  /\ \A j, k \in DOMAIN t.members : t.members[j].key = t.members[k].key => j = k
  /\ \A j, k \in DOMAIN t.extra : t.extra[j][1] = t.extra[k][1] => j = k
  /\ <<>> \notin KeysOf(t) /\ \A e \in Range(t.extra) : e[1] \notin taken
  /\ \A c \in Range(t.conditionals) :
       BranchKeys(c) \subseteq KeysOf(t) /\ (c.require # <<>> \/ c.forbid # <<>>)

(* config.cpp: "Invalid bytes would make the emitted document not-JSON, so   *)
(* they must fail at declaration time".  Nothing is refused but a text that  *)
(* is not UTF-8, or a key that is taken, empty or no member's.  Anything     *)
(* else is printed, and unless a branch forbids a key twice (which check_    *)
(* object lets pass) it is one JSON document without a key twice in any of   *)
(* its objects, and reads back as the author's texts: those of the schema    *)
(* and the envelope, of each field and of each conditional, character by     *)
(* character, each in its place.                                             *)
SchemaReadsBack ==
  verb = "--config-schema" =>
    IF ~WellSaid(said) THEN pc = "threw" /\ stdout = <<>>
    ELSE /\ pc = "exited" /\ exit = 0
         /\ (\A c \in Range(said.conditionals) : IsInjective(c.forbid)) =>
              IsDocument(stdout) /\ Document(stdout) = EnvelopeSaid(said)

(* A requirement as the envelope should tell it. *)
Tells(word, text) == <<Words[word], JText(Repaired(text))>>
TellsIfAny(word, text) == IF text = <<>> THEN <<>> ELSE <<Tells(word, text)>>
Told(r) ==
  JObject(<<Tells("id", r.id), <<Words["status"], JText(Words[r.status])>>>>
            \o TellsIfAny("detail", r.detail) \o TellsIfAny("remedy", r.remedy))

(* executable profile v1: --check-host prints its requirements and exits    *)
(* with 1 if one is unmet, 0 if none is, and 2 without a word if the config *)
(* could not be read; CHANGELOG: text from the host "is escaped, and what   *)
(* is not valid UTF-8 is replaced, so the envelope always parses", with     *)
(* every character of it that is UTF-8 left as it was.                      *)
HostCheckReadsBack ==
  verb = "--check-host" /\ pc = "exited" =>
    IF errors # {} THEN exit = 2 /\ stdout = <<>>
    ELSE /\ exit = IF \E r \in Range(said.report) : r.status = "unmet" THEN 1 ELSE 0
         /\ IsDocument(stdout)
         /\ Document(stdout) =
              JObject(<<<<Words["check_host_version"], JNumber(Words["1"][1])>>>>
                \o TellsIfAny("provider", said.provider)
                \o <<<<Words["requirements"],
                       JArray([k \in DOMAIN said.report |-> Told(said.report[k])])>>>>)
=============================================================================
