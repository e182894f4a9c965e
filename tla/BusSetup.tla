------------------------------- MODULE BusSetup -------------------------------
(***************************************************************************)
(* What a provider does about its I2C bus before it serves: it checks the  *)
(* host (check_host, i2c/host_checks.cpp; host_check.cpp) and claims its   *)
(* address on the bus (i2c/claims.cpp, claims.cpp).  Both ask the file     *)
(* system several times, while nodes come and go with their drivers and a  *)
(* udev alias moves; another provider claims at its own time.              *)
(***************************************************************************)
EXTENDS Integers, SequencesExt

CONSTANTS
  Nodes,       \* the adapters' device nodes
  Spaced,      \* those whose name has a space, so is not of the form i2c-N
  Alias,       \* a symbolic link in /dev
  Mock,        \* a path with a scheme
  MaxAddress,  \* the largest 7-bit address
  Deployments, \* what may be set up on the host
  Absent,      \* no node, no frequency
  MaxChanges,  \* bound: changes of the file system
  MaxClaims    \* bound: claims of one provider

(* A configured path: "odd" is another spelling of the plain one (//, /./)  *)
(* that the file system takes for the same node.                            *)
Path(name, spelling) == [name |-> name, spelling |-> spelling]
Paths ==
  {Path(n, "plain") : n \in Nodes \cup {Alias, Mock}}
    \cup {Path(n, "odd") : n \in Nodes}

(* The providers of a host: each one's path, address and SDK release.  The  *)
(* checker checks its host first, as a user: root, a member of the nodes'   *)
(* group, someone other, or one barred from the directory.  max_hz is its   *)
(* max_bus_hz option, hz the clock that sysfs exposes for its adapter.      *)
Users == {"root", "member", "other", "barred"}
Configs == [path : Paths, address : Nat, release : {"old", "new"}]

ASSUME SetupAssumption ==
  /\ Spaced \subseteq Nodes /\ Alias \notin Nodes /\ Mock \notin Nodes \cup {Alias}
  /\ Absent \notin Nodes \cup {Alias, Mock} \cup Nat
  /\ MaxAddress \in Nat /\ MaxChanges \in Nat /\ MaxClaims \in Nat
  /\ \A d \in Deployments :
       /\ d.user \in Users /\ d.hz \in Nat \cup {Absent} /\ d.max_hz \in Nat \cup {Absent}
       /\ "checker" \in DOMAIN d.config /\ Range(d.config) \subseteq Configs

VARIABLES
  setup,     \* what is set up
  present,   \* nodes that exist
  target,    \* what the alias points to, Absent if it dangles
  changes,   \* of the file system since the check began
  question,  \* the checker's next question
  found,     \* the requirements it has reported
  tag,       \* each provider's claim tag: keys in order
  reached    \* history: the bus each claim's path led to

world == <<present, target, changes>>
check == <<question, found>>
claims == <<tag, reached>>
setupVars == <<setup, world, check, claims>>

Providers == DOMAIN setup.config

SetupInit ==
  /\ setup \in Deployments
  /\ present \in SUBSET Nodes /\ target \in Nodes \cup {Absent} /\ changes = 0
  /\ question = "stat" /\ found = <<>>
  /\ tag = [p \in Providers |-> <<>>] /\ reached = [p \in Providers |-> <<>>]

-----------------------------------------------------------------------------
(* The file system. *)

NodeComesOrGoes(n) ==
  /\ present' = IF n \in present THEN present \ {n} ELSE present \cup {n}
  /\ changes < MaxChanges /\ changes' = changes + 1
  /\ UNCHANGED <<setup, target, check, claims>>

AliasMoves(n) ==
  /\ n # target /\ target' = n
  /\ changes < MaxChanges /\ changes' = changes + 1
  /\ UNCHANGED <<setup, present, check, claims>>

(* The node a path leads to, whether or not it is there. *)
Meant(path) == IF path.name = Alias THEN target ELSE path.name
Exists(path) == Meant(path) \in present

(* A provider that may not search the directory learns nothing of it.  A    *)
(* path with a scheme is not in it.                                         *)
Barred(p) ==
  p = "checker" /\ setup.user = "barred" /\ setup.config[p].path.name # Mock

-----------------------------------------------------------------------------
(* check_host, one question at a time. *)

Requirement(id, status) == [id |-> id, status |-> status]
checked == setup.config["checker"].path
Clock(status) == IF setup.max_hz = Absent THEN <<>> ELSE <<Requirement("bus_clock", status)>>

Report(requirements, next) ==
  /\ found' = found \o requirements /\ question' = next
  /\ UNCHANGED <<setup, world, claims>>
Skip(status) ==
  Report(<<Requirement("bus_present", status), Requirement("bus_access", "unknown")>>
           \o Clock("unknown"), "checked")

Stat ==
  /\ question = "stat"
  /\ \/ Barred("checker") /\ Skip("unknown")
     \/ /\ ~Barred("checker") /\ Exists(checked)
        /\ Report(<<Requirement("bus_present", "met")>>, "access")
     \/ ~Barred("checker") /\ ~Exists(checked) /\ Skip("unmet")

(* Root is not asked; another user's open may also find the node gone. *)
access_of ==
  CASE setup.user = "root" -> "unknown"
    [] setup.user = "member" /\ Exists(checked) -> "met"
    [] OTHER -> "unmet"
Access ==
  /\ question = "access"
  /\ Report(<<Requirement("bus_access", access_of)>>,
            IF setup.max_hz = Absent THEN "checked" ELSE "clock")

(* adapter_name looks at the path's last component, not where it leads: it *)
(* has to be of the form i2c-N.                                            *)
adapter_name(path) == IF path.name \in Nodes \ Spaced THEN path.name ELSE Absent

ClockUnderMax == IF setup.hz >= setup.max_hz THEN "unmet" ELSE "met"  \* a slip
check_clock == IF setup.hz > setup.max_hz THEN "unmet" ELSE "met"

(* sysfs has an adapter's clock only while the adapter is there. *)
ClockIsExposed == adapter_name(checked) \in present /\ setup.hz # Absent
ReadClock ==
  /\ question = "clock"
  /\ Report(Clock(IF ClockIsExposed THEN check_clock ELSE "unknown"), "checked")

Unmet == {i \in DOMAIN found : found[i].status = "unmet"}
exit_code == IF Unmet # {} THEN 1 ELSE 0
readiness_diagnostics ==
  IF Unmet = {} THEN [host_check |-> "ok", host_unmet |-> <<>>]
  ELSE [host_check |-> "unmet",
        host_unmet |-> FoldLeft(LAMBDA s, r : IF r.status = "unmet" THEN Append(s, r.id) ELSE s,
                                <<>>, found)]

-----------------------------------------------------------------------------
(* Claim keys. *)

LexicalPath(p) == setup.config[p].path  \* a slip
StaleTarget(p) ==  \* a slip: a link is followed wherever it points
  LET path == setup.config[p].path IN
  IF path.name = Alias /\ target # Absent THEN Path(target, "plain") ELSE path

(* weakly_canonical follows the alias only if it leads to a node; without   *)
(* it, or on an error, the path is normalised lexically.                    *)
canonical_bus_path(p) ==
  LET path == setup.config[p].path IN
  CASE path.name = Mock -> path
    [] path.name = Alias /\ Exists(path) /\ ~Barred(p) -> Path(target, "plain")
    [] OTHER -> Path(path.name, "plain")

HasSpace(path) == path.name \in Spaced
Key(path, address) == [bus |-> path, address |-> address]

(* claim_keys, or claim_key for a provider of an old release.  Both throw   *)
(* at a space in the configured path and at a wide address (check_inputs),  *)
(* claim_keys also at a space in the canonical path, so add_claim finds     *)
(* nothing left to refuse in a key.                                         *)
CanonicalPathIsLooked(p) ==  \* a slip: the path as it is written is not looked at
  \/ setup.config[p].address > MaxAddress
  \/ setup.config[p].release = "new" /\ HasSpace(canonical_bus_path(p))
ClaimThrows(p) ==
  \/ HasSpace(setup.config[p].path) \/ setup.config[p].address > MaxAddress
  \/ setup.config[p].release = "new" /\ HasSpace(canonical_bus_path(p))
KeysFor(p) ==
  LET c == setup.config[p] IN
  <<Key(c.path, c.address)>> \o
    IF c.release = "old" \/ canonical_bus_path(p) = c.path THEN <<>>
    ELSE <<Key(canonical_bus_path(p), c.address)>>

AppendBlindly(keys, key) == Append(keys, key)  \* a slip
add_claim(keys, key) == IF key \in Range(keys) THEN keys ELSE Append(keys, key)

(* The bus a claim's path led to, if the provider could tell. *)
Reached(p) ==
  LET path == setup.config[p].path IN
  IF path.name # Alias THEN path.name
  ELSE IF Exists(path) /\ ~Barred(p) THEN target ELSE Absent

(* A provider claims when it builds its device's descriptor, and may claim   *)
(* again on the descriptor it has: the tag keeps the keys of both.  The      *)
(* checker claims after its check.                                           *)
Claim(p) ==
  /\ p = "checker" => question = "checked"
  /\ Len(reached[p]) < MaxClaims /\ ~ClaimThrows(p)
  /\ tag' = [tag EXCEPT ![p] = FoldLeft(add_claim, @, KeysFor(p))]
  /\ reached' = [reached EXCEPT ![p] = Append(@, Reached(p))]
  /\ UNCHANGED <<setup, world, check>>

SetupNext ==
  \/ \E n \in Nodes : NodeComesOrGoes(n)
  \/ \E n \in Nodes \cup {Absent} : AliasMoves(n)
  \/ Stat \/ Access \/ ReadClock
  \/ \E p \in Providers : Claim(p)

SetupSpec == SetupInit /\ [][SetupNext]_setupVars

-----------------------------------------------------------------------------
(* Of a host that does not change under it, the check says no exactly if   *)
(* the bus is missing, or closed to the user, or known to be too fast: the *)
(* exit code, the WaitReady diagnostics and the list of requirements agree *)
(* on it, and the list has the same requirements whatever came up.         *)
HostCheckDecides ==
  LET no ==
        /\ ~Barred("checker")
        /\ \/ ~Exists(checked)
           \/ setup.user = "other"
           \/ ClockIsExposed /\ setup.max_hz # Absent /\ setup.hz > setup.max_hz
      ids == [i \in DOMAIN found |-> found[i].id]
  IN  question = "checked" =>
        /\ changes = 0 => (exit_code = 1 <=> no)
        /\ (exit_code = 1) = (readiness_diagnostics.host_check = "unmet")
        /\ Len(readiness_diagnostics.host_unmet) = Cardinality(Unmet)
        /\ ids = <<"bus_present", "bus_access">>
                   \o (IF setup.max_hz = Absent THEN <<>> ELSE <<"bus_clock">>)

Keys(p) == Range(tag[p])
Collide(p, q) == Keys(p) \cap Keys(q) # {}
SameAddress(p, q) == setup.config[p].address = setup.config[q].address

(* Two providers that claimed one device collide: with current releases if *)
(* both could tell that their paths lead to one bus, whatever they wrote   *)
(* and whenever each claimed; with an old release if they wrote the same.  *)
SharedDeviceIsSeen ==
  \A p, q \in Providers :
    LET c == setup.config[p]  d == setup.config[q] IN
    /\ SameAddress(p, q) /\ tag[p] # <<>> /\ tag[q] # <<>>
    /\ \/ c.path = d.path
       \/ /\ c.release = "new" /\ d.release = "new"
          /\ (Range(reached[p]) \cap Range(reached[q])) \ {Absent} # {}
    => Collide(p, q)

(* Providers that collide have one address, and wrote the same path or have *)
(* both been on one bus: a link that dangles makes no collision.  A tag     *)
(* holds each key once and none with a space, so it splits into its keys.   *)
CollisionsAreReal ==
  /\ \A p, q \in Providers :
       Collide(p, q) =>
         /\ SameAddress(p, q)
         /\ \/ setup.config[p].path.name = setup.config[q].path.name
            \/ (Range(reached[p]) \cap Range(reached[q])) \ {Absent} # {}
  /\ \A p \in Providers :
       /\ Cardinality(Keys(p)) = Len(tag[p])
       /\ \A k \in Keys(p) : ~HasSpace(k.bus)
=============================================================================
