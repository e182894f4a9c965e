------------------------------ MODULE MCBusSetup ------------------------------
EXTENDS BusSetup
CONSTANTS n1, n2, sp, alias, mock

Config(path, address, release) == [path |-> path, address |-> address, release |-> release]

(* One provider on a host of any kind. *)
Checking ==
  [user : Users, hz : {Absent, 2, 3}, max_hz : {Absent, 2},
   config : {[p \in {"checker"} |-> Config(path, 1, "new")] : path \in Paths}]

(* Two providers, of which the other may be of an old release. *)
CheckerPaths == {Path(n1, "odd"), Path(n1, "plain"), Path(alias, "plain"), Path(mock, "plain")}
Claiming ==
  [user : {"member", "barred"}, hz : {Absent}, max_hz : {Absent},
   config : {[p \in {"checker", "other"} |->
                IF p = "checker" THEN Config(path, a, "new") ELSE Config(o, b, release)] :
             path \in CheckerPaths, a \in {1, 8}, o \in Paths \ {Path(n2, "odd")}, b \in {1, 2},
             release \in {"old", "new"}}]
MCDeployments == Checking \cup Claiming
===============================================================================
