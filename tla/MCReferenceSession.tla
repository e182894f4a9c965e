-------------------------- MODULE MCReferenceSession --------------------------
(***************************************************************************)
(* Two heaters.  The client turns h1 on, perhaps too late, asks for its    *)
(* energy back, reads it, asks for a function it does not have, and turns  *)
(* h2 on with an answer that is over the cap.                              *)
(***************************************************************************)
EXTENDS ReferenceSession, TLC

CONSTANTS h1, h2

Level(v) == "power" :> make_val("double", v)
NoArgs == [x \in {} |-> Unset]
Hello == [kind |-> "hello"]
Read(h, signals) == [kind |-> "read_signals", device |-> h, signals |-> signals]
Calling(h, function, args, deadline) ==
  [kind |-> "call", device |-> h, function |-> function, args |-> args,
   deadline |-> deadline]

MCMeaning ==
  ("hello" :> Hello) @@
  ("on" :> Calling(h1, "set_power", Level(1), 1)) @@
  ("reset" :> Calling(h1, "reset_energy", NoArgs, 2)) @@
  ("other" :> Calling(h2, "set_power", Level(1), Unset)) @@
  ("nowhere" :> Calling(h1, "toggle", NoArgs, Unset)) @@
  ("read" :> Read(h1, {"energy"}))
=============================================================================
