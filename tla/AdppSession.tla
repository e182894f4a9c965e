----------------------------- MODULE AdppSession -----------------------------
(***************************************************************************)
(* What one ADPP session promises, without saying how: requests are        *)
(* answered one for one and in order, each answer carries its request's    *)
(* id; nothing but Hello is served before a Hello of the right version;    *)
(* the provider starts up once, after that Hello and before the first      *)
(* other answer; and shutdown happens once and ends everything.  RunLoop   *)
(* implements it.                                                          *)
(***************************************************************************)
EXTENDS AdppProtocol

VARIABLES
  asked,    \* the frames the client has put on the wire, in order
  answers,  \* the responses the client can read, in order
  started,  \* how often the provider's start-up ran
  ended     \* how often the provider was told to shut down

vars == <<asked, answers, started, ended>>

(* The position of the next request to answer. *)
Turn == Len(answers) + 1

Init ==
  /\ asked = <<>>
  /\ answers = <<>>
  /\ started = 0
  /\ ended = 0

Ask(f) ==
  /\ ended = 0
  /\ asked' = Append(asked, f)
  /\ UNCHANGED <<answers, started, ended>>

(* Start-up waits for a greeted session and a request other than Hello. *)
Start ==
  /\ ended = 0
  /\ started = 0
  /\ Turn <= Len(asked)
  /\ asked[Turn].kind \in RequestKinds \ HelloKinds
  /\ GreetedIn(asked, Turn - 1)
  /\ started' = 1
  /\ UNCHANGED <<asked, answers, ended>>

(* What the session may say to the request at position k. *)
Permitted(k, code) ==
  LET kind == asked[k].kind IN
  /\ kind \in RequestKinds
  /\ kind = "hello_other_version" => code = "FAILED_PRECONDITION"
  /\ kind \notin HelloKinds =>
       IF GreetedIn(asked, k - 1) THEN started = 1
                                  ELSE code = "FAILED_PRECONDITION"

Answer(code) ==
  /\ ended = 0
  /\ Turn <= Len(asked)
  /\ Permitted(Turn, code)
  /\ answers' = Append(answers, [id |-> asked[Turn].id, code |-> code])
  /\ UNCHANGED <<asked, started, ended>>

End ==
  /\ ended = 0
  /\ ended' = 1
  /\ UNCHANGED <<asked, answers, started>>

Next ==
  \/ \E f \in ClientFrames : Ask(f)
  \/ Start
  \/ \E code \in Codes : Answer(code)
  \/ End

Spec == Init /\ [][Next]_vars
=============================================================================
