--------------------------- MODULE ReferenceSession ---------------------------
(***************************************************************************)
(* The serving loop with a provider in it: the reference provider's heaters *)
(* behind handle_call and handle_read_signals, driven by a client that      *)
(* pipelines over both pipes.  Every step is a step of RunLoop, joined with  *)
(* what the provider does in it: a call acts when its request is dispatched, *)
(* and on_shutdown stops the heaters when the loop is left.                  *)
(*                                                                         *)
(* What is hard lies between the two: a call has acted before its answer is  *)
(* built, so an answer that turns out too large, that says it came too late, *)
(* or that the client never reads, leaves a heater on.                       *)
(***************************************************************************)
EXTENDS RunLoop, ReferenceProvider

CONSTANTS
  Meaning,   \* what the request of an id asks for
  Oversize   \* the ids of requests whose full answer is over the frame cap

(* The client fills in each value's type tag as well as its field; one that *)
(* does not passes validation and its value is read as the getter's default.*)
ASSUME MeaningAssumption ==
  \A id \in Ids : Meaning[id].kind = "call" =>
    \A name \in DOMAIN Meaning[id].args :
      LET value == Meaning[id].args[name] IN
      IsValue(value) /\ value.tag = value.field

VARIABLES
  detail,    \* what the response being written says besides its code
  details    \* the same for the responses in the client's pipe

sessionVars == <<vars, heaterVars, detail, details>>

(* A call that ran past its deadline says so; a reset tells the count. *)
NoDetail == [side_effects |-> FALSE, energy |-> 0]

SessionInit == Init /\ HeaterInit /\ detail = NoDetail /\ details = <<>>

-----------------------------------------------------------------------------
(* handle_call *)

(* The first check that refuses a call, or "OK", the deadline last; *)
(* CallHandler has each of them as a step of its own.               *)
Refusal(r) ==
  LET code == IF r.function \in DeclaredFunctions
              THEN validate_call_args(DeclaredArgs(r.function), r.args) ELSE "OK" IN
  CASE r.device \notin Heaters -> "NOT_FOUND"
    [] r.device \in Heaters /\ code # "OK" -> code
    [] OTHER -> IF r.deadline # Unset /\ now >= r.deadline
                THEN "DEADLINE_EXCEEDED" ELSE "OK"

Size == IF request.id \in Oversize THEN "over_cap" ELSE "fits"

(* A refusal or an error is short; only a full answer can be over the cap. *)
Say(code) ==
  /\ response' = FramedResponse(request.id, code, "fits")
  /\ detail' = NoDetail

SayResult(result) ==
  /\ response' = FramedResponse(request.id, "OK", Size)
  /\ detail' = [NoDetail EXCEPT !.energy = IF Size = "fits" THEN result ELSE 0]

(* The call ran past its deadline: it sends no results.  A slip: nor that. *)
SayLateOnly ==
  /\ response' = FramedResponse(request.id, "DEADLINE_EXCEEDED", "fits")
  /\ detail' = NoDetail

SayLate ==
  /\ response' = FramedResponse(request.id, "DEADLINE_EXCEEDED", "fits")
  /\ detail' = [NoDetail EXCEPT !.side_effects = TRUE]

handle_call(r) ==
  IF Refusal(r) # "OK" THEN Say(Refusal(r)) /\ UNCHANGED heaterVars
  ELSE /\ call(r.device, r.function, r.args)
       /\ IF CallCode(r.function) # "OK" THEN Say(CallCode(r.function))
          ELSE \/ SayResult(CallResult(r.device, r.function))
               \/ r.deadline # Unset /\ SayLate

(* handle_read_signals: all signals are known, or nothing is read. *)
handle_read_signals(r) ==
  IF r.device \notin Heaters \/ ~(r.signals \subseteq Signals)
  THEN Say("NOT_FOUND") /\ UNCHANGED heaterVars
  ELSE SayResult(0) /\ advance(r.device)

(* A Hello, a request before it, and those that no handler refuses. *)
AnswerCode(kind) ==
  CASE ~Served(kind) \/ kind = "hello_other_version" -> "FAILED_PRECONDITION"
    [] Served(kind) /\ kind = "unset" -> "UNIMPLEMENTED"
    [] OTHER -> "OK"

Serve ==
  /\ pc = "serve"
  /\ CASE Served(request.kind) /\ request.kind = "call" ->
            handle_call(Meaning[request.id])
       [] Served(request.kind) /\ request.kind = "read_signals" ->
            handle_read_signals(Meaning[request.id])
       [] OTHER -> Say(AnswerCode(request.kind)) /\ UNCHANGED heaterVars
  /\ Dispatch
  /\ UNCHANGED details

(* A slip: the heaters are stopped only when the client is done with them. *)
StopAtEofOnly ==
  IF shutdowns' # shutdowns /\ exit' = "0" THEN Stop ELSE UNCHANGED heaterVars

(* hooks.on_shutdown = [&runtime] { runtime.stop(); } *)
OnShutdown == IF shutdowns' # shutdowns THEN Stop ELSE UNCHANGED heaterVars

TakeIn ==
  /\ ReadFrame \/ ReadEof \/ Initialize
  /\ OnShutdown
  /\ UNCHANGED <<detail, details>>

InputFails == ReadFails /\ OnShutdown /\ UNCHANGED <<detail, details>>

GiveOut ==
  /\ WriteFrame \/ Flush
  /\ OnShutdown
  /\ details' = IF written' # written THEN Append(details, detail) ELSE details
  /\ UNCHANGED detail

LoopStep == TakeIn \/ Serve \/ GiveOut

(* The client greets first; each id is used for the one request it means. *)
Asks ==
  {f \in ClientFrames : /\ f.kind = Meaning[f.id].kind
                        /\ f.kind = "hello" <=> asked = <<>>}

Elsewhere == UNCHANGED <<heaterVars, detail, details>>

ClientStep ==
  /\ \/ \E f \in Asks : BeginSend(f)
     \/ FinishSend
     \/ Receive
     \/ CloseStdin
     \/ HangUp
  /\ Elsewhere

TimeStep == Tick /\ pc # "exited" /\ UNCHANGED <<vars, detail, details>>

SessionNext ==
  LoopStep \/ InputFails \/ ClientStep \/ TimeStep \/ (Exited /\ UNCHANGED sessionVars)

SessionSpec == SessionInit /\ [][SessionNext]_sessionVars

(* The fairness of RunLoop: whatever the loop can do, the session can. *)
FairSessionSpec == SessionSpec /\ Fairness

-----------------------------------------------------------------------------
(* Properties *)

(* What the client has learnt of its request k: that it was done, or that  *)
(* it may have been, because no answer has come or one that hides it.      *)
Surely(k) ==
  /\ k <= received
  /\ written[k].code = "OK" \/ details[k].side_effects
Perhaps(k) ==
  \/ k > received
  \/ written[k].code \in {"RESOURCE_EXHAUSTED", "INTERNAL"}

Calls(k, h, function) ==
  /\ asked[k].kind = "call"
  /\ Meaning[asked[k].id].device = h /\ Meaning[asked[k].id].function = function

Asked(k) == LET args == Meaning[asked[k].id].args IN
            IF "power" \in DOMAIN args THEN Payload("double", args["power"]) ELSE 0

(* The levels a heater can be at, by what the client has sent and read. *)
LevelsItCanTell(h) ==
  LET sets == {k \in 1..Len(asked) : Calls(k, h, "set_power")}
      last == Max({0} \cup {k \in sets : Surely(k)})
  IN  {IF last = 0 THEN 0 ELSE Asked(last)}
        \cup {Asked(k) : k \in {j \in sets : j > last /\ Perhaps(j)}}

(* framed-stdio keeps serving after an answer that cannot be framed, and    *)
(* ADPP says of a late call that it may have had its effects: so the client  *)
(* always knows what its heaters may be doing, from the answers it has read  *)
(* and the requests still open; and it knows that they are off once the     *)
(* provider is gone, however it went (on_shutdown "puts every output in its  *)
(* safe state").                                                            *)
ClientKnowsTheLevels ==
  \A h \in Heaters :
    IF pc = "exited" THEN power[h] = 0 ELSE power[h] \in LevelsItCanTell(h)

(* The energy that the answers to reset_energy report, and whether a reset *)
(* was or may have been made whose count the client does not have.         *)
Told(h) ==
  SumFunctionOnSet([k \in 1..received |-> details[k].energy],
                   {k \in 1..received : Calls(k, h, "reset_energy")})
SomeLost(h) ==
  \E k \in 1..Len(asked) :
    Calls(k, h, "reset_energy") /\ (Perhaps(k) \/ details[k].side_effects)

(* reset_energy hands over "the energy count before the reset": added up,   *)
(* the client's counts and the present one are what the heater has drawn,   *)
(* to the last tick, whatever reads and calls came between; only a reset    *)
(* whose answer is lost, late or too large takes energy from the sum.       *)
EnergyIsAccountedFor ==
  \A h \in Heaters :
    LET missing == drawn[h] - Advanced(h) - Told(h) IN
    /\ missing >= 0
    /\ ~SomeLost(h) => missing = 0

(* Once the client has closed stdin the process ends and every output is in *)
(* its safe state, whatever was still queued in either pipe.                *)
OutputsGoSafe ==
  ~stdinOpen ~> (pc = "exited" /\ \A h \in Heaters : power[h] = 0)
=============================================================================
