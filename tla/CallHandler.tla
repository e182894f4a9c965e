----------------------------- MODULE CallHandler -----------------------------
(***************************************************************************)
(* One `call` request at a time through handle_call (handlers.cpp): the    *)
(* device and function lookup, the argument check, the deadline before and *)
(* after, the provider's own call, and the client that reads the answer    *)
(* and may try again.  The handler is one thread, but it asks the          *)
(* ProviderRuntime four separate questions and reads the wall clock twice; *)
(* between any two of these steps the clock moves, an operator or NTP sets *)
(* it back, or the device leaves the provider's inventory or returns to it. *)
(***************************************************************************)
EXTENDS CallValidation, Sequences

CONSTANTS
  DeclaredArgs, \* the ArgSpecs of the one function the device declares
  ArgMaps,    \* the argument maps the client sends
  Deadlines,  \* the deadlines it sends; none is Unset
  Malformed,  \* a deadline that is not a valid Timestamp
  ProviderErrors, \* the codes the provider's own call can answer an error with
  MaxClock,   \* bound: the clock's last value
  MaxTries    \* bound: calls the client makes for one operation

ASSUME DeclaredArgsAssumption ==
  /\ Len(DeclaredArgs) \in Nat /\ DOMAIN DeclaredArgs = 1..Len(DeclaredArgs)
  /\ \A i \in DOMAIN DeclaredArgs : IsArgSpec(DeclaredArgs[i])
ASSUME ArgMapsAssumption ==
  \A args \in ArgMaps : \A name \in DOMAIN args : IsValue(args[name])
ASSUME ClockAssumption == MaxClock \in Nat /\ MaxTries \in Nat \ {0}
ASSUME DeadlinesAssumption ==
  /\ Malformed \notin Nat /\ Unset \notin Nat /\ Malformed # Unset
  /\ Deadlines \subseteq Nat \cup {Malformed, Unset}
ASSUME NoResultAssumption == Unset \notin {"OK"} \cup ProviderErrors
(* No call_* factory of result.hpp makes DEADLINE_EXCEEDED: it is the SDK's. *)
ASSUME ErrorsAssumption == {"OK", "DEADLINE_EXCEEDED"} \cap ProviderErrors = {}

(* Which device and which function a request names. *)
Devices == {"known", "unknown", ""}
Functions == {"declared", "undeclared", "unknown_name", ""}

Request ==
  [device : Devices, function : Functions, args : ArgMaps, deadline : Deadlines]

VARIABLES
  clock,      \* system_clock::now()
  setBack,    \* the clock was set back since the request was taken
  present,    \* the provider has the device
  gone,       \* history: at some time since the request was taken it had not
  listed,     \* history: capabilities() listed the function when asked for it
  pc,         \* where handle_call is; "idle" between requests
  request,    \* the request being handled
  result,     \* what ProviderRuntime::call returned
  answer,     \* the response's status: its code and side_effects detail
  tries,      \* calls made for the client's operation
  effects,    \* times the device acted for the client's operation
  late        \* the clock passed the deadline while the provider's code ran

vars == <<clock, setBack, present, gone, listed, pc, request, result, answer,
          tries, effects, late>>

Locations == {"idle", "device", "function", "args", "deadline", "call", "running",
              "after", "answered"}

SdkCodes == {"OK", "INVALID_ARGUMENT", "NOT_FOUND", "OUT_OF_RANGE",
             "DEADLINE_EXCEEDED"}
Answers == [code : SdkCodes \cup ProviderErrors, side_effects : BOOLEAN]

TypeOK ==
  /\ clock \in 0..MaxClock /\ setBack \in BOOLEAN
  /\ present \in BOOLEAN /\ gone \in BOOLEAN /\ listed \in BOOLEAN
  /\ pc \in Locations
  /\ request \in Request \cup {Unset}
  /\ result \in {"OK", Unset} \cup ProviderErrors
  /\ answer \in Answers \cup {Unset}
  /\ tries \in 0..MaxTries /\ effects \in 0..MaxTries
  /\ late \in BOOLEAN

Init ==
  /\ clock = 0 /\ setBack = FALSE
  /\ present = TRUE /\ gone = FALSE /\ listed = FALSE
  /\ pc = "idle" /\ request = Unset /\ result = Unset /\ answer = Unset
  /\ tries = 0 /\ effects = 0
  /\ late = FALSE

-----------------------------------------------------------------------------
(* is_valid_timestamp, and compare_now_to before the call and after it. *)
HasDeadline == request # Unset /\ request.deadline # Unset
PassedBySeconds == HasDeadline /\ clock > request.deadline + 1  \* a slip: nanos ignored
DeadlinePassed == HasDeadline /\ clock > request.deadline
DeadlineReached ==
  HasDeadline /\ request.deadline # Malformed /\ clock >= request.deadline

(* The environment. *)

Tick ==
  /\ clock < MaxClock
  /\ clock' = clock + 1
  /\ UNCHANGED <<setBack, present, gone, listed, pc, request, result, answer, tries,
                 effects>>
  /\ late' = \/ late
             \/ pc \in {"call", "running"} /\ HasDeadline /\ clock' > request.deadline

(* Someone sets the wall clock back. *)
SetBack ==
  /\ \E t \in 0..(clock - 1) : clock' = t
  /\ setBack' = TRUE
  /\ UNCHANGED <<present, gone, listed, pc, request, result, answer, tries, effects,
                 late>>

(* The inventory is the provider's: it can lose the device and find it again. *)
DeviceComesOrGoes ==
  /\ present' = ~present
  /\ gone' = TRUE
  /\ UNCHANGED <<clock, setBack, listed, pc, request, result, answer, tries, effects,
                 late>>

-----------------------------------------------------------------------------
(* The client: after an answer that says that nothing was done it may try  *)
(* the same operation again with a later deadline; after any other answer  *)
(* it goes on to its next operation.                                       *)
NothingWasDone(a) == a.code = "DEADLINE_EXCEEDED" /\ ~a.side_effects

Take(r) ==
  /\ pc' = "device" /\ request' = r
  /\ result' = Unset /\ answer' = Unset
  /\ setBack' = FALSE /\ late' = FALSE
  /\ gone' = ~present /\ listed' = FALSE
  /\ UNCHANGED <<clock, present>>

NewOperation ==
  /\ pc = "idle"
  /\ \E r \in Request : Take(r)
  /\ tries' = 1 /\ effects' = 0

Retry ==
  /\ pc = "answered" /\ NothingWasDone(answer) /\ tries < MaxTries
  /\ \E d \in Deadlines : Take([request EXCEPT !.deadline = d])
  /\ tries' = tries + 1 /\ UNCHANGED effects

GiveUp ==
  /\ pc = "answered" /\ pc' = "idle"
  /\ request' = Unset /\ answer' = Unset /\ result' = Unset
  /\ tries' = 0 /\ effects' = 0 /\ setBack' = FALSE /\ late' = FALSE
  /\ gone' = ~present /\ listed' = FALSE
  /\ UNCHANGED <<clock, present>>

-----------------------------------------------------------------------------
(* handle_call. *)
handlerFrame == <<clock, setBack, present, gone, request, tries>>

Reply(code, side_effects) ==
  /\ pc' = "answered"
  /\ answer' = [code |-> code, side_effects |-> side_effects]

Refuse(code) == Reply(code, FALSE) /\ UNCHANGED <<result, effects, late>>
Continue(where) ==
  /\ pc' = where
  /\ UNCHANGED <<answer, result, effects, late>>

HasDevice == request.device = "known" /\ present

(* Plausible slips: a path that leaves run_loop's initial status, a deadline *)
(* looked at too early, a comparison off by one.                             *)
StatusForgotten ==
  /\ pc = "device" /\ UNCHANGED <<handlerFrame, listed>>
  /\ CASE request.device = "" -> Refuse("INVALID_ARGUMENT")
       [] request.device # "" /\ ~HasDevice -> Refuse("INTERNAL")
       [] HasDevice /\ request.function = "" -> Refuse("INVALID_ARGUMENT")
       [] OTHER -> Continue("function")
DeadlineBeforeArguments ==
  /\ pc = "args" /\ UNCHANGED <<handlerFrame, listed>>
  /\ IF DeadlineReached THEN Refuse("DEADLINE_EXCEEDED") ELSE Continue("deadline")
SideEffectsForgotten ==
  /\ pc = "after" /\ UNCHANGED <<handlerFrame, listed, result, effects, late>>
  /\ CASE result # "OK" -> Reply(result, FALSE)
       [] result = "OK" /\ DeadlinePassed -> Reply("DEADLINE_EXCEEDED", FALSE)
       [] OTHER -> Reply("OK", FALSE)

(* The device_id and the presence of a function. *)
CheckDevice ==
  /\ pc = "device" /\ UNCHANGED <<handlerFrame, listed>>
  /\ CASE request.device = "" -> Refuse("INVALID_ARGUMENT")
       [] request.device # "" /\ ~HasDevice -> Refuse("NOT_FOUND")
       [] HasDevice /\ request.function = "" -> Refuse("INVALID_ARGUMENT")
       [] OTHER -> Continue("function")

(* A name is resolved by the provider, which does not know those of a device *)
(* it lost; a function_id goes on unchecked.                                 *)
ResolveFunction ==
  /\ pc = "function" /\ UNCHANGED <<handlerFrame, listed>>
  /\ \/ Continue("args") /\ request.function \in {"declared", "undeclared"}
     \/ (request.function = "unknown_name" \/ ~present) /\ Refuse("NOT_FOUND")

(* A function that capabilities() does not declare is left to the provider; *)
(* of a device that it has lost, it declares none.                          *)
CheckArguments ==
  LET code == IF listed' THEN validate_call_args(DeclaredArgs, request.args) ELSE "OK" IN
  /\ pc = "args" /\ UNCHANGED handlerFrame
  /\ listed' = (request.function = "declared" /\ present)
  /\ IF code # "OK" THEN Refuse(code) ELSE Continue("deadline")

CheckDeadline ==
  /\ pc = "deadline" /\ UNCHANGED <<handlerFrame, listed>>
  /\ CASE request.deadline = Malformed -> Refuse("INVALID_ARGUMENT")
       [] DeadlineReached -> Refuse("DEADLINE_EXCEEDED")
       [] OTHER -> Continue("call")

Call ==
  /\ pc = "call" /\ pc' = "running"
  /\ UNCHANGED <<handlerFrame, listed, result, answer, effects, late>>

(* ProviderRuntime::call: it can act, act and report an error, or refuse for *)
(* a reason of its own, with any code; it acts only on a device it has and a *)
(* function it declares.                                                     *)
Return ==
  /\ pc = "running" /\ pc' = "after"
  /\ \/ /\ request.function = "declared" /\ present
        /\ result' \in {"OK"} \cup ProviderErrors /\ effects' = effects + 1
     \/ result' \in ProviderErrors /\ UNCHANGED effects
  /\ UNCHANGED <<handlerFrame, listed, answer, late>>

(* An error is passed on as it is; a success past the deadline is not. *)
AnswerCall ==
  /\ pc = "after" /\ UNCHANGED <<handlerFrame, listed, result, effects, late>>
  /\ CASE result # "OK" -> Reply(result, FALSE)
       [] result = "OK" /\ DeadlinePassed -> Reply("DEADLINE_EXCEEDED", TRUE)
       [] OTHER -> Reply("OK", FALSE)

Handler ==
  \/ CheckDevice \/ ResolveFunction \/ CheckArguments \/ CheckDeadline
  \/ Call \/ Return \/ AnswerCall

Next == Tick \/ SetBack \/ DeviceComesOrGoes \/ NewOperation \/ Retry \/ GiveUp \/ Handler

Spec == Init /\ [][Next]_vars

-----------------------------------------------------------------------------
(* Properties *)

(* docs/writing-a-provider.md: a deadline already reached, or malformed,     *)
(* "in both cases `call` does not run"; one that passes while it runs is     *)
(* reported with side_effects; "an error `call` returns is sent as it is".   *)
(* So the client can tell a call that was not made, one that succeeded in    *)
(* time or late, and what the provider said of one that failed.              *)
AnswerTellsWhatHappened ==
  pc = "answered" =>
    /\ result = Unset => effects = 0
    /\ NothingWasDone(answer) => result = Unset
    /\ answer.side_effects => result = "OK" /\ effects > 0
    /\ answer.code = "OK" => result = "OK" /\ effects > 0
    /\ result \in ProviderErrors => answer.code = result /\ ~answer.side_effects

(* A client that repeats a call only when told that nothing was done never *)
(* makes the device act twice, whatever the clock does in between.         *)
AtMostOnce == effects <= 1

(* The device acts only on arguments that its declaration allows, and what a *)
(* typed getter reads of one, if it reads it at all, is a value the          *)
(* declaration allows; unless the device was away when capabilities() was    *)
(* asked and is back when the call is made: see CallSeesMatchingArguments.   *)
ReadsAllowedValues(args) ==
  \A i \in DOMAIN DeclaredArgs :
    LET arg == DeclaredArgs[i]
        read == get_arg(arg.type, args, arg.name, Unset)
    IN  read # Unset => Allows(arg, read)

ActsOnConformingArguments ==
  effects > 0 =>
    \/ ArgsConform(DeclaredArgs, request.args) /\ ReadsAllowedValues(request.args)
    \/ ~listed /\ gone

(* The SDK's own refusals have their reason, and the time comes last:        *)
(* DEADLINE_EXCEEDED is never the answer to a request that an earlier check  *)
(* refuses, and the SDK passes to the provider every request whose fields    *)
(* are right, whose device stays and whose deadline is not reached.          *)
CheckedArguments ==
  \/ listed /\ ArgsConform(DeclaredArgs, request.args)
  \/ request.function = "undeclared" \/ gone

BadArguments == listed /\ ~ArgsConform(DeclaredArgs, request.args)

RefusalsAreJust ==
  pc = "answered" =>
    /\ answer.code = "DEADLINE_EXCEEDED" =>
         /\ request.device = "known" /\ request.function \notin {"", "unknown_name"}
         /\ HasDeadline /\ CheckedArguments
    /\ result = Unset =>
         /\ answer.code \in {"INVALID_ARGUMENT", "OUT_OF_RANGE", "NOT_FOUND",
                             "DEADLINE_EXCEEDED"}
         /\ answer.code = "OUT_OF_RANGE" => BadArguments
         /\ answer.code = "INVALID_ARGUMENT" =>
              \/ request.device = "" \/ request.function = ""
              \/ request.deadline = Malformed \/ BadArguments
         /\ answer.code = "NOT_FOUND" =>
              request.device = "unknown" \/ request.function = "unknown_name" \/ gone

(* docs/writing-a-provider.md: "If the deadline passes while `call` runs ... *)
(* the response is CODE_DEADLINE_EXCEEDED", unless the clock was set back    *)
(* meanwhile or the call failed.                                             *)
LateCallIsNotOk ==
  pc = "answered" /\ late /\ ~setBack => answer.code # "OK"

(* docs/writing-a-provider.md: "`call` sees only arguments that match the    *)
(* function's declared `ArgSpec`s: the SDK checks them first".               *)
CallSeesMatchingArguments ==
  pc = "running" /\ request.function = "declared" /\ present =>
    ArgsConform(DeclaredArgs, request.args)
=============================================================================
