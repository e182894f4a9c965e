-------------------------- MODULE CallHandler_proofs --------------------------
(***************************************************************************)
(* Theorems about validate_call_args and handle_call, for every declared   *)
(* function, every set of argument maps and deadlines, every clock and any *)
(* number of tries.                                                        *)
(***************************************************************************)
EXTENDS CallHandler, FiniteSetTheorems, TLAPS

(* The least element of a set of positions.  Its proof takes a minimal set *)
(* of the form {j : j <= i}, which exists since finite sets have no        *)
(* infinite descending chain.                                              *)
LEMMA MinOfPositions ==
  ASSUME NEW n \in Nat, NEW T, T \subseteq 1..n, T # {}
  PROVE  Min(T) \in T /\ \A y \in T : Min(T) <= y
<1>. DEFINE Below(a) == {b \in T : b <= a}
            Prefixes == {Below(x) : x \in T}
<1>1. IsFiniteSet(1..n)
  BY FS_Interval
<1>2. Prefixes \subseteq FiniteSubsetsOf(1..n)
  <2>. SUFFICES ASSUME NEW x \in T PROVE Below(x) \in FiniteSubsetsOf(1..n)
    OBVIOUS
  <2>1. Below(x) \subseteq 1..n
    OBVIOUS
  <2>. QED
    BY <2>1, <1>1, FS_FiniteSubsetsOfFinite
<1>3. Prefixes # {}
  OBVIOUS
<1>4. PICK m \in Prefixes :
        \A X \in Prefixes : ~(<<X, m>> \in StrictSubsetOrdering(1..n))
  BY <1>2, <1>3, FS_StrictSubsetOrderingWellFounded, WFMin
<1>5. PICK x \in T : m = Below(x)
  BY <1>4
<1>6. \A y \in T : x <= y
  <2>. SUFFICES ASSUME NEW y \in T, y < x PROVE FALSE
    OBVIOUS
  <2>1. x \in Nat /\ \A z \in T : z \in Nat
    OBVIOUS
  <2>2. x \in Below(x)
    BY <2>1
  <2>3. x \notin Below(y)
    BY <2>1
  <2>4. Below(y) \subseteq Below(x)
    <3>. SUFFICES ASSUME NEW z \in Below(y) PROVE z \in Below(x)
      OBVIOUS
    <3>1. z \in T /\ z <= y /\ z \in Nat
      BY <2>1
    <3>. QED
      BY <2>1, <3>1
  <2>5. Below(y) \in Prefixes
    OBVIOUS
  <2>6. Below(y) \subseteq 1..n /\ m \subseteq 1..n
    BY <1>5
  <2>7. <<Below(y), m>> \in StrictSubsetOrdering(1..n)
    BY <1>5, <2>2, <2>3, <2>4, <2>6 DEF StrictSubsetOrdering
  <2>. QED
    BY <2>5, <2>7, <1>4
<1>. QED
  BY <1>6 DEF Min

-----------------------------------------------------------------------------
(* validate_call_args *)

(* The three checks of a value pass exactly when it is as declared. *)
LEMMA ChecksAreConformance ==
  ASSUME NEW arg, NEW value, IsArgSpec(arg), IsValue(value)
  PROVE  (/\ check_type(arg, value)
          /\ check_bounds(arg, value) = "OK"
          /\ check_allowed(arg, value)) <=> Conforms(arg, value)
<1>1. check_type(arg, value)
        <=> (arg.type # Unset =>
               {value.tag, value.field} \in {{arg.type}, {arg.type, Unset}})
  <2>1. CASE arg.type = Unset
    BY <2>1, UnsetAssumption DEF check_type, field_for
  <2>2. CASE arg.type # Unset
    <3>1. field_for(arg.type) = arg.type
      BY <2>2 DEF field_for, IsArgSpec
    <3>. QED
      BY <2>2, <3>1 DEF check_type
  <2>. QED
    BY <2>1, <2>2
<1>. DEFINE v == Payload(arg.type, value)
<1>2. check_bounds(arg, value) = "OK"
        <=> (arg.type \in Numeric =>
               v \in Int /\ (arg.lo # Unset => arg.lo <= v)
                         /\ (arg.hi # Unset => v <= arg.hi))
  <2>1. CASE arg.type \notin Numeric
    BY <2>1 DEF check_bounds
  <2>2. CASE arg.type \in Numeric
    <3>1. v \in Int \cup {NonFinite}
      <4>1. value.field \in Numeric => value.v \in Int \cup {NonFinite}
        BY DEF IsValue, Numeric
      <4>2. CASE value.field = arg.type
        BY <2>2, <4>1, <4>2 DEF Payload, Numeric
      <4>3. CASE value.field # arg.type
        <5>1. Payload(arg.type, value) = 0
          BY <2>2, <4>3, Zenon DEF Payload
        <5>. QED
          BY <5>1
      <4>. QED
        BY <4>2, <4>3
    <3>. HIDE DEF v
    <3>2. CASE v = NonFinite
      BY <2>2, <3>2, UnsetAssumption DEF check_bounds, v
    <3>3. CASE v \in Int
      <4>1. v # NonFinite /\ Unset \notin Int
        BY <3>3, UnsetAssumption
      <4>2. check_bounds(arg, value) =
              IF \/ arg.lo # Unset /\ v < arg.lo
                 \/ arg.hi # Unset /\ v > arg.hi
              THEN "OUT_OF_RANGE" ELSE "OK"
        BY <2>2, <4>1 DEF check_bounds, v
      <4>. QED
        BY <2>2, <3>3, <4>1, <4>2 DEF IsArgSpec
    <3>. QED
      BY <3>1, <3>2, <3>3
  <2>. QED
    BY <2>1, <2>2
<1>3. check_allowed(arg, value)
        <=> (arg.allowed # {} => arg.type = "string" /\ v \in arg.allowed)
  BY DEF check_allowed
<1>4. Conforms(arg, value) <=>
        /\ arg.type # Unset => {value.tag, value.field} \in {{arg.type}, {arg.type, Unset}}
        /\ Allows(arg, v)
  BY DEF Conforms
<1>. HIDE DEF v
<1>5. Allows(arg, v) <=>
        /\ arg.type \in Numeric =>
             v \in Int /\ (arg.lo # Unset => arg.lo <= v) /\ (arg.hi # Unset => v <= arg.hi)
        /\ arg.allowed # {} => arg.type = "string" /\ v \in arg.allowed
  BY DEF Allows
<1>. QED
  BY <1>1, <1>2, <1>3, <1>4, <1>5

(* The checks that validate_call_args makes of one ArgSpec pass exactly a *)
(* conforming argument.                                                   *)
LEMMA CheckArgMeaning ==
  ASSUME NEW arg, NEW args, IsArgSpec(arg),
         \A name \in DOMAIN args : IsValue(args[name])
  PROVE  /\ CheckArg(arg, args) \in {"OK", "INVALID_ARGUMENT", "OUT_OF_RANGE"}
         /\ CheckArg(arg, args) = "OK" <=>
              /\ arg.required => arg.name \in DOMAIN args
              /\ arg.name \in DOMAIN args => Conforms(arg, args[arg.name])
<1>1. CASE arg.name \notin DOMAIN args
  BY <1>1 DEF CheckArg
<1>2. CASE arg.name \in DOMAIN args
  <2>. DEFINE value == args[arg.name]
  <2>1. IsValue(value)
    BY <1>2
  <2>2. check_bounds(arg, value) \in {"OK", "INVALID_ARGUMENT", "OUT_OF_RANGE"}
    BY DEF check_bounds
  <2>3. CheckArg(arg, args) =
          CASE ~check_type(arg, value) -> "INVALID_ARGUMENT"
            [] check_type(arg, value) /\ check_bounds(arg, value) # "OK" ->
                 check_bounds(arg, value)
            [] OTHER -> IF check_allowed(arg, value) THEN "OK" ELSE "INVALID_ARGUMENT"
    BY <1>2 DEF CheckArg
  <2>. HIDE DEF value
  <2>. QED
    BY <1>2, <2>1, <2>2, <2>3, ChecksAreConformance DEF value
<1>. QED
  BY <1>1, <1>2

(* validate_call_args lets pass exactly the arguments that the declaration *)
(* allows, and refuses the others with one of two codes.                   *)
THEOREM ValidationExact ==
  ASSUME NEW args \in ArgMaps
  PROVE  /\ validate_call_args(DeclaredArgs, args)
              \in {"OK", "INVALID_ARGUMENT", "OUT_OF_RANGE"}
         /\ validate_call_args(DeclaredArgs, args) = "OK"
              <=> ArgsConform(DeclaredArgs, args)
<1>. DEFINE declared == {DeclaredArgs[i].name : i \in DOMAIN DeclaredArgs}
            broken == {i \in DOMAIN DeclaredArgs : CheckArg(DeclaredArgs[i], args) # "OK"}
<1>1. \A i \in DOMAIN DeclaredArgs :
        /\ CheckArg(DeclaredArgs[i], args) \in {"OK", "INVALID_ARGUMENT", "OUT_OF_RANGE"}
        /\ CheckArg(DeclaredArgs[i], args) = "OK" <=>
             /\ DeclaredArgs[i].required => DeclaredArgs[i].name \in DOMAIN args
             /\ DeclaredArgs[i].name \in DOMAIN args =>
                  Conforms(DeclaredArgs[i], args[DeclaredArgs[i].name])
  BY CheckArgMeaning, DeclaredArgsAssumption, ArgMapsAssumption
<1>2. broken # {} =>
        CheckArg(DeclaredArgs[Min(broken)], args) \in {"INVALID_ARGUMENT", "OUT_OF_RANGE"}
  <2>. HAVE broken # {}
  <2>1. Min(broken) \in broken
    BY MinOfPositions, DeclaredArgsAssumption
  <2>. QED
    BY <2>1, <1>1
<1>3. validate_call_args(DeclaredArgs, args) =
        IF ~(DOMAIN args \subseteq declared) THEN "INVALID_ARGUMENT"
        ELSE IF broken # {} THEN CheckArg(DeclaredArgs[Min(broken)], args) ELSE "OK"
  BY DEF validate_call_args
<1>4. DOMAIN args \subseteq declared /\ broken = {} <=> ArgsConform(DeclaredArgs, args)
  <2>1. DOMAIN args \subseteq declared
          <=> \A name \in DOMAIN args : \E i \in DOMAIN DeclaredArgs : DeclaredArgs[i].name = name
    OBVIOUS
  <2>2. broken = {} <=> \A i \in DOMAIN DeclaredArgs : CheckArg(DeclaredArgs[i], args) = "OK"
    OBVIOUS
  <2>. HIDE DEF declared, broken
  <2>. QED
    BY <1>1, <2>1, <2>2 DEF ArgsConform
<1>. HIDE DEF declared, broken
<1>. QED
  BY <1>2, <1>3, <1>4

-----------------------------------------------------------------------------
(* handle_call *)

Handling == {"device", "function", "args", "deadline", "call", "running"}

(* Which request is in hand, and that its deadline is a time once checked. *)
RequestInv ==
  /\ pc # "idle" => request \in Request
  /\ pc = "idle" => request = Unset
  /\ pc \in {"call", "running", "after"} => request.deadline # Malformed

(* The arguments conform if capabilities() listed the function, and it did *)
(* if the function is a declared one and the device never away.            *)
ArgumentsSettled ==
  IF listed THEN request.function = "declared" /\ ArgsConform(DeclaredArgs, request.args)
            ELSE request.function # "declared" \/ gone

ArgumentsInv ==
  /\ ~present => gone
  /\ pc \in {"device", "function", "args"} => ~listed
  /\ pc \in {"deadline", "call", "running", "after"} => ArgumentsSettled

(* The device has acted only if the provider's call returned. *)
EffectsInv ==
  /\ pc \in Handling \cup {"idle"} => effects = 0 /\ result = Unset
  /\ pc = "after" => result # Unset
  /\ result = Unset => effects = 0
  /\ result = "OK" => effects = 1
  /\ effects \in {0, 1}
  /\ effects = 1 => \/ ArgsConform(DeclaredArgs, request.args)
                    \/ ~listed /\ gone

AnswerInv ==
  pc = "answered" =>
    /\ answer \in Answers
    /\ NothingWasDone(answer) => result = Unset
    /\ answer.side_effects => result = "OK"
    /\ answer.code = "OK" => result = "OK"
    /\ result \in ProviderErrors => answer.code = result /\ ~answer.side_effects

(* A deadline seen to pass stays passed until the clock is set back. *)
LateInv ==
  late /\ ~setBack =>
    /\ pc \in {"call", "running", "after", "answered"}
    /\ pc # "answered" => DeadlinePassed

IInv ==
  /\ TypeOK /\ RequestInv /\ ArgumentsInv /\ EffectsInv /\ AnswerInv /\ LateInv
  /\ LateCallIsNotOk

(* The invariant holds before the first request: nothing is in hand and the *)
(* device has not acted.                                                    *)
LEMMA CallInit == Init => IInv
<1>. SUFFICES ASSUME Init PROVE IInv
  OBVIOUS
<1>1. TypeOK
  <2>1. clock \in 0..MaxClock /\ tries \in 0..MaxTries /\ effects \in 0..MaxTries
    BY ClockAssumption DEF Init
  <2>2. /\ setBack \in BOOLEAN /\ late \in BOOLEAN
        /\ present \in BOOLEAN /\ gone \in BOOLEAN /\ listed \in BOOLEAN
        /\ pc \in Locations
        /\ request \in Request \cup {Unset} /\ answer \in Answers \cup {Unset}
        /\ result \in {"OK", Unset} \cup ProviderErrors
    BY DEF Init, Locations
  <2>. QED
    BY <2>1, <2>2 DEF TypeOK
<1>2. RequestInv /\ ArgumentsInv /\ AnswerInv
  BY DEF Init, RequestInv, ArgumentsInv, AnswerInv
<1>3. EffectsInv
  BY NoResultAssumption DEF Init, EffectsInv, Handling
<1>4. LateInv /\ LateCallIsNotOk
  BY DEF Init, LateInv, LateCallIsNotOk
<1>. QED
  BY <1>1, <1>2, <1>3, <1>4 DEF IInv

(* A deadline that is looked at after it was checked is a time. *)
LEMMA DeadlineIsTime ==
  ASSUME TypeOK, RequestInv, pc \in {"call", "running", "after"}, HasDeadline
  PROVE  request.deadline \in Nat
BY DeadlinesAssumption DEF TypeOK, RequestInv, HasDeadline, Request

(* A device or function or argument or deadline that is refused. *)
LEMMA RefuseStep ==
  ASSUME IInv, pc \in {"device", "function", "args", "deadline"},
         NEW code \in SdkCodes \ {"OK"}, Refuse(code), UNCHANGED handlerFrame,
         listed' \in BOOLEAN
  PROVE  IInv'
<1>. USE DEF Refuse, Reply, handlerFrame
<1>1. answer' \in Answers /\ answer'.code = code /\ answer'.side_effects = FALSE
  BY DEF Answers, SdkCodes
<1>2. TypeOK'
  BY <1>1 DEF IInv, TypeOK, Locations
<1>3. RequestInv' /\ ArgumentsInv'
  BY DEF IInv, RequestInv, ArgumentsInv
<1>4. EffectsInv'
  BY DEF IInv, EffectsInv, Handling
<1>5. AnswerInv'
  BY <1>1, NoResultAssumption
     DEF IInv, AnswerInv, EffectsInv, Handling, SdkCodes, NothingWasDone
<1>6. LateInv' /\ LateCallIsNotOk'
  BY <1>1 DEF IInv, LateInv, LateCallIsNotOk
<1>. QED
  BY <1>2, <1>3, <1>4, <1>5, <1>6 DEF IInv

(* A check that is passed before the arguments are known to be right. *)
LEMMA ContinueStep ==
  ASSUME IInv, pc \in {"device", "function", "args", "deadline"},
         NEW where \in {"function", "args", "deadline", "call"}, Continue(where),
         where \in {"function", "args"} => listed' = FALSE,
         where \in {"deadline", "call"} => ArgumentsSettled',
         where = "call" => request.deadline # Malformed,
         UNCHANGED handlerFrame, listed' \in BOOLEAN
  PROVE  IInv'
<1>. USE DEF Continue, handlerFrame
<1>1. TypeOK'
  BY DEF IInv, TypeOK, Locations
<1>2. RequestInv'
  BY DEF IInv, RequestInv
<1>3. ArgumentsInv'
  BY DEF IInv, ArgumentsInv
<1>4. EffectsInv'
  BY DEF IInv, EffectsInv, Handling
<1>5. AnswerInv'
  BY DEF AnswerInv
<1>6. LateInv' /\ LateCallIsNotOk'
  BY DEF IInv, LateInv, LateCallIsNotOk
<1>. QED
  BY <1>1, <1>2, <1>3, <1>4, <1>5, <1>6 DEF IInv

(* A request taken up, the client's first call or a retry. *)
LEMMA TakeStep ==
  ASSUME IInv, NEW r \in Request, Take(r),
         effects' = 0, tries' \in 0..MaxTries
  PROVE  IInv'
<1>. USE DEF Take
<1>1. TypeOK'
  <2>1. effects' \in 0..MaxTries
    BY ClockAssumption
  <2>2. /\ setBack' \in BOOLEAN /\ late' \in BOOLEAN
        /\ present' \in BOOLEAN /\ gone' \in BOOLEAN /\ listed' \in BOOLEAN
        /\ clock' \in 0..MaxClock /\ pc' \in Locations
    BY DEF IInv, TypeOK, Locations
  <2>3. /\ request' \in Request \cup {Unset} /\ answer' \in Answers \cup {Unset}
        /\ result' \in {"OK", Unset} \cup ProviderErrors
    OBVIOUS
  <2>. QED
    BY <2>1, <2>2, <2>3 DEF TypeOK
<1>2. RequestInv' /\ ArgumentsInv'
  BY DEF RequestInv, ArgumentsInv
<1>3. EffectsInv'
  BY NoResultAssumption DEF EffectsInv, Handling
<1>4. AnswerInv' /\ LateInv' /\ LateCallIsNotOk'
  BY DEF AnswerInv, LateInv, LateCallIsNotOk
<1>. QED
  BY <1>1, <1>2, <1>3, <1>4 DEF IInv

(* The environment: the clock moves on or is set back, the device comes or goes. *)
LEMMA EnvironmentStep ==
  ASSUME IInv, Tick \/ SetBack \/ DeviceComesOrGoes
  PROVE  IInv'
<1>1. /\ UNCHANGED <<pc, request, result, answer, tries, effects, listed>>
      /\ gone' = gone \/ gone' = TRUE
  BY DEF Tick, SetBack, DeviceComesOrGoes
<1>2. TypeOK'
  <2>1. /\ clock' \in 0..MaxClock /\ setBack' \in BOOLEAN
        /\ present' \in BOOLEAN /\ gone' \in BOOLEAN
    <3>1. CASE Tick
      BY <3>1, ClockAssumption DEF Tick, IInv, TypeOK
    <3>2. CASE SetBack
      BY <3>2, ClockAssumption DEF SetBack, IInv, TypeOK
    <3>3. CASE DeviceComesOrGoes
      BY <3>3 DEF DeviceComesOrGoes, IInv, TypeOK
    <3>. QED
      BY <3>1, <3>2, <3>3
  <2>2. late' \in BOOLEAN
    BY DEF Tick, SetBack, DeviceComesOrGoes, IInv, TypeOK
  <2>. QED
    BY <1>1, <2>1, <2>2 DEF IInv, TypeOK
<1>3. RequestInv'
  BY <1>1 DEF IInv, RequestInv
<1>4. ArgumentsInv'
  <2>1. gone' \/ UNCHANGED <<present, gone>>
    BY DEF Tick, SetBack, DeviceComesOrGoes
  <2>. QED
    BY <1>1, <2>1 DEF IInv, ArgumentsInv, ArgumentsSettled
<1>5. EffectsInv'
  BY <1>1 DEF IInv, EffectsInv
<1>6. AnswerInv'
  BY <1>1 DEF IInv, AnswerInv, NothingWasDone
<1>7. LateInv' /\ LateCallIsNotOk'
  <2>1. CASE Tick
    <3>1. clock \in Nat /\ clock' = clock + 1 /\ setBack' = setBack
      BY <2>1, ClockAssumption DEF Tick, IInv, TypeOK
    <3>2. HasDeadline' <=> HasDeadline
      BY <1>1 DEF HasDeadline
    <3>3. CASE late
      <4>1. pc # "answered" /\ ~setBack => DeadlinePassed'
        BY <1>1, <3>1, <3>2, <3>3, DeadlineIsTime DEF IInv, LateInv, DeadlinePassed
      <4>. QED
        BY <1>1, <3>1, <3>3, <4>1 DEF IInv, LateInv, LateCallIsNotOk
    <3>4. CASE ~late
      <4>1. late' => pc \in {"call", "running"} /\ DeadlinePassed'
        BY <1>1, <2>1, <3>2, <3>4 DEF Tick, DeadlinePassed
      <4>. QED
        BY <1>1, <4>1 DEF LateInv, LateCallIsNotOk
    <3>. QED
      BY <3>3, <3>4
  <2>2. CASE SetBack
    BY <2>2 DEF SetBack, LateInv, LateCallIsNotOk
  <2>3. CASE DeviceComesOrGoes
    BY <2>3 DEF DeviceComesOrGoes, IInv, LateInv, LateCallIsNotOk, DeadlinePassed, HasDeadline
  <2>. QED
    BY <2>1, <2>2, <2>3
<1>. QED
  BY <1>2, <1>3, <1>4, <1>5, <1>6, <1>7 DEF IInv

(* The provider's own call returns: it acted only if the function is declared, *)
(* and then the arguments were checked unless the device was away.             *)
LEMMA ReturnStep ==
  ASSUME IInv, Return
  PROVE  IInv'
<1>. USE DEF handlerFrame
<1>1. effects = 0 /\ result = Unset
  BY DEF Return, IInv, EffectsInv, Handling
<1>2. /\ result' \in {"OK"} \cup ProviderErrors
      /\ effects' \in {0, 1}
      /\ result' = "OK" => effects' = 1
      /\ effects' = 1 => request.function = "declared"
  BY <1>1, ErrorsAssumption DEF Return
<1>3. TypeOK'
  <2>1. effects' \in 0..MaxTries
    BY <1>2, ClockAssumption
  <2>. QED
    BY <1>2, <2>1 DEF Return, IInv, TypeOK, Locations
<1>4. RequestInv' /\ ArgumentsInv' /\ AnswerInv'
  BY DEF Return, IInv, RequestInv, ArgumentsInv, ArgumentsSettled, AnswerInv
<1>5. EffectsInv'
  <2>1. ArgumentsSettled /\ UNCHANGED <<request, listed, gone>>
    BY DEF Return, IInv, ArgumentsInv
  <2>2. effects' = 1 => \/ ArgsConform(DeclaredArgs, request'.args)
                        \/ ~listed' /\ gone'
    BY <1>2, <2>1 DEF ArgumentsSettled
  <2>3. result' # Unset
    BY <1>2, NoResultAssumption
  <2>4. pc' = "after"
    BY DEF Return
  <2>. QED
    BY <1>2, <2>2, <2>3, <2>4 DEF EffectsInv, Handling
<1>6. LateInv' /\ LateCallIsNotOk'
  BY DEF Return, IInv, LateInv, LateCallIsNotOk, DeadlinePassed, HasDeadline
<1>. QED
  BY <1>3, <1>4, <1>5, <1>6 DEF IInv

(* The answer to a call that was made: LateInv says that the handler sees a *)
(* deadline that passed, unless the clock was set back.                     *)
LEMMA AnswerCallStep ==
  ASSUME IInv, AnswerCall
  PROVE  IInv'
<1>. USE DEF handlerFrame
<1>1. result \in {"OK"} \cup ProviderErrors
  BY DEF AnswerCall, IInv, TypeOK, EffectsInv
<1>2. /\ pc = "after" /\ pc' = "answered"
      /\ UNCHANGED <<clock, setBack, present, gone, listed, request, tries, result,
                     effects, late>>
  BY DEF AnswerCall, Reply
<1>3. \/ result # "OK" /\ answer' = [code |-> result, side_effects |-> FALSE]
      \/ /\ result = "OK" /\ DeadlinePassed
         /\ answer' = [code |-> "DEADLINE_EXCEEDED", side_effects |-> TRUE]
      \/ /\ result = "OK" /\ ~DeadlinePassed
         /\ answer' = [code |-> "OK", side_effects |-> FALSE]
  BY DEF AnswerCall, Reply
<1>4. answer' \in Answers
  <2>1. PICK code \in SdkCodes \cup ProviderErrors, side_effects \in BOOLEAN :
          answer' = [code |-> code, side_effects |-> side_effects]
    <3>1. result \in SdkCodes \cup ProviderErrors /\ "DEADLINE_EXCEEDED" \in SdkCodes
          /\ "OK" \in SdkCodes
      BY <1>1 DEF SdkCodes
    <3>. QED
      BY <1>3, <3>1
  <2>. QED
    BY <2>1 DEF Answers
<1>5. TypeOK'
  BY <1>2, <1>4 DEF IInv, TypeOK, Locations
<1>6. RequestInv' /\ ArgumentsInv'
  BY <1>2 DEF IInv, RequestInv, ArgumentsInv, ArgumentsSettled
<1>7. EffectsInv'
  BY <1>2 DEF IInv, EffectsInv, Handling
<1>8. AnswerInv'
  BY <1>1, <1>2, <1>3, <1>4, ErrorsAssumption, NoResultAssumption
     DEF AnswerInv, NothingWasDone
<1>9. LateInv' /\ LateCallIsNotOk'
  <2>1. late /\ ~setBack => answer'.code # "OK"
    BY <1>2, <1>3 DEF IInv, LateInv
  <2>. QED
    BY <1>2, <2>1 DEF LateInv, LateCallIsNotOk
<1>. QED
  BY <1>5, <1>6, <1>7, <1>8, <1>9 DEF IInv

(* Every step keeps the invariant. *)
LEMMA CallNext == IInv /\ [Next]_vars => IInv'
<1>. SUFFICES ASSUME IInv, [Next]_vars PROVE IInv'
  OBVIOUS
<1>1. CASE Tick \/ SetBack \/ DeviceComesOrGoes
  BY <1>1, EnvironmentStep
<1>2. CASE NewOperation
  <2>1. PICK r \in Request : Take(r)
    BY <1>2 DEF NewOperation
  <2>. QED
    BY <1>2, <2>1, TakeStep, ClockAssumption DEF NewOperation
<1>3. CASE Retry
  <2>1. PICK d \in Deadlines : Take([request EXCEPT !.deadline = d])
    BY <1>3 DEF Retry
  <2>2. [request EXCEPT !.deadline = d] \in Request
    BY <1>3 DEF Retry, IInv, RequestInv, Request
  <2>3. effects' = 0
    BY <1>3 DEF Retry, IInv, AnswerInv, EffectsInv
  <2>4. tries' \in 0..MaxTries
    BY <1>3, ClockAssumption DEF Retry, IInv, TypeOK
  <2>. QED
    BY <2>1, <2>2, <2>3, <2>4, TakeStep
<1>4. CASE GiveUp
  <2>. USE DEF GiveUp
  <2>1. tries' \in 0..MaxTries /\ effects' \in 0..MaxTries
    BY <1>4, ClockAssumption
  <2>2. TypeOK'
    BY <1>4, <2>1 DEF IInv, TypeOK, Locations
  <2>3. RequestInv' /\ ArgumentsInv' /\ AnswerInv'
    BY <1>4 DEF IInv, TypeOK, RequestInv, ArgumentsInv, AnswerInv
  <2>4. EffectsInv'
    BY <1>4, NoResultAssumption DEF EffectsInv, Handling
  <2>5. LateInv' /\ LateCallIsNotOk'
    BY <1>4 DEF LateInv, LateCallIsNotOk
  <2>. QED
    BY <2>2, <2>3, <2>4, <2>5 DEF IInv
<1>5. CASE CheckDevice
  <2>1. \/ Refuse("INVALID_ARGUMENT") \/ Refuse("NOT_FOUND") \/ Continue("function")
    BY <1>5 DEF CheckDevice
  <2>2. listed' = FALSE
    BY <1>5 DEF CheckDevice, IInv, TypeOK, ArgumentsInv
  <2>. QED
    BY <1>5, <2>1, <2>2, RefuseStep, ContinueStep DEF CheckDevice, SdkCodes
<1>6. CASE ResolveFunction
  <2>1. listed' = FALSE
    BY <1>6 DEF ResolveFunction, IInv, TypeOK, ArgumentsInv
  <2>. QED
    BY <1>6, <2>1, RefuseStep, ContinueStep DEF ResolveFunction, SdkCodes
<1>7. CASE CheckArguments
  <2>1. request.args \in ArgMaps
    BY <1>7 DEF CheckArguments, IInv, RequestInv, Request
  <2>. DEFINE code == IF listed' THEN validate_call_args(DeclaredArgs, request.args)
                      ELSE "OK"
  <2>2. /\ pc = "args" /\ UNCHANGED handlerFrame
        /\ listed' = (request.function = "declared" /\ present)
        /\ IF code # "OK" THEN Refuse(code) ELSE Continue("deadline")
    BY <1>7 DEF CheckArguments
  <2>3. /\ code \in {"OK", "INVALID_ARGUMENT", "OUT_OF_RANGE"}
        /\ code = "OK" => ArgumentsSettled'
    <3>1. ~present => gone'
      BY <2>2 DEF IInv, ArgumentsInv, handlerFrame
    <3>2. code = "OK" /\ listed' => ArgsConform(DeclaredArgs, request.args)
      BY <2>1, ValidationExact
    <3>3. code \in {"OK", "INVALID_ARGUMENT", "OUT_OF_RANGE"}
      BY <2>1, ValidationExact
    <3>. HIDE DEF code
    <3>. QED
      BY <2>2, <3>1, <3>2, <3>3 DEF ArgumentsSettled, handlerFrame
  <2>. HIDE DEF code
  <2>4. CASE code = "OK"
    BY <2>2, <2>3, <2>4, ContinueStep
  <2>5. CASE code # "OK"
    BY <2>2, <2>3, <2>5, RefuseStep DEF SdkCodes
  <2>. QED
    BY <2>4, <2>5
<1>8. CASE CheckDeadline
  <2>1. \/ Refuse("INVALID_ARGUMENT") \/ Refuse("DEADLINE_EXCEEDED")
        \/ Continue("call") /\ request.deadline # Malformed
    BY <1>8 DEF CheckDeadline
  <2>2. /\ pc = "deadline" /\ UNCHANGED <<handlerFrame, listed>> /\ ArgumentsSettled
        /\ listed' \in BOOLEAN
    BY <1>8 DEF CheckDeadline, IInv, ArgumentsInv, TypeOK
  <2>3. ArgumentsSettled'
    BY <2>2 DEF ArgumentsSettled, handlerFrame
  <2>. QED
    BY <2>1, <2>2, <2>3, RefuseStep, ContinueStep DEF SdkCodes
<1>9. CASE Call
  <2>. USE DEF Call, handlerFrame
  <2>1. TypeOK' /\ RequestInv'
    BY <1>9 DEF IInv, TypeOK, RequestInv, Locations
  <2>2. ArgumentsInv' /\ EffectsInv' /\ AnswerInv'
    BY <1>9 DEF IInv, ArgumentsInv, ArgumentsSettled, EffectsInv, AnswerInv, Handling
  <2>3. LateInv' /\ LateCallIsNotOk'
    BY <1>9 DEF IInv, LateInv, LateCallIsNotOk, DeadlinePassed, HasDeadline
  <2>. QED
    BY <2>1, <2>2, <2>3 DEF IInv
<1>10. CASE Return
  BY <1>10, ReturnStep
<1>11. CASE AnswerCall
  BY <1>11, AnswerCallStep
<1>12. CASE UNCHANGED vars
  <2>. USE DEF vars
  <2>1. TypeOK' /\ RequestInv' /\ LateCallIsNotOk'
    BY <1>12 DEF IInv, TypeOK, RequestInv, LateCallIsNotOk
  <2>2. ArgumentsInv' /\ EffectsInv' /\ AnswerInv' /\ LateInv'
    BY <1>12 DEF IInv, ArgumentsInv, ArgumentsSettled, EffectsInv, AnswerInv,
                 NothingWasDone, LateInv, DeadlinePassed, HasDeadline
  <2>. QED
    BY <2>1, <2>2 DEF IInv
<1>. QED
  BY <1>1, <1>2, <1>3, <1>4, <1>5, <1>6, <1>7, <1>8, <1>9, <1>10, <1>11, <1>12
  DEF Next, Handler

-----------------------------------------------------------------------------
(* What handle_call promises its client. *)

(* The invariant holds in every reachable state of the call handler. *)
THEOREM CallInvariant == Spec => []IInv
<1>. QED
  BY CallInit, CallNext, PTL DEF Spec

(* Every variable of the call handler keeps its type. *)
THEOREM CallTypeCorrect == Spec => []TypeOK
<1>1. IInv => TypeOK
  BY DEF IInv
<1>. QED
  BY <1>1, CallInvariant, PTL

(* A client that repeats a call only when told that nothing was done never *)
(* makes the device act twice.                                             *)
THEOREM AtMostOnceCorrect == Spec => []AtMostOnce
<1>1. IInv => AtMostOnce
  BY DEF IInv, EffectsInv, AtMostOnce
<1>. QED
  BY <1>1, CallInvariant, PTL

(* The answer tells a call that was not made from one that was. *)
THEOREM AnswerCorrect == Spec => []AnswerTellsWhatHappened
<1>1. IInv => AnswerTellsWhatHappened
  BY DEF IInv, EffectsInv, AnswerInv, AnswerTellsWhatHappened
<1>. QED
  BY <1>1, CallInvariant, PTL

(* A getter asks for the type's own tag, and reads what was checked. *)
LEMMA GettersReadWhatConforms ==
  ASSUME NEW args, ArgsConform(DeclaredArgs, args)
  PROVE  ReadsAllowedValues(args)
<1>. SUFFICES ASSUME NEW i \in DOMAIN DeclaredArgs,
                     get_arg(DeclaredArgs[i].type, args, DeclaredArgs[i].name, Unset) # Unset
              PROVE  Allows(DeclaredArgs[i],
                            get_arg(DeclaredArgs[i].type, args, DeclaredArgs[i].name, Unset))
  BY DEF ReadsAllowedValues
<1>. DEFINE arg == DeclaredArgs[i]
            value == args[arg.name]
<1>1. arg.name \in DOMAIN args /\ get_arg(arg.type, args, arg.name, Unset) = Payload(arg.type, value)
  BY DEF get_arg
<1>2. Conforms(arg, value)
  BY <1>1 DEF ArgsConform
<1>3. Allows(arg, Payload(arg.type, value))
  BY <1>2 DEF Conforms
<1>. QED
  BY <1>1, <1>3

(* The device acts only on arguments that its function's declaration allows, *)
(* as the getters read them too, unless it was away when the SDK asked for   *)
(* that declaration.                                                         *)
THEOREM ActsOnConformingCorrect == Spec => []ActsOnConformingArguments
<1>1. IInv => ActsOnConformingArguments
  <2>. SUFFICES ASSUME IInv, effects > 0
                PROVE  \/ ArgsConform(DeclaredArgs, request.args) /\ ReadsAllowedValues(request.args)
                       \/ ~listed /\ gone
    BY DEF ActsOnConformingArguments
  <2>1. ArgsConform(DeclaredArgs, request.args) \/ (~listed /\ gone)
    BY DEF IInv, EffectsInv
  <2>. QED
    BY <2>1, GettersReadWhatConforms
<1>. QED
  BY <1>1, CallInvariant, PTL

(* A call whose deadline passes while it runs is not answered with OK. *)
THEOREM LateCallCorrect == Spec => []LateCallIsNotOk
<1>1. IInv => LateCallIsNotOk
  BY DEF IInv
<1>. QED
  BY <1>1, CallInvariant, PTL

-----------------------------------------------------------------------------
(* Refusals.  What the lookups have established is needed besides IInv. *)
LookupInv ==
  /\ pc \in {"function", "args", "deadline", "call", "running", "after"} =>
       request.device = "known" /\ request.function # ""
  /\ pc \in {"args", "deadline", "call", "running", "after"} =>
       request.function # "unknown_name"

(* The lookups' results are not undone by a later step. *)
LEMMA LookupNext == LookupInv /\ [Next]_vars => LookupInv'
<1>. SUFFICES ASSUME LookupInv, [Next]_vars PROVE LookupInv'
  OBVIOUS
<1>1. CASE Tick \/ SetBack \/ DeviceComesOrGoes \/ UNCHANGED vars
  BY <1>1 DEF Tick, SetBack, DeviceComesOrGoes, vars, LookupInv
<1>2. CASE NewOperation \/ Retry \/ GiveUp
  BY <1>2 DEF NewOperation, Retry, GiveUp, Take, LookupInv
<1>3. CASE CheckDevice
  <2>1. CASE pc' = "answered"
    BY <2>1 DEF LookupInv
  <2>2. CASE pc' = "function"
    <3>1. HasDevice /\ request.function # ""
      BY <1>3, <2>2 DEF CheckDevice, Refuse, Reply, Continue, HasDevice
    <3>. QED
      BY <1>3, <2>2, <3>1 DEF CheckDevice, handlerFrame, HasDevice, LookupInv
  <2>. QED
    BY <1>3, <2>1, <2>2 DEF CheckDevice, Refuse, Reply, Continue
<1>4. CASE ResolveFunction
  BY <1>4 DEF ResolveFunction, Refuse, Reply, Continue, handlerFrame, LookupInv
<1>5. CASE CheckArguments \/ CheckDeadline
  <2>1. /\ UNCHANGED request /\ pc \in {"args", "deadline"}
        /\ pc' \in {"deadline", "call", "answered"}
    BY <1>5 DEF CheckArguments, CheckDeadline, Refuse, Reply, Continue, handlerFrame
  <2>. QED
    BY <2>1 DEF LookupInv
<1>6. CASE Call \/ Return \/ AnswerCall
  <2>1. /\ UNCHANGED request /\ pc \in {"call", "running", "after"}
        /\ pc' \in {"running", "after", "answered"}
    BY <1>6 DEF Call, Return, AnswerCall, Reply, handlerFrame
  <2>. QED
    BY <2>1 DEF LookupInv
<1>. QED
  BY <1>1, <1>2, <1>3, <1>4, <1>5, <1>6 DEF Next, Handler

(* What an earlier check has found stays so: the device's being away, too. *)
LEMMA CheckedForGood ==
  ASSUME IInv, LookupInv, pc \in {"deadline", "call", "running", "after"}
  PROVE  /\ CheckedArguments
         /\ request.device = "known" /\ request.function \notin {"", "unknown_name"}
<1>1. request \in Request /\ request.function \in Functions
  BY DEF IInv, RequestInv, Request
<1>2. /\ request.device = "known" /\ request.function \notin {"", "unknown_name"}
      /\ ArgumentsSettled
  BY DEF IInv, LookupInv, ArgumentsInv
<1>. QED
  BY <1>1, <1>2 DEF ArgumentsSettled, CheckedArguments, Functions

(* A refusal names a reason that the request has when it is refused. *)
LEMMA RefusalNext ==
  IInv /\ LookupInv /\ RefusalsAreJust /\ [Next]_vars => RefusalsAreJust'
<1>. SUFFICES ASSUME IInv, LookupInv, RefusalsAreJust, [Next]_vars, pc' = "answered"
              PROVE  RefusalsAreJust'
  BY DEF RefusalsAreJust
<1>1. CASE pc = "answered"
  <2>0. Tick \/ SetBack \/ DeviceComesOrGoes \/ UNCHANGED vars
    BY <1>1 DEF Next, Handler, NewOperation, Retry, GiveUp, Take, CheckDevice,
       ResolveFunction, CheckArguments, CheckDeadline, Call, Return, AnswerCall
  <2>1. UNCHANGED <<request, answer, result, listed>> /\ (gone' = gone \/ gone' = TRUE)
    BY <2>0 DEF Tick, SetBack, DeviceComesOrGoes, vars
  <2>2. /\ CheckedArguments => CheckedArguments'
        /\ BadArguments => BadArguments'
        /\ HasDeadline => HasDeadline'
    BY <2>1 DEF CheckedArguments, BadArguments, HasDeadline
  <2>3. gone \in BOOLEAN /\ gone' \in BOOLEAN /\ (gone => gone')
    BY <2>1 DEF IInv, TypeOK
  <2>4. request' = request /\ answer' = answer /\ result' = result
    BY <2>1
  <2>5. answer'.code = "DEADLINE_EXCEEDED" =>
          /\ request'.device = "known" /\ request'.function \notin {"", "unknown_name"}
          /\ HasDeadline' /\ CheckedArguments'
    BY <1>1, <2>2, <2>4 DEF RefusalsAreJust
  <2>6. result' = Unset =>
          /\ answer'.code \in {"INVALID_ARGUMENT", "OUT_OF_RANGE", "NOT_FOUND",
                               "DEADLINE_EXCEEDED"}
          /\ answer'.code = "OUT_OF_RANGE" => BadArguments'
          /\ answer'.code = "INVALID_ARGUMENT" =>
               \/ request'.device = "" \/ request'.function = ""
               \/ request'.deadline = Malformed \/ BadArguments'
    BY <1>1, <2>2, <2>4 DEF RefusalsAreJust
  <2>7. result' = Unset =>
          (answer'.code = "NOT_FOUND" =>
             request'.device = "unknown" \/ request'.function = "unknown_name" \/ gone')
    BY <1>1, <2>3, <2>4 DEF RefusalsAreJust
  <2>. QED
    BY <2>5, <2>6, <2>7 DEF RefusalsAreJust
<1>2. CASE pc # "answered"
  <2>1. Handler
    BY <1>2 DEF Next, Tick, SetBack, DeviceComesOrGoes, NewOperation, Retry, GiveUp,
       Take, vars
  <2>2. UNCHANGED <<request, gone, present>>
    BY <2>1 DEF Handler, CheckDevice, ResolveFunction, CheckArguments, CheckDeadline,
       Call, Return, AnswerCall, handlerFrame
  <2>3. ~present => gone'
    BY <2>2 DEF IInv, ArgumentsInv
  <2>4. CASE CheckDevice
    <3>1. \/ /\ answer'.code = "INVALID_ARGUMENT"
             /\ request.device = "" \/ request.function = ""
          \/ /\ answer'.code = "NOT_FOUND"
             /\ request.device = "unknown" \/ ~present
      <4>1. request.device \in Devices
        BY <2>4 DEF CheckDevice, IInv, RequestInv, Request
      <4>2. \/ /\ Refuse("INVALID_ARGUMENT")
               /\ request.device = "" \/ request.function = ""
            \/ /\ Refuse("NOT_FOUND")
               /\ request.device # "" /\ ~(request.device = "known" /\ present)
            \/ Continue("function")
        BY <2>4 DEF CheckDevice, HasDevice
      <4>3. ~Continue("function")
        BY DEF Continue
      <4>4. \A code \in {"INVALID_ARGUMENT", "NOT_FOUND"} :
              Refuse(code) => answer'.code = code
        BY DEF Refuse, Reply
      <4>. QED
        BY <4>1, <4>2, <4>3, <4>4 DEF Devices
    <3>. QED
      BY <2>2, <2>3, <3>1 DEF RefusalsAreJust
  <2>5. CASE ResolveFunction
    <3>1. /\ answer'.code = "NOT_FOUND"
          /\ request.function = "unknown_name" \/ ~present
      BY <2>5 DEF ResolveFunction, Refuse, Reply, Continue
    <3>. QED
      BY <2>2, <2>3, <3>1 DEF RefusalsAreJust
  <2>6. CASE CheckArguments
    <3>1. request.args \in ArgMaps
      BY <2>6 DEF CheckArguments, IInv, RequestInv, Request
    <3>. DEFINE code == IF listed' THEN validate_call_args(DeclaredArgs, request.args)
                        ELSE "OK"
    <3>2. code # "OK" => BadArguments' /\ code \in {"INVALID_ARGUMENT", "OUT_OF_RANGE"}
      <4>1. CASE listed'
        BY <2>2, <3>1, <4>1, ValidationExact DEF BadArguments
      <4>2. CASE ~listed'
        BY <4>2
      <4>. QED
        BY <4>1, <4>2
    <3>3. IF code # "OK" THEN Refuse(code) ELSE Continue("deadline")
      BY <2>6 DEF CheckArguments
    <3>. HIDE DEF code
    <3>4. code # "OK" /\ answer'.code = code
      BY <3>3 DEF Refuse, Reply, Continue
    <3>. QED
      BY <3>2, <3>4 DEF RefusalsAreJust
  <2>7. CASE CheckDeadline
    <3>1. /\ request.device = "known" /\ request.function \notin {"", "unknown_name"}
          /\ CheckedArguments
      BY <2>7, CheckedForGood DEF CheckDeadline
    <3>2. UNCHANGED listed
      BY <2>7 DEF CheckDeadline
    <3>3. \/ answer'.code = "INVALID_ARGUMENT" /\ request.deadline = Malformed
          \/ answer'.code = "DEADLINE_EXCEEDED" /\ HasDeadline
      BY <2>7 DEF CheckDeadline, Refuse, Reply, Continue, DeadlineReached
    <3>. QED
      BY <2>2, <3>1, <3>2, <3>3 DEF RefusalsAreJust, CheckedArguments, HasDeadline
  <2>8. CASE AnswerCall
    <3>1. /\ result \in {"OK"} \cup ProviderErrors /\ result # Unset
          /\ UNCHANGED <<result, listed>>
      BY <2>8, NoResultAssumption DEF AnswerCall, IInv, TypeOK, EffectsInv
    <3>2. /\ request.device = "known" /\ request.function \notin {"", "unknown_name"}
          /\ CheckedArguments
      BY <2>8, CheckedForGood DEF AnswerCall
    <3>3. \/ answer'.code \in {"OK"} \cup ProviderErrors
          \/ answer'.code = "DEADLINE_EXCEEDED" /\ HasDeadline
      BY <2>8, <3>1 DEF AnswerCall, Reply, DeadlinePassed
    <3>. QED
      BY <2>2, <3>1, <3>2, <3>3, ErrorsAssumption
         DEF RefusalsAreJust, CheckedArguments, HasDeadline
  <2>. QED
    BY <2>1, <2>4, <2>5, <2>6, <2>7, <2>8 DEF Handler, Call, Return
<1>. QED
  BY <1>1, <1>2

(* The SDK's own refusal has its reason, an earlier check's reason comes     *)
(* first, and a request without one is passed to the provider in its time.   *)
THEOREM RefusalsCorrect == Spec => []RefusalsAreJust
<1>1. Init => LookupInv /\ RefusalsAreJust
  BY DEF Init, LookupInv, RefusalsAreJust
<1>. QED
  BY <1>1, LookupNext, RefusalNext, CallInvariant, PTL DEF Spec
=============================================================================
