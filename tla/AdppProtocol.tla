---------------------------- MODULE AdppProtocol ----------------------------
(***************************************************************************)
(* The vocabulary of one ADPP session over stdin/stdout: the frames a      *)
(* client can put on the provider's standard input and the status codes a  *)
(* response can carry.  A payload is reduced to what the serving loop      *)
(* branches on: which member of the request's oneof is set, whether a      *)
(* Hello names the provider's own protocol version, and WaitReady's        *)
(* max_wait_ms_hint.                                                       *)
(***************************************************************************)
EXTENDS Naturals, Sequences

CONSTANTS
  Ids,          \* request ids a client uses; it may repeat one
  Hints,        \* max_wait_ms_hint values of WaitReady
  Kinds,        \* the kinds of frame the client of this instance sends
  ProviderCodes \* error codes the provider's own read and call answer with

(* A Hello whose protocol_version is the provider's, and one whose is not. *)
HelloKinds == {"hello", "hello_other_version"}

(* The requests the provider answers from its inventory. *)
InventoryKinds ==
  {"wait_ready", "list_devices", "describe_device", "read_signals", "call",
   "get_health"}

(* "unset": the bytes parse, but no member of the oneof this SDK knows is set. *)
RequestKinds == HelloKinds \cup InventoryKinds \cup {"unset"}

(* Frames the loop cannot serve: a length of 0 or over the cap, and a *)
(* payload that is not a Request.                                     *)
FatalKinds == {"bad_length", "unparseable"}

Codes ==
  {"OK", "FAILED_PRECONDITION", "INVALID_ARGUMENT", "NOT_FOUND",
   "OUT_OF_RANGE", "DEADLINE_EXCEEDED", "UNAVAILABLE", "UNIMPLEMENTED",
   "RESOURCE_EXHAUSTED", "INTERNAL"}

ASSUME HintsAssumption == Hints \subseteq Nat /\ 0 \in Hints
ASSUME KindsAssumption == Kinds \subseteq RequestKinds \cup FatalKinds
ASSUME ProviderCodesAssumption == ProviderCodes \subseteq Codes

Frame == [kind : RequestKinds \cup FatalKinds, id : Ids, hint : Hints]
Response == [id : Ids, code : Codes]

(* The frames of this instance's client: only WaitReady carries a hint. *)
ClientFrames ==
  {f \in Frame : f.kind \in Kinds /\ (f.kind # "wait_ready" => f.hint = 0)}

(* initialize_budget: WaitReady's hint, 0 (no hint) for any other request. *)
InitializeBudget(request) ==
  IF request.kind = "wait_ready" THEN request.hint ELSE 0

(* Some Hello among the first n frames named the provider's version.  *)
GreetedIn(frames, n) == \E j \in 1..n : frames[j].kind = "hello"
=============================================================================
