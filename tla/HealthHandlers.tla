---------------------------- MODULE HealthHandlers ----------------------------
(***************************************************************************)
(* The handlers that report on the whole provider (handlers.cpp):          *)
(* handle_wait_ready, handle_list_devices and handle_get_health with       *)
(* make_provider_health and make_device_health.                            *)
(*                                                                         *)
(* One request is handled at a time, but each handler asks the provider    *)
(* several questions (readiness, list_device_ids, provider_health, then    *)
(* device_health once per device), and the provider's own threads go on in *)
(* between: start-up finishes, devices go away and come back.              *)
(***************************************************************************)
EXTENDS Integers, SequencesExt

CONSTANTS
  Configured, \* the devices of the configuration
  Synthetic,  \* devices that are live without being configured
  None        \* an override that is not engaged

ASSUME DevicesAssumption ==
  IsFiniteSet(Configured) /\ IsFiniteSet(Synthetic) /\ Configured \cap Synthetic = {}

Devices == Configured \cup Synthetic

Kinds == {"wait_ready", "list", "list_health", "get_health"}

(* How a provider fills in its ReadinessReport: the count of configured *)
(* devices, the list of failed ones, or both.                           *)
Styles == {"count", "list", "both"}

(* adpp::ProviderHealth::State, in the order of its enum values. *)
Rank == [UNSPECIFIED |-> 0, OK |-> 1, DEGRADED |-> 2, FAULT |-> 3]
States == DOMAIN Rank \ {"UNSPECIFIED"}

(* ProviderHealthExtra.  A message that comes with a state speaks of that    *)
(* state; one that comes alone is an annotation.                             *)
Extras == [state : DOMAIN Rank \cup {None}, message : BOOLEAN]

(* DeviceHealthExtra.state: adpp::DeviceHealth's other states are like FAULT. *)
DeviceStates == {"OK", "UNREACHABLE", "FAULT"}
DeviceExtras == {None, "UNSPECIFIED", "OK", "FAULT"}

(* What the last WaitReady said: see WaitReadyAnswer. *)
Verdicts == {"degraded", "sound", "early"}

ASSUME NoneAssumption == None \notin DOMAIN Rank \cup Verdicts

VARIABLES
  live,      \* the provider's inventory
  startup,   \* how far each configured device is: "pending", "ok" or "failed"
  style,     \* how this provider reports
  pc,        \* the next question to the provider; "idle" between requests
  request,   \* the request's kind
  ids,       \* the device ids in hand
  report,    \* the ReadinessReport in hand
  extra,     \* the ProviderHealthExtra in hand
  health,    \* the response's ProviderHealth
  entries,   \* the DeviceHealth entries built so far
  waited,    \* what the last WaitReady said of the start-up
  present,   \* devices known since the request was taken
  appeared   \* devices known at some time since

provider == <<live, startup, style>>
handler == <<pc, request, ids, report, extra, health, entries>>
history == <<waited, present, appeared>>
vars == <<provider, handler, history>>

Failed == {d \in Configured : startup[d] = "failed"}
Settled == \A d \in Configured : startup[d] # "pending"

(* readiness() *)
Report ==
  [count |-> IF style = "list" THEN 0 ELSE Cardinality(Configured),
   successful |-> {d \in Configured : startup[d] = "ok"},
   failed |-> IF style = "count" THEN {} ELSE Failed]
Known == live \cup Report.failed
Reports ==
  [count : {0, Cardinality(Configured)}, successful : SUBSET Configured,
   failed : SUBSET Configured]

Entry == [device : Devices, state : DeviceStates, overridden : BOOLEAN]
Health == [state : States, message : DOMAIN Rank \cup {"annotation"}]

TypeOK ==
  /\ live \in SUBSET Devices
  /\ startup \in [Configured -> {"pending", "ok", "failed"}]
  /\ style \in Styles
  /\ pc \in {"idle", "readiness", "provider_health", "list_device_ids",
             "device_health", "answered"}
  /\ request \in Kinds \cup {None}
  /\ ids \in Seq(Devices) /\ Len(ids) <= Cardinality(Devices)
  /\ report \in Reports \cup {None}
  /\ extra \in Extras \cup {None}
  /\ health \in Health \cup {None}
  /\ entries \in Seq(Entry) /\ Len(entries) <= Len(ids)
  /\ waited \in Verdicts \cup {None}
  /\ present \in SUBSET Devices /\ appeared \in SUBSET Devices

(* run_loop has called initialize, which may return with devices pending. *)
Init ==
  /\ live = Synthetic /\ startup \in [Configured -> {"pending"}]
  /\ style \in Styles
  /\ pc = "idle" /\ request = None /\ ids = <<>> /\ report = None
  /\ extra = None /\ health = None /\ entries = <<>>
  /\ waited = None /\ present = {} /\ appeared = {}

-----------------------------------------------------------------------------
(* The provider's own threads. *)

FinishStartup(d) ==
  /\ startup[d] = "pending" /\ UNCHANGED style
  /\ \/ startup' = [startup EXCEPT ![d] = "ok"] /\ live' = live \cup {d}
     \/ startup' = [startup EXCEPT ![d] = "failed"] /\ UNCHANGED live
  /\ appeared' = appeared \cup Known'
  /\ UNCHANGED <<handler, waited, present>>

(* A device comes back, or comes up after all. *)
Appear(d) ==
  /\ d \notin live /\ (d \in Configured => startup[d] # "pending")
  /\ live' = live \cup {d} /\ appeared' = appeared \cup {d}
  /\ UNCHANGED <<startup, style, handler, waited, present>>

Disappear(d) ==
  /\ d \in live /\ live' = live \ {d}
  /\ present' = IF d \in Report.failed THEN present ELSE present \ {d}
  /\ UNCHANGED <<startup, style, handler, waited, appeared>>

-----------------------------------------------------------------------------
(* A slip: a device that has come back no longer counts. *)
StillFailed(r) == Cardinality(r.failed \ live)

(* make_provider_health: a device that has not succeeded counts as failed, *)
(* also when the provider does not list it.                                *)
FailedCount(r) ==
  Max({r.count - Cardinality(r.successful), Cardinality(r.failed)})

FromStartup(r) == IF FailedCount(r) > 0 THEN "DEGRADED" ELSE "OK"

Escalates(e, state) ==
  e.state \notin {None, "UNSPECIFIED"} /\ Rank[e.state] > Rank[state]

(* A plausible slip: the message is taken whatever became of its state. *)
MessageAlways(state, e) ==
  [state |-> IF Escalates(e, state) THEN e.state ELSE state,
   message |-> CASE e.message /\ e.state # None -> e.state
                 [] e.message /\ e.state = None -> "annotation"
                 [] OTHER -> state]

(* The override can only make the state worse, and its message goes with it. *)
Merged(state, e) ==
  CASE Escalates(e, state) ->
         [state |-> e.state,
          message |-> IF e.message THEN e.state ELSE state]
    [] ~Escalates(e, state) /\ e.message /\ e.state = None ->
         [state |-> state, message |-> "annotation"]
    [] OTHER -> [state |-> state, message |-> state]

make_provider_health(r, e) == Merged(FromStartup(r), e)

(* make_device_health for one device. *)
DeviceEntry(d, r, e) ==
  [device |-> d,
   state |-> CASE e \notin {None, "UNSPECIFIED"} -> e
               [] OTHER -> IF d \in r.failed THEN "UNREACHABLE" ELSE "OK",
   overridden |-> e \notin {None, "UNSPECIFIED"}]

-----------------------------------------------------------------------------
(* The handlers.  Each step is one question and what is done with the answer. *)

Begin ==
  /\ pc \in {"idle", "answered"}
  /\ \E kind \in Kinds :
       /\ request' = kind
       /\ pc' = IF kind \in {"list", "list_health"} THEN "list_device_ids" ELSE "readiness"
  /\ ids' = <<>> /\ report' = None /\ extra' = None /\ health' = None /\ entries' = <<>>
  /\ present' = Known /\ appeared' = Known
  /\ UNCHANGED <<provider, waited>>

(* handle_wait_ready looks at the list of failures only.  What it says when *)
(* devices are pending, or go unlisted when they fail, is early.            *)
WaitReadyAnswer ==
  /\ pc' = "answered"
  /\ waited' = CASE report'.failed # {} -> "degraded"
                 [] report'.failed = {} /\ Settled /\ style # "count" -> "sound"
                 [] OTHER -> "early"
  /\ UNCHANGED <<ids, extra, health, entries>>

AskReadiness ==
  /\ pc = "readiness" /\ report' = Report
  /\ \/ request = "wait_ready" /\ WaitReadyAnswer
     \/ /\ request = "get_health" /\ pc' = "provider_health"
        /\ UNCHANGED <<ids, extra, health, entries, waited>>
     \/ /\ request = "list_health"
        /\ pc' = IF ids = <<>> THEN "answered" ELSE "device_health"
        /\ UNCHANGED <<ids, extra, health, entries, waited>>
  /\ UNCHANGED <<provider, request, present, appeared>>

AskProviderHealth ==
  /\ pc = "provider_health" /\ pc' = "list_device_ids"
  /\ extra' \in Extras /\ health' = make_provider_health(report, extra')
  /\ UNCHANGED <<provider, request, ids, report, entries, history>>

(* A slip: the failed ones are appended blindly. *)
FailedAppended ==
  IF request = "get_health" THEN SetToSeq(live) \o SetToSeq(report.failed)
  ELSE SetToSeq(live)

(* handle_get_health covers the inventory and the failed devices not in it. *)
Covered == IF request = "get_health" THEN SetToSeq(live) \o SetToSeq(report.failed \ live)
           ELSE SetToSeq(live)

AskDeviceIds ==
  /\ pc = "list_device_ids" /\ ids' = Covered
  /\ pc' = CASE request = "list" -> "answered"
             [] request = "list_health" -> "readiness"
             [] OTHER -> IF ids' = <<>> THEN "answered" ELSE "device_health"
  /\ UNCHANGED <<provider, request, report, extra, health, entries, history>>

(* Slips: the report, or the inventory, is asked for once more. *)
AskDeviceHealthAnew ==
  LET d == ids[Len(entries) + 1] IN
  /\ pc = "device_health"
  /\ \E e \in DeviceExtras : entries' = Append(entries, DeviceEntry(d, Report, e))
  /\ pc' = IF Len(entries') = Len(ids) THEN "answered" ELSE "device_health"
  /\ UNCHANGED <<provider, request, ids, report, extra, health, history>>
AskDeviceHealthOfLive ==
  LET d == ids[Len(entries) + 1] IN
  /\ pc = "device_health"
  /\ \/ /\ d \in live
        /\ \E e \in DeviceExtras : entries' = Append(entries, DeviceEntry(d, report, e))
        /\ pc' = IF Len(entries') = Len(ids) THEN "answered" ELSE "device_health"
     \/ d \notin live /\ pc' = "answered" /\ UNCHANGED entries
  /\ UNCHANGED <<provider, request, ids, report, extra, health, history>>

AskDeviceHealth ==
  LET d == ids[Len(entries) + 1] IN
  /\ pc = "device_health"
  /\ \E e \in DeviceExtras : entries' = Append(entries, DeviceEntry(d, report, e))
  /\ pc' = IF Len(entries') = Len(ids) THEN "answered" ELSE "device_health"
  /\ UNCHANGED <<provider, request, ids, report, extra, health, history>>

Provider ==
  \/ \E d \in Configured : FinishStartup(d)
  \/ \E d \in Devices : Appear(d) \/ Disappear(d)
Handler ==
  Begin \/ AskReadiness \/ AskProviderHealth \/ AskDeviceIds \/ AskDeviceHealth

Next == Provider \/ Handler

Spec == Init /\ [][Next]_vars

-----------------------------------------------------------------------------
(* Properties *)

Answered(kind) == pc = "answered" /\ request = kind
DevicesOf(list) == [i \in DOMAIN list |-> list[i].device]

(* GetHealth reports every device that is live, or listed as failed, all the *)
(* while it is answered, none that never was, and none twice.  ListDevices  *)
(* (handlers.cpp: "inventory.proto requires list_devices(include_health) to *)
(* carry a health entry for every listed device") reports those it lists,   *)
(* also one that is gone before its health is asked for.                    *)
EveryDeviceOnce ==
  /\ Answered("list_health") => DevicesOf(entries) = ids
  /\ Answered("get_health") =>
       /\ IsInjective(DevicesOf(entries))
       /\ present \subseteq Range(DevicesOf(entries))
       /\ Range(DevicesOf(entries)) \subseteq appeared

(* Within one answer the provider's state and the devices' states agree: no *)
(* device that failed to start beside a provider that is OK, and a provider *)
(* that the SDK calls degraded for its list of failures shows one of them.  *)
DevicesExplainProvider ==
  Answered("get_health") =>
    /\ \A i \in DOMAIN entries :
         entries[i].state = "UNREACHABLE" => health.state # "OK" /\ entries[i].device \in Failed
    /\ style = "list" /\ health.state # "OK" /\ extra.state \notin {"DEGRADED", "FAULT"} =>
         \E i \in DOMAIN entries :
           entries[i].device \in Failed /\ (entries[i].state # "OK" \/ entries[i].overridden)

(* runtime.hpp: the override is "escalate-only".  A provider that failed to *)
(* bring up a device is never OK, a worse state the provider engages is     *)
(* reported, and the message speaks of the state that is reported, unless   *)
(* the provider sends an annotation, or a worse state without a message.    *)
OverrideOnlyWorsens ==
  Answered("get_health") =>
    /\ report.failed # {} => health.state # "OK"
    /\ extra.state # None => Rank[health.state] >= Rank[extra.state]
    /\ health.state \in {FromStartup(report), extra.state}
    /\ \/ health.message = health.state
       \/ health.message = "annotation" /\ extra.state = None
       \/ health.state = extra.state /\ ~extra.message

(* The two answers about one start-up agree over time: once WaitReady said  *)
(* that it was degraded, no later GetHealth is OK, whatever has come back   *)
(* since; once it said that it was not, with every device settled and the   *)
(* failed ones listed, only the provider itself can say otherwise.  Where   *)
(* the two handlers look at different things (WaitReady at the list of      *)
(* failures alone, make_provider_health also at the count of devices), the  *)
(* answer "not degraded" was early and may be followed by DEGRADED, but not *)
(* without a device that is listed as failed or, for a provider that counts *)
(* its devices, has not come up: also one that is only pending.             *)
HealthAgreesWithWaitReady ==
  Answered("get_health") =>
    /\ waited = "degraded" => health.state # "OK"
    /\ waited = "sound" => health.state \in {"OK", extra.state}
    /\ waited = "early" /\ health.state \notin {"OK", extra.state} =>
         report.failed # {} \/ (style # "list" /\ report.successful # Configured)
=============================================================================
