----------------------------- MODULE ReadHandler -----------------------------
(***************************************************************************)
(* handle_describe_device and handle_read_signals (handlers.cpp) with      *)
(* apply_min_timestamp, over a provider that reads its device into a cache *)
(* on a thread of its own and grades each cached sample with quality_from  *)
(* (quality.hpp).  Polls succeed and fail, time passes and the device goes *)
(* between the handler's questions.                                        *)
(***************************************************************************)
EXTENDS Integers, SequencesExt

CONSTANTS
  Signals,        \* the signals the device declares
  Default,        \* those flagged is_default (signals.hpp)
  Unknown,        \* a signal id that it does not declare
  Nothing,        \* no sample, no min_timestamp, no request
  TicksPerSecond, \* a timestamp's nanos run from 0 to this, exclusive
  StaleAfter,     \* the provider's staleness threshold, in ticks
  MaxClock        \* bound: the last tick

ASSUME SignalsAssumption ==
  Default \subseteq Signals /\ Unknown \notin Signals /\ IsFiniteSet(Signals)
ASSUME TimeAssumption ==
  /\ TicksPerSecond \in Nat \ {0} /\ StaleAfter \in Nat /\ MaxClock \in Nat
  /\ Nothing \notin Int

VARIABLES
  clock,
  has_device,   \* the provider has the device
  last_read_ok, \* the device's most recent bus read succeeded
  samples,      \* the cache: what the last good read gave for each signal
  step, query, answer

device == <<clock, has_device, last_read_ok, samples>>
readVars == <<device, step, query, answer>>

Time == 0..MaxClock
Timestamp(t) == [seconds |-> t \div TicksPerSecond, nanos |-> t % TicksPerSecond]

(* A read of no signals is one of the default set; nothing forbids an id to *)
(* come twice or an unknown one to come after a known one.                  *)
IdLists == {<<>>} \cup {<<s>> : s \in Signals \cup {Unknown}}
             \cup {<<s, t>> : s \in Signals, t \in Signals \cup {Unknown}}
Request == [kind : {"read", "describe"}, device : {"known", "unknown", ""},
            ids : IdLists, min_timestamp : Time \cup {Nothing}]

Sample == [has_value : BOOLEAN, at : Time]
Qualities == {"OK", "STALE", "FAULT", "UNKNOWN"}
Value == [signal : Signals, quality : Qualities, at : Time \cup {Nothing}]
Codes == {"OK", "INVALID_ARGUMENT", "NOT_FOUND", "UNAVAILABLE"}

ReadTypeOK ==
  /\ clock \in Time /\ has_device \in BOOLEAN /\ last_read_ok \in BOOLEAN
  /\ samples \in [Signals -> Sample \cup {Nothing}]
  /\ step \in {"idle", "device", "signals", "read", "answered"}
  /\ query \in Request \cup {Nothing}
  /\ answer \in [code : Codes, values : Seq(Value)] \cup {Nothing}

ReadInit ==
  /\ clock = 0 /\ has_device = TRUE /\ last_read_ok = FALSE
  /\ samples = [s \in Signals |-> Nothing]
  /\ step = "idle" /\ query = Nothing /\ answer = Nothing

-----------------------------------------------------------------------------
(* The provider's thread and the world. *)

Tick ==
  /\ clock < MaxClock /\ clock' = clock + 1
  /\ UNCHANGED <<has_device, last_read_ok, samples, step, query, answer>>

(* A good read refreshes every sample, though some may come without a value *)
(* or not at all; a bad one leaves the cache as it is.                      *)
Poll ==
  /\ has_device
  /\ \/ /\ last_read_ok' = TRUE
        /\ samples' \in [Signals -> {Nothing} \cup [has_value : BOOLEAN, at : {clock}]]
     \/ last_read_ok' = FALSE /\ UNCHANGED samples
  /\ UNCHANGED <<clock, has_device, step, query, answer>>

LoseDevice ==
  /\ has_device /\ has_device' = FALSE
  /\ UNCHANGED <<clock, last_read_ok, samples, step, query, answer>>

-----------------------------------------------------------------------------
(* quality_from; a sample that is not there is the caller's UNKNOWN. *)
quality_from(sample) ==
  CASE sample = Nothing -> "UNKNOWN"
    [] sample # Nothing /\ ~last_read_ok -> "FAULT"
    [] sample # Nothing /\ last_read_ok /\ clock - sample.at > StaleAfter -> "STALE"
    [] OTHER -> IF sample.has_value THEN "OK" ELSE "UNKNOWN"

(* ProviderRuntime::read, for the ids of the request or the default set. *)
default_ids_from == SetToSeq(Default)

ReadResult(ids) ==
  [i \in DOMAIN ids |->
     LET sample == samples[ids[i]] IN
     [signal |-> ids[i], quality |-> quality_from(sample),
      at |-> IF sample = Nothing THEN Nothing ELSE sample.at]]

(* The comparison of apply_min_timestamp; a value without a timestamp has the *)
(* epoch's, which is older than any other.                                    *)
Stamp(value) == Timestamp(IF value.at = Nothing THEN 0 ELSE value.at)
OlderByNanos(value, min) ==  \* a slip: nanos compared whatever the seconds
  LET ts == Stamp(value) IN
  ts.seconds < Timestamp(min).seconds \/ ts.nanos < Timestamp(min).nanos
Older(value, min) ==
  LET ts == Stamp(value)
      min_ts == Timestamp(min)
  IN  \/ ts.seconds < min_ts.seconds
      \/ ts.seconds = min_ts.seconds /\ ts.nanos < min_ts.nanos

(* Only an OK value is downgraded. *)
apply_min_timestamp(values) ==
  [i \in DOMAIN values |->
     IF /\ query.min_timestamp # Nothing
        /\ Older(values[i], query.min_timestamp)
        /\ values[i].quality = "OK"
     THEN [values[i] EXCEPT !.quality = "STALE"] ELSE values[i]]

-----------------------------------------------------------------------------
(* The handlers, one question to the provider at a time. *)

BeginRead ==
  /\ step = "idle" /\ step' = "device"
  /\ query' \in Request
  /\ UNCHANGED <<device, answer>>

(* run_loop sends the answer and drops the request. *)
Deliver ==
  /\ step = "answered" /\ step' = "idle"
  /\ query' = Nothing /\ answer' = Nothing
  /\ UNCHANGED device

Reply(code, values) ==
  /\ step' = "answered" /\ answer' = [code |-> code, values |-> values]

(* The device_id and has_device; describe_device has nothing else to check. *)
CheckDevice ==
  /\ step = "device"
  /\ CASE query.device = "" -> Reply("INVALID_ARGUMENT", <<>>)
       [] query.device # "" /\ (query.device = "unknown" \/ ~has_device) ->
            Reply("NOT_FOUND", <<>>)
       [] OTHER -> IF query.kind = "describe" THEN Reply("OK", <<>>)
                   ELSE step' = "signals" /\ UNCHANGED answer
  /\ UNCHANGED <<device, query>>

(* Plausible slip: the search ends at the first id that is known. *)
FirstKnownIsEnough(known) ==
  query.ids = <<>> \/ \E i \in DOMAIN query.ids : query.ids[i] \in known
AllKnown(known) == \A i \in DOMAIN query.ids : query.ids[i] \in known

(* One unknown id refuses the whole read; a lost device declares nothing. *)
CheckSignals ==
  /\ step = "signals"
  /\ IF AllKnown(IF has_device THEN Signals ELSE {})
     THEN step' = "read" /\ UNCHANGED answer ELSE Reply("NOT_FOUND", <<>>)
  /\ UNCHANGED <<device, query>>

(* A provider that no longer has the device says so; else it answers from its *)
(* cache, or fails.                                                           *)
Read ==
  /\ step = "read"
  /\ IF has_device
     THEN \/ Reply("OK", apply_min_timestamp(
                           ReadResult(IF query.ids = <<>> THEN default_ids_from
                                      ELSE query.ids)))
          \/ Reply("UNAVAILABLE", <<>>)
     ELSE Reply("NOT_FOUND", <<>>)
  /\ UNCHANGED <<device, query>>

ReadNext ==
  \/ Tick \/ Poll \/ LoseDevice
  \/ BeginRead \/ CheckDevice \/ CheckSignals \/ Read \/ Deliver

ReadSpec == ReadInit /\ [][ReadNext]_readVars

-----------------------------------------------------------------------------
(* Properties *)

(* handlers.cpp, "never partial": the provider is asked only for signals that *)
(* the device declares, an answer has every signal of the request in its      *)
(* order, and a request for declared signals of a device that stays is not    *)
(* refused.                                                                   *)
ReadIsAllOrNothing ==
  /\ step = "read" => Range(query.ids) \subseteq Signals
  /\ step = "answered" /\ query.kind = "read" =>
       IF answer.code = "OK"
       THEN /\ query.ids # <<>> =>
                 [i \in DOMAIN answer.values |-> answer.values[i].signal] = query.ids
            /\ query.ids = <<>> => {v.signal : v \in Range(answer.values)} = Default
       ELSE /\ answer.values = <<>>
            /\ answer.code = "NOT_FOUND" =>
                 ~has_device \/ query.device = "unknown" \/ Unknown \in Range(query.ids)

(* quality.hpp and apply_min_timestamp together: the quality that arrives is  *)
(* OK exactly for a value of a good read that is neither too old for the      *)
(* provider nor older than the client asked for; and "an unmet freshness hint *)
(* must NOT mask" a failed read, which stays a FAULT however old it is.       *)
QualityIsHonest ==
  [][step = "read" /\ step' = "answered" /\ answer'.code = "OK" =>
       \A v \in Range(answer'.values) :
         LET sample == samples[v.signal]
             recent == /\ clock - sample.at <= StaleAfter
                       /\ query.min_timestamp # Nothing => sample.at >= query.min_timestamp
         IN  /\ v.quality = "OK" <=> /\ sample # Nothing /\ last_read_ok
                                     /\ sample.has_value /\ recent
             /\ v.quality = "FAULT" <=> sample # Nothing /\ ~last_read_ok
             /\ v.quality = "STALE" => last_read_ok /\ ~recent
    ]_readVars
=============================================================================
