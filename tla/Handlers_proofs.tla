---------------------------- MODULE Handlers_proofs ----------------------------
(***************************************************************************)
(* Theorems about the handlers: about handle_wait_ready,                   *)
(* handle_list_devices and handle_get_health, for every inventory, every   *)
(* start-up and any number of devices that come and go between the         *)
(* handlers' questions; and about handle_read_signals and                  *)
(* apply_min_timestamp, for every set of signals and of default signals,   *)
(* every staleness threshold and clock, and any number of ticks to a       *)
(* second.  The two are specifications of their own, ReadHandler's names   *)
(* begin with Read where both have one.                                    *)
(***************************************************************************)
EXTENDS HealthHandlers, ReadHandler, DataLemmas

(* A GetHealth that has the readiness report in hand, that has the provider's *)
(* health, and that has the list of devices it will cover.                    *)
Reported == request = "get_health" /\ pc \in {"provider_health", "list_device_ids",
                                              "device_health", "answered"}
Judged == request = "get_health" /\ pc \in {"list_device_ids", "device_health", "answered"}
Covering == request = "get_health" /\ pc \in {"device_health", "answered"}

(* What each question finds in hand. *)
PhaseInv ==
  /\ pc # "idle" => request \in Kinds
  /\ pc = "provider_health" => request = "get_health"
  /\ pc = "list_device_ids" => request # "wait_ready"
  /\ pc = "device_health" =>
       request \in {"get_health", "list_health"} /\ Len(entries) < Len(ids) /\ report \in Reports
  /\ pc \notin {"device_health", "answered"} => entries = <<>>
  /\ pc = "readiness" => request # "list" /\ (request # "list_health" => ids = <<>>)
  /\ pc = "answered" /\ request \in {"get_health", "list_health"} => Len(entries) = Len(ids)

(* A device is live only once it is done starting, and what WaitReady said of *)
(* a start-up stays true of it.                                               *)
StartupInv ==
  /\ \A d \in live \cap Configured : startup[d] # "pending"
  /\ waited = "degraded" => style # "count" /\ Failed # {}
  /\ waited = "sound" => Settled /\ Failed = {}

(* The report in hand is of an earlier moment; failures stay failures. *)
ReportInv ==
  Reported =>
    /\ report \in Reports
    /\ report.failed \subseteq Failed
    /\ style = "list" => report.count = 0
    /\ waited = "degraded" => report.failed # {}
    /\ waited = "sound" => report.successful = Configured /\ report.failed = {}

HealthInv ==
  Judged => extra \in Extras /\ health = make_provider_health(report, extra)

(* A device known all along is live, or was already failed in the report. *)
PresentInv ==
  /\ present \subseteq Known
  /\ \A d \in present \cap Configured : startup[d] # "pending"
  /\ Reported => present \cap Report.failed \subseteq report.failed

AppearedInv ==
  /\ pc # "idle" => Known \subseteq appeared
  /\ Reported => report.failed \subseteq appeared

CoverInv ==
  Covering =>
    /\ IsInjective(ids)
    /\ present \subseteq Range(ids) /\ report.failed \subseteq Range(ids)
    /\ Range(ids) \subseteq appeared

EntriesInv ==
  \A i \in 1..Len(entries) :
    /\ entries[i].device = ids[i]
    /\ entries[i].state = "UNREACHABLE" => ids[i] \in report.failed
    /\ ids[i] \in report.failed => entries[i].state # "OK" \/ entries[i].overridden

IInv ==
  /\ TypeOK /\ PhaseInv /\ StartupInv /\ ReportInv /\ HealthInv
  /\ PresentInv /\ AppearedInv /\ CoverInv /\ EntriesInv

-----------------------------------------------------------------------------
(* make_provider_health *)

(* The greater of two integers. *)
LEMMA MaxOfTwo ==
  ASSUME NEW a \in Int, NEW b \in Int
  PROVE  Max({a, b}) \in {a, b} /\ Max({a, b}) >= a /\ Max({a, b}) >= b
<1>1. \E x \in {a, b} : \A y \in {a, b} : x >= y
  BY a >= b \/ b >= a
<1>. QED
  BY <1>1 DEF Max

(* The order of the states, by which the worst one wins. *)
LEMMA RankValues ==
  /\ DOMAIN Rank = {"UNSPECIFIED", "OK", "DEGRADED", "FAULT"}
  /\ Rank["UNSPECIFIED"] = 0 /\ Rank["OK"] = 1 /\ Rank["DEGRADED"] = 2 /\ Rank["FAULT"] = 3
  /\ States = {"OK", "DEGRADED", "FAULT"}
  /\ None \notin DOMAIN Rank
BY NoneAssumption DEF Rank, States

(* The start-up alone: degraded if a failed device is listed, sound if none *)
(* is and the devices are not counted or have all succeeded.                *)
LEMMA StartupState ==
  ASSUME NEW r \in Reports
  PROVE  /\ FromStartup(r) \in {"OK", "DEGRADED"}
         /\ r.failed # {} => FromStartup(r) = "DEGRADED"
         /\ r.failed = {} /\ (r.count = 0 \/ r.successful = Configured) => FromStartup(r) = "OK"
<1>. DEFINE a == r.count - Cardinality(r.successful)
            b == Cardinality(r.failed)
<1>1. IsFiniteSet(Configured) /\ r.successful \subseteq Configured /\ r.failed \subseteq Configured
  BY DevicesAssumption DEF Reports
<1>2. IsFiniteSet(r.successful) /\ IsFiniteSet(r.failed)
  BY <1>1, FS_Subset
<1>3. /\ Cardinality(Configured) \in Nat /\ Cardinality(r.successful) \in Nat
      /\ Cardinality(r.failed) \in Nat
  BY <1>1, <1>2, FS_CardinalityType
<1>4. r.count \in {0, Cardinality(Configured)}
  BY DEF Reports
<1>5. a \in Int /\ b \in Int /\ b >= 0
  BY <1>3, <1>4
<1>6. r.failed = {} <=> b = 0
  BY <1>2, FS_EmptySet
<1>7. r.count = 0 \/ r.successful = Configured => a <= 0
  <2>1. CASE r.count = 0
    BY <2>1, <1>3
  <2>2. CASE r.successful = Configured
    BY <2>2, <1>3, <1>4
  <2>. QED
    BY <2>1, <2>2
<1>8. FailedCount(r) = Max({a, b})
  BY DEF FailedCount
<1>. HIDE DEF a, b
<1>9. Max({a, b}) \in {a, b} /\ Max({a, b}) >= a /\ Max({a, b}) >= b
  BY <1>5, MaxOfTwo
<1>. QED
  BY <1>5, <1>6, <1>7, <1>8, <1>9 DEF FromStartup

(* The merge with the override. *)
LEMMA MergedFacts ==
  ASSUME NEW state \in {"OK", "DEGRADED"}, NEW e \in Extras
  PROVE  LET m == Merged(state, e) IN
         /\ m \in Health
         /\ state = "DEGRADED" => m.state # "OK"
         /\ e.state # None => Rank[m.state] >= Rank[e.state]
         /\ m.state \in {state, e.state}
         /\ m.state # state => e.state \in {"DEGRADED", "FAULT"}
         /\ \/ m.message = m.state
            \/ m.message = "annotation" /\ e.state = None
            \/ m.state = e.state /\ ~e.message
<1>. DEFINE m == Merged(state, e)
<1>1. e.state \in {"UNSPECIFIED", "OK", "DEGRADED", "FAULT", None} /\ e.message \in BOOLEAN
  BY RankValues DEF Extras
<1>2. CASE Escalates(e, state)
  <2>1. m = [state |-> e.state, message |-> IF e.message THEN e.state ELSE state]
    BY <1>2 DEF Merged
  <2>2. e.state \in {"DEGRADED", "FAULT"} /\ (state = "DEGRADED" => e.state = "FAULT")
    BY <1>1, <1>2, RankValues DEF Escalates
  <2>3. m.state = e.state /\ (e.message => m.message = e.state)
    BY <2>1
  <2>4. m \in Health
    BY <2>1, <2>2, RankValues DEF Health
  <2>5. /\ Rank[e.state] >= Rank[e.state]
        /\ state = "DEGRADED" => e.state # "OK"
        /\ e.state # state => e.state \in {"DEGRADED", "FAULT"}
    BY <2>2, RankValues
  <2>. QED
    BY <2>3, <2>4, <2>5
<1>3. CASE ~Escalates(e, state)
  <2>1. e.state # None => Rank[state] >= Rank[e.state]
    BY <1>1, <1>3, RankValues DEF Escalates
  <2>2. \/ m = [state |-> state, message |-> "annotation"] /\ (e.state = None)
        \/ m = [state |-> state, message |-> state]
    <3>1. CASE e.message /\ e.state = None
      BY <1>3, <3>1 DEF Merged
    <3>2. CASE ~(e.message /\ e.state = None)
      BY <1>3, <3>2 DEF Merged
    <3>. QED
      BY <3>1, <3>2
  <2>3. m \in Health /\ m.state = state
    BY <2>2, RankValues DEF Health
  <2>4. m.message = m.state \/ (m.message = "annotation" /\ e.state = None)
    <3>1. CASE m = [state |-> state, message |-> "annotation"] /\ e.state = None
      BY <3>1
    <3>2. CASE m = [state |-> state, message |-> state]
      BY <3>2
    <3>. QED
      BY <2>2, <3>1, <3>2
  <2>5. state = "DEGRADED" => m.state # "OK"
    BY <2>3
  <2>. QED
    BY <2>1, <2>3, <2>4, <2>5
<1>. QED
  BY <1>2, <1>3

-----------------------------------------------------------------------------
(* The report *)

(* What a report of any style says of the start-up it was taken from. *)
LEMMA ReportFacts ==
  ASSUME TypeOK
  PROVE  /\ Report \in Reports
         /\ Report.failed = IF style = "count" THEN {} ELSE Failed
         /\ Report.failed \subseteq Failed /\ Failed \subseteq Configured
         /\ style = "list" => Report.count = 0
         /\ Settled /\ Failed = {} => Report.successful = Configured
         /\ Known \subseteq Devices
<1>1. startup \in [Configured -> {"pending", "ok", "failed"}] /\ live \subseteq Devices
  BY DEF TypeOK
<1>2. /\ Report.count \in {0, Cardinality(Configured)}
      /\ style = "list" => Report.count = 0
      /\ Report.successful = {d \in Configured : startup[d] = "ok"}
      /\ Report.failed = IF style = "count" THEN {} ELSE Failed
  BY DEF Report
<1>3. Failed \subseteq Configured
  BY DEF Failed
<1>4. Report \in Reports
  BY <1>3 DEF Report, Reports
<1>5. Settled /\ Failed = {} => \A d \in Configured : startup[d] = "ok"
  BY <1>1 DEF Settled, Failed
<1>. QED
  BY <1>1, <1>2, <1>3, <1>4, <1>5 DEF Known, Devices

(* No request is in hand at the start. *)
LEMMA HealthInit == Init => IInv
<1>. SUFFICES ASSUME Init PROVE IInv
  OBVIOUS
<1>1. TypeOK
  <2>1. Cardinality(Devices) \in Nat
    BY DevicesAssumption, FS_Union, FS_CardinalityType DEF Devices
  <2>2. ids \in Seq(Devices) /\ Len(ids) = 0 /\ entries \in Seq(Entry) /\ Len(entries) = 0
    BY DEF Init
  <2>3. startup \in [Configured -> {"pending", "ok", "failed"}]
    BY DEF Init
  <2>. QED
    BY <2>1, <2>2, <2>3 DEF Init, TypeOK, Devices
<1>2. PhaseInv /\ ReportInv /\ HealthInv /\ CoverInv
  BY DEF Init, PhaseInv, ReportInv, HealthInv, CoverInv, Reported, Judged, Covering
<1>3. StartupInv
  <2>1. live \cap Configured = {} /\ waited = None
    BY DevicesAssumption DEF Init
  <2>. QED
    BY <2>1, NoneAssumption DEF StartupInv, Verdicts
<1>4. PresentInv /\ AppearedInv
  BY DEF Init, PresentInv, AppearedInv, Reported
<1>5. EntriesInv
  BY DEF Init, EntriesInv
<1>. QED
  BY <1>1, <1>2, <1>3, <1>4, <1>5 DEF IInv

-----------------------------------------------------------------------------
(* The provider's own steps *)

(* What the provider's own steps do: a start-up result stays, devices come *)
(* and go.                                                                 *)
LEMMA ProviderFacts ==
  ASSUME IInv, Provider
  PROVE  /\ UNCHANGED <<style, handler, waited>>
         /\ startup' \in [Configured -> {"pending", "ok", "failed"}]
         /\ \A x \in Configured : startup[x] # "pending" => startup'[x] = startup[x]
         /\ live' \subseteq Devices
         /\ \A x \in live' \cap Configured : startup'[x] # "pending"
         /\ present' \subseteq present /\ present' \subseteq Known'
         /\ appeared \subseteq appeared' /\ appeared' \subseteq Devices
         /\ pc # "idle" => Known' \subseteq appeared'
<1>. USE DEF Devices
<1>1. /\ startup \in [Configured -> {"pending", "ok", "failed"}]
      /\ live \subseteq Devices /\ appeared \subseteq Devices
      /\ \A x \in live \cap Configured : startup[x] # "pending"
      /\ present \subseteq Known /\ (pc # "idle" => Known \subseteq appeared)
  BY DEF IInv, TypeOK, StartupInv, PresentInv, AppearedInv
<1>2. Known = live \cup (IF style = "count" THEN {} ELSE Failed)
  BY DEF Known, Report
<1>3. Known' = live' \cup (IF style' = "count" THEN {} ELSE Failed')
  BY DEF Known, Report
<1>4. Failed' = {x \in Configured : startup'[x] = "failed"}
  BY DEF Failed
<1>5. CASE \E d \in Configured : FinishStartup(d)
  <2>1. PICK d \in Configured : FinishStartup(d)
    BY <1>5
  <2>2. /\ startup[d] = "pending" /\ UNCHANGED <<style, handler, waited, present>>
        /\ \/ startup' = [startup EXCEPT ![d] = "ok"] /\ live' = live \cup {d}
           \/ startup' = [startup EXCEPT ![d] = "failed"] /\ live' = live
        /\ appeared' = appeared \cup Known'
    BY <2>1 DEF FinishStartup
  <2>3. /\ startup' \in [Configured -> {"pending", "ok", "failed"}]
        /\ \A x \in Configured : x # d => startup'[x] = startup[x]
        /\ startup'[d] # "pending"
    BY <2>2, <1>1
  <2>4. live \subseteq live' /\ live' \subseteq live \cup {d}
    BY <2>2
  <2>5. Failed \subseteq Failed' /\ Failed' \subseteq Configured
    BY <2>2, <2>3, <1>4 DEF Failed
  <2>6. Known \subseteq Known' /\ Known' \subseteq Devices
    BY <2>2, <2>4, <2>5, <1>1, <1>2, <1>3
  <2>7. /\ UNCHANGED <<style, handler, waited>>
        /\ startup' \in [Configured -> {"pending", "ok", "failed"}]
    BY <2>2, <2>3
  <2>8. \A x \in Configured : startup[x] # "pending" => startup'[x] = startup[x]
    BY <2>2, <2>3
  <2>9. live' \subseteq Devices /\ \A x \in live' \cap Configured : startup'[x] # "pending"
    BY <2>3, <2>4, <1>1
  <2>10. /\ present' \subseteq present /\ present' \subseteq Known'
         /\ appeared \subseteq appeared' /\ appeared' \subseteq Devices /\ Known' \subseteq appeared'
    BY <2>2, <2>6, <1>1
  <2>. QED
    BY <2>7, <2>8, <2>9, <2>10
<1>6. CASE \E d \in Devices : Appear(d)
  <2>1. PICK d \in Devices : Appear(d)
    BY <1>6
  <2>2. /\ d \in Configured => startup[d] # "pending"
        /\ live' = live \cup {d} /\ appeared' = appeared \cup {d}
        /\ UNCHANGED <<startup, style, handler, waited, present>>
    BY <2>1 DEF Appear
  <2>3. Failed' = Failed
    BY <2>2 DEF Failed
  <2>4. Known' = Known \cup {d}
    BY <2>2, <2>3, <1>2, <1>3
  <2>. QED
    BY <2>2, <2>4, <1>1
<1>7. CASE \E d \in Devices : Disappear(d)
  <2>1. PICK d \in Devices : Disappear(d)
    BY <1>7
  <2>2. /\ live' = live \ {d}
        /\ present' = IF d \in Report.failed THEN present ELSE present \ {d}
        /\ UNCHANGED <<startup, style, handler, waited, appeared>>
    BY <2>1 DEF Disappear
  <2>3. Failed' = Failed
    BY <2>2 DEF Failed
  <2>4. Report.failed = IF style = "count" THEN {} ELSE Failed
    BY DEF Report
  <2>5. Known' \subseteq Known /\ present' \subseteq Known'
    BY <2>2, <2>3, <2>4, <1>1, <1>2, <1>3
  <2>. QED
    BY <2>2, <2>5, <1>1
<1>. QED
  BY <1>5, <1>6, <1>7 DEF Provider

(* Devices come and go: what was said of the start-up, and what is in hand, *)
(* stays true.                                                              *)
LEMMA ProviderStep ==
  ASSUME IInv, Provider
  PROVE  IInv'
<1>1. /\ UNCHANGED <<style, handler, waited>>
      /\ startup' \in [Configured -> {"pending", "ok", "failed"}]
      /\ \A x \in Configured : startup[x] # "pending" => startup'[x] = startup[x]
      /\ live' \subseteq Devices
      /\ \A x \in live' \cap Configured : startup'[x] # "pending"
      /\ present' \subseteq present /\ present' \subseteq Known'
      /\ appeared \subseteq appeared' /\ appeared' \subseteq Devices
      /\ pc # "idle" => Known' \subseteq appeared'
  BY ProviderFacts
<1>2. UNCHANGED <<pc, request, ids, report, extra, health, entries>>
  BY <1>1 DEF handler
<1>3. /\ Failed \subseteq Failed'
      /\ \A x \in Failed' \ Failed : x \in Configured /\ startup[x] = "pending"
  BY <1>1 DEF Failed
<1>4. /\ Report.failed = IF style = "count" THEN {} ELSE Failed
      /\ Report'.failed = IF style' = "count" THEN {} ELSE Failed'
  BY DEF Report
<1>5. TypeOK'
  <2>1. present' \subseteq Devices
    BY <1>1 DEF IInv, TypeOK
  <2>. QED
    BY <1>1, <1>2, <2>1 DEF IInv, TypeOK
<1>6. PhaseInv'
  BY <1>2 DEF IInv, PhaseInv
<1>7. StartupInv'
  <2>1. waited = "sound" => Settled' /\ Failed' = {}
    BY <1>1, <1>3 DEF IInv, StartupInv, Settled
  <2>2. waited = "degraded" => style' # "count" /\ Failed' # {}
    BY <1>1, <1>3 DEF IInv, StartupInv
  <2>. QED
    BY <1>1, <2>1, <2>2 DEF StartupInv
<1>8. Reported' = Reported /\ Judged' = Judged /\ Covering' = Covering
  BY <1>2 DEF Reported, Judged, Covering
<1>9. ReportInv'
  BY <1>1, <1>2, <1>3, <1>8 DEF IInv, ReportInv
<1>10. HealthInv'
  BY <1>2, <1>8 DEF IInv, HealthInv
<1>11. PresentInv'
  <2>1. \A d \in present' \cap Configured : startup'[d] # "pending"
    BY <1>1 DEF IInv, PresentInv
  <2>2. Reported => present' \cap Report'.failed \subseteq report.failed
    BY <1>1, <1>3, <1>4 DEF IInv, PresentInv
  <2>. QED
    BY <1>1, <1>2, <1>8, <2>1, <2>2 DEF PresentInv
<1>12. AppearedInv'
  BY <1>1, <1>2, <1>8 DEF IInv, AppearedInv
<1>13. CoverInv'
  BY <1>1, <1>2, <1>8 DEF IInv, CoverInv
<1>14. EntriesInv'
  BY <1>2 DEF IInv, EntriesInv
<1>. QED
  BY <1>5, <1>6, <1>7, <1>9, <1>10, <1>11, <1>12, <1>13, <1>14 DEF IInv

-----------------------------------------------------------------------------
(* The handlers *)

(* The handler's steps leave the provider alone, and all that is said of it. *)
LEMMA SameProvider ==
  ASSUME UNCHANGED provider
  PROVE  UNCHANGED <<live, startup, style, Failed, Settled, Report, Known>>
BY DEF provider, Failed, Settled, Report, Known

(* Taking a request forgets the last one's answers. *)
LEMMA BeginStep == IInv /\ Begin => IInv'
<1>. SUFFICES ASSUME IInv, Begin PROVE IInv'
  OBVIOUS
<1>1. /\ request' \in Kinds
      /\ pc' = IF request' \in {"list", "list_health"} THEN "list_device_ids" ELSE "readiness"
      /\ ids' = <<>> /\ report' = None /\ extra' = None /\ health' = None /\ entries' = <<>>
      /\ present' = Known /\ appeared' = Known /\ UNCHANGED <<provider, waited>>
  BY DEF Begin
<1>2. UNCHANGED <<live, startup, style, Failed, Settled, Report, Known>>
  BY <1>1, SameProvider
<1>3. ~Reported' /\ ~Judged' /\ ~Covering'
  BY <1>1 DEF Reported, Judged, Covering
<1>4. TypeOK'
  <2>1. Cardinality(Devices) \in Nat
    BY DevicesAssumption, FS_Union, FS_CardinalityType DEF Devices
  <2>2. Known \subseteq Devices
    BY ReportFacts DEF IInv
  <2>3. ids' \in Seq(Devices) /\ Len(ids') = 0 /\ entries' \in Seq(Entry) /\ Len(entries') = 0
    BY <1>1
  <2>4. pc' \in {"readiness", "list_device_ids"}
    BY <1>1
  <2>. QED
    BY <1>1, <1>2, <2>1, <2>2, <2>3, <2>4 DEF IInv, TypeOK
<1>5. PhaseInv'
  BY <1>1 DEF PhaseInv, Kinds
<1>6. StartupInv'
  BY <1>1, <1>2 DEF IInv, StartupInv
<1>7. ReportInv' /\ HealthInv' /\ CoverInv'
  BY <1>3 DEF ReportInv, HealthInv, CoverInv
<1>8. PresentInv'
  <2>1. \A d \in Known \cap Configured : startup[d] # "pending"
    BY ReportFacts DEF IInv, StartupInv, Known, Failed
  <2>. QED
    BY <1>1, <1>2, <1>3, <2>1 DEF PresentInv
<1>9. AppearedInv'
  BY <1>1, <1>2, <1>3 DEF AppearedInv
<1>10. EntriesInv'
  BY <1>1 DEF EntriesInv
<1>. QED
  BY <1>4, <1>5, <1>6, <1>7, <1>8, <1>9, <1>10 DEF IInv

(* The report is of this very moment. *)
LEMMA AskReadinessStep == IInv /\ AskReadiness => IInv'
<1>. SUFFICES ASSUME IInv, AskReadiness PROVE IInv'
  OBVIOUS
<1>1. /\ pc = "readiness" /\ report' = Report
      /\ UNCHANGED <<provider, request, present, appeared, ids, extra, health, entries>>
  BY DEF AskReadiness, WaitReadyAnswer
<1>2. UNCHANGED <<live, startup, style, Failed, Settled, Report, Known>>
  BY <1>1, SameProvider
<1>3. /\ Report \in Reports
      /\ Report.failed = IF style = "count" THEN {} ELSE Failed
      /\ style = "list" => Report.count = 0
      /\ Settled /\ Failed = {} => Report.successful = Configured
  BY ReportFacts DEF IInv
<1>4. entries = <<>> /\ request \in Kinds \ {"list"} /\ (request # "list_health" => ids = <<>>)
  BY <1>1 DEF IInv, PhaseInv
<1>5. \/ /\ request = "wait_ready" /\ pc' = "answered"
         /\ \/ waited' = "degraded" /\ Report.failed # {}
            \/ waited' = "sound" /\ Report.failed = {} /\ Settled /\ style # "count"
            \/ waited' = "early"
      \/ request = "get_health" /\ pc' = "provider_health" /\ waited' = waited
      \/ /\ request = "list_health" /\ waited' = waited
         /\ pc' = IF ids = <<>> THEN "answered" ELSE "device_health"
  <2>1. CASE request = "wait_ready"
    <3>1. pc' = "answered"
      BY <2>1 DEF AskReadiness, WaitReadyAnswer
    <3>2. waited' = CASE report'.failed # {} -> "degraded"
                      [] report'.failed = {} /\ Settled /\ style # "count" -> "sound"
                      [] OTHER -> "early"
      BY <2>1 DEF AskReadiness, WaitReadyAnswer
    <3>3. CASE Report.failed # {}
      BY <1>1, <2>1, <3>1, <3>2, <3>3
    <3>4. CASE Report.failed = {} /\ Settled /\ style # "count"
      BY <1>1, <2>1, <3>1, <3>2, <3>4
    <3>5. CASE Report.failed = {} /\ ~(Settled /\ style # "count")
      BY <1>1, <2>1, <3>1, <3>2, <3>5
    <3>. QED
      BY <3>3, <3>4, <3>5
  <2>2. CASE request # "wait_ready"
    BY <2>2 DEF AskReadiness
  <2>. QED
    BY <2>1, <2>2
<1>6. ids \in Seq(Devices) /\ (ids # <<>> => Len(ids) > 0) /\ Len(entries) = 0
  BY <1>4 DEF IInv, TypeOK
<1>7. TypeOK'
  <2>1. pc' \in {"answered", "provider_health", "device_health"}
    BY <1>5
  <2>2. waited' \in Verdicts \cup {None}
    BY <1>5 DEF IInv, TypeOK, Verdicts
  <2>. QED
    BY <1>1, <1>2, <1>3, <2>1, <2>2 DEF IInv, TypeOK
<1>8. PhaseInv'
  BY <1>1, <1>3, <1>4, <1>5, <1>6 DEF PhaseInv, Kinds
<1>9. StartupInv'
  BY <1>2, <1>3, <1>5 DEF IInv, StartupInv
<1>10. /\ Reported' => request = "get_health" /\ pc' = "provider_health" /\ waited' = waited
       /\ ~Judged' /\ ~Covering'
  BY <1>1, <1>5 DEF Reported, Judged, Covering
<1>11. ReportInv'
  <2>. SUFFICES ASSUME Reported' PROVE ReportInv'
    BY DEF ReportInv
  <2>1. /\ waited = "degraded" => Report.failed # {}
        /\ waited = "sound" => Report.successful = Configured /\ Report.failed = {}
    BY <1>3 DEF IInv, StartupInv
  <2>2. Report.failed \subseteq Failed
    BY <1>3
  <2>. QED
    BY <1>1, <1>2, <1>3, <1>10, <2>1, <2>2 DEF ReportInv
<1>12. HealthInv' /\ CoverInv'
  BY <1>10 DEF HealthInv, CoverInv
<1>13. PresentInv'
  BY <1>1, <1>2 DEF IInv, PresentInv
<1>14. AppearedInv'
  BY <1>1, <1>2 DEF IInv, AppearedInv, Known
<1>15. EntriesInv'
  BY <1>1, <1>6 DEF EntriesInv
<1>. QED
  BY <1>7, <1>8, <1>9, <1>11, <1>12, <1>13, <1>14, <1>15 DEF IInv

(* The provider's own health can raise the start-up's state and no more. *)
LEMMA AskProviderHealthStep == IInv /\ AskProviderHealth => IInv'
<1>. SUFFICES ASSUME IInv, AskProviderHealth PROVE IInv'
  OBVIOUS
<1>1. /\ pc = "provider_health" /\ pc' = "list_device_ids"
      /\ extra' \in Extras /\ health' = make_provider_health(report, extra')
      /\ UNCHANGED <<provider, request, ids, report, entries, waited, present, appeared>>
  BY DEF AskProviderHealth, history
<1>2. UNCHANGED <<live, startup, style, Failed, Settled, Report, Known>>
  BY <1>1, SameProvider
<1>3. request = "get_health" /\ entries = <<>> /\ Reported /\ Reported' /\ Judged' /\ ~Covering'
  BY <1>1 DEF IInv, PhaseInv, Reported, Judged, Covering
<1>4. health' \in Health
  <2>1. report \in Reports
    BY <1>3 DEF IInv, ReportInv
  <2>. QED
    BY <1>1, <2>1, StartupState, MergedFacts DEF make_provider_health
<1>5. TypeOK'
  BY <1>1, <1>2, <1>4 DEF IInv, TypeOK
<1>6. PhaseInv'
  BY <1>1, <1>3 DEF PhaseInv, Kinds
<1>7. StartupInv'
  BY <1>1, <1>2 DEF IInv, StartupInv
<1>8. ReportInv'
  BY <1>1, <1>2, <1>3 DEF IInv, ReportInv
<1>9. HealthInv'
  BY <1>1 DEF HealthInv
<1>10. PresentInv' /\ AppearedInv'
  BY <1>1, <1>2, <1>3 DEF IInv, PresentInv, AppearedInv
<1>11. CoverInv'
  BY <1>3 DEF CoverInv
<1>12. EntriesInv'
  BY <1>1, <1>3 DEF EntriesInv
<1>. QED
  BY <1>5, <1>6, <1>7, <1>8, <1>9, <1>10, <1>11, <1>12 DEF IInv

(* The devices to be covered: the inventory of this moment and, for GetHealth, *)
(* the failed devices of the report that are not in it, each once.             *)
LEMMA CoveredFacts ==
  ASSUME IInv, pc = "list_device_ids"
  PROVE  /\ Covered \in Seq(Devices) /\ Len(Covered) <= Cardinality(Devices)
         /\ request = "get_health" =>
              IsInjective(Covered) /\ Range(Covered) = live \cup report.failed
<1>1. IsFiniteSet(Devices)
  BY DevicesAssumption, FS_Union DEF Devices
<1>2. live \subseteq Devices /\ IsFiniteSet(live)
  BY <1>1, FS_Subset DEF IInv, TypeOK
<1>3. CASE request # "get_health"
  <2>1. Covered = SetToSeq(live)
    BY <1>3 DEF Covered
  <2>2. SetToSeq(live) \in Seq(live) /\ Len(SetToSeq(live)) = Cardinality(live)
    BY <1>2, SetToSeqLists
  <2>3. Cardinality(live) <= Cardinality(Devices)
    BY <1>1, <1>2, FS_Subset
  <2>4. SetToSeq(live) \in Seq(Devices)
    BY <1>2, <2>2
  <2>. QED
    BY <1>3, <2>1, <2>2, <2>3, <2>4
<1>4. CASE request = "get_health"
  <2>. DEFINE rest == report.failed \ live
  <2>1. report.failed \subseteq Devices
    <3>1. Reported
      BY <1>4 DEF Reported
    <3>. QED
      BY <3>1, ReportFacts DEF IInv, ReportInv, Devices
  <2>2. rest \subseteq Devices /\ live \cap rest = {} /\ live \cup rest = live \cup report.failed
    BY <2>1
  <2>3. IsFiniteSet(rest)
    BY <1>1, <2>2, FS_Subset
  <2>4. Covered = SetToSeq(live) \o SetToSeq(rest)
    BY <1>4 DEF Covered
  <2>. HIDE DEF rest
  <2>5. /\ Covered \in Seq(live \cup rest) /\ Len(Covered) = Cardinality(live \cup rest)
        /\ IsInjective(Covered) /\ Range(Covered) = live \cup rest
    BY <1>2, <2>2, <2>3, <2>4, DisjointListed
  <2>6. live \cup rest \subseteq Devices
    BY <1>2, <2>2
  <2>7. Cardinality(live \cup rest) <= Cardinality(Devices)
    BY <1>1, <2>6, FS_Subset
  <2>8. Covered \in Seq(Devices)
    BY <2>5, <2>6
  <2>. QED
    BY <2>2, <2>5, <2>7, <2>8
<1>. QED
  BY <1>3, <1>4

(* The live devices are listed, and the report's failures that are not *)
(* live join them.                                                     *)
LEMMA AskDeviceIdsStep == IInv /\ AskDeviceIds => IInv'
<1>. SUFFICES ASSUME IInv, AskDeviceIds PROVE IInv'
  OBVIOUS
<1>1. /\ pc = "list_device_ids" /\ ids' = Covered
      /\ UNCHANGED <<provider, request, report, extra, health, entries, waited, present, appeared>>
  BY DEF AskDeviceIds, history
<1>2. UNCHANGED <<live, startup, style, Failed, Settled, Report, Known>>
  BY <1>1, SameProvider
<1>3. /\ ids' \in Seq(Devices) /\ Len(ids') <= Cardinality(Devices)
      /\ request = "get_health" =>
           IsInjective(ids') /\ Range(ids') = live \cup report.failed
  BY <1>1, CoveredFacts
<1>4. entries = <<>> /\ request \in Kinds \ {"wait_ready"}
  BY <1>1 DEF IInv, PhaseInv
<1>5. \/ request = "list" /\ pc' = "answered"
      \/ request = "list_health" /\ pc' = "readiness"
      \/ request = "get_health" /\ pc' = IF ids' = <<>> THEN "answered" ELSE "device_health"
  <2>1. CASE request = "list"
    BY <2>1 DEF AskDeviceIds
  <2>2. CASE request = "list_health"
    BY <2>2 DEF AskDeviceIds
  <2>3. CASE request = "get_health"
    BY <2>3 DEF AskDeviceIds
  <2>. QED
    BY <1>4, <2>1, <2>2, <2>3 DEF Kinds
<1>6. request = "get_health" => Reported /\ Judged
  BY <1>1 DEF Reported, Judged
<1>7. Reported' \/ Judged' \/ Covering' => request = "get_health"
  BY <1>1 DEF Reported, Judged, Covering
<1>8. TypeOK'
  <2>1. Len(entries') <= Len(ids')
    BY <1>1, <1>3, <1>4
  <2>2. pc' \in {"answered", "readiness", "device_health"}
    BY <1>5
  <2>. QED
    BY <1>1, <1>2, <1>3, <2>1, <2>2 DEF IInv, TypeOK
<1>9. PhaseInv'
  <2>1. ids' # <<>> => Len(entries') < Len(ids')
    BY <1>1, <1>3, <1>4
  <2>2. request = "get_health" => report \in Reports
    BY <1>6 DEF IInv, ReportInv
  <2>. QED
    BY <1>1, <1>4, <1>5, <2>1, <2>2 DEF PhaseInv, Kinds
<1>10. StartupInv'
  BY <1>1, <1>2 DEF IInv, StartupInv
<1>11. ReportInv' /\ HealthInv'
  BY <1>1, <1>2, <1>6, <1>7 DEF IInv, ReportInv, HealthInv
<1>12. PresentInv' /\ AppearedInv'
  BY <1>1, <1>2, <1>5, <1>6, <1>7 DEF IInv, PresentInv, AppearedInv
<1>13. CoverInv'
  <2>. SUFFICES ASSUME Covering' PROVE CoverInv'
    BY DEF CoverInv
  <2>1. request = "get_health"
    BY <1>7
  <2>2. present \subseteq live \cup report.failed
    BY <1>6, <2>1 DEF IInv, PresentInv, Known
  <2>3. live \cup report.failed \subseteq appeared
    BY <1>1, <1>6, <2>1 DEF IInv, AppearedInv, Known
  <2>. QED
    BY <1>1, <1>3, <2>1, <2>2, <2>3 DEF CoverInv
<1>14. EntriesInv'
  BY <1>1, <1>4 DEF EntriesInv
<1>. QED
  BY <1>8, <1>9, <1>10, <1>11, <1>12, <1>13, <1>14 DEF IInv

(* What the entry of one device says. *)
LEMMA EntryFacts ==
  ASSUME NEW d \in Devices, NEW r, NEW e \in DeviceExtras
  PROVE  /\ DeviceEntry(d, r, e) \in Entry
         /\ DeviceEntry(d, r, e).device = d
         /\ DeviceEntry(d, r, e).state = "UNREACHABLE" => d \in r.failed
         /\ d \in r.failed => \/ DeviceEntry(d, r, e).state # "OK"
                              \/ DeviceEntry(d, r, e).overridden
<1>1. CASE e \in {None, "UNSPECIFIED"}
  <2>1. DeviceEntry(d, r, e) = [device |-> d,
                                state |-> IF d \in r.failed THEN "UNREACHABLE" ELSE "OK",
                                overridden |-> FALSE]
    BY <1>1 DEF DeviceEntry
  <2>. QED
    BY <2>1 DEF Entry, DeviceStates
<1>2. CASE e \notin {None, "UNSPECIFIED"}
  <2>1. e \in {"OK", "FAULT"}
    BY <1>2 DEF DeviceExtras
  <2>2. DeviceEntry(d, r, e) = [device |-> d, state |-> e, overridden |-> TRUE]
    BY <1>2 DEF DeviceEntry
  <2>. QED
    BY <2>1, <2>2 DEF Entry, DeviceStates
<1>. QED
  BY <1>1, <1>2

(* One more device gets its entry. *)
LEMMA AskDeviceHealthStep == IInv /\ AskDeviceHealth => IInv'
<1>. SUFFICES ASSUME IInv, AskDeviceHealth PROVE IInv'
  OBVIOUS
<1>. DEFINE d == ids[Len(entries) + 1]
<1>1. /\ pc = "device_health"
      /\ UNCHANGED <<provider, request, ids, report, extra, health, waited, present, appeared>>
      /\ pc' = IF Len(entries') = Len(ids) THEN "answered" ELSE "device_health"
  BY DEF AskDeviceHealth, history
<1>2. PICK e \in DeviceExtras : entries' = Append(entries, DeviceEntry(d, report, e))
  BY DEF AskDeviceHealth
<1>3. UNCHANGED <<live, startup, style, Failed, Settled, Report, Known>>
  BY <1>1, SameProvider
<1>4. /\ request \in {"get_health", "list_health"} /\ Len(entries) < Len(ids)
      /\ report \in Reports
      /\ ids \in Seq(Devices) /\ entries \in Seq(Entry)
  BY <1>1 DEF IInv, PhaseInv, TypeOK
<1>5. d \in Devices
  BY <1>4
<1>. DEFINE entry == DeviceEntry(d, report, e)
<1>6. /\ entry \in Entry /\ entry.device = d
      /\ entry.state = "UNREACHABLE" => d \in report.failed
      /\ d \in report.failed => entry.state # "OK" \/ entry.overridden
  BY <1>5, EntryFacts
<1>. HIDE DEF entry
<1>7. entries' = Append(entries, entry)
  BY <1>2 DEF entry
<1>8. /\ entries' \in Seq(Entry) /\ Len(entries') = Len(entries) + 1
      /\ \A i \in 1..Len(entries) : entries'[i] = entries[i]
      /\ entries'[Len(entries) + 1] = entry
  BY <1>4, <1>6, <1>7
<1>9. TypeOK'
  <2>1. Len(entries') <= Len(ids')
    BY <1>1, <1>4, <1>8
  <2>2. pc' \in {"answered", "device_health"}
    BY <1>1
  <2>. QED
    BY <1>1, <1>3, <1>8, <2>1, <2>2 DEF IInv, TypeOK
<1>10. PhaseInv'
  <2>1. \/ pc' = "answered" /\ Len(entries') = Len(ids)
        \/ pc' = "device_health" /\ Len(entries') < Len(ids)
    BY <1>1, <1>4, <1>8
  <2>. QED
    BY <1>1, <1>4, <2>1 DEF PhaseInv, Kinds
<1>11. StartupInv'
  BY <1>1, <1>3 DEF IInv, StartupInv
<1>12. Reported' = Reported /\ Judged' = Judged /\ Covering' = Covering
  BY <1>1 DEF Reported, Judged, Covering
<1>13. ReportInv' /\ HealthInv'
  BY <1>1, <1>3, <1>12 DEF IInv, ReportInv, HealthInv
<1>14. PresentInv' /\ AppearedInv'
  BY <1>1, <1>3, <1>12 DEF IInv, PresentInv, AppearedInv
<1>15. CoverInv'
  BY <1>1, <1>12 DEF IInv, CoverInv
<1>16. EntriesInv'
  <2>. SUFFICES ASSUME NEW i \in 1..Len(entries')
                PROVE  /\ entries'[i].device = ids[i]
                       /\ entries'[i].state = "UNREACHABLE" => ids[i] \in report.failed
                       /\ ids[i] \in report.failed =>
                            entries'[i].state # "OK" \/ entries'[i].overridden
    BY <1>1 DEF EntriesInv
  <2>1. CASE i \in 1..Len(entries)
    BY <2>1, <1>8 DEF IInv, EntriesInv
  <2>2. CASE i = Len(entries) + 1
    BY <2>2, <1>6, <1>8
  <2>. QED
    BY <2>1, <2>2, <1>4, <1>8
<1>. QED
  BY <1>9, <1>10, <1>11, <1>13, <1>14, <1>15, <1>16 DEF IInv

(* The invariant of the three handlers is inductive. *)
LEMMA HealthNext == IInv /\ [Next]_vars => IInv'
<1>. SUFFICES ASSUME IInv, [Next]_vars PROVE IInv'
  OBVIOUS
<1>1. CASE UNCHANGED vars
  <2>1. UNCHANGED <<provider, pc, request, ids, report, extra, health, entries>>
        /\ UNCHANGED <<waited, present, appeared>>
    BY <1>1 DEF vars, handler, history
  <2>2. UNCHANGED <<live, startup, style, Failed, Settled, Report, Known>>
    BY <2>1, SameProvider
  <2>3. Reported' = Reported /\ Judged' = Judged /\ Covering' = Covering
    BY <2>1 DEF Reported, Judged, Covering
  <2>4. TypeOK' /\ PhaseInv' /\ StartupInv'
    BY <2>1, <2>2 DEF IInv, TypeOK, PhaseInv, StartupInv
  <2>5. ReportInv' /\ HealthInv' /\ PresentInv' /\ AppearedInv'
    BY <2>1, <2>2, <2>3 DEF IInv, ReportInv, HealthInv, PresentInv, AppearedInv
  <2>6. CoverInv' /\ EntriesInv'
    BY <2>1, <2>3 DEF IInv, CoverInv, EntriesInv
  <2>. QED
    BY <2>4, <2>5, <2>6 DEF IInv
<1>. QED
  BY <1>1, ProviderStep, BeginStep, AskReadinessStep, AskProviderHealthStep,
     AskDeviceIdsStep, AskDeviceHealthStep DEF Next, Handler

(* It holds in every state of the three handlers. *)
LEMMA HealthInvariant == Spec => []IInv
  BY HealthInit, HealthNext, PTL DEF Spec

-----------------------------------------------------------------------------
(* The properties *)

(* The variables keep their types. *)
THEOREM HealthTypeCorrect == Spec => []TypeOK
  BY HealthInvariant, PTL DEF IInv

(* GetHealth covers every device known all the while, none that never was, *)
(* none twice; ListDevices has an entry for each device it lists.          *)
THEOREM DevicesCoveredOnce == Spec => []EveryDeviceOnce
<1>1. IInv => EveryDeviceOnce
  <2>. SUFFICES ASSUME IInv, pc = "answered", request \in {"get_health", "list_health"}
                PROVE  /\ DevicesOf(entries) = ids
                       /\ request = "get_health" =>
                            /\ IsInjective(DevicesOf(entries))
                            /\ present \subseteq Range(DevicesOf(entries))
                            /\ Range(DevicesOf(entries)) \subseteq appeared
    BY DEF EveryDeviceOnce, Answered
  <2>1. /\ Len(entries) = Len(ids) /\ ids \in Seq(Devices) /\ entries \in Seq(Entry)
        /\ \A i \in 1..Len(entries) : entries[i].device = ids[i]
    BY DEF IInv, TypeOK, PhaseInv, EntriesInv
  <2>2. DevicesOf(entries) = ids
    BY <2>1 DEF DevicesOf
  <2>3. request = "get_health" => Covering
    BY DEF Covering
  <2>. QED
    BY <2>2, <2>3 DEF IInv, CoverInv
<1>. QED
  BY <1>1, HealthInvariant, PTL

(* What is known of an answered GetHealth's provider health. *)
LEMMA AnsweredHealth ==
  ASSUME IInv, Answered("get_health")
  PROVE  /\ Reported /\ Covering /\ report \in Reports /\ extra \in Extras
         /\ FromStartup(report) \in {"OK", "DEGRADED"}
         /\ health = Merged(FromStartup(report), extra)
<1>1. Reported /\ Judged /\ Covering
  BY DEF Answered, Reported, Judged, Covering
<1>2. report \in Reports /\ extra \in Extras /\ health = make_provider_health(report, extra)
  BY <1>1 DEF IInv, ReportInv, HealthInv
<1>. QED
  BY <1>1, <1>2, StartupState DEF make_provider_health

(* The provider's override only makes the state worse. *)
THEOREM OverrideCorrect == Spec => []OverrideOnlyWorsens
<1>1. IInv => OverrideOnlyWorsens
  <2>. SUFFICES ASSUME IInv, Answered("get_health") PROVE OverrideOnlyWorsens
    BY DEF OverrideOnlyWorsens
  <2>1. /\ report \in Reports /\ extra \in Extras
        /\ FromStartup(report) \in {"OK", "DEGRADED"}
        /\ health = Merged(FromStartup(report), extra)
    BY AnsweredHealth
  <2>2. report.failed # {} => FromStartup(report) = "DEGRADED"
    BY <2>1, StartupState
  <2>3. /\ FromStartup(report) = "DEGRADED" => health.state # "OK"
        /\ extra.state # None => Rank[health.state] >= Rank[extra.state]
        /\ health.state \in {FromStartup(report), extra.state}
        /\ \/ health.message = health.state
           \/ health.message = "annotation" /\ extra.state = None
           \/ health.state = extra.state /\ ~extra.message
    BY <2>1, MergedFacts
  <2>. QED
    BY <2>2, <2>3 DEF OverrideOnlyWorsens
<1>. QED
  BY <1>1, HealthInvariant, PTL

(* No device failed to start beside a provider that is OK, and a provider *)
(* degraded for its list of failures shows one of them.                   *)
THEOREM DevicesExplain == Spec => []DevicesExplainProvider
<1>1. IInv => DevicesExplainProvider
  <2>. SUFFICES ASSUME IInv, Answered("get_health") PROVE DevicesExplainProvider
    BY DEF DevicesExplainProvider
  <2>1. /\ Reported /\ Covering /\ report \in Reports /\ extra \in Extras
        /\ FromStartup(report) \in {"OK", "DEGRADED"}
        /\ health = Merged(FromStartup(report), extra)
    BY AnsweredHealth
  <2>2. /\ report.failed \subseteq Failed /\ (style = "list" => report.count = 0)
        /\ report.failed \subseteq Range(ids)
    BY <2>1 DEF IInv, ReportInv, CoverInv
  <2>3. /\ Len(entries) = Len(ids) /\ DOMAIN entries = 1..Len(entries) /\ DOMAIN ids = 1..Len(ids)
    BY DEF IInv, TypeOK, PhaseInv, Answered
  <2>4. /\ FromStartup(report) = "DEGRADED" => health.state # "OK"
        /\ health.state # FromStartup(report) => extra.state \in {"DEGRADED", "FAULT"}
    BY <2>1, MergedFacts
  <2>5. ASSUME NEW i \in DOMAIN entries, entries[i].state = "UNREACHABLE"
        PROVE  health.state # "OK" /\ entries[i].device \in Failed
    <3>1. entries[i].device = ids[i] /\ ids[i] \in report.failed
      BY <2>3, <2>5 DEF IInv, EntriesInv
    <3>2. FromStartup(report) = "DEGRADED"
      BY <2>1, <3>1, StartupState
    <3>. QED
      BY <2>2, <2>4, <3>1, <3>2
  <2>6. ASSUME style = "list", health.state # "OK", extra.state \notin {"DEGRADED", "FAULT"}
        PROVE  \E i \in DOMAIN entries :
                 entries[i].device \in Failed /\ (entries[i].state # "OK" \/ entries[i].overridden)
    <3>1. FromStartup(report) # "OK"
      BY <2>4, <2>6
    <3>2. PICK d : d \in report.failed
      BY <2>1, <2>2, <2>6, <3>1, StartupState
    <3>3. PICK i \in 1..Len(ids) : ids[i] = d
      BY <2>2, <2>3, <3>2 DEF Range
    <3>. QED
      BY <2>2, <2>3, <3>2, <3>3 DEF IInv, EntriesInv
  <2>. QED
    BY <2>5, <2>6 DEF DevicesExplainProvider
<1>. QED
  BY <1>1, HealthInvariant, PTL

(* WaitReady's and GetHealth's accounts of one start-up agree over time,    *)
(* but for the devices that WaitReady's list of failures cannot show.       *)
THEOREM HealthRemembers == Spec => []HealthAgreesWithWaitReady
<1>1. IInv => HealthAgreesWithWaitReady
  <2>. SUFFICES ASSUME IInv, Answered("get_health") PROVE HealthAgreesWithWaitReady
    BY DEF HealthAgreesWithWaitReady
  <2>1. /\ Reported /\ report \in Reports /\ extra \in Extras
        /\ FromStartup(report) \in {"OK", "DEGRADED"}
        /\ health = Merged(FromStartup(report), extra)
    BY AnsweredHealth
  <2>2. /\ waited = "degraded" => report.failed # {}
        /\ waited = "sound" => report.successful = Configured /\ report.failed = {}
        /\ style = "list" => report.count = 0
    BY <2>1 DEF IInv, ReportInv
  <2>3. /\ waited = "degraded" => FromStartup(report) = "DEGRADED"
        /\ waited = "sound" => FromStartup(report) = "OK"
        /\ FromStartup(report) = "DEGRADED" =>
             report.failed # {} \/ (style # "list" /\ report.successful # Configured)
    BY <2>1, <2>2, StartupState
  <2>4. /\ FromStartup(report) = "DEGRADED" => health.state # "OK"
        /\ health.state \in {FromStartup(report), extra.state}
    BY <2>1, MergedFacts
  <2>5. health.state \notin {"OK", extra.state} => FromStartup(report) = "DEGRADED"
    BY <2>1, <2>4
  <2>. QED
    BY <2>3, <2>4, <2>5 DEF HealthAgreesWithWaitReady
<1>. QED
  BY <1>1, HealthInvariant, PTL

-----------------------------------------------------------------------------
(* Reads, of a device in a cache. *)
(* What is known of the request in hand, once its device has been found. *)
RequestInv ==
  /\ step # "idle" => query \in Request
  /\ step \in {"signals", "read"} => query.kind = "read" /\ query.device = "known"

ReadIInv == ReadTypeOK /\ RequestInv /\ ReadIsAllOrNothing

(* An id list is a sequence of declared ids and the undeclared one. *)
LEMMA IdListIsSeq ==
  ASSUME NEW wanted \in IdLists
  PROVE  wanted \in Seq(Signals \cup {Unknown})
<1>1. \/ wanted = <<>>
      \/ \E s \in Signals \cup {Unknown} : wanted = <<s>>
      \/ \E s \in Signals, t \in Signals \cup {Unknown} : wanted = <<s, t>>
  BY DEF IdLists
<1>. DEFINE Id == Signals \cup {Unknown}
<1>2. <<>> \in Seq(Id) /\ \A s \in Id : <<s>> \in Seq(Id)
  OBVIOUS
<1>3. \A s, t \in Id : <<s, t>> \in Seq(Id)
  OBVIOUS
<1>. QED
  BY <1>1, <1>2, <1>3

(* The ids a read is for, once each of them is known: in the order of the  *)
(* request, or the default set in some order.                              *)
Ids == IF query.ids = <<>> THEN default_ids_from ELSE query.ids

(* The ids that handle_read_signals passes on: those asked for, or the *)
(* default set.                                                        *)
LEMMA IdsFacts ==
  ASSUME ReadIInv, step = "read"
  PROVE  /\ Ids \in Seq(Signals)
         /\ query.ids # <<>> => Ids = query.ids
         /\ query.ids = <<>> => Range(Ids) = Default
<1>1. query \in Request /\ Range(query.ids) \subseteq Signals
  BY DEF ReadIInv, RequestInv, ReadIsAllOrNothing
<1>2. CASE query.ids = <<>>
  <2>1. IsFiniteSet(Default)
    BY SignalsAssumption, FS_Subset
  <2>2. SetToSeq(Default) \in Seq(Default) /\ Range(SetToSeq(Default)) = Default
    BY <2>1, SetToSeqLists
  <2>. QED
    BY <1>2, <2>2, SignalsAssumption DEF Ids, default_ids_from
<1>3. CASE query.ids # <<>>
  <2>1. query.ids \in Seq(Signals \cup {Unknown})
    BY <1>1, IdListIsSeq DEF Request
  <2>2. \A i \in 1..Len(query.ids) : query.ids[i] \in Signals
    BY <1>1, <2>1 DEF Range
  <2>3. query.ids \in Seq(Signals)
    BY <2>1, <2>2
  <2>. QED
    BY <1>3, <2>3 DEF Ids
<1>. QED
  BY <1>2, <1>3

(* What the provider reads and the hint is applied to: one value for each *)
(* id, in the order of the ids.                                           *)
Values == apply_min_timestamp(ReadResult(Ids))
Graded(signal) ==
  [signal |-> signal, quality |-> quality_from(samples[signal]),
   at |-> IF samples[signal] = Nothing THEN Nothing ELSE samples[signal].at]
Hinted(value) ==
  query.min_timestamp # Nothing /\ Older(value, query.min_timestamp) /\ value.quality = "OK"

(* What is read: one value for each id, graded and then held to the *)
(* client's hint.                                                   *)
LEMMA ValuesFacts ==
  ASSUME ReadIInv, step = "read"
  PROVE  /\ Values \in Seq(Value)
         /\ DOMAIN Values = DOMAIN Ids
         /\ \A i \in DOMAIN Ids :
              /\ Ids[i] \in Signals
              /\ Values[i].signal = Ids[i]
              /\ Values[i].quality = IF Hinted(Graded(Ids[i])) THEN "STALE"
                                     ELSE quality_from(samples[Ids[i]])
<1>1. Ids \in Seq(Signals) /\ DOMAIN Ids = 1..Len(Ids) /\ Len(Ids) \in Nat
  BY IdsFacts
<1>2. \A i \in DOMAIN Ids : Ids[i] \in Signals
  BY <1>1
<1>3. \A s \in Signals : Graded(s) \in Value
  <2>. SUFFICES ASSUME NEW s \in Signals PROVE Graded(s) \in Value
    OBVIOUS
  <2>1. samples[s] \in Sample \cup {Nothing}
    BY DEF ReadIInv, ReadTypeOK
  <2>2. quality_from(samples[s]) \in Qualities
    BY DEF quality_from, Qualities
  <2>3. (IF samples[s] = Nothing THEN Nothing ELSE samples[s].at) \in Time \cup {Nothing}
    BY <2>1 DEF Sample
  <2>. QED
    BY <2>2, <2>3 DEF Graded, Value
<1>4. ReadResult(Ids) = [i \in DOMAIN Ids |-> Graded(Ids[i])]
  BY DEF ReadResult, Graded
<1>5. Values = [i \in DOMAIN Ids |->
                  IF Hinted(Graded(Ids[i])) THEN [Graded(Ids[i]) EXCEPT !.quality = "STALE"]
                  ELSE Graded(Ids[i])]
  BY <1>4 DEF Values, apply_min_timestamp, Hinted
<1>6. ASSUME NEW i \in DOMAIN Ids
      PROVE  /\ Values[i] \in Value
             /\ Values[i].signal = Ids[i]
             /\ Values[i].quality = IF Hinted(Graded(Ids[i])) THEN "STALE"
                                    ELSE quality_from(samples[Ids[i]])
  <2>1. Graded(Ids[i]) \in Value /\ Graded(Ids[i]).signal = Ids[i]
        /\ Graded(Ids[i]).quality = quality_from(samples[Ids[i]])
    BY <1>2, <1>3 DEF Graded
  <2>2. Values[i] = IF Hinted(Graded(Ids[i])) THEN [Graded(Ids[i]) EXCEPT !.quality = "STALE"]
                    ELSE Graded(Ids[i])
    BY <1>5
  <2>. QED
    BY <2>1, <2>2 DEF Value, Qualities
<1>7. DOMAIN Values = DOMAIN Ids
  BY <1>5
<1>8. Values \in Seq(Value)
  <2>1. Values \in [1..Len(Ids) -> Value]
    BY <1>1, <1>5, <1>6
  <2>. QED
    BY <1>1, <2>1
<1>. QED
  BY <1>2, <1>6, <1>7, <1>8

-----------------------------------------------------------------------------
(* The invariant *)

(* No request is in hand at the start. *)
LEMMA ReadInitial == ReadInit => ReadIInv
<1>. SUFFICES ASSUME ReadInit PROVE ReadIInv
  OBVIOUS
<1>1. ReadTypeOK
  <2>1. clock \in Time
    BY TimeAssumption DEF ReadInit, Time
  <2>2. samples \in [Signals -> Sample \cup {Nothing}]
    BY DEF ReadInit
  <2>. QED
    BY <2>1, <2>2 DEF ReadInit, ReadTypeOK
<1>. QED
  BY <1>1 DEF ReadInit, ReadIInv, RequestInv, ReadIsAllOrNothing

(* The device and its reader, while a request is in hand or not. *)
LEMMA DeviceStep ==
  ASSUME ReadIInv, Tick \/ Poll \/ LoseDevice
  PROVE  ReadIInv'
<1>1. UNCHANGED <<step, query, answer>> /\ (has_device' => has_device)
  BY DEF Tick, Poll, LoseDevice, ReadIInv, ReadTypeOK
<1>2. ReadTypeOK'
  <2>1. clock' \in Time
    BY TimeAssumption DEF Tick, Poll, LoseDevice, ReadIInv, ReadTypeOK, Time
  <2>2. has_device' \in BOOLEAN /\ last_read_ok' \in BOOLEAN
    BY DEF Tick, Poll, LoseDevice, ReadIInv, ReadTypeOK
  <2>3. samples' \in [Signals -> Sample \cup {Nothing}]
    <3>1. {Nothing} \cup [has_value : BOOLEAN, at : {clock}] \subseteq Sample \cup {Nothing}
      BY DEF ReadIInv, ReadTypeOK, Sample
    <3>2. \/ UNCHANGED samples
          \/ samples' \in [Signals -> {Nothing} \cup [has_value : BOOLEAN, at : {clock}]]
      BY DEF Tick, Poll, LoseDevice
    <3>. QED
      BY <3>1, <3>2 DEF ReadIInv, ReadTypeOK
  <2>. QED
    BY <1>1, <2>1, <2>2, <2>3 DEF ReadIInv, ReadTypeOK
<1>3. RequestInv'
  BY <1>1 DEF ReadIInv, RequestInv
<1>4. ReadIsAllOrNothing'
  BY <1>1 DEF ReadIInv, ReadIsAllOrNothing
<1>. QED
  BY <1>2, <1>3, <1>4 DEF ReadIInv

(* An error answers the request with no values at all. *)
LEMMA RefuseStep ==
  ASSUME ReadIInv, step # "idle", NEW code \in Codes, Reply(code, <<>>),
         query.kind = "read" => code # "OK",
         query.kind = "read" /\ code = "NOT_FOUND" =>
           ~has_device \/ query.device = "unknown" \/ Unknown \in Range(query.ids),
         UNCHANGED <<device, query>>
  PROVE  ReadIInv'
<1>1. answer' = [code |-> code, values |-> <<>>] /\ step' = "answered"
  BY DEF Reply
<1>2. ReadTypeOK'
  BY <1>1 DEF ReadIInv, ReadTypeOK, device
<1>3. RequestInv'
  BY <1>1 DEF ReadIInv, RequestInv
<1>4. ReadIsAllOrNothing'
  BY <1>1 DEF ReadIsAllOrNothing, device
<1>. QED
  BY <1>2, <1>3, <1>4 DEF ReadIInv

(* A device that is gone is answered NOT_FOUND before anything is read. *)
LEMMA CheckDeviceStep == ReadIInv /\ CheckDevice => ReadIInv'
<1>. SUFFICES ASSUME ReadIInv, CheckDevice PROVE ReadIInv'
  OBVIOUS
<1>1. step = "device" /\ query \in Request /\ UNCHANGED <<device, query>>
  BY DEF CheckDevice, ReadIInv, RequestInv
<1>2. \/ Reply("INVALID_ARGUMENT", <<>>)
      \/ Reply("NOT_FOUND", <<>>) /\ (query.device = "unknown" \/ ~has_device)
      \/ Reply("OK", <<>>) /\ query.kind = "describe"
      \/ /\ step' = "signals" /\ UNCHANGED answer
         /\ query.kind # "describe" /\ query.device \notin {"", "unknown"}
  <2>1. CASE query.device = ""
    BY <2>1 DEF CheckDevice
  <2>2. CASE query.device # "" /\ (query.device = "unknown" \/ ~has_device)
    BY <2>2 DEF CheckDevice
  <2>3. CASE query.device # "" /\ ~(query.device = "unknown" \/ ~has_device)
    BY <2>3 DEF CheckDevice
  <2>. QED
    BY <2>1, <2>2, <2>3
<1>3. CASE Reply("INVALID_ARGUMENT", <<>>)
  BY <1>1, <1>3, RefuseStep DEF Codes
<1>4. CASE Reply("NOT_FOUND", <<>>) /\ (query.device = "unknown" \/ ~has_device)
  BY <1>1, <1>4, RefuseStep DEF Codes
<1>5. CASE Reply("OK", <<>>) /\ query.kind = "describe"
  BY <1>1, <1>5, RefuseStep DEF Codes
<1>6. CASE /\ step' = "signals" /\ UNCHANGED answer
           /\ query.kind # "describe" /\ query.device \notin {"", "unknown"}
  <2>1. query.kind = "read" /\ query.device = "known"
    BY <1>1, <1>6 DEF Request
  <2>. QED
    BY <1>1, <1>6, <2>1 DEF ReadIInv, ReadTypeOK, RequestInv, ReadIsAllOrNothing, device
<1>. QED
  BY <1>2, <1>3, <1>4, <1>5, <1>6

(* Only declared signals are read, or the request is refused whole. *)
LEMMA CheckSignalsStep == ReadIInv /\ CheckSignals => ReadIInv'
<1>. SUFFICES ASSUME ReadIInv, CheckSignals PROVE ReadIInv'
  OBVIOUS
<1>. DEFINE known == IF has_device THEN Signals ELSE {}
<1>1. /\ step = "signals" /\ query \in Request /\ query.kind = "read"
      /\ query.device = "known" /\ UNCHANGED <<device, query>>
  BY DEF CheckSignals, ReadIInv, RequestInv
<1>2. query.ids \in Seq(Signals \cup {Unknown})
  BY <1>1, IdListIsSeq DEF Request
<1>3. CASE AllKnown(known)
  <2>1. step' = "read" /\ UNCHANGED answer
    BY <1>3 DEF CheckSignals
  <2>2. Range(query.ids) \subseteq Signals
    BY <1>3 DEF AllKnown, Range
  <2>. QED
    BY <1>1, <2>1, <2>2 DEF ReadIInv, ReadTypeOK, RequestInv, ReadIsAllOrNothing, device
<1>4. CASE ~AllKnown(known)
  <2>1. Reply("NOT_FOUND", <<>>)
    BY <1>4 DEF CheckSignals
  <2>2. has_device => Unknown \in Range(query.ids)
    BY <1>2, <1>4 DEF AllKnown, Range
  <2>. QED
    BY <1>1, <2>1, <2>2, RefuseStep DEF Codes
<1>. QED
  BY <1>3, <1>4

(* A read that succeeds has all its values, one that fails has none. *)
LEMMA ReadStep == ReadIInv /\ Read => ReadIInv'
<1>. SUFFICES ASSUME ReadIInv, Read PROVE ReadIInv'
  OBVIOUS
<1>1. /\ step = "read" /\ query \in Request /\ query.kind = "read"
      /\ UNCHANGED <<device, query>>
  BY DEF Read, ReadIInv, RequestInv
<1>2. \/ Reply("OK", Values)
      \/ Reply("UNAVAILABLE", <<>>)
      \/ Reply("NOT_FOUND", <<>>) /\ ~has_device
  BY DEF Read, Values, Ids
<1>3. CASE Reply("UNAVAILABLE", <<>>)
  BY <1>1, <1>3, RefuseStep DEF Codes
<1>4. CASE Reply("NOT_FOUND", <<>>) /\ ~has_device
  BY <1>1, <1>4, RefuseStep DEF Codes
<1>5. CASE Reply("OK", Values)
  <2>1. step' = "answered" /\ answer' = [code |-> "OK", values |-> Values]
    BY <1>5 DEF Reply
  <2>2. /\ Values \in Seq(Value) /\ DOMAIN Values = DOMAIN Ids
        /\ \A i \in DOMAIN Ids : Values[i].signal = Ids[i]
    BY <1>1, ValuesFacts
  <2>3. /\ Ids \in Seq(Signals)
        /\ query.ids # <<>> => Ids = query.ids
        /\ query.ids = <<>> => Range(Ids) = Default
    BY <1>1, IdsFacts
  <2>. HIDE DEF Values, Ids
  <2>4. answer' \in [code : Codes, values : Seq(Value)]
    BY <2>1, <2>2 DEF Codes
  <2>5. ReadTypeOK'
    BY <1>1, <2>1, <2>4 DEF ReadIInv, ReadTypeOK, device
  <2>6. RequestInv'
    BY <1>1, <2>1 DEF ReadIInv, RequestInv
  <2>7. query.ids # <<>> => [i \in DOMAIN Values |-> Values[i].signal] = query.ids
    BY <2>2, <2>3
  <2>8. query.ids = <<>> => {v.signal : v \in Range(Values)} = Default
    <3>. HAVE query.ids = <<>>
    <3>1. Range(Ids) = Default
      BY <2>3
    <3>2. {v.signal : v \in Range(Values)} = Range(Ids)
      BY <2>2 DEF Range
    <3>. QED
      BY <3>1, <3>2
  <2>9. /\ answer'.code = "OK" /\ answer'.values = Values
        /\ query' = query /\ step' # "read"
    BY <1>1, <2>1
  <2>10. ReadIsAllOrNothing'
    BY <2>7, <2>8, <2>9 DEF ReadIsAllOrNothing
  <2>. QED
    BY <2>5, <2>6, <2>10 DEF ReadIInv
<1>. QED
  BY <1>2, <1>3, <1>4, <1>5

(* The invariant of the handler and the poller is inductive. *)
LEMMA ReadAnyStep == ReadIInv /\ [ReadNext]_readVars => ReadIInv'
<1>. SUFFICES ASSUME ReadIInv, [ReadNext]_readVars PROVE ReadIInv'
  OBVIOUS
<1>1. CASE Tick \/ Poll \/ LoseDevice
  BY <1>1, DeviceStep
<1>2. CASE BeginRead
  BY <1>2 DEF BeginRead, ReadIInv, ReadTypeOK, RequestInv, ReadIsAllOrNothing, device
<1>3. CASE Deliver
  BY <1>3 DEF Deliver, ReadIInv, ReadTypeOK, RequestInv, ReadIsAllOrNothing, device
<1>4. CASE UNCHANGED readVars
  <2>1. ReadTypeOK'
    BY <1>4 DEF ReadIInv, ReadTypeOK, readVars, device
  <2>2. RequestInv'
    BY <1>4 DEF ReadIInv, RequestInv, readVars
  <2>3. ReadIsAllOrNothing'
    BY <1>4 DEF ReadIInv, ReadIsAllOrNothing, readVars, device
  <2>. QED
    BY <2>1, <2>2, <2>3 DEF ReadIInv
<1>. QED
  BY <1>1, <1>2, <1>3, <1>4, CheckDeviceStep, CheckSignalsStep, ReadStep DEF ReadNext

(* It holds in every state of the handler and the poller. *)
LEMMA ReadInvariant == ReadSpec => []ReadIInv
  BY ReadInitial, ReadAnyStep, PTL DEF ReadSpec

(* The variables keep their types. *)
THEOREM ReadTypeCorrect == ReadSpec => []ReadTypeOK
  BY ReadInvariant, PTL DEF ReadIInv

(* An answered read has every signal asked for, in the order asked, or the *)
(* default set and nothing else; a refused one has no values, and is       *)
(* NOT_FOUND only for an unknown id or a device that is not there.         *)
THEOREM ReadCorrect == ReadSpec => []ReadIsAllOrNothing
  BY ReadInvariant, PTL DEF ReadIInv

-----------------------------------------------------------------------------
(* Freshness *)

(* apply_min_timestamp compares seconds, then nanos: for every resolution   *)
(* of the clock that is the order of the times themselves.                  *)
LEMMA TimestampOrder ==
  ASSUME NEW s \in Nat, NEW t \in Nat
  PROVE  \/ Timestamp(s).seconds < Timestamp(t).seconds
         \/ /\ Timestamp(s).seconds = Timestamp(t).seconds
            /\ Timestamp(s).nanos < Timestamp(t).nanos
         <=> s < t
<1>. DEFINE T == TicksPerSecond
            q == s \div T
            r == s % T
            u == t \div T
            v == t % T
<1>1. T \in Nat \ {0}
  BY TimeAssumption
<1>2. /\ q \in Nat /\ r \in 0..(T - 1) /\ s = T * q + r
      /\ u \in Nat /\ v \in 0..(T - 1) /\ t = T * u + v
  <2>. HIDE DEF T
  <2>. QED
    BY <1>1, SMT
<1>3. Timestamp(s) = [seconds |-> q, nanos |-> r] /\ Timestamp(t) = [seconds |-> u, nanos |-> v]
  BY DEF Timestamp
<1>. HIDE DEF T, q, r, u, v
<1>4. ASSUME NEW a \in Nat, NEW b \in Nat, a < b
      PROVE  T * a + T <= T * b
  <2>1. PICK d \in Nat : b = a + 1 + d
    <3>1. b - a - 1 \in Nat /\ b = a + 1 + (b - a - 1)
      BY <1>4
    <3>. QED
      BY <3>1
  <2>2. T * b = T * a + T + T * d /\ T * d >= 0
    BY <1>1, <2>1, SMT
  <2>. QED
    BY <1>1, <2>2, SMT
<1>5. CASE q < u
  BY <1>1, <1>2, <1>3, <1>4, <1>5
<1>6. CASE u < q
  BY <1>1, <1>2, <1>3, <1>4, <1>6
<1>7. CASE q = u
  BY <1>1, <1>2, <1>3, <1>7
<1>. QED
  BY <1>2, <1>5, <1>6, <1>7

(* The quality that goes out for one signal. *)
LEMMA QualityOfSignal ==
  ASSUME ReadIInv, query \in Request, NEW s \in Signals,
         NEW q, q = IF Hinted(Graded(s)) THEN "STALE" ELSE quality_from(samples[s])
  PROVE  LET sample == samples[s]
             recent == /\ clock - sample.at <= StaleAfter
                       /\ query.min_timestamp # Nothing => sample.at >= query.min_timestamp
         IN  /\ q = "OK" <=> /\ sample # Nothing /\ last_read_ok
                             /\ sample.has_value /\ recent
             /\ q = "FAULT" <=> sample # Nothing /\ ~last_read_ok
             /\ q = "STALE" => last_read_ok /\ ~recent
<1>. DEFINE sample == samples[s]
            min == query.min_timestamp
<1>1. /\ clock \in Nat /\ StaleAfter \in Nat /\ Nothing \notin Int
      /\ sample \in Sample \cup {Nothing} /\ min \in Time \cup {Nothing}
  <2>1. clock \in Nat /\ StaleAfter \in Nat /\ Nothing \notin Int
    BY TimeAssumption DEF ReadIInv, ReadTypeOK, Time
  <2>2. sample \in Sample \cup {Nothing}
    BY DEF ReadIInv, ReadTypeOK
  <2>3. min \in Time \cup {Nothing}
    BY DEF Request
  <2>. QED
    BY <2>1, <2>2, <2>3
<1>2. Graded(s).quality = quality_from(sample)
  BY DEF Graded
<1>3. CASE sample = Nothing
  BY <1>2, <1>3 DEF quality_from, Hinted
<1>4. CASE sample # Nothing /\ ~last_read_ok
  BY <1>2, <1>4 DEF quality_from, Hinted
<1>5. CASE sample # Nothing /\ last_read_ok
  <2>1. sample.at \in Nat /\ sample.has_value \in BOOLEAN
    BY <1>1, <1>5 DEF Sample, Time
  <2>2. Graded(s).at = sample.at
    BY <1>5 DEF Graded
  <2>3. CASE clock - sample.at > StaleAfter
    <3>1. quality_from(sample) = "STALE"
      BY <1>5, <2>3 DEF quality_from
    <3>. QED
      BY <1>1, <1>2, <1>5, <2>1, <2>3, <3>1 DEF Hinted
  <2>4. CASE ~(clock - sample.at > StaleAfter)
    <3>1. quality_from(sample) = IF sample.has_value THEN "OK" ELSE "UNKNOWN"
      BY <1>5, <2>4 DEF quality_from
    <3>2. clock - sample.at <= StaleAfter
      BY <1>1, <2>1, <2>4
    <3>3. min # Nothing => (Older(Graded(s), min) <=> sample.at < min)
      <4>. HAVE min # Nothing
      <4>1. min \in Nat
        BY <1>1 DEF Time
      <4>2. Stamp(Graded(s)) = Timestamp(sample.at)
        BY <1>1, <2>1, <2>2 DEF Stamp
      <4>. HIDE DEF min, sample
      <4>. QED
        BY <2>1, <4>1, <4>2, TimestampOrder DEF Older
    <3>4. min # Nothing => (sample.at < min <=> ~(sample.at >= min))
      BY <1>1, <2>1 DEF Time
    <3>. QED
      BY <1>2, <1>5, <2>1, <3>1, <3>2, <3>3, <3>4 DEF Hinted
  <2>. QED
    BY <2>3, <2>4
<1>. QED
  BY <1>3, <1>4, <1>5

(* Every quality that is sent is the honest one. *)
LEMMA QualityStep ==
  ASSUME ReadIInv, [ReadNext]_readVars, step = "read", step' = "answered", answer'.code = "OK",
         NEW v \in Range(answer'.values)
  PROVE  LET sample == samples[v.signal]
             recent == /\ clock - sample.at <= StaleAfter
                       /\ query.min_timestamp # Nothing => sample.at >= query.min_timestamp
         IN  /\ v.quality = "OK" <=> /\ sample # Nothing /\ last_read_ok
                                     /\ sample.has_value /\ recent
             /\ v.quality = "FAULT" <=> sample # Nothing /\ ~last_read_ok
             /\ v.quality = "STALE" => last_read_ok /\ ~recent
<1>1. Read
  BY DEF ReadNext, Tick, Poll, LoseDevice, BeginRead, CheckDevice, CheckSignals, Deliver, readVars
<1>2. query \in Request
  BY DEF ReadIInv, RequestInv
<1>3. answer'.values = Values
  BY <1>1 DEF Read, Reply, Values, Ids
<1>4. PICK i \in DOMAIN Values : v = Values[i]
  BY <1>3 DEF Range
<1>5. /\ i \in DOMAIN Ids /\ Ids[i] \in Signals /\ v.signal = Ids[i]
      /\ v.quality = IF Hinted(Graded(Ids[i])) THEN "STALE" ELSE quality_from(samples[Ids[i]])
  BY <1>4, ValuesFacts
<1>. DEFINE s == Ids[i]
            q == v.quality
<1>6. s \in Signals /\ q = IF Hinted(Graded(s)) THEN "STALE" ELSE quality_from(samples[s])
  BY <1>5
<1>. HIDE DEF s, q
<1>7. v.signal = s /\ v.quality = q
  BY <1>5 DEF s, q
<1>. QED
  BY <1>2, <1>6, <1>7, QualityOfSignal

(* The quality that arrives is OK exactly for a value of a good read that is *)
(* recent enough for the provider and for the client, and a failed read is   *)
(* a FAULT whatever the client's hint.                                       *)
THEOREM QualityCorrect == ReadSpec => QualityIsHonest
<1>1. ASSUME ReadIInv, [ReadNext]_readVars
      PROVE  [step = "read" /\ step' = "answered" /\ answer'.code = "OK" =>
               \A v \in Range(answer'.values) :
                 LET sample == samples[v.signal]
                     recent == /\ clock - sample.at <= StaleAfter
                               /\ query.min_timestamp # Nothing =>
                                    sample.at >= query.min_timestamp
                 IN  /\ v.quality = "OK" <=> /\ sample # Nothing /\ last_read_ok
                                             /\ sample.has_value /\ recent
                     /\ v.quality = "FAULT" <=> sample # Nothing /\ ~last_read_ok
                     /\ v.quality = "STALE" => last_read_ok /\ ~recent]_readVars
  BY <1>1, QualityStep
<1>. QED
  BY <1>1, ReadInvariant, PTL DEF ReadSpec, QualityIsHonest
=============================================================================
