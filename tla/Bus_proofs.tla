------------------------------ MODULE Bus_proofs ------------------------------
(***************************************************************************)
(* Theorems about the shared I2C bus, for any threads, addresses, retry    *)
(* count and timeout, any faults and any order of the threads' steps; and  *)
(* about what a provider does before it serves on it, for any nodes, links *)
(* and adapters that come and go, any providers, addresses and users: the  *)
(* host check decides, and claims collide exactly on a shared device.      *)
(***************************************************************************)
EXTENDS I2cBus, BusSetup, DataLemmas

(* The greater of two integers. *)
LEMMA MaxOfTwo ==
  ASSUME NEW a \in Int, NEW b \in Int
  PROVE  Max({a, b}) = IF a >= b THEN a ELSE b
<1>. DEFINE m == IF a >= b THEN a ELSE b
<1>1. m \in {a, b} /\ \A y \in {a, b} : m >= y
  OBVIOUS
<1>2. \A x \in {a, b} : (\A y \in {a, b} : x >= y) => x = m
  OBVIOUS
<1>. HIDE DEF m
<1>3. Max({a, b}) = m
  BY <1>1, <1>2 DEF Max
<1>. QED
  BY <1>3 DEF m

(* The lesser of two integers. *)
LEMMA MinOfTwo ==
  ASSUME NEW a \in Int, NEW b \in Int
  PROVE  Min({a, b}) = IF a <= b THEN a ELSE b
<1>. DEFINE m == IF a <= b THEN a ELSE b
<1>1. m \in {a, b} /\ \A y \in {a, b} : m <= y
  OBVIOUS
<1>2. \A x \in {a, b} : (\A y \in {a, b} : x <= y) => x = m
  OBVIOUS
<1>. HIDE DEF m
<1>3. Min({a, b}) = m
  BY <1>1, <1>2 DEF Min
<1>. QED
  BY <1>3 DEF m

(* A negative retry_count is no retry: the budget is at least one attempt. *)
LEMMA BudgetFacts ==
  /\ retry_count_ \in Nat
  /\ max_attempts = retry_count_ + 1
<1>1. retry_count_ = IF retry_count >= 0 THEN retry_count ELSE 0
  BY BusAssumption, MaxOfTwo DEF retry_count_
<1>2. retry_count_ \in Nat
  BY <1>1, BusAssumption
<1>. QED
  BY <1>2, MaxOfTwo DEF max_attempts

-----------------------------------------------------------------------------
(* Counters only grow. *)

NotLess(s, r) ==
  s.ok <= r.ok /\ s.failed <= r.failed /\ s.retried_attempts <= r.retried_attempts

(* IoStatsMap::record lowers no number. *)
LEMMA RecordGrows ==
  ASSUME NEW s \in Stats, NEW ok \in BOOLEAN, NEW n \in Nat
  PROVE  record(s, ok, n) \in Stats /\ NotLess(s, record(s, ok, n))
<1>1. Max({n - 1, 0}) \in Nat
  BY MaxOfTwo
<1>. DEFINE extra == Max({n - 1, 0})
<1>2. record(s, ok, n) = [ok |-> s.ok + IF ok THEN 1 ELSE 0,
                          failed |-> s.failed + IF ok THEN 0 ELSE 1,
                          retried_attempts |-> s.retried_attempts + extra]
  BY DEF record
<1>. HIDE DEF extra
<1>. QED
  BY <1>1, <1>2 DEF Stats, NotLess, extra

(* The sum of two counters, number by number. *)
LEMMA AddType ==
  ASSUME NEW s \in Stats, NEW r \in Stats
  PROVE  /\ Add(s, r) \in Stats
         /\ Add(s, r).ok = s.ok + r.ok
         /\ Add(s, r).failed = s.failed + r.failed
         /\ Add(s, r).retried_attempts = s.retried_attempts + r.retried_attempts
<1>1. DOMAIN s = {"ok", "failed", "retried_attempts"}
  BY DEF Stats
<1>2. /\ Add(s, r).ok = s.ok + r.ok
      /\ Add(s, r).failed = s.failed + r.failed
      /\ Add(s, r).retried_attempts = s.retried_attempts + r.retried_attempts
  BY <1>1 DEF Add
<1>3. Add(s, r) = [ok |-> s.ok + r.ok, failed |-> s.failed + r.failed,
                   retried_attempts |-> s.retried_attempts + r.retried_attempts]
  BY <1>1 DEF Add
<1>. QED
  BY <1>2, <1>3 DEF Stats

-----------------------------------------------------------------------------
(* Types, the retry budget and the snapshot in progress. *)

(* A thread in an operation has one; outside its attempts it has made none, *)
(* and before the next attempt the budget is not used up.  A read makes at  *)
(* most one attempt per poll.                                              *)
BudgetOf(t) ==
  /\ pc[t] # "idle" => op[t] \in Operation
  /\ pc[t] \notin {"attempt", "succeeded", "failed"} =>
       attempts[t] = 0 /\ elapsed[t] = 0
  /\ pc[t] = "attempt" =>
       IF op[t].kind = "read"
       THEN attempts[t] <= elapsed[t] /\ elapsed[t] <= Timeout
       ELSE attempts[t] <= retry_count_
  /\ pc[t] \in {"succeeded", "failed"} =>
       attempts[t] <= 1 + IF op[t].kind = "read" THEN Timeout ELSE retry_count_

(* Between its two ends, what a snapshot has read is not ahead of the inner *)
(* map, nor behind the totals at its start but for what was injected since. *)
SnapshotInv ==
  IF snapshot.done THEN NotLess(snapshot.before, snapshot.value)
                        /\ NotLess(snapshot.value, snapshot.after)
  ELSE /\ snapshot.address \in Addresses
       /\ snapshot.value \in Stats /\ snapshot.before \in Stats
       /\ NotLess(snapshot.value, io_stats[snapshot.address])
       /\ NotLess(snapshot.before, Add(snapshot.value, fault_stats[snapshot.address]))

IInv == TypeOK /\ (\A t \in Threads : BudgetOf(t)) /\ SnapshotInv

(* No operation has begun at the start. *)
LEMMA InitIInv == Init => IInv
<1>. SUFFICES ASSUME Init PROVE IInv
  OBVIOUS
<1>1. NoStats \in Stats /\ NotLess(NoStats, NoStats)
  BY DEF NoStats, Stats, NotLess
<1>2. TypeOK
  <2>1. Zero \in [{"op", "write", "read"} -> Nat]
    BY DEF Zero
  <2>2. [t \in Threads |-> None] \in [Threads -> Operation \cup {None}]
    OBVIOUS
  <2>. QED
    BY <1>1, <2>1, <2>2 DEF Init, TypeOK
<1>3. \A t \in Threads : BudgetOf(t)
  BY DEF Init, BudgetOf
<1>4. SnapshotInv
  BY <1>1 DEF Init, SnapshotInv
<1>. QED
  BY <1>2, <1>3, <1>4 DEF IInv

(* An operation enters the decorator. *)
LEMMA BeginFacts ==
  ASSUME IInv, NEW t \in Threads, Begin(t)
  PROVE  /\ pc' = [pc EXCEPT ![t] = "load"] /\ pc[t] = "idle"
         /\ \E o \in Operation : op' = [op EXCEPT ![t] = o]
         /\ UNCHANGED <<opened, counters, loaded, attempts, elapsed, status, stats, snapshot>>
BY DEF Begin, Operations, GoTo

(* How an operation leaves the adapter's attempts. *)
LEMMA AttemptFacts ==
  ASSUME IInv, NEW t \in Threads, Attempt(t)
  PROVE  /\ pc[t] = "attempt"
         /\ attempts' = [attempts EXCEPT ![t] = attempts[t] + 1]
         /\ UNCHANGED <<opened, op, counters, loaded, status, stats, snapshot>>
         /\ \/ /\ elapsed' = elapsed
               /\ \E w \in {"succeeded", "failed"} : pc' = [pc EXCEPT ![t] = w]
            \/ \E now \in Nat :
                 /\ pc' = pc /\ elapsed' = [elapsed EXCEPT ![t] = now + 1]
                 /\ IF op[t].kind = "read" THEN elapsed[t] <= now /\ now < Timeout
                    ELSE attempts[t] + 1 < max_attempts
<1>0. pc[t] = "attempt" /\ attempts' = [attempts EXCEPT ![t] = attempts[t] + 1]
      /\ UNCHANGED <<opened, op, counters, loaded, status, stats, snapshot>>
  BY DEF Attempt
<1>1. PICK ioctl \in {"ok", "transient", "hard"},
           now \in IF op[t].kind = "read" THEN {elapsed[t], elapsed[t] + 1} ELSE {0} :
        CASE ioctl = "ok" -> GoTo(t, "succeeded") /\ UNCHANGED elapsed
          [] ioctl # "ok" /\ TriesAgain(t, ioctl, now) ->
               elapsed' = [elapsed EXCEPT ![t] = now + 1] /\ UNCHANGED pc
          [] OTHER -> GoTo(t, "failed") /\ UNCHANGED elapsed
  BY DEF Attempt
<1>2. elapsed[t] \in Nat
  BY DEF IInv, TypeOK
<1>3. now \in Nat /\ (op[t].kind = "read" => elapsed[t] <= now)
  BY <1>1, <1>2
<1>4. CASE ioctl # "ok" /\ TriesAgain(t, ioctl, now)
  <2>1. elapsed' = [elapsed EXCEPT ![t] = now + 1] /\ pc' = pc
    BY <1>1, <1>4
  <2>2. IF op[t].kind = "read" THEN now < Timeout ELSE attempts[t] + 1 < max_attempts
    BY <1>4 DEF TriesAgain
  <2>. QED
    BY <1>0, <1>3, <2>1, <2>2
<1>5. CASE ~(ioctl # "ok" /\ TriesAgain(t, ioctl, now))
  BY <1>0, <1>1, <1>5 DEF GoTo
<1>. QED
  BY <1>4, <1>5

(* How the outcome of an operation is recorded, under the address it is *)
(* for.                                                                 *)
LEMMA RecordFacts ==
  ASSUME IInv, NEW t \in Threads, Record(t)
  PROVE  /\ pc[t] \in {"succeeded", "failed"}
         /\ \E w \in {"idle", "mutate"} : pc' = [pc EXCEPT ![t] = w]
         /\ status' = status \/ \E c \in Errors \cup {"Ok"} : status' = [status EXCEPT ![t] = c]
         /\ attempts' = [attempts EXCEPT ![t] = 0] /\ elapsed' = [elapsed EXCEPT ![t] = 0]
         /\ \E r \in Stats : /\ NotLess(io_stats[op[t].address], r)
                            /\ io_stats' = [io_stats EXCEPT ![op[t].address] = r]
         /\ UNCHANGED <<opened, op, counters, loaded, fault_stats, snapshot>>
<1>. DEFINE a == op[t].address
            ok == pc[t] = "succeeded"
            r == record(io_stats[a], ok, attempts[t])
<1>0. /\ pc[t] \in {"succeeded", "failed"}
      /\ attempts' = [attempts EXCEPT ![t] = 0] /\ elapsed' = [elapsed EXCEPT ![t] = 0]
      /\ io_stats' = [io_stats EXCEPT ![a] = r]
      /\ UNCHANGED <<opened, op, counters, loaded, fault_stats, snapshot>>
  BY DEF Record
<1>1. a \in Addresses /\ io_stats[a] \in Stats /\ attempts[t] \in Nat
  BY <1>0 DEF IInv, TypeOK, BudgetOf, Operation
<1>2. r \in Stats /\ NotLess(io_stats[a], r)
  <2>1. ok \in BOOLEAN
    OBVIOUS
  <2>. HIDE DEF ok, a
  <2>. QED
    BY <1>1, <2>1, RecordGrows
<1>3. Failure(op[t].kind) \in Errors
  BY DEF Failure, Errors
<1>4. \/ Return(t, Failure(op[t].kind))
      \/ GoTo(t, "mutate") /\ UNCHANGED status
      \/ Return(t, "Ok")
  BY Zenon DEF Record
<1>5. /\ \E w \in {"idle", "mutate"} : pc' = [pc EXCEPT ![t] = w]
      /\ status' = status \/ \E c \in Errors \cup {"Ok"} : status' = [status EXCEPT ![t] = c]
  BY <1>3, <1>4 DEF Return, GoTo
<1>. HIDE DEF r
<1>. QED
  BY <1>0, <1>2, <1>5

(* An injected fault ends the operation and is counted by the decorator *)
(* alone.                                                               *)
LEMMA DecideFacts ==
  ASSUME IInv, NEW t \in Threads, Decide(t)
  PROVE  /\ pc[t] = "decide"
         /\ \E w \in {"idle", "enter"} : pc' = [pc EXCEPT ![t] = w]
         /\ status' = status \/ \E c \in Errors \cup {"Ok"} : status' = [status EXCEPT ![t] = c]
         /\ \/ fault_stats' = fault_stats
            \/ \E r \in Stats :
                 /\ NotLess(fault_stats[op[t].address], r)
                 /\ fault_stats' = [fault_stats EXCEPT ![op[t].address] = r]
         /\ UNCHANGED <<opened, op, counters, loaded, attempts, elapsed, io_stats, snapshot>>
<1>. DEFINE a == op[t].address
            fault == Fault(counters, op[t].kind)
            r == record(fault_stats[a], FALSE, 1)
<1>0. pc[t] = "decide"
      /\ UNCHANGED <<opened, op, counters, loaded, attempts, elapsed, io_stats, snapshot>>
  BY DEF Decide
<1>1. a \in Addresses /\ fault_stats[a] \in Stats
  BY <1>0 DEF IInv, TypeOK, BudgetOf, Operation
<1>2. r \in Stats /\ NotLess(fault_stats[a], r)
  <2>. HIDE DEF a
  <2>. QED
    BY <1>1, RecordGrows
<1>3. fault \in Errors \cup {"Ok"}
  BY DEF Fault, Errors
<1>4. \/ Return(t, fault) /\ fault_stats' = [fault_stats EXCEPT ![a] = r]
      \/ GoTo(t, "enter") /\ UNCHANGED <<status, fault_stats>>
  BY DEF Decide
<1>. HIDE DEF r, fault
<1>. QED
  BY <1>0, <1>2, <1>3, <1>4 DEF Return, GoTo

(* A closed bus or a bad message ends the operation before the wire. *)
LEMMA EnterFacts ==
  ASSUME IInv, NEW t \in Threads, Enter(t)
  PROVE  /\ pc[t] = "enter"
         /\ \E w \in {"idle", "attempt"} : pc' = [pc EXCEPT ![t] = w]
         /\ status' = status \/ \E c \in Errors \cup {"Ok"} : status' = [status EXCEPT ![t] = c]
         /\ UNCHANGED <<opened, op, counters, loaded, attempts, elapsed, stats, snapshot>>
<1>1. \/ Return(t, "NotOpen") \/ Return(t, "InvalidArgument")
      \/ GoTo(t, "attempt") /\ UNCHANGED status
  BY Zenon DEF Enter
<1>2. pc[t] = "enter"
      /\ UNCHANGED <<opened, op, counters, loaded, attempts, elapsed, stats, snapshot>>
  BY DEF Enter
<1>. QED
  BY <1>1, <1>2 DEF Return, GoTo, Errors

(* The two counting steps; either increment of a race may be lost. *)
LEMMA CountFacts ==
  ASSUME IInv, NEW t \in Threads, LoadCounters(t) \/ StoreCounters(t)
  PROVE  /\ pc[t] \in {"load", "store"}
         /\ \E w \in {"store", "decide"} : pc' = [pc EXCEPT ![t] = w]
         /\ counters' \in [{"op", "write", "read"} -> Nat]
         /\ loaded' \in [Threads -> [{"op", "write", "read"} -> Nat]]
         /\ UNCHANGED <<opened, op, attempts, elapsed, status, stats, snapshot>>
<1>1. CASE LoadCounters(t)
  BY <1>1 DEF LoadCounters, GoTo, IInv, TypeOK
<1>2. CASE StoreCounters(t)
  <2>1. /\ pc[t] = "store" /\ pc' = [pc EXCEPT ![t] = "decide"]
        /\ loaded' = [loaded EXCEPT ![t] = Zero]
        /\ UNCHANGED <<opened, op, attempts, elapsed, status, stats, snapshot>>
    BY <1>2 DEF StoreCounters, GoTo
  <2>2. ASSUME NEW c \in {"op", "write", "read"}, NEW due
        PROVE  Increment(t, c, due) \subseteq Nat
    <3>1. loaded[t][c] \in Nat /\ counters[c] \in Nat
      BY DEF IInv, TypeOK
    <3>. QED
      BY <3>1 DEF Increment
  <2>3. PICK n \in Nat, w \in Nat, r \in Nat :
          counters' = [op |-> n, write |-> w, read |-> r]
    BY <1>2, <2>2 DEF StoreCounters
  <2>4. counters' \in [{"op", "write", "read"} -> Nat]
    BY <2>3
  <2>5. Zero \in [{"op", "write", "read"} -> Nat]
    BY DEF Zero
  <2>6. loaded' \in [Threads -> [{"op", "write", "read"} -> Nat]]
    BY <2>1, <2>5 DEF IInv, TypeOK
  <2>. QED
    BY <2>1, <2>4, <2>6
<1>. QED
  BY <1>1, <1>2

(* Damaging the reply ends a read and touches no counter. *)
LEMMA MutateFacts ==
  ASSUME IInv, NEW t \in Threads, mutate_read(t)
  PROVE  /\ pc[t] = "mutate" /\ pc' = [pc EXCEPT ![t] = "idle"]
         /\ status' = [status EXCEPT ![t] = "Ok"]
         /\ UNCHANGED <<opened, op, counters, loaded, attempts, elapsed, stats, snapshot>>
BY DEF mutate_read, Return, GoTo

Where == {"idle", "load", "store", "decide", "enter", "attempt", "succeeded",
          "failed", "mutate"}

Snapshots ==
  [address : Addresses \cup {None}, done : BOOLEAN,
   value : Stats, before : Stats, after : Stats]

(* Every step of a thread, the bus or the health task keeps the types. *)
LEMMA TypeStep == ASSUME IInv, [Next]_vars PROVE TypeOK'
<1>0. CASE UNCHANGED vars
  BY <1>0 DEF vars, stats, IInv, TypeOK, Threads, Operation, Lengths
<1>. SUFFICES ASSUME Next PROVE TypeOK'
  BY <1>0
<1>1. UNCHANGED bus /\ Threads' = Threads /\ Operation' = Operation
  BY DEF Next, Threads, Operation, Lengths
<1>2. ASSUME NEW t \in Threads,
             \E w \in Where : pc' = [pc EXCEPT ![t] = w],
             op' = op \/ \E o \in Operation : op' = [op EXCEPT ![t] = o],
             \/ status' = status
             \/ \E c \in Errors \cup {"Ok"} : status' = [status EXCEPT ![t] = c],
             attempts' \in [Threads -> Nat], elapsed' \in [Threads -> Nat],
             counters' \in [{"op", "write", "read"} -> Nat],
             loaded' \in [Threads -> [{"op", "write", "read"} -> Nat]],
             io_stats' \in [Addresses -> Stats], fault_stats' \in [Addresses -> Stats],
             UNCHANGED opened, snapshot' = snapshot
      PROVE  TypeOK'
  <2>1. pc' \in [Threads -> Where]
    BY <1>2 DEF IInv, TypeOK, Where
  <2>2. op' \in [Threads -> Operation \cup {None}]
    BY <1>2 DEF IInv, TypeOK
  <2>3. status' \in [Threads -> Errors \cup {"Ok"}]
    BY <1>2 DEF IInv, TypeOK
  <2>4. /\ bus \in Buses /\ opened \in BOOLEAN /\ snapshot \in Snapshots
    BY DEF IInv, TypeOK, Snapshots
  <2>. QED
    BY <1>1, <1>2, <2>1, <2>2, <2>3, <2>4 DEF TypeOK, Where, Snapshots
<1>3. ASSUME NEW t \in Threads, Begin(t) PROVE TypeOK'
  <2>1. /\ pc' = [pc EXCEPT ![t] = "load"]
        /\ \E o \in Operation : op' = [op EXCEPT ![t] = o]
        /\ UNCHANGED <<opened, counters, loaded, attempts, elapsed, status, snapshot>>
        /\ io_stats' = io_stats /\ fault_stats' = fault_stats
    BY <1>3, BeginFacts DEF stats
  <2>2. /\ attempts' \in [Threads -> Nat] /\ elapsed' \in [Threads -> Nat]
        /\ counters' \in [{"op", "write", "read"} -> Nat]
        /\ loaded' \in [Threads -> [{"op", "write", "read"} -> Nat]]
        /\ io_stats' \in [Addresses -> Stats] /\ fault_stats' \in [Addresses -> Stats]
    BY <2>1 DEF IInv, TypeOK
  <2>3. "load" \in Where
    BY DEF Where
  <2>. QED
    BY <1>2, <2>1, <2>2, <2>3, Zenon
<1>4. ASSUME NEW t \in Threads, LoadCounters(t) \/ StoreCounters(t) PROVE TypeOK'
  BY <1>2, <1>4, CountFacts DEF IInv, TypeOK, Where, stats
<1>5. ASSUME NEW t \in Threads, Decide(t) PROVE TypeOK'
  <2>1. op[t].address \in Addresses
    BY <1>5, DecideFacts DEF IInv, BudgetOf, Operation
  <2>2. fault_stats' \in [Addresses -> Stats]
    BY <1>5, <2>1, DecideFacts DEF IInv, TypeOK
  <2>. QED
    BY <1>2, <1>5, <2>2, DecideFacts, SMTT(30) DEF IInv, TypeOK, Where
<1>6. ASSUME NEW t \in Threads, Enter(t) PROVE TypeOK'
  BY <1>2, <1>6, EnterFacts, SMTT(30) DEF IInv, TypeOK, Where, stats
<1>7. ASSUME NEW t \in Threads, Attempt(t) PROVE TypeOK'
  <2>0. attempts \in [Threads -> Nat] /\ elapsed \in [Threads -> Nat]
    BY DEF IInv, TypeOK
  <2>1. attempts' \in [Threads -> Nat]
    <3>1. attempts' = [attempts EXCEPT ![t] = attempts[t] + 1]
      BY <1>7, AttemptFacts
    <3>. QED
      BY <2>0, <3>1
  <2>3. elapsed' \in [Threads -> Nat]
    <3>1. elapsed' = elapsed \/ \E now \in Nat : elapsed' = [elapsed EXCEPT ![t] = now + 1]
      BY <1>7, AttemptFacts
    <3>. QED
      BY <2>0, <3>1
  <2>2. \E w \in Where : pc' = [pc EXCEPT ![t] = w]
    <3>1. pc = [pc EXCEPT ![t] = pc[t]] /\ pc[t] \in Where
      BY DEF IInv, TypeOK, Where
    <3>. QED
      BY <1>7, <3>1, AttemptFacts DEF Where
  <2>4. /\ UNCHANGED <<opened, op, counters, loaded, status, stats, snapshot>>
        /\ counters \in [{"op", "write", "read"} -> Nat]
        /\ loaded \in [Threads -> [{"op", "write", "read"} -> Nat]]
        /\ io_stats \in [Addresses -> Stats] /\ fault_stats \in [Addresses -> Stats]
    BY <1>7, AttemptFacts DEF IInv, TypeOK
  <2>. QED
    BY <1>2, <2>1, <2>2, <2>3, <2>4 DEF stats
<1>8. ASSUME NEW t \in Threads, Record(t) PROVE TypeOK'
  <2>1. op[t].address \in Addresses
    BY <1>8, RecordFacts DEF IInv, BudgetOf, Operation
  <2>2. io_stats' \in [Addresses -> Stats]
    BY <1>8, <2>1, RecordFacts, SMTT(30) DEF IInv, TypeOK
  <2>3. attempts' \in [Threads -> Nat] /\ elapsed' \in [Threads -> Nat]
    <3>1. attempts \in [Threads -> Nat] /\ elapsed \in [Threads -> Nat]
      BY DEF IInv, TypeOK
    <3>2. attempts' = [attempts EXCEPT ![t] = 0] /\ elapsed' = [elapsed EXCEPT ![t] = 0]
      BY <1>8, RecordFacts
    <3>. QED
      BY <3>1, <3>2
  <2>4. /\ UNCHANGED <<opened, op, counters, loaded, fault_stats, snapshot>>
        /\ \E w \in {"idle", "mutate"} : pc' = [pc EXCEPT ![t] = w]
        /\ \/ status' = status
           \/ \E c \in Errors \cup {"Ok"} : status' = [status EXCEPT ![t] = c]
    BY <1>8, RecordFacts
  <2>5. /\ counters \in [{"op", "write", "read"} -> Nat]
        /\ loaded \in [Threads -> [{"op", "write", "read"} -> Nat]]
        /\ fault_stats \in [Addresses -> Stats]
    BY DEF IInv, TypeOK
  <2>. QED
    BY <1>2, <2>2, <2>3, <2>4, <2>5 DEF Where
<1>9. ASSUME NEW t \in Threads, mutate_read(t) PROVE TypeOK'
  <2>1. /\ pc' = [pc EXCEPT ![t] = "idle"] /\ status' = [status EXCEPT ![t] = "Ok"]
        /\ UNCHANGED <<opened, op, counters, loaded, attempts, elapsed, stats, snapshot>>
    BY <1>9, MutateFacts
  <2>. QED
    BY <1>2, <2>1 DEF IInv, TypeOK, Where, stats
<1>10. CASE Open \/ Close
  BY <1>1, <1>10 DEF Open, Close, IInv, TypeOK, stats
<1>11. ASSUME snapshot' \in Snapshots,
              UNCHANGED <<opened, op, pc, loaded, counters, attempts, elapsed, status, stats>>
       PROVE  TypeOK'
  BY <1>1, <1>11 DEF IInv, TypeOK, Snapshots, stats
<1>12. CASE SnapshotInner
  <2>1. PICK a \in Addresses :
          snapshot' = [snapshot EXCEPT !.address = a, !.done = FALSE,
                                       !.value = io_stats[a], !.before = Combined(a)]
    BY <1>12 DEF SnapshotInner
  <2>2. Combined(a) \in Stats /\ io_stats[a] \in Stats /\ snapshot \in Snapshots
    BY AddType DEF Combined, IInv, TypeOK, Snapshots
  <2>3. snapshot' \in Snapshots
    BY <2>1, <2>2 DEF Snapshots
  <2>. QED
    BY <1>11, <1>12, <2>3 DEF SnapshotInner
<1>13. CASE SnapshotInjected
  <2>. DEFINE a == snapshot.address
  <2>1. /\ a \in Addresses /\ snapshot \in Snapshots
        /\ io_stats[a] \in Stats /\ fault_stats[a] \in Stats /\ snapshot.value \in Stats
    BY <1>13 DEF SnapshotInjected, SnapshotInv, IInv, TypeOK, Snapshots
  <2>2. /\ Add(snapshot.value, fault_stats[a]) \in Stats
        /\ Add(io_stats[a], fault_stats[a]) \in Stats
    BY <2>1, AddType
  <2>3. snapshot' = [snapshot EXCEPT !.done = TRUE,
                                     !.value = Add(snapshot.value, fault_stats[a]),
                                     !.after = Add(io_stats[a], fault_stats[a])]
    BY <1>13 DEF SnapshotInjected, Combined
  <2>4. snapshot' \in Snapshots
    BY <2>1, <2>2, <2>3 DEF Snapshots
  <2>. QED
    BY <1>11, <1>13, <2>4 DEF SnapshotInjected
<1>. QED
  BY <1>3, <1>4, <1>5, <1>6, <1>7, <1>8, <1>9, <1>10, <1>12, <1>13 DEF Next, Step

(* Every step keeps each operation within its budget of attempts. *)
LEMMA BudgetStep ==
  ASSUME IInv, [Next]_vars, NEW u \in Threads PROVE BudgetOf(u)'
<1>. USE BudgetFacts
<1>0. BudgetOf(u) /\ attempts[u] \in Nat /\ elapsed[u] \in Nat /\ Timeout \in Nat
  BY BusAssumption DEF IInv, TypeOK
<1>1. Operation' = Operation /\ retry_count_' = retry_count_
  BY DEF Next, vars, Operation, Lengths
<1>2. ASSUME pc'[u] = pc[u], op'[u] = op[u], attempts'[u] = attempts[u],
             elapsed'[u] = elapsed[u]
      PROVE  BudgetOf(u)'
  BY <1>0, <1>1, <1>2 DEF BudgetOf
<1>3. CASE UNCHANGED vars
  BY <1>2, <1>3 DEF vars
<1>4. ASSUME NEW t \in Threads, Begin(t) PROVE BudgetOf(u)'
  <2>1. CASE t # u
    BY <1>2, <1>4, <2>1, BeginFacts DEF IInv, TypeOK
  <2>2. CASE t = u
    BY <1>0, <1>1, <1>4, <2>2, BeginFacts DEF BudgetOf, IInv, TypeOK
  <2>. QED
    BY <2>1, <2>2
<1>5. ASSUME NEW t \in Threads,
             LoadCounters(t) \/ StoreCounters(t) \/ Decide(t) \/ Enter(t) \/ mutate_read(t)
      PROVE  BudgetOf(u)'
  <2>1. /\ pc[t] \in {"load", "store", "decide", "enter", "mutate"}
        /\ \E w \in {"idle", "store", "decide", "enter", "attempt"} :
             pc' = [pc EXCEPT ![t] = w]
        /\ UNCHANGED <<op, attempts, elapsed>>
    BY <1>5, CountFacts, DecideFacts, EnterFacts, MutateFacts
  <2>2. CASE t # u
    BY <1>2, <2>1, <2>2 DEF IInv, TypeOK
  <2>3. CASE t = u
    BY <1>0, <1>1, <2>1, <2>3 DEF BudgetOf, IInv, TypeOK
  <2>. QED
    BY <2>2, <2>3
<1>6. ASSUME NEW t \in Threads, Attempt(t) PROVE BudgetOf(u)'
  <2>1. CASE t # u
    BY <1>2, <1>6, <2>1, AttemptFacts DEF IInv, TypeOK
  <2>2. CASE t = u
    <3>0. /\ pc[u] = "attempt" /\ attempts'[u] = attempts[u] + 1 /\ op' = op
          /\ op[u] \in Operation
      BY <1>0, <1>6, <2>2, AttemptFacts DEF IInv, TypeOK, BudgetOf
    <3>1. CASE elapsed' = elapsed /\ \E w \in {"succeeded", "failed"} : pc' = [pc EXCEPT ![t] = w]
      <4>1. pc'[u] \in {"succeeded", "failed"}
        BY <2>2, <3>1 DEF IInv, TypeOK
      <4>2. attempts'[u] <= 1 + IF op[u].kind = "read" THEN Timeout ELSE retry_count_
        BY <1>0, <3>0 DEF BudgetOf
      <4>. QED
        BY <1>0, <1>1, <3>0, <4>1, <4>2 DEF BudgetOf
    <3>2. ASSUME NEW now \in Nat, pc' = pc, elapsed' = [elapsed EXCEPT ![t] = now + 1],
                 IF op[t].kind = "read" THEN elapsed[t] <= now /\ now < Timeout
                 ELSE attempts[t] + 1 < max_attempts
          PROVE  BudgetOf(u)'
      <4>1. elapsed'[u] = now + 1
        BY <2>2, <3>2 DEF IInv, TypeOK
      <4>. QED
        BY <1>0, <1>1, <2>2, <3>0, <3>2, <4>1 DEF BudgetOf
    <3>. QED
      BY <1>6, <3>1, <3>2, AttemptFacts
  <2>. QED
    BY <2>1, <2>2
<1>7. ASSUME NEW t \in Threads, Record(t) PROVE BudgetOf(u)'
  <2>1. CASE t # u
    BY <1>2, <1>7, <2>1, RecordFacts DEF IInv, TypeOK
  <2>2. CASE t = u
    BY <1>0, <1>1, <1>7, <2>2, RecordFacts DEF BudgetOf, IInv, TypeOK
  <2>. QED
    BY <2>1, <2>2
<1>8. CASE Open \/ Close \/ SnapshotInner \/ SnapshotInjected
  BY <1>2, <1>8 DEF Open, Close, SnapshotInner, SnapshotInjected
<1>. QED
  BY <1>3, <1>4, <1>5, <1>6, <1>7, <1>8 DEF Next, Step

(* An operation recorded between a snapshot's two reads only raises a      *)
(* counter, and so keeps both of the snapshot's bounds.                    *)
LEMMA SnapshotStep == ASSUME IInv, TypeOK', [Next]_vars PROVE SnapshotInv'
<1>0. /\ \A a \in Addresses : io_stats[a] \in Stats /\ fault_stats[a] \in Stats
      /\ SnapshotInv
  BY DEF IInv, TypeOK
<1>1. ASSUME snapshot' = snapshot,
             \A a \in Addresses : /\ io_stats'[a] \in Stats /\ fault_stats'[a] \in Stats
                                 /\ NotLess(io_stats[a], io_stats'[a])
                                 /\ NotLess(fault_stats[a], fault_stats'[a])
      PROVE  SnapshotInv'
  <2>1. CASE snapshot.done
    BY <1>0, <1>1, <2>1 DEF SnapshotInv
  <2>2. CASE ~snapshot.done
    <3>. DEFINE a == snapshot.address
                v == snapshot.value
    <3>1. /\ a \in Addresses /\ v \in Stats /\ snapshot.before \in Stats
          /\ NotLess(v, io_stats[a])
          /\ NotLess(snapshot.before, Add(v, fault_stats[a]))
      BY <1>0, <2>2 DEF SnapshotInv
    <3>2. NotLess(v, io_stats'[a])
      BY <1>0, <1>1, <3>1 DEF NotLess, Stats
    <3>3. NotLess(snapshot.before, Add(v, fault_stats'[a]))
      <4>1. NotLess(fault_stats[a], fault_stats'[a])
        BY <1>1, <3>1
      <4>. QED
        BY <1>0, <1>1, <3>1, <4>1, AddType DEF NotLess, Stats
    <3>. QED
      BY <1>1, <2>2, <3>1, <3>2, <3>3 DEF SnapshotInv
  <2>. QED
    BY <2>1, <2>2
<1>2. \A s \in Stats : NotLess(s, s)
  BY DEF NotLess, Stats
<1>3. ASSUME UNCHANGED <<snapshot, io_stats, fault_stats>> PROVE SnapshotInv'
  BY <1>0, <1>1, <1>2, <1>3
<1>4. ASSUME NEW t \in Threads,
             Begin(t) \/ LoadCounters(t) \/ StoreCounters(t) \/ Enter(t)
               \/ Attempt(t) \/ mutate_read(t)
      PROVE  SnapshotInv'
  BY <1>3, <1>4, BeginFacts, CountFacts, EnterFacts, AttemptFacts, MutateFacts DEF stats
<1>5. ASSUME NEW t \in Threads, Decide(t) PROVE SnapshotInv'
  <2>1. CASE fault_stats' = fault_stats
    BY <1>3, <1>5, <2>1, DecideFacts
  <2>2. ASSUME NEW r \in Stats, NotLess(fault_stats[op[t].address], r),
               fault_stats' = [fault_stats EXCEPT ![op[t].address] = r]
        PROVE  SnapshotInv'
    <3>1. UNCHANGED <<snapshot, io_stats>>
      BY <1>5, DecideFacts
    <3>2. \A a \in Addresses : /\ fault_stats'[a] \in Stats
                              /\ NotLess(fault_stats[a], fault_stats'[a])
      BY <1>0, <1>2, <2>2 DEF IInv, TypeOK
    <3>. QED
      BY <1>0, <1>1, <1>2, <3>1, <3>2
  <2>. QED
    BY <1>5, <2>1, <2>2, DecideFacts
<1>6. ASSUME NEW t \in Threads, Record(t) PROVE SnapshotInv'
  <2>1. PICK r \in Stats : /\ NotLess(io_stats[op[t].address], r)
                           /\ io_stats' = [io_stats EXCEPT ![op[t].address] = r]
    BY <1>6, RecordFacts
  <2>2. UNCHANGED <<snapshot, fault_stats>>
    BY <1>6, RecordFacts
  <2>3. \A a \in Addresses : /\ io_stats'[a] \in Stats
                            /\ NotLess(io_stats[a], io_stats'[a])
    BY <1>0, <1>2, <2>1 DEF IInv, TypeOK
  <2>. QED
    BY <1>0, <1>1, <1>2, <2>2, <2>3
<1>7. CASE Open \/ Close \/ UNCHANGED vars
  BY <1>3, <1>7 DEF Open, Close, vars, stats
<1>8. CASE SnapshotInner
  <2>1. PICK a \in Addresses :
          snapshot' = [snapshot EXCEPT !.address = a, !.done = FALSE,
                                       !.value = io_stats[a], !.before = Combined(a)]
    BY <1>8 DEF SnapshotInner
  <2>2. UNCHANGED <<io_stats, fault_stats>>
    BY <1>8 DEF SnapshotInner, stats
  <2>3. Combined(a) \in Stats /\ NotLess(Combined(a), Combined(a))
    BY <1>0, <1>2, AddType DEF Combined
  <2>4. /\ ~snapshot'.done /\ snapshot'.address = a /\ snapshot'.value = io_stats[a]
        /\ snapshot'.before = Combined(a)
    BY <2>1 DEF SnapshotInv
  <2>. QED
    BY <1>0, <1>2, <2>2, <2>3, <2>4 DEF SnapshotInv, Combined
<1>9. CASE SnapshotInjected
  <2>. DEFINE a == snapshot.address
              v == snapshot.value
  <2>1. /\ a \in Addresses /\ v \in Stats /\ snapshot.before \in Stats
        /\ NotLess(v, io_stats[a])
        /\ NotLess(snapshot.before, Add(v, fault_stats[a]))
    BY <1>0, <1>9 DEF SnapshotInv, SnapshotInjected
  <2>2. snapshot' = [snapshot EXCEPT !.done = TRUE, !.value = Add(v, fault_stats[a]),
                                     !.after = Combined(a)]
    BY <1>9 DEF SnapshotInjected
  <2>3. NotLess(Add(v, fault_stats[a]), Combined(a))
    BY <1>0, <2>1, AddType DEF Combined, NotLess, Stats
  <2>4. /\ snapshot'.done /\ snapshot'.value = Add(v, fault_stats[a])
        /\ snapshot'.before = snapshot.before /\ snapshot'.after = Combined(a)
    BY <2>2
  <2>. QED
    BY <2>1, <2>3, <2>4 DEF SnapshotInv
<1>. QED
  BY <1>4, <1>5, <1>6, <1>7, <1>8, <1>9 DEF Next, Step

(* The inductive invariant of the decorated bus and its counters. *)
THEOREM BusInvariant == Spec => []IInv
<1>1. IInv /\ [Next]_vars => IInv'
  <2>. SUFFICES ASSUME IInv, [Next]_vars PROVE IInv'
    OBVIOUS
  <2>1. Threads' = Threads
    BY DEF Next, vars, Threads
  <2>2. \A t \in Threads : BudgetOf(t)'
    BY BudgetStep
  <2>. QED
    BY <2>1, <2>2, TypeStep, SnapshotStep DEF IInv
<1>. QED
  BY InitIInv, <1>1, PTL DEF Spec

(* Every variable of the bus, its counters and its fault plan keeps its *)
(* type.                                                                *)
THEOREM BusTypeCorrect == Spec => []TypeOK
<1>1. IInv => TypeOK
  BY DEF IInv
<1>. QED
  BY BusInvariant, <1>1, PTL

(* No operation, of any thread and however its ioctls fail, is tried more  *)
(* often than retry_count or a read's timeout allows.                      *)
THEOREM RetryBudgetCorrect == Spec => []RetryBudgetKept
<1>1. IInv => RetryBudgetKept
  <2>. SUFFICES ASSUME IInv, NEW t \in Threads,
                       pc[t] \in {"attempt", "succeeded", "failed"}
                PROVE  attempts[t] <= 1 + IF op[t].kind = "read" THEN Timeout
                                          ELSE retry_count_
    BY DEF RetryBudgetKept
  <2>1. /\ BudgetOf(t) /\ attempts[t] \in Nat /\ elapsed[t] \in Nat
        /\ Timeout \in Nat /\ retry_count_ \in Nat
    BY BusAssumption, BudgetFacts DEF IInv, TypeOK
  <2>. QED
    BY <2>1 DEF BudgetOf
<1>. QED
  BY BusInvariant, <1>1, PTL

(* However operations are recorded between the two reads of io_stats_for,  *)
(* each number of a snapshot lies between the totals at its two ends.      *)
THEOREM SnapshotCorrect == Spec => []SnapshotIsPlausible
<1>1. IInv => SnapshotIsPlausible
  <2>1. DOMAIN NoStats = {"ok", "failed", "retried_attempts"}
    BY DEF NoStats
  <2>. QED
    BY <2>1 DEF IInv, SnapshotInv, SnapshotIsPlausible, NotLess
<1>. QED
  BY BusInvariant, <1>1, PTL

-----------------------------------------------------------------------------
(* The counters account for what reached the wire. *)

Wires == [ops : Nat, calls : Nat, ok : Nat]

Succeeded(a) == {t \in InFlight(a) : pc[t] = "succeeded"}
Extra == [t \in Threads |-> attempts[t] - 1]

(* What CountersMatchTheWire says of one address. *)
CountsAt(a) ==
  /\ io_stats[a].ok + io_stats[a].failed + Cardinality(InFlight(a)) = wire[a].ops
  /\ io_stats[a].retried_attempts + SumFunctionOnSet(Extra, InFlight(a))
       = wire[a].calls - wire[a].ops
  /\ io_stats[a].ok + Cardinality(Succeeded(a)) = wire[a].ok

(* An operation that is over has made an attempt. *)
CountInv ==
  /\ wire \in [Addresses -> Wires]
  /\ \A t \in Threads : pc[t] \in {"succeeded", "failed"} => attempts[t] > 0
  /\ \A a \in Addresses : CountsAt(a)

One(b) == IF b THEN 1 ELSE 0

(* What one element has in a cardinality and in a sum. *)
LEMMA PartOf ==
  ASSUME NEW T, IsFiniteSet(T), NEW f \in [T -> Int], NEW S \in SUBSET T, NEW t \in T
  PROVE  /\ IsFiniteSet(S \ {t})
         /\ Cardinality(S \ {t}) \in Nat /\ SumFunctionOnSet(f, S \ {t}) \in Int
         /\ Cardinality(S) = One(t \in S) + Cardinality(S \ {t})
         /\ SumFunctionOnSet(f, S) =
              (IF t \in S THEN f[t] ELSE 0) + SumFunctionOnSet(f, S \ {t})
<1>1. IsFiniteSet(S) /\ IsFiniteSet(S \ {t}) /\ S \ {t} \subseteq T
  BY FS_Subset
<1>2. (\A u \in S : f[u] \in Int) /\ (\A u \in S \ {t} : f[u] \in Int)
  BY <1>1
<1>3. /\ Cardinality(S \ {t}) \in Nat /\ SumFunctionOnSet(f, S \ {t}) \in Int
      /\ Cardinality(S) \in Nat
  BY <1>1, <1>2, FS_CardinalityType, SumType
<1>4. CASE t \in S
  <2>1. Cardinality(S \ {t}) = Cardinality(S) - 1
    BY <1>1, <1>4, FS_RemoveElement
  <2>2. SumFunctionOnSet(f, S) = f[t] + SumFunctionOnSet(f, S \ {t})
    BY <1>1, <1>2, <1>4, SumTake
  <2>. QED
    BY <1>1, <1>3, <1>4, <2>1, <2>2 DEF One
<1>5. CASE t \notin S
  <2>1. S \ {t} = S
    BY <1>5
  <2>. QED
    BY <1>1, <1>3, <1>5, <2>1 DEF One
<1>. QED
  BY <1>4, <1>5

(* Two sets that differ in one element at most, and sums that do. *)
LEMMA AllButOne ==
  ASSUME NEW T, IsFiniteSet(T), NEW t \in T,
         NEW f \in [T -> Int], NEW g \in [T -> Int],
         NEW S \in SUBSET T, NEW R \in SUBSET T, S \ {t} = R \ {t},
         \A u \in S \ {t} : f[u] = g[u]
  PROVE  \E c \in Nat, d \in Int :
           /\ Cardinality(S) = One(t \in S) + c /\ Cardinality(R) = One(t \in R) + c
           /\ SumFunctionOnSet(f, S) = (IF t \in S THEN f[t] ELSE 0) + d
           /\ SumFunctionOnSet(g, R) = (IF t \in R THEN g[t] ELSE 0) + d
<1>. DEFINE Q == S \ {t}
<1>1. /\ IsFiniteSet(Q) /\ Cardinality(Q) \in Nat /\ SumFunctionOnSet(f, Q) \in Int
      /\ Cardinality(S) = One(t \in S) + Cardinality(Q)
      /\ SumFunctionOnSet(f, S) = (IF t \in S THEN f[t] ELSE 0) + SumFunctionOnSet(f, Q)
  BY PartOf
<1>2. /\ Cardinality(R) = One(t \in R) + Cardinality(Q)
      /\ SumFunctionOnSet(g, R) = (IF t \in R THEN g[t] ELSE 0) + SumFunctionOnSet(g, Q)
  BY PartOf
<1>3. SumFunctionOnSet(f, Q) = SumFunctionOnSet(g, Q)
  BY <1>1, SumSame
<1>. QED
  BY <1>1, <1>2, <1>3

(* A step of one thread changes what the counters and the wire are to agree *)
(* on by what it changes for that thread.                                   *)
LEMMA OneThread ==
  ASSUME IInv, UNCHANGED bus, TypeOK', NEW t \in Threads, NEW a \in Addresses,
         \A u \in Threads \ {t} : pc'[u] = pc[u] /\ op'[u] = op[u] /\ attempts'[u] = attempts[u]
  PROVE  \E c \in Nat, d \in Int, e \in Nat :
           /\ Cardinality(InFlight(a)) = One(t \in InFlight(a)) + c
           /\ Cardinality(InFlight(a)') = One(t \in InFlight(a)') + c
           /\ SumFunctionOnSet(Extra, InFlight(a)) =
                (IF t \in InFlight(a) THEN attempts[t] - 1 ELSE 0) + d
           /\ SumFunctionOnSet(Extra', InFlight(a)') =
                (IF t \in InFlight(a)' THEN attempts'[t] - 1 ELSE 0) + d
           /\ Cardinality(Succeeded(a)) = One(t \in Succeeded(a)) + e
           /\ Cardinality(Succeeded(a)') = One(t \in Succeeded(a)') + e
<1>1. IsFiniteSet(Threads) /\ Threads' = Threads
  BY BusAssumption DEF IInv, TypeOK, Threads
<1>2. attempts \in [Threads -> Nat] /\ attempts' \in [Threads -> Nat]
  BY <1>1 DEF IInv, TypeOK
<1>3. Extra \in [Threads -> Int] /\ Extra' \in [Threads -> Int]
  BY <1>1, <1>2 DEF Extra
<1>4. Extra[t] = attempts[t] - 1 /\ Extra'[t] = attempts'[t] - 1
  BY <1>1 DEF Extra
<1>5. /\ InFlight(a) \in SUBSET Threads /\ InFlight(a)' \in SUBSET Threads
      /\ InFlight(a) \ {t} = InFlight(a)' \ {t}
  BY <1>1 DEF InFlight
<1>6. /\ Succeeded(a) \in SUBSET Threads /\ Succeeded(a)' \in SUBSET Threads
      /\ Succeeded(a) \ {t} = Succeeded(a)' \ {t}
  <2>1. \A u \in InFlight(a) \ {t} : pc'[u] = pc[u]
    BY <1>5
  <2>. QED
    BY <1>5, <2>1 DEF Succeeded
<1>7. \A u \in Threads \ {t} : Extra[u] = Extra'[u]
  BY <1>1 DEF Extra
<1>. DEFINE T == Threads
            I == InFlight(a)
            J == InFlight(a)'
            S == Succeeded(a)
            R == Succeeded(a)'
            f == Extra
            g == Extra'
<1>8. /\ IsFiniteSet(T) /\ t \in T /\ f \in [T -> Int] /\ g \in [T -> Int]
      /\ I \in SUBSET T /\ J \in SUBSET T /\ I \ {t} = J \ {t}
      /\ S \in SUBSET T /\ R \in SUBSET T /\ S \ {t} = R \ {t}
      /\ \A u \in T \ {t} : f[u] = g[u]
  BY <1>1, <1>3, <1>5, <1>6, <1>7, Zenon
<1>. HIDE DEF T, I, J, S, R, f, g
<1>9. (\A u \in I \ {t} : f[u] = g[u]) /\ (\A u \in S \ {t} : f[u] = g[u])
  BY <1>8
<1>10. \E c \in Nat, d \in Int :
         /\ Cardinality(I) = One(t \in I) + c /\ Cardinality(J) = One(t \in J) + c
         /\ SumFunctionOnSet(f, I) = (IF t \in I THEN f[t] ELSE 0) + d
         /\ SumFunctionOnSet(g, J) = (IF t \in J THEN g[t] ELSE 0) + d
  BY <1>8, <1>9, AllButOne, SMTT(30)
<1>11. \E e \in Nat, d \in Int :
         /\ Cardinality(S) = One(t \in S) + e /\ Cardinality(R) = One(t \in R) + e
         /\ SumFunctionOnSet(f, S) = (IF t \in S THEN f[t] ELSE 0) + d
         /\ SumFunctionOnSet(g, R) = (IF t \in R THEN g[t] ELSE 0) + d
  BY <1>8, <1>9, AllButOne, SMTT(30)
<1>. QED
  BY <1>4, <1>10, <1>11, ZenonT(60) DEF I, J, S, R, f, g

(* What is left of CountsAt once the other threads are taken away. *)
OpsGap(t, a) ==
  io_stats[a].ok + io_stats[a].failed + One(t \in InFlight(a)) - wire[a].ops
CallsGap(t, a) ==
  io_stats[a].retried_attempts + (IF t \in InFlight(a) THEN attempts[t] - 1 ELSE 0)
    - (wire[a].calls - wire[a].ops)
OkGap(t, a) == io_stats[a].ok + One(t \in Succeeded(a)) - wire[a].ok

(* A step of one thread that keeps its share keeps the whole. *)
LEMMA SharesKept ==
  ASSUME IInv, CountInv, UNCHANGED bus, TypeOK', NEW t \in Threads, NEW a \in Addresses,
         \A u \in Threads \ {t} : pc'[u] = pc[u] /\ op'[u] = op[u] /\ attempts'[u] = attempts[u],
         wire'[a] \in Wires,
         OpsGap(t, a)' = OpsGap(t, a), CallsGap(t, a)' = CallsGap(t, a),
         OkGap(t, a)' = OkGap(t, a)
  PROVE  CountsAt(a)'
<1>. DEFINE s == io_stats[a]
            r == io_stats'[a]
            w == wire[a]
            v == wire'[a]
            I == InFlight(a)
            J == InFlight(a)'
            S == Succeeded(a)
            R == Succeeded(a)'
            x == IF t \in InFlight(a) THEN attempts[t] - 1 ELSE 0
            y == IF t \in InFlight(a)' THEN attempts'[t] - 1 ELSE 0
<1>1. s \in Stats /\ r \in Stats /\ w \in Wires /\ v \in Wires
  BY DEF IInv, TypeOK, CountInv
<1>2. x \in Int /\ y \in Int
  <2>1. Threads' = Threads
    BY DEF Threads
  <2>2. attempts[t] \in Nat
    BY DEF IInv, TypeOK
  <2>3. attempts'[t] \in Nat
    <3>1. attempts' \in [Threads' -> Nat]
      BY DEF TypeOK
    <3>. QED
      BY <2>1, <3>1
  <2>4. attempts[t] - 1 \in Int /\ attempts'[t] - 1 \in Int /\ 0 \in Int
    BY <2>2, <2>3
  <2>. QED
    BY <2>4, Zenon
<1>3. /\ s.ok \in Nat /\ s.failed \in Nat /\ s.retried_attempts \in Nat
      /\ r.ok \in Nat /\ r.failed \in Nat /\ r.retried_attempts \in Nat
      /\ w.ops \in Nat /\ w.calls \in Nat /\ w.ok \in Nat
      /\ v.ops \in Nat /\ v.calls \in Nat /\ v.ok \in Nat
  BY <1>1 DEF Stats, Wires
<1>5. PICK c \in Nat, d \in Int, e \in Nat :
        /\ Cardinality(I) = One(t \in I) + c /\ Cardinality(J) = One(t \in J) + c
        /\ SumFunctionOnSet(Extra, I) = x + d /\ SumFunctionOnSet(Extra', J) = y + d
        /\ Cardinality(S) = One(t \in S) + e /\ Cardinality(R) = One(t \in R) + e
  BY OneThread, Zenon
<1>6. /\ s.ok + s.failed + Cardinality(I) = w.ops
      /\ s.retried_attempts + SumFunctionOnSet(Extra, I) = w.calls - w.ops
      /\ s.ok + Cardinality(S) = w.ok
  BY Zenon DEF CountInv, CountsAt
<1>7. /\ r.ok + r.failed + One(t \in J) - v.ops = s.ok + s.failed + One(t \in I) - w.ops
      /\ r.retried_attempts + y - (v.calls - v.ops) = s.retried_attempts + x - (w.calls - w.ops)
      /\ r.ok + One(t \in R) - v.ok = s.ok + One(t \in S) - w.ok
  BY Zenon DEF OpsGap, CallsGap, OkGap
<1>. HIDE DEF s, r, w, v, I, J, S, R, x, y
<1>. DEFINE i == One(t \in I)
            j == One(t \in J)
            k == One(t \in S)
            l == One(t \in R)
            I2 == Cardinality(I)
            J2 == Cardinality(J)
            S2 == Cardinality(S)
            R2 == Cardinality(R)
            p == SumFunctionOnSet(Extra, I)
            q == SumFunctionOnSet(Extra', J)
            over == s.ok + s.failed
            over2 == r.ok + r.failed
            ops == w.ops
            ops2 == v.ops
            retried == s.retried_attempts
            retried2 == r.retried_attempts
            more == w.calls - w.ops
            more2 == v.calls - v.ops
            good == s.ok
            good2 == r.ok
            ok == w.ok
            ok2 == v.ok
<1>8. /\ over \in Int /\ over2 \in Int /\ ops \in Int /\ ops2 \in Int
      /\ retried \in Int /\ retried2 \in Int /\ more \in Int /\ more2 \in Int
      /\ good \in Int /\ good2 \in Int /\ ok \in Int /\ ok2 \in Int
      /\ i \in Int /\ j \in Int /\ k \in Int /\ l \in Int /\ c \in Int /\ d \in Int
  BY <1>3 DEF One
<1>9. /\ I2 = i + c /\ J2 = j + c /\ over + I2 = ops /\ over2 + j - ops2 = over + i - ops
      /\ p = x + d /\ q = y + d /\ retried + p = more
      /\ retried2 + y - more2 = retried + x - more
      /\ S2 = k + e /\ R2 = l + e /\ good + S2 = ok /\ good2 + l - ok2 = good + k - ok
  BY <1>5, <1>6, <1>7, Zenon
<1>. HIDE DEF i, j, k, l, I2, J2, S2, R2, p, q, over, over2, ops, ops2,
              retried, retried2, more, more2, good, good2, ok, ok2
<1>10. over2 + J2 = ops2 /\ retried2 + q = more2 /\ good2 + R2 = ok2
  BY <1>2, <1>8, <1>9
<1>. QED
  BY <1>10, Zenon DEF CountsAt, r, v, J, R, over2, J2, ops2, retried2, q, more2, good2, R2, ok2

(* Whether a thread is counted as in flight, and as having succeeded. *)
LEMMA Membership ==
  ASSUME NEW t \in Threads, NEW a
  PROVE  /\ t \in InFlight(a) <=>
              pc[t] \in {"attempt", "succeeded", "failed"} /\ attempts[t] > 0 /\ op[t].address = a
         /\ t \in Succeeded(a) <=> t \in InFlight(a) /\ pc[t] = "succeeded"
BY DEF InFlight, Succeeded

(* A thread that is not at the adapter has no share. *)
LEMMA NoShare ==
  ASSUME IInv, CountInv, UNCHANGED <<bus, io_stats, wire>>, TypeOK', NEW t \in Threads,
         \A u \in Threads \ {t} : pc'[u] = pc[u] /\ op'[u] = op[u] /\ attempts'[u] = attempts[u],
         attempts[t] = 0, attempts'[t] = 0, pc'[t] \notin {"succeeded", "failed"}
  PROVE  CountInv'
<1>1. Threads' = Threads
  BY DEF Threads
<1>2. ASSUME NEW a \in Addresses PROVE CountsAt(a)'
  <2>1. t \notin InFlight(a) /\ t \notin Succeeded(a)
    BY Membership
  <2>2. t \notin InFlight(a)' /\ t \notin Succeeded(a)'
    BY <1>1 DEF InFlight, Succeeded
  <2>3. /\ OpsGap(t, a)' = OpsGap(t, a) /\ CallsGap(t, a)' = CallsGap(t, a)
        /\ OkGap(t, a)' = OkGap(t, a)
    BY <2>1, <2>2 DEF OpsGap, CallsGap, OkGap
  <2>. QED
    BY <2>3, SharesKept DEF CountInv
<1>3. wire' \in [Addresses -> Wires]
  BY DEF CountInv
<1>4. \A u \in Threads' : pc'[u] \in {"succeeded", "failed"} => attempts'[u] > 0
  BY <1>1 DEF CountInv
<1>. QED
  BY <1>2, <1>3, <1>4 DEF CountInv

(* An ioctl is one call, the operation's first is one operation, and it *)
(* counts as a success when it is one.                                  *)
LEMMA WireFacts ==
  ASSUME IInv, CountInv, NEW t \in Threads, Attempt(t)
  PROVE  /\ pc[t] = "attempt" /\ op[t].address \in Addresses
         /\ pc'[t] \in {"attempt", "succeeded", "failed"} /\ attempts'[t] = attempts[t] + 1
         /\ \A u \in Threads \ {t} : pc'[u] = pc[u] /\ op'[u] = op[u] /\ attempts'[u] = attempts[u]
         /\ UNCHANGED <<op, io_stats>>
         /\ LET w == wire[op[t].address] IN
            wire' = [wire EXCEPT ![op[t].address] =
                       [ops |-> w.ops + One(attempts[t] = 0), calls |-> w.calls + 1,
                        ok |-> w.ok + One(pc'[t] = "succeeded")]]
<1>. DEFINE w == wire[op[t].address]
<1>1. pc[t] = "attempt" /\ op[t].address \in Addresses
  BY DEF Attempt, IInv, BudgetOf, Operation
<1>2. pc \in [Threads -> Where]
  BY DEF IInv, TypeOK, Where
<1>3. PICK ioctl \in {"ok", "transient", "hard"},
           now \in IF op[t].kind = "read" THEN {elapsed[t], elapsed[t] + 1} ELSE {0} :
        /\ wire' = [wire EXCEPT ![op[t].address] =
             [ops |-> w.ops + IF attempts[t] = 0 THEN 1 ELSE 0, calls |-> w.calls + 1,
              ok |-> w.ok + IF ioctl = "ok" THEN 1 ELSE 0]]
        /\ CASE ioctl = "ok" -> GoTo(t, "succeeded") /\ UNCHANGED elapsed
            [] ioctl # "ok" /\ TriesAgain(t, ioctl, now) ->
                 elapsed' = [elapsed EXCEPT ![t] = now + 1] /\ UNCHANGED pc
            [] OTHER -> GoTo(t, "failed") /\ UNCHANGED elapsed
  BY DEF Attempt
<1>4. /\ pc'[t] \in {"attempt", "succeeded", "failed"}
      /\ pc'[t] = "succeeded" <=> ioctl = "ok"
      /\ \A u \in Threads \ {t} : pc'[u] = pc[u]
  <2>1. CASE ioctl = "ok"
    <3>1. pc' = [pc EXCEPT ![t] = "succeeded"]
      BY <1>3, <2>1 DEF GoTo
    <3>. QED
      BY <1>2, <2>1, <3>1
  <2>2. CASE ioctl # "ok"
    <3>1. pc' = pc \/ pc' = [pc EXCEPT ![t] = "failed"]
      BY <1>3, <2>2 DEF GoTo
    <3>. QED
      BY <1>1, <1>2, <2>2, <3>1
  <2>. QED
    BY <2>1, <2>2
<1>5. /\ attempts'[t] = attempts[t] + 1 /\ UNCHANGED <<op, io_stats>>
      /\ \A u \in Threads \ {t} : attempts'[u] = attempts[u]
  BY AttemptFacts DEF stats, IInv, TypeOK
<1>6. /\ One(attempts[t] = 0) = IF attempts[t] = 0 THEN 1 ELSE 0
      /\ One(pc'[t] = "succeeded") = IF ioctl = "ok" THEN 1 ELSE 0
  BY <1>4 DEF One
<1>7. /\ pc[t] = "attempt" /\ op[t].address \in Addresses
      /\ pc'[t] \in {"attempt", "succeeded", "failed"} /\ attempts'[t] = attempts[t] + 1
      /\ \A u \in Threads \ {t} : pc'[u] = pc[u] /\ op'[u] = op[u] /\ attempts'[u] = attempts[u]
      /\ UNCHANGED <<op, io_stats>>
  BY <1>1, <1>4, <1>5
<1>8. wire' = [wire EXCEPT ![op[t].address] =
                 [ops |-> w.ops + One(attempts[t] = 0), calls |-> w.calls + 1,
                  ok |-> w.ok + One(pc'[t] = "succeeded")]]
  BY <1>3, <1>6, Zenon
<1>. QED
  BY <1>7, <1>8, Zenon

(* An attempt: the first puts the operation in flight, each further one adds *)
(* one to what is not recorded yet.                                          *)
LEMMA AttemptCounts ==
  ASSUME IInv, CountInv, UNCHANGED bus, TypeOK', NEW t \in Threads, Attempt(t)
  PROVE  CountInv'
<1>. DEFINE b == op[t].address
            w == wire[b]
<1>1. Threads' = Threads
  BY DEF Threads
<1>2. attempts[t] \in Nat /\ attempts'[t] = attempts[t] + 1 /\ attempts'[t] > 0
  <2>1. attempts[t] \in Nat
    BY DEF IInv, TypeOK
  <2>2. attempts'[t] = attempts[t] + 1
    BY WireFacts
  <2>. QED
    BY <2>1, <2>2
<1>3. w \in Wires /\ b \in Addresses
  BY WireFacts DEF CountInv
<1>4. wire' \in [Addresses -> Wires]
  <2>1. [ops |-> w.ops + One(attempts[t] = 0), calls |-> w.calls + 1,
         ok |-> w.ok + One(pc'[t] = "succeeded")] \in Wires
    BY <1>3 DEF Wires, One
  <2>2. wire' = [wire EXCEPT ![b] =
                   [ops |-> w.ops + One(attempts[t] = 0), calls |-> w.calls + 1,
                    ok |-> w.ok + One(pc'[t] = "succeeded")]]
    BY WireFacts
  <2>. QED
    BY <2>1, <2>2 DEF CountInv
<1>5. ASSUME NEW a \in Addresses PROVE CountsAt(a)'
  <2>1. t \notin Succeeded(a) /\ (t \in InFlight(a) <=> attempts[t] > 0 /\ b = a)
    BY WireFacts, Membership
  <2>2. /\ t \in InFlight(a)' <=> b = a
        /\ t \in Succeeded(a)' <=> b = a /\ pc'[t] = "succeeded"
    BY <1>1, <1>2, WireFacts DEF InFlight, Succeeded
  <2>3. io_stats[a] \in Stats /\ io_stats' = io_stats
    BY WireFacts DEF IInv, TypeOK
  <2>4. CASE b # a
    <3>1. wire'[a] = wire[a]
      BY <2>4, WireFacts DEF CountInv
    <3>2. /\ OpsGap(t, a)' = OpsGap(t, a) /\ CallsGap(t, a)' = CallsGap(t, a)
          /\ OkGap(t, a)' = OkGap(t, a)
      BY <2>1, <2>2, <2>3, <2>4, <3>1 DEF OpsGap, CallsGap, OkGap
    <3>. QED
      BY <1>4, <3>2, WireFacts, SharesKept
  <2>5. CASE b = a
    <3>1. wire'[a] = [ops |-> w.ops + One(attempts[t] = 0), calls |-> w.calls + 1,
                      ok |-> w.ok + One(pc'[t] = "succeeded")]
      BY <2>5, WireFacts DEF CountInv
    <3>2. OpsGap(t, a)' = OpsGap(t, a)
      BY <1>2, <1>3, <2>1, <2>2, <2>3, <2>5, <3>1 DEF OpsGap, One, Stats, Wires
    <3>3. CallsGap(t, a)' = CallsGap(t, a)
      BY <1>2, <1>3, <2>1, <2>2, <2>3, <2>5, <3>1 DEF CallsGap, One, Stats, Wires
    <3>4. OkGap(t, a)' = OkGap(t, a)
      BY <1>2, <1>3, <2>1, <2>2, <2>3, <2>5, <3>1 DEF OkGap, One, Stats, Wires
    <3>. QED
      BY <1>4, <3>2, <3>3, <3>4, WireFacts, SharesKept
  <2>. QED
    BY <2>4, <2>5
<1>6. \A u \in Threads' : pc'[u] \in {"succeeded", "failed"} => attempts'[u] > 0
  <2>1. \A u \in Threads \ {t} : pc'[u] = pc[u] /\ attempts'[u] = attempts[u]
    BY WireFacts
  <2>2. \A u \in Threads : pc[u] \in {"succeeded", "failed"} => attempts[u] > 0
    BY DEF CountInv
  <2>. QED
    BY ONLY <1>1, <1>2, <2>1, <2>2
<1>. QED
  BY <1>4, <1>5, <1>6 DEF CountInv

(* Recording an operation takes it out of flight and counts it once, with *)
(* every attempt beyond its first.                                        *)
LEMMA RecordCounts ==
  ASSUME IInv, CountInv, UNCHANGED bus, TypeOK', NEW t \in Threads, Record(t)
  PROVE  CountInv'
<1>. DEFINE b == op[t].address
            ok == pc[t] = "succeeded"
            r == record(io_stats[b], ok, attempts[t])
<1>1. Threads' = Threads
  BY DEF Threads
<1>2. /\ pc[t] \in {"succeeded", "failed"} /\ attempts[t] \in Nat /\ attempts[t] > 0
      /\ b \in Addresses
  BY RecordFacts DEF CountInv, IInv, TypeOK, BudgetOf, Operation
<1>3. /\ pc'[t] \in {"idle", "mutate"} /\ attempts'[t] = 0 /\ wire' = wire
      /\ \A u \in Threads \ {t} : pc'[u] = pc[u] /\ op'[u] = op[u] /\ attempts'[u] = attempts[u]
      /\ io_stats' = [io_stats EXCEPT ![b] = r]
  <2>1. /\ \E w \in {"idle", "mutate"} : pc' = [pc EXCEPT ![t] = w]
        /\ attempts' = [attempts EXCEPT ![t] = 0] /\ op' = op
    BY RecordFacts
  <2>2. io_stats' = [io_stats EXCEPT ![b] = r] /\ wire' = wire
    BY DEF Record
  <2>. QED
    BY <2>1, <2>2 DEF IInv, TypeOK
<1>4. \A a \in Addresses : io_stats[a] \in Stats /\ wire[a] \in Wires
  BY DEF IInv, TypeOK, CountInv
<1>5. ASSUME NEW a \in Addresses PROVE CountsAt(a)'
  <2>1. (t \in InFlight(a) <=> b = a) /\ (t \in Succeeded(a) <=> b = a /\ ok)
    BY <1>2, Membership
  <2>2. t \notin InFlight(a)' /\ t \notin Succeeded(a)'
    BY <1>1, <1>3 DEF InFlight, Succeeded
  <2>3. CASE b # a
    <3>1. io_stats'[a] = io_stats[a]
      BY <1>3, <2>3 DEF IInv, TypeOK
    <3>2. /\ OpsGap(t, a)' = OpsGap(t, a) /\ CallsGap(t, a)' = CallsGap(t, a)
          /\ OkGap(t, a)' = OkGap(t, a)
      BY <1>3, <2>1, <2>2, <2>3, <3>1 DEF OpsGap, CallsGap, OkGap
    <3>. QED
      BY <1>3, <1>4, <3>2, SharesKept
  <2>4. CASE b = a
    <3>1. Max({attempts[t] - 1, 0}) = attempts[t] - 1
      BY <1>2, MaxOfTwo
    <3>2. /\ io_stats'[a].ok = io_stats[a].ok + One(ok)
          /\ io_stats'[a].failed = io_stats[a].failed + One(~ok)
          /\ io_stats'[a].retried_attempts = io_stats[a].retried_attempts + (attempts[t] - 1)
      BY <1>2, <1>3, <2>4, <3>1 DEF record, One, IInv, TypeOK
    <3>3. OpsGap(t, a)' = OpsGap(t, a)
      BY <1>3, <1>4, <2>1, <2>2, <2>4, <3>2 DEF OpsGap, One, Stats, Wires
    <3>4. CallsGap(t, a)' = CallsGap(t, a)
      BY <1>2, <1>3, <1>4, <2>1, <2>2, <2>4, <3>2 DEF CallsGap, One, Stats, Wires
    <3>5. OkGap(t, a)' = OkGap(t, a)
      BY <1>3, <1>4, <2>1, <2>2, <2>4, <3>2 DEF OkGap, One, Stats, Wires
    <3>. QED
      BY <1>3, <1>4, <3>3, <3>4, <3>5, SharesKept
  <2>. QED
    BY <2>3, <2>4
<1>6. wire' \in [Addresses -> Wires]
  BY <1>3 DEF CountInv
<1>7. \A u \in Threads' : pc'[u] \in {"succeeded", "failed"} => attempts'[u] > 0
  BY <1>1, <1>3 DEF CountInv
<1>. QED
  BY <1>5, <1>6, <1>7 DEF CountInv

(* A step that no thread takes leaves the counts alone. *)
LEMMA CountIdle ==
  ASSUME IInv, CountInv, UNCHANGED <<bus, pc, op, attempts, io_stats, wire>>
  PROVE  CountInv'
<1>1. /\ Threads' = Threads /\ Extra' = Extra
      /\ \A a \in Addresses : InFlight(a)' = InFlight(a) /\ Succeeded(a)' = Succeeded(a)
  BY DEF Threads, Extra, InFlight, Succeeded
<1>2. ASSUME NEW a \in Addresses PROVE CountsAt(a)'
  BY <1>1 DEF CountInv, CountsAt
<1>. QED
  BY <1>1, <1>2 DEF CountInv

(* Every step keeps the counters in line with the wire. *)
LEMMA CountStep == ASSUME IInv, CountInv, TypeOK', [Next]_vars PROVE CountInv'
<1>1. UNCHANGED bus
  BY DEF Next, vars
<1>2. ASSUME NEW t \in Threads, Begin(t) PROVE CountInv'
  <2>1. /\ attempts[t] = 0 /\ attempts' = attempts
        /\ pc'[t] = "load" /\ UNCHANGED <<io_stats, wire>>
        /\ \A u \in Threads \ {t} : pc'[u] = pc[u] /\ op'[u] = op[u]
    <3>1. /\ pc' = [pc EXCEPT ![t] = "load"] /\ pc[t] = "idle"
          /\ \E o \in Operation : op' = [op EXCEPT ![t] = o]
          /\ UNCHANGED <<attempts, stats>>
      BY <1>2, BeginFacts
    <3>2. wire' = wire
      BY <1>2 DEF Begin
    <3>. QED
      BY <3>1, <3>2 DEF IInv, BudgetOf, TypeOK, stats
  <2>. QED
    BY <1>1, <2>1, NoShare
<1>3. ASSUME NEW t \in Threads,
             LoadCounters(t) \/ StoreCounters(t) \/ Decide(t) \/ Enter(t) \/ mutate_read(t)
      PROVE  CountInv'
  <2>1. /\ pc[t] \in {"load", "store", "decide", "enter", "mutate"}
        /\ \E w \in {"idle", "store", "decide", "enter", "attempt"} :
             pc' = [pc EXCEPT ![t] = w]
        /\ UNCHANGED <<op, attempts, io_stats>>
    <3>1. CASE LoadCounters(t) \/ StoreCounters(t)
      BY <3>1, CountFacts, SMTT(30) DEF stats
    <3>2. CASE Decide(t)
      BY <3>2, DecideFacts, SMTT(30) DEF stats
    <3>3. CASE Enter(t)
      BY <3>3, EnterFacts, SMTT(30) DEF stats
    <3>4. CASE mutate_read(t)
      BY <3>4, MutateFacts, SMTT(30) DEF stats
    <3>. QED
      BY <1>3, <3>1, <3>2, <3>3, <3>4, Zenon
  <2>2. wire' = wire
    BY <1>3 DEF LoadCounters, StoreCounters, Decide, Enter, mutate_read
  <2>3. /\ attempts[t] = 0 /\ pc'[t] \notin {"succeeded", "failed"}
        /\ \A u \in Threads \ {t} : pc'[u] = pc[u]
    <3>1. DOMAIN pc = Threads
      BY DEF IInv, TypeOK
    <3>2. attempts[t] = 0
      BY <2>1 DEF IInv, BudgetOf
    <3>. QED
      BY <2>1, <3>1, <3>2
  <2>. QED
    BY <1>1, <2>1, <2>2, <2>3, NoShare
<1>4. ASSUME NEW t \in Threads, Attempt(t) PROVE CountInv'
  BY <1>1, <1>4, AttemptCounts
<1>5. ASSUME NEW t \in Threads, Record(t) PROVE CountInv'
  BY <1>1, <1>5, RecordCounts
<1>6. CASE Open \/ Close \/ SnapshotInner \/ SnapshotInjected \/ UNCHANGED vars
  BY <1>1, <1>6, CountIdle DEF Open, Close, SnapshotInner, SnapshotInjected, vars, stats
<1>. QED
  BY <1>2, <1>3, <1>4, <1>5, <1>6 DEF Next, Step

(* Nothing has reached the wire at the start. *)
LEMMA InitCounts == Init => CountInv
<1>. SUFFICES ASSUME Init PROVE CountInv
  OBVIOUS
<1>1. ASSUME NEW a \in Addresses PROVE CountsAt(a)
  <2>1. InFlight(a) = {} /\ Succeeded(a) = {}
    BY DEF Init, InFlight, Succeeded
  <2>2. Cardinality({}) = 0
    BY FS_EmptySet
  <2>. QED
    BY <1>1, <2>1, <2>2, SumOfNone DEF Init, CountsAt, NoStats
<1>2. wire \in [Addresses -> Wires]
  BY DEF Init, Wires
<1>. QED
  BY <1>1, <1>2 DEF Init, CountInv

(* However many threads share the bus and however their ioctls fail, the   *)
(* counters account for every operation that reached the wire and every    *)
(* attempt beyond its first, but for those still in flight.                *)
THEOREM CountersCorrect == Spec => []CountersMatchTheWire
<1>1. IInv /\ IInv' /\ CountInv /\ [Next]_vars => CountInv'
  BY CountStep DEF IInv
<1>2. CountInv => CountersMatchTheWire
  BY DEF CountInv, CountsAt, Succeeded, Extra, CountersMatchTheWire
<1>. QED
  BY BusInvariant, InitCounts, <1>1, <1>2, PTL DEF Spec

-----------------------------------------------------------------------------
(* What FaultSpec::parse reads of a query. *)

(* A remainder below the divisor, and that of the divisor itself. *)
LEMMA SmallRemainder ==
  ASSUME NEW d \in Nat \ {0}, NEW a \in 0..(d - 1)
  PROVE  a % d = a /\ d % d = 0
OBVIOUS

(* strtoul's wrapped reading of a negative number is 0 for 0 only. *)
LEMMA WrapsToZero ==
  ASSUME NEW d \in Nat \ {0}, NEW a \in 0..(d - 1)
  PROVE  (d - a) % d = 0 <=> a = 0
<1>1. CASE a = 0
  BY <1>1, SmallRemainder
<1>2. CASE a # 0
  <2>. DEFINE m == d - a
  <2>1. m \in 0..(d - 1) /\ m # 0
    BY <1>2
  <2>. HIDE DEF m
  <2>2. m % d = m
    BY <2>1, SmallRemainder
  <2>. QED
    BY <1>2, <2>1, <2>2 DEF m
<1>. QED
  BY <1>1, <1>2

(* What strtoul takes for a number, where it wraps none. *)
LEMMA ValueRead ==
  ASSUME NEW v \in Texts, ~(v.lead = "blank_minus" /\ Parses(v) /\ Strtoul(v) # 0)
  PROVE  /\ Parses(v) <=> WellFormed(v)
         /\ WellFormed(v) => Strtoul(v) = v.number
<1>. DEFINE n == v.number
            small == n \in 0..(U32 - 1)
<1>0. /\ n \in Nat \/ n = None
      /\ v.lead \in {"plain", "minus", "blank", "blank_minus"} /\ v.tail \in BOOLEAN /\ None \notin Nat
  BY BusAssumption DEF Texts
<1>n. U32 \in Nat \ {0} /\ ULong \in Nat \ {0} /\ U32 <= ULong
  BY BusAssumption
<1>1. CASE n = None
  <2>1. None \notin 0..(U32 - 1) /\ None # 0
    BY <1>0, <1>n
  <2>. QED
    BY <1>1, <2>1 DEF Parses, WellFormed
<1>2. CASE n \in Nat
  <2>0. n # None
    BY <1>0, <1>2
  <2>1. CASE v.lead \in {"plain", "blank"}
    <3>1. Strtoul(v) = n /\ v.lead # "minus"
      BY <2>1 DEF Strtoul
    <3>2. Parses(v) <=> ~v.tail /\ n < ULong /\ n < U32
      BY <2>0, <3>1 DEF Parses
    <3>3. WellFormed(v) <=> ~v.tail /\ small
      BY <2>1 DEF WellFormed
    <3>4. n < ULong /\ n < U32 <=> small
      <4>. HIDE DEF n
      <4>. QED
        BY <1>n, <1>2
    <3>. QED
      BY <3>1, <3>2, <3>3, <3>4, Zenon
  <2>2. CASE v.lead = "minus"
    BY <2>2 DEF Parses, WellFormed
  <2>3. CASE v.lead = "blank_minus"
    <3>1. Strtoul(v) = (ULong - n) % ULong
      BY <2>3 DEF Strtoul
    <3>2. Parses(v) <=> ~v.tail /\ n < ULong /\ Strtoul(v) < U32
      BY <2>0, <2>3 DEF Parses
    <3>3. WellFormed(v) <=> ~v.tail /\ small /\ n = 0
      BY <2>3 DEF WellFormed
    <3>. HIDE DEF n
    <3>4. n < ULong <=> n \in 0..(ULong - 1)
      BY <1>n, <1>2
    <3>5. n < ULong => (Strtoul(v) = 0 <=> n = 0)
      BY <1>n, <3>1, <3>4, WrapsToZero
    <3>6. n = 0 => small /\ n < ULong
      BY <1>n
    <3>7. 0 < U32
      BY <1>n
    <3>8. Parses(v) => Strtoul(v) = 0
      BY <2>3
    <3>. HIDE DEF small
    <3>9. Parses(v) <=> WellFormed(v)
      <4>1. ASSUME Parses(v) PROVE WellFormed(v)
        BY <4>1, <3>2, <3>3, <3>5, <3>6, <3>8, Zenon
      <4>2. ASSUME WellFormed(v) PROVE Parses(v)
        <5>1. n = 0 /\ n < ULong /\ ~v.tail
          BY <4>2, <3>3, <3>6
        <5>2. Strtoul(v) = 0
          BY <5>1, <3>5
        <5>. QED
          BY <5>1, <5>2, <3>2, <3>7, Zenon
      <4>. QED
        BY <4>1, <4>2
    <3>. QED
      BY <3>3, <3>5, <3>6, <3>9, Zenon DEF n
  <2>. QED
    BY <1>0, <2>1, <2>2, <2>3
<1>. QED
  BY <1>0, <1>1, <1>2

(* What the pairs at the positions s make of a field. *)
Naming(s, f) ==
  {k \in s : bus.query[k].key = f /\ WellFormed(bus.query[k].value)}
NumberOf(f, v) == IF f = "pad_byte" THEN v.number % U8 ELSE v.number
FieldOf(s, f) ==
  IF Naming(s, f) = {} THEN NoFaults[f]
  ELSE NumberOf(f, bus.query[Max(Naming(s, f))].value)
FaultsOf(s) == [f \in Fields |-> FieldOf(s, f)]

(* The greatest of some positions is the one that is none of the others' less. *)
LEMMA MaxUnique ==
  ASSUME NEW n \in Nat, NEW T, T \subseteq 0..n, NEW m \in T, \A y \in T : y <= m
  PROVE  Max(T) = m
<1>1. Max(T) \in T /\ Max(T) >= m
  BY MaxOfPositions
<1>2. \A y \in T : y \in Int
  OBVIOUS
<1>3. Max(T) <= m /\ Max(T) \in Int /\ m \in Int
  BY <1>1, <1>2
<1>. QED
  BY <1>1, <1>3

(* The last pair of some positions is the last word on the field it names. *)
LEMMA LastPair ==
  ASSUME bus \in Buses, ~Misread, NEW s \in SUBSET (DOMAIN bus.query), s # {}
  PROVE  /\ Max(s) \in s /\ \A y \in s : y <= Max(s)
         /\ FaultsOf(s) = SetField(FaultsOf(s \ {Max(s)}), bus.query[Max(s)])
<1>. DEFINE q == bus.query
            k == Max(s)
            rest == s \ {k}
            v == q[k].value
            named == q[k].key
<1>0. q \in Seq([key : STRING, value : Texts])
  BY BusAssumption
<1>1. /\ Len(q) \in Nat /\ DOMAIN q = 1..Len(q)
      /\ \A i \in DOMAIN q : q[i] \in [key : STRING, value : Texts]
  <2>. DEFINE P == [key : STRING, value : Texts]
  <2>1. q \in Seq(P)
    BY <1>0
  <2>. HIDE DEF P, q
  <2>2. Len(q) \in Nat /\ DOMAIN q = 1..Len(q) /\ \A i \in DOMAIN q : q[i] \in P
    BY <2>1
  <2>. QED
    BY <2>2 DEF P
<1>2. s \subseteq 0..Len(q)
  BY <1>1
<1>3. k \in s /\ \A y \in s : y <= k
  BY <1>1, <1>2, MaxOfPositions
<1>. HIDE DEF k
<1>4. v \in Texts /\ named \in STRING
  BY <1>1, <1>3
<1>5. /\ Parses(v) <=> WellFormed(v)
      /\ WellFormed(v) => Strtoul(v) = v.number
  BY <1>3, <1>4, ValueRead DEF Misread
<1>6. ASSUME NEW f \in Fields, ~(named = f /\ WellFormed(v))
      PROVE  FieldOf(s, f) = FieldOf(rest, f)
  <2>1. Naming(s, f) = Naming(rest, f)
    BY <1>6 DEF Naming
  <2>. QED
    BY <2>1 DEF FieldOf
<1>7. ASSUME NEW f \in Fields, named = f, WellFormed(v)
      PROVE  FieldOf(s, f) = NumberOf(f, v)
  <2>1. k \in Naming(s, f) /\ Naming(s, f) \subseteq s
    BY <1>3, <1>7 DEF Naming
  <2>2. Max(Naming(s, f)) = k
    BY <1>1, <1>2, <1>3, <2>1, MaxUnique
  <2>. QED
    BY <2>1, <2>2 DEF FieldOf
<1>8. CASE named \in Fields /\ WellFormed(v)
  <2>1. SetField(FaultsOf(rest), q[k]) =
          [FaultsOf(rest) EXCEPT ![named] = NumberOf(named, v)]
    BY <1>5, <1>8 DEF SetField, NumberOf
  <2>2. \A f \in Fields : FieldOf(s, f) =
          IF f = named THEN NumberOf(named, v) ELSE FieldOf(rest, f)
    BY <1>6, <1>7, <1>8
  <2>3. FaultsOf(s) = [FaultsOf(rest) EXCEPT ![named] = NumberOf(named, v)]
    BY <1>8, <2>2 DEF FaultsOf
  <2>. QED
    BY <1>3, <2>1, <2>3 DEF k
<1>9. CASE ~(named \in Fields /\ WellFormed(v))
  <2>1. SetField(FaultsOf(rest), q[k]) = FaultsOf(rest)
    BY <1>5, <1>9 DEF SetField
  <2>2. \A f \in Fields : FieldOf(s, f) = FieldOf(rest, f)
    BY <1>6, <1>9
  <2>3. FaultsOf(s) = FaultsOf(rest)
    BY <2>2 DEF FaultsOf
  <2>. QED
    BY <1>3, <2>1, <2>3 DEF k
<1>. QED
  BY <1>8, <1>9

(* How a fold over the query goes: one pair after the other, the last at the *)
(* greatest position.                                                        *)
Folds(h) ==
  h = [s \in SUBSET (DOMAIN bus.query) |->
         IF s = {} THEN NoFaults ELSE SetField(h[s \ {Max(s)}], bus.query[Max(s)])]

(* Only one function goes so. *)
LEMMA FoldIs ==
  ASSUME bus \in Buses, ~Misread, NEW h, Folds(h)
  PROVE  h[DOMAIN bus.query] = FaultsOf(DOMAIN bus.query)
<1>. DEFINE q == bus.query
            D == DOMAIN q
            T == {n \in Nat : \A s \in SUBSET D : s \subseteq 1..n => h[s] = FaultsOf(s)}
<1>0. q \in Seq([key : STRING, value : Texts])
  BY BusAssumption
<1>1. Len(q) \in Nat /\ D = 1..Len(q)
  BY <1>0
<1>2. \A s \in SUBSET D :
        h[s] = IF s = {} THEN NoFaults ELSE SetField(h[s \ {Max(s)}], q[Max(s)])
  BY DEF Folds
<1>3. h[{}] = FaultsOf({})
  <2>1. \A f \in Fields : FieldOf({}, f) = NoFaults[f]
    BY DEF FieldOf, Naming
  <2>2. FaultsOf({}) = NoFaults
    BY <2>1 DEF FaultsOf, NoFaults
  <2>. QED
    BY <1>2, <2>2
<1>4. 0 \in T
  BY <1>3
<1>5. ASSUME NEW n \in Nat, n \in T PROVE n + 1 \in T
  <2>. SUFFICES ASSUME NEW s \in SUBSET D, s \subseteq 1..(n + 1)
                PROVE  h[s] = FaultsOf(s)
    OBVIOUS
  <2>. SUFFICES ASSUME s # {} PROVE h[s] = FaultsOf(s)
    BY <1>3
  <2>. DEFINE k == Max(s)
  <2>1. k \in s /\ (\A y \in s : y <= k) /\ FaultsOf(s) = SetField(FaultsOf(s \ {k}), q[k])
    BY LastPair
  <2>2. h[s] = SetField(h[s \ {k}], q[k])
    BY <1>2
  <2>. HIDE DEF k
  <2>3. s \ {k} \in SUBSET D /\ s \ {k} \subseteq 1..n
    BY <2>1
  <2>4. h[s \ {k}] = FaultsOf(s \ {k})
    BY <1>5, <2>3
  <2>. QED
    BY <2>1, <2>2, <2>4
<1>. HIDE DEF T
<1>6. Len(q) \in T
  BY <1>1, <1>4, <1>5, NatSetInduction
<1>. QED
  BY <1>1, <1>6 DEF T

(* Whatever fields a query names, known or not, how often and in what      *)
(* order, parse reads of each what the query says: its last well-formed     *)
(* value, or the default; as long as no value of it is misread.             *)
THEOREM ParsesWhatIsSaid ==
  ASSUME bus \in Buses, ~Misread
  PROVE  parse(bus.query) = [f \in Fields |-> Said(f)]
<1>. DEFINE q == bus.query
            D == DOMAIN q
            h == CHOOSE h : Folds(h)
<1>1. Folds([s \in SUBSET D |-> FaultsOf(s)])
  <2>. DEFINE g == [s \in SUBSET D |-> FaultsOf(s)]
  <2>1. ASSUME NEW s \in SUBSET D
        PROVE  FaultsOf(s) = IF s = {} THEN NoFaults
                             ELSE SetField(g[s \ {Max(s)}], q[Max(s)])
    <3>1. CASE s = {}
      <4>1. \A f \in Fields : FieldOf({}, f) = NoFaults[f]
        BY DEF FieldOf, Naming
      <4>. QED
        BY <3>1, <4>1 DEF FaultsOf, NoFaults
    <3>2. CASE s # {}
      <4>1. FaultsOf(s) = SetField(FaultsOf(s \ {Max(s)}), q[Max(s)])
        BY <3>2, LastPair
      <4>2. g[s \ {Max(s)}] = FaultsOf(s \ {Max(s)})
        OBVIOUS
      <4>. QED
        BY <3>2, <4>1, <4>2
    <3>. QED
      BY <3>1, <3>2
  <2>. QED
    BY <2>1, Zenon DEF Folds
<1>2. Folds(h)
  BY <1>1
<1>3. parse(q) = h[D]
  BY DEF parse, FoldLeft, MapThenFoldSet, Folds
<1>. HIDE DEF h
<1>4. parse(q) = FaultsOf(D)
  BY <1>2, <1>3, FoldIs
<1>5. \A f \in Fields : FieldOf(D, f) = Said(f)
  BY DEF FieldOf, Naming, NumberOf, Said
<1>. QED
  BY <1>4, <1>5 DEF FaultsOf

(* A query that the fault plan follows to the letter, on a bus of one thread. *)
Plain ==
  /\ Cardinality(Threads) = 1 /\ ~Misread
  /\ Said("drop_after") + Said("drop_for") < U32

(* The plan is what the query says, in numbers. *)
LEMMA PlanFacts ==
  ASSUME bus \in Buses, ~Misread, spec = parse(bus.query)
  PROVE  /\ spec = [f \in Fields |-> Said(f)]
         /\ spec \in [Fields -> Nat]
<1>. DEFINE q == bus.query
<1>0. U8 \in Nat \ {0} /\ U32 \in Nat \ {0}
  BY BusAssumption
<1>1. spec = [f \in Fields |-> Said(f)]
  BY ParsesWhatIsSaid
<1>2. Len(q) \in Nat /\ DOMAIN q = 1..Len(q)
  <2>1. q \in Seq([key : STRING, value : Texts])
    BY BusAssumption
  <2>. QED
    BY <2>1
<1>3. ASSUME NEW f \in Fields PROVE Said(f) \in Nat
  <2>. DEFINE ks == {k \in DOMAIN q : q[k].key = f /\ WellFormed(q[k].value)}
              n == q[Max(ks)].value.number
  <2>1. CASE ks = {}
    <3>1. Said(f) = NoFaults[f]
      BY <2>1 DEF Said
    <3>. QED
      BY <1>0, <3>1 DEF NoFaults
  <2>2. CASE ks # {}
    <3>1. Max(ks) \in ks
      <4>1. ks \subseteq 0..Len(q)
        BY <1>2
      <4>. QED
        BY <1>2, <2>2, <4>1, MaxOfPositions
    <3>2. n \in 0..(U32 - 1)
      BY <3>1 DEF WellFormed
    <3>3. Said(f) = IF f = "pad_byte" THEN n % U8 ELSE n
      BY <2>2 DEF Said
    <3>. HIDE DEF n
    <3>4. n \in Nat /\ n % U8 \in Nat
      BY <1>0, <3>2
    <3>. QED
      BY <3>3, <3>4
  <2>. QED
    BY <2>1, <2>2
<1>. QED
  BY <1>1, <1>3

(* A set of positions up to n, and the next one: it has one element more. *)
LEMMA CountOneMore ==
  ASSUME NEW n \in Nat, NEW A, A \subseteq 1..n
  PROVE  Cardinality(A) \in Nat /\ Cardinality(A \cup {n + 1}) = Cardinality(A) + 1
<1>0. IsFiniteSet(1..n)
  BY FS_Interval
<1>1. IsFiniteSet(A) /\ n + 1 \notin A
  <2>1. n + 1 \notin 1..n
    OBVIOUS
  <2>. QED
    BY <1>0, <2>1, FS_Subset
<1>2. Cardinality(A) \in Nat
  BY <1>1, FS_CardinalityType
<1>3. Cardinality(A \cup {n + 1}) = Cardinality(A) + 1
  BY <1>1, FS_AddElement
<1>. QED
  BY <1>2, <1>3

(* One operation more in the log, and the phases it has. *)
LEMMA LogGrows ==
  ASSUME NEW n, n = Len(log), NEW E, log \in Seq(E), NEW e \in E, log' = Append(log, e)
  PROVE  /\ n \in Nat /\ DOMAIN log = 1..n
         /\ log' \in Seq(E) /\ Len(log') = n + 1 /\ DOMAIN log' = 1..(n + 1)
         /\ log'[n + 1] = e /\ \A k \in 1..n : log'[k] = log[k]
         /\ \A k \in 1..n : Writes(k)' = Writes(k) /\ Reads(k)' = Reads(k)
         /\ Writes(n) \in Nat /\ Writes(n + 1)' = Writes(n) + One(WritePhase(e.kind))
         /\ Reads(n) \in Nat /\ Reads(n + 1)' = Reads(n) + One(ReadPhase(e.kind))
<1>1. /\ n \in Nat /\ DOMAIN log = 1..n
      /\ log' \in Seq(E) /\ Len(log') = n + 1 /\ DOMAIN log' = 1..(n + 1)
      /\ log'[n + 1] = e /\ \A k \in 1..n : log'[k] = log[k]
  OBVIOUS
<1>2. ASSUME NEW k \in 1..n PROVE Writes(k)' = Writes(k) /\ Reads(k)' = Reads(k)
  <2>1. \A j \in 1..k : log'[j] = log[j]
    BY <1>1
  <2>. QED
    BY <2>1 DEF Writes, Reads
<1>3. Writes(n) \in Nat /\ Writes(n + 1)' = Writes(n) + One(WritePhase(e.kind))
  <2>. DEFINE A == {j \in 1..n : WritePhase(log[j].kind)}
              B == {j \in 1..(n + 1) : WritePhase(log'[j].kind)}
              due == WritePhase(e.kind)
  <2>1. B = IF due THEN A \cup {n + 1} ELSE A
    BY <1>1
  <2>. HIDE DEF A, B, due
  <2>2. A \subseteq 1..n
    BY DEF A
  <2>3. Cardinality(A) \in Nat /\ Cardinality(A \cup {n + 1}) = Cardinality(A) + 1
    BY <1>1, <2>2, CountOneMore
  <2>4. Cardinality(B) = Cardinality(A) + One(due)
    <3>1. CASE due
      BY <2>1, <2>3, <3>1 DEF One
    <3>2. CASE ~due
      BY <2>1, <2>3, <3>2 DEF One
    <3>. QED
      BY <3>1, <3>2
  <2>. QED
    BY <2>3, <2>4 DEF Writes, A, B, due
<1>4. Reads(n) \in Nat /\ Reads(n + 1)' = Reads(n) + One(ReadPhase(e.kind))
  <2>. DEFINE A == {j \in 1..n : ReadPhase(log[j].kind)}
              B == {j \in 1..(n + 1) : ReadPhase(log'[j].kind)}
              due == ReadPhase(e.kind)
  <2>1. B = IF due THEN A \cup {n + 1} ELSE A
    BY <1>1
  <2>. HIDE DEF A, B, due
  <2>2. A \subseteq 1..n
    BY DEF A
  <2>3. Cardinality(A) \in Nat /\ Cardinality(A \cup {n + 1}) = Cardinality(A) + 1
    BY <1>1, <2>2, CountOneMore
  <2>4. Cardinality(B) = Cardinality(A) + One(due)
    <3>1. CASE due
      BY <2>1, <2>3, <3>1 DEF One
    <3>2. CASE ~due
      BY <2>1, <2>3, <3>2 DEF One
    <3>. QED
      BY <3>1, <3>2
  <2>. QED
    BY <2>3, <2>4 DEF Reads, A, B, due
<1>. QED
  BY <1>1, <1>2, <1>3, <1>4

-----------------------------------------------------------------------------
(* The fault plan under one thread. *)

Entries ==
  [kind : Kinds, address : Addresses, latency : {spec.latency_us}, fault : Errors \cup {"Ok"}]

(* The decorator's counters are those of the operations in the log, but for *)
(* the one that is counted and not yet decided.                             *)
CountsDue(t) ==
  LET due == pc[t] = "decide"
      n == Len(log) IN
  /\ counters = [op |-> n + One(due),
                 write |-> Writes(n) + One(due /\ WritePhase(op[t].kind)),
                 read |-> Reads(n) + One(due /\ ReadPhase(op[t].kind))]
  /\ pc[t] = "store" => loaded[t] = counters

(* A reply is empty until its read succeeds, whole until mutate_read has    *)
(* seen it, and then what the plan promises.                                *)
ReplyDue(t) ==
  /\ pc[t] \notin {"idle", "mutate"} => reply[t] = NoReply
  /\ pc[t] = "mutate" =>
       ReadPhase(op[t].kind) /\ reply[t] = [NoReply EXCEPT !.len = op[t].rx]
  /\ pc[t] = "idle" /\ op[t] # None /\ status[t] = "Ok" =>
       reply[t] = IF ReadPhase(op[t].kind) /\ op[t].rx > 0
                  THEN PromisedReply(spec, Len(log), op[t].rx) ELSE NoReply

PlanInv ==
  /\ log \in Seq(Entries) /\ DOMAIN reply = Threads
  /\ \A k \in DOMAIN log : log[k].fault = PromisedFault(spec, k)
  /\ \A t \in Threads : CountsDue(t) /\ ReplyDue(t)

FaultInv == spec = parse(bus.query) /\ (Plain => PlanInv)

(* The phases counted up to an operation are some number. *)
LEMMA PhasesCounted ==
  ASSUME NEW n \in Nat PROVE Writes(n) \in Nat /\ Reads(n) \in Nat
<1>1. IsFiniteSet(1..n)
  BY FS_Interval
<1>. QED
  BY <1>1, FS_Subset, FS_CardinalityType DEF Writes, Reads

(* What the steps under a plain plan start from. *)
PlainStep(t) ==
  /\ IInv /\ TypeOK' /\ Threads = {t} /\ UNCHANGED <<bus, spec>> /\ PlanInv
  /\ spec \in [Fields -> Nat] /\ spec.drop_after + spec.drop_for < U32

(* A step that leaves the log alone: the counters and the reply of the one  *)
(* thread are all there is to show.                                         *)
LEMMA LogKept ==
  ASSUME NEW t, PlainStep(t), log' = log, DOMAIN reply' = DOMAIN reply,
         CountsDue(t)', ReplyDue(t)'
  PROVE  PlanInv'
<1>1. Threads' = {t} /\ Threads = {t} /\ Entries' = Entries /\ spec' = spec
  BY DEF PlainStep, Threads, Entries
<1>2. log' \in Seq(Entries') /\ DOMAIN reply' = Threads'
  BY <1>1 DEF PlainStep, PlanInv
<1>3. \A k \in DOMAIN log : PromisedFault(spec, k)' = PromisedFault(spec, k)
  BY <1>1 DEF PromisedFault, Writes, Reads
<1>4. \A k \in DOMAIN log' : log'[k].fault = PromisedFault(spec, k)'
  BY <1>1, <1>3 DEF PlainStep, PlanInv
<1>5. \A u \in Threads' : CountsDue(u)' /\ ReplyDue(u)'
  BY <1>1
<1>. QED
  BY <1>2, <1>4, <1>5 DEF PlanInv

(* A step at which nothing is counted or decided keeps the counts. *)
LEMMA CountsKept ==
  ASSUME NEW t, PlainStep(t), UNCHANGED <<log, counters>>, pc[t] # "decide",
         pc'[t] \notin {"store", "decide"}
  PROVE  CountsDue(t)'
<1>1. CountsDue(t)
  BY DEF PlainStep, PlanInv
<1>2. \A k : Writes(k)' = Writes(k) /\ Reads(k)' = Reads(k)
  BY DEF Writes, Reads
<1>. QED
  BY <1>1, <1>2 DEF CountsDue, One

(* Beginning an operation empties the reply. *)
LEMMA PlanBegin == ASSUME NEW t, PlainStep(t), Begin(t) PROVE PlanInv'
<1>1. /\ pc[t] = "idle" /\ pc'[t] = "load" /\ reply'[t] = NoReply
      /\ UNCHANGED <<log, counters>> /\ DOMAIN reply' = DOMAIN reply
  BY DEF Begin, GoTo, PlainStep, PlanInv, IInv, TypeOK
<1>2. ReplyDue(t)'
  BY <1>1 DEF ReplyDue
<1>. QED
  BY <1>1, <1>2, LogKept, CountsKept

(* With no other thread to race with, every increment is counted. *)
LEMMA PlanCount ==
  ASSUME NEW t, PlainStep(t), LoadCounters(t) \/ StoreCounters(t)
  PROVE  PlanInv'
<1>0. /\ CountsDue(t) /\ ReplyDue(t) /\ pc \in [Threads -> Where] /\ t \in Threads
      /\ loaded \in [Threads -> [{"op", "write", "read"} -> Nat]]
      /\ counters \in [{"op", "write", "read"} -> Nat]
  BY DEF PlainStep, PlanInv, IInv, TypeOK, Where
<1>1. /\ pc[t] \in {"load", "store"} /\ pc'[t] \in {"store", "decide"}
      /\ UNCHANGED <<log, reply, op>>
  BY <1>0 DEF LoadCounters, StoreCounters, GoTo
<1>2. ReplyDue(t)'
  BY <1>0, <1>1 DEF ReplyDue
<1>3. \A k : Writes(k)' = Writes(k) /\ Reads(k)' = Reads(k)
  BY <1>1 DEF Writes, Reads
<1>4. CASE LoadCounters(t)
  <2>1. pc'[t] = "store" /\ pc[t] = "load" /\ loaded'[t] = counters /\ counters' = counters
    BY <1>0, <1>4 DEF LoadCounters, GoTo
  <2>2. CountsDue(t)'
    BY <1>0, <1>1, <1>3, <2>1 DEF CountsDue, One
  <2>. QED
    BY <1>1, <1>2, <2>2, LogKept
<1>5. CASE StoreCounters(t)
  <2>. DEFINE w == WritePhase(op[t].kind)
              r == ReadPhase(op[t].kind)
              n == Len(log)
  <2>1. pc[t] = "store" /\ pc'[t] = "decide" /\ loaded[t] = counters
    BY <1>0, <1>5 DEF StoreCounters, GoTo, CountsDue
  <2>2. \A c, due :
          Increment(t, c, due) = IF due THEN {counters[c] + 1} ELSE {counters[c]}
    BY <2>1 DEF Increment
  <2>3. w \in BOOLEAN /\ r \in BOOLEAN
    BY DEF WritePhase, ReadPhase
  <2>4. counters = [op |-> n + 0, write |-> Writes(n) + 0, read |-> Reads(n) + 0]
    BY <1>0, <2>1 DEF CountsDue, One
  <2>5. Increment(t, "write", w) = {counters["write"] + One(w)}
    <3>1. counters["write"] \in Nat
      BY <1>0
    <3>2. CASE w
      BY <2>2, <3>2 DEF One
    <3>3. CASE ~w
      <4>1. counters["write"] + 0 = counters["write"] /\ One(w) = 0
        BY <3>1, <3>3 DEF One
      <4>. QED
        BY <2>2, <3>3, <4>1
    <3>. QED
      BY <2>3, <3>2, <3>3
  <2>6. Increment(t, "read", r) = {counters["read"] + One(r)}
    <3>1. counters["read"] \in Nat
      BY <1>0
    <3>2. CASE r
      BY <2>2, <3>2 DEF One
    <3>3. CASE ~r
      <4>1. counters["read"] + 0 = counters["read"] /\ One(r) = 0
        BY <3>1, <3>3 DEF One
      <4>. QED
        BY <2>2, <3>3, <4>1
    <3>. QED
      BY <2>3, <3>2, <3>3
  <2>7. counters' = [op |-> counters["op"] + 1, write |-> counters["write"] + One(w),
                     read |-> counters["read"] + One(r)]
    <3>1. Increment(t, "op", TRUE) = {counters["op"] + 1}
      BY <2>2
    <3>2. PICK a \in Increment(t, "op", TRUE), b \in Increment(t, "write", w),
               c \in Increment(t, "read", r) :
            counters' = [op |-> a, write |-> b, read |-> c]
      BY <1>5, Zenon DEF StoreCounters
    <3>. HIDE DEF w, r
    <3>. QED
      BY <2>5, <2>6, <3>1, <3>2
  <2>8. n + 0 = n /\ Writes(n) + 0 = Writes(n) /\ Reads(n) + 0 = Reads(n)
    <3>1. n \in Nat
      BY DEF PlainStep, PlanInv
    <3>2. Writes(n) \in Nat /\ Reads(n) \in Nat
      BY <3>1, PhasesCounted
    <3>. QED
      BY <3>1, <3>2
  <2>9. counters = [op |-> n, write |-> Writes(n), read |-> Reads(n)]
    BY <2>4, <2>8
  <2>10. counters' = [op |-> n + 1, write |-> Writes(n) + One(w), read |-> Reads(n) + One(r)]
    BY <2>7, <2>9
  <2>11. CountsDue(t)'
    <3>1. Len(log') = n /\ Writes(Len(log))' = Writes(n) /\ Reads(Len(log))' = Reads(n)
      BY <1>1, <1>3
    <3>2. /\ One(pc'[t] = "decide") = 1
          /\ One(pc'[t] = "decide" /\ WritePhase(op'[t].kind)) = One(w)
          /\ One(pc'[t] = "decide" /\ ReadPhase(op'[t].kind)) = One(r)
      BY <1>1, <2>1 DEF One
    <3>3. pc'[t] # "store"
      BY <2>1
    <3>. HIDE DEF w, r, n
    <3>. QED
      BY <2>10, <3>1, <3>2, <3>3 DEF CountsDue
  <2>. QED
    BY <1>1, <1>2, <2>11, LogKept
<1>. QED
  BY <1>4, <1>5

(* The decorator decides as the plan promises of the operation's position. *)
LEMMA FaultPromised ==
  ASSUME NEW k \in Nat, spec' = spec, spec \in [Fields -> Nat],
         spec.drop_after + spec.drop_for < U32, NEW kind, log'[k].kind = kind,
         counters.op = k,
         WritePhase(kind) => counters.write = Writes(k)',
         ReadPhase(kind) => counters.read = Reads(k)'
  PROVE  Fault(counters, kind) = PromisedFault(spec, k)'
<1>. DEFINE a == spec.drop_after
            b == spec.drop_for
<1>1. a \in Nat /\ b \in Nat /\ U32 \in Nat \ {0} /\ a + b < U32
  BY BusAssumption DEF Fields
<1>2. InDropWindow(counters) <=> Dropped(spec, k)'
  <2>1. InDropWindow(counters) <=> b > 0 /\ k > a /\ k <= (a + b) % U32
    BY DEF InDropWindow
  <2>2. Dropped(spec, k)' <=> b > 0 /\ k \in (a + 1)..(a + b)
    BY DEF Dropped
  <2>. HIDE DEF a, b
  <2>3. (a + b) % U32 = a + b
    <3>1. a + b \in 0..(U32 - 1)
      BY <1>1
    <3>. QED
      BY <1>1, <3>1, SmallRemainder
  <2>4. k > a /\ k <= (a + b) % U32 <=> k \in (a + 1)..(a + b)
    BY <1>1, <2>3
  <2>. QED
    BY <2>1, <2>2, <2>4, Zenon
<1>3. Every(spec.timeout_every, counters.op) <=> Every(spec.timeout_every, k)'
  BY DEF Every
<1>4. WritePhase(kind) /\ Every(spec.nak_every, counters.write)
        <=> (WritePhase(log[k].kind) /\ Every(spec.nak_every, Writes(k)))'
  BY DEF Every, WritePhase
<1>5. ReadPhase(kind) /\ Every(spec.read_fail_every, counters.read)
        <=> (ReadPhase(log[k].kind) /\ Every(spec.read_fail_every, Reads(k)))'
  BY DEF Every, ReadPhase
<1>. QED
  BY <1>2, <1>3, <1>4, <1>5 DEF Fault, PromisedFault

(* A decided operation stands in the log with the fault promised of it. *)
LEMMA PlanDecide == ASSUME NEW t, PlainStep(t), Decide(t) PROVE PlanInv'
<1>. DEFINE kind == op[t].kind
            fault == Fault(counters, kind)
            e == [kind |-> kind, address |-> op[t].address,
                  latency |-> spec.latency_us, fault |-> fault]
<1>1. /\ CountsDue(t) /\ ReplyDue(t) /\ pc \in [Threads -> Where] /\ t \in Threads
      /\ status \in [Threads -> Errors \cup {"Ok"}]
      /\ log \in Seq(Entries) /\ DOMAIN reply = Threads
      /\ \A k \in DOMAIN log : log[k].fault = PromisedFault(spec, k)
  BY DEF PlainStep, PlanInv, IInv, TypeOK, Where
<1>2. /\ pc[t] = "decide" /\ log' = Append(log, e) /\ UNCHANGED <<op, counters, reply>>
      /\ op[t] \in Operation
  BY <1>1 DEF Decide, PlainStep, IInv, BudgetOf
<1>3. \/ pc'[t] = "idle" /\ status'[t] = fault /\ fault # "Ok"
      \/ pc'[t] = "enter"
  <2>1. CASE fault # "Ok"
    <3>1. Return(t, fault)
      BY <2>1 DEF Decide
    <3>. HIDE DEF fault
    <3>. QED
      BY <1>1, <2>1, <3>1 DEF Return, GoTo
  <2>2. CASE fault = "Ok"
    <3>1. GoTo(t, "enter")
      BY <2>2 DEF Decide
    <3>. QED
      BY <1>1, <3>1 DEF GoTo
  <2>. QED
    BY <2>1, <2>2
<1>4. e \in Entries
  <2>1. fault \in Errors \cup {"Ok"}
    BY DEF Fault, Errors
  <2>2. kind \in Kinds /\ op[t].address \in Addresses
    BY <1>2 DEF Operation
  <2>. HIDE DEF fault
  <2>. QED
    BY <2>1, <2>2 DEF Entries
<1>5. PICK n : n = Len(log)
  OBVIOUS
<1>6. e.kind = kind /\ e.fault = fault
  OBVIOUS
<1>. HIDE DEF e
<1>7. /\ n \in Nat /\ DOMAIN log = 1..n
      /\ log' \in Seq(Entries) /\ Len(log') = n + 1 /\ DOMAIN log' = 1..(n + 1)
      /\ log'[n + 1] = e /\ \A k \in 1..n : log'[k] = log[k]
      /\ \A k \in 1..n : Writes(k)' = Writes(k) /\ Reads(k)' = Reads(k)
      /\ Writes(n + 1)' = Writes(n) + One(WritePhase(kind))
      /\ Reads(n + 1)' = Reads(n) + One(ReadPhase(kind))
  <2>1. PICK E : E = Entries
    OBVIOUS
  <2>2. PICK d : d = e
    OBVIOUS
  <2>. HIDE DEF kind
  <2>3. log \in Seq(E) /\ d \in E /\ log' = Append(log, d) /\ d.kind = kind
    BY <1>1, <1>2, <1>4, <1>6, <2>1, <2>2
  <2>4. /\ n \in Nat /\ DOMAIN log = 1..n
        /\ log' \in Seq(E) /\ Len(log') = n + 1 /\ DOMAIN log' = 1..(n + 1)
        /\ log'[n + 1] = d /\ \A k \in 1..n : log'[k] = log[k]
        /\ \A k \in 1..n : Writes(k)' = Writes(k) /\ Reads(k)' = Reads(k)
        /\ Writes(n + 1)' = Writes(n) + One(WritePhase(d.kind))
        /\ Reads(n + 1)' = Reads(n) + One(ReadPhase(d.kind))
    BY <1>5, <2>3, LogGrows
  <2>. QED
    BY <2>1, <2>2, <2>3, <2>4
<1>8. counters = [op |-> n + 1, write |-> Writes(n + 1)', read |-> Reads(n + 1)']
  <2>1. /\ One(pc[t] = "decide") = 1
        /\ One(pc[t] = "decide" /\ WritePhase(kind)) = One(WritePhase(kind))
        /\ One(pc[t] = "decide" /\ ReadPhase(kind)) = One(ReadPhase(kind))
    BY <1>2 DEF One
  <2>. HIDE DEF kind
  <2>. QED
    BY <1>1, <1>5, <1>7, <2>1 DEF CountsDue, kind
<1>9. CountsDue(t)'
  <2>1. pc'[t] \in {"idle", "enter"}
    BY <1>3
  <2>2. /\ One(pc'[t] = "decide") = 0
        /\ One(pc'[t] = "decide" /\ WritePhase(op'[t].kind)) = 0
        /\ One(pc'[t] = "decide" /\ ReadPhase(op'[t].kind)) = 0
    BY <2>1 DEF One
  <2>3. counters' = [op |-> n + 1, write |-> Writes(n + 1)', read |-> Reads(n + 1)']
    BY <1>2, <1>8
  <2>4. Writes(n + 1)' + 0 = Writes(n + 1)' /\ Reads(n + 1)' + 0 = Reads(n + 1)'
        /\ (n + 1) + 0 = n + 1
    <3>1. Writes(n + 1)' \in Nat /\ Reads(n + 1)' \in Nat
      <4>1. counters'["write"] \in Nat /\ counters'["read"] \in Nat
        BY DEF PlainStep, TypeOK
      <4>. QED
        BY <2>3, <4>1
    <3>. QED
      BY <1>7, <3>1
  <2>5. counters' = [op |-> (n + 1) + 0, write |-> Writes(n + 1)' + 0, read |-> Reads(n + 1)' + 0]
    BY <2>3, <2>4
  <2>. QED
    BY <1>7, <2>1, <2>2, <2>5 DEF CountsDue
<1>10. fault = PromisedFault(spec, n + 1)'
  <2>1. n + 1 \in Nat /\ log'[n + 1].kind = kind /\ counters.op = n + 1
        /\ counters.write = Writes(n + 1)' /\ counters.read = Reads(n + 1)'
    BY <1>6, <1>7, <1>8
  <2>2. spec' = spec /\ spec \in [Fields -> Nat] /\ spec.drop_after + spec.drop_for < U32
    BY DEF PlainStep
  <2>. HIDE DEF kind
  <2>. QED
    BY <2>1, <2>2, FaultPromised
<1>11. \A k \in 1..(n + 1) : log'[k].fault = PromisedFault(spec, k)'
  <2>1. ASSUME NEW k \in 1..n PROVE log'[k].fault = PromisedFault(spec, k)'
    <3>1. PromisedFault(spec, k)' = PromisedFault(spec, k)
      BY <1>7 DEF PlainStep, PromisedFault
    <3>. QED
      BY <1>1, <1>7, <3>1
  <2>. QED
    BY <1>6, <1>7, <1>10, <2>1
<1>12. ReplyDue(t)'
  BY <1>1, <1>2, <1>3 DEF ReplyDue
<1>. QED
  <2>1. Threads' = {t} /\ Threads = {t} /\ Entries' = Entries
    BY DEF PlainStep, Threads, Entries
  <2>2. \A u \in Threads' : CountsDue(u)' /\ ReplyDue(u)'
    BY <1>9, <1>12, <2>1
  <2>. QED
    BY <1>1, <1>2, <1>7, <1>11, <2>1, <2>2 DEF PlanInv

(* What the adapter does to an operation that was not refused is none of *)
(* the plan's business.                                                  *)
LEMMA PlanAtAdapter ==
  ASSUME NEW t, PlainStep(t), Enter(t) \/ Attempt(t) PROVE PlanInv'
<1>1. /\ CountsDue(t) /\ ReplyDue(t) /\ pc \in [Threads -> Where] /\ t \in Threads
      /\ status \in [Threads -> Errors \cup {"Ok"}]
  BY DEF PlainStep, PlanInv, IInv, TypeOK, Where
<1>2. pc[t] \in {"enter", "attempt"} /\ UNCHANGED <<op, reply, counters, log>>
  BY DEF Enter, Attempt
<1>3. \/ pc'[t] = "idle" /\ status'[t] # "Ok"
      \/ pc'[t] \in {"attempt", "succeeded", "failed"}
  <2>1. CASE Enter(t)
    <3>1. \/ Return(t, "NotOpen") \/ Return(t, "InvalidArgument") \/ GoTo(t, "attempt")
      BY <2>1, Zenon DEF Enter
    <3>. QED
      BY <1>1, <3>1 DEF Return, GoTo
  <2>2. CASE Attempt(t)
    <3>1. \/ pc' = pc /\ pc[t] = "attempt"
          \/ \E w \in {"succeeded", "failed"} : pc' = [pc EXCEPT ![t] = w]
      BY <1>1, <2>2, AttemptFacts DEF PlainStep
    <3>. QED
      BY <1>1, <3>1
  <2>. QED
    BY <2>1, <2>2
<1>4. ReplyDue(t)'
  BY <1>1, <1>2, <1>3 DEF ReplyDue
<1>5. CountsDue(t)'
  BY <1>2, <1>3, CountsKept
<1>. QED
  BY <1>2, <1>4, <1>5, LogKept

(* A read that succeeds brings the bytes asked for. *)
LEMMA PlanRecord == ASSUME NEW t, PlainStep(t), Record(t) PROVE PlanInv'
<1>. DEFINE ok == pc[t] = "succeeded"
            reads == ReadPhase(op[t].kind)
<1>1. /\ CountsDue(t) /\ ReplyDue(t) /\ pc \in [Threads -> Where] /\ t \in Threads
      /\ status \in [Threads -> Errors \cup {"Ok"}] /\ DOMAIN reply = Threads
  BY DEF PlainStep, PlanInv, IInv, TypeOK, Where
<1>2. /\ pc[t] \in {"succeeded", "failed"} /\ UNCHANGED <<op, counters, log>>
      /\ reply' = [reply EXCEPT ![t].len = IF ok /\ reads THEN op[t].rx ELSE @]
  BY DEF Record
<1>3. reply[t] = NoReply
  BY <1>1, <1>2 DEF ReplyDue
<1>4. /\ DOMAIN reply' = DOMAIN reply
      /\ reply'[t] = IF ok /\ reads THEN [NoReply EXCEPT !.len = op[t].rx] ELSE NoReply
  BY <1>1, <1>2, <1>3 DEF NoReply
<1>5. \/ ~ok /\ pc'[t] = "idle" /\ status'[t] # "Ok"
      \/ ok /\ reads /\ pc'[t] = "mutate"
      \/ ok /\ ~reads /\ pc'[t] = "idle" /\ status'[t] = "Ok"
  <2>1. CASE ~ok
    <3>1. Return(t, Failure(op[t].kind))
      BY <2>1 DEF Record
    <3>2. Failure(op[t].kind) # "Ok"
      BY DEF Failure
    <3>. QED
      BY <1>1, <2>1, <3>1, <3>2 DEF Return, GoTo
  <2>2. CASE ok /\ reads
    <3>1. GoTo(t, "mutate")
      BY <2>2 DEF Record
    <3>. QED
      BY <1>1, <2>2, <3>1 DEF GoTo
  <2>3. CASE ok /\ ~reads
    <3>1. Return(t, "Ok")
      BY <2>3 DEF Record
    <3>. QED
      BY <1>1, <2>3, <3>1 DEF Return, GoTo
  <2>. QED
    BY <2>1, <2>2, <2>3
<1>6. ReplyDue(t)'
  <2>. HIDE DEF ok
  <2>. QED
    BY <1>2, <1>4, <1>5 DEF ReplyDue
<1>7. CountsDue(t)'
  BY <1>2, <1>5, CountsKept
<1>. QED
  BY <1>2, <1>4, <1>6, <1>7, LogKept

(* What mutate_read makes of a whole reply is what the plan promises: it *)
(* pads no further than the caller's buffer goes.                        *)
LEMMA MutatedAsPromised ==
  ASSUME spec \in [Fields -> Nat], NEW n \in Nat, NEW rx \in Nat, rx > 0,
         NEW c, c.read = Reads(n)
  PROVE  Mutated(rx, rx, c) = PromisedReply(spec, n, rx)
<1>. DEFINE short == IF Every(spec.short_every, Reads(n)) THEN 1 ELSE 0
            whole == rx - short
            pad == spec.pad
            m == Min({rx, whole + pad})
            add == Min({pad, rx - whole})
<1>1. pad \in Nat /\ short \in 0..1
  BY DEF Fields
<1>2. Mutated(rx, rx, c) =
        [len |-> whole + add, flipped |-> Every(spec.corrupt_every, Reads(n)),
         pads |-> add, pad_byte |-> IF add = 0 THEN None ELSE spec.pad_byte]
  BY DEF Mutated
<1>3. PromisedReply(spec, n, rx) =
        [len |-> m, flipped |-> Every(spec.corrupt_every, Reads(n)),
         pads |-> m - whole, pad_byte |-> IF m = whole THEN None ELSE spec.pad_byte]
  BY DEF PromisedReply
<1>. HIDE DEF short, pad
<1>4. whole \in Int /\ whole + pad \in Int /\ rx - whole \in Int
  BY <1>1
<1>. HIDE DEF whole
<1>5. /\ m = IF rx <= whole + pad THEN rx ELSE whole + pad
      /\ add = IF pad <= rx - whole THEN pad ELSE rx - whole
  BY <1>1, <1>4, MinOfTwo
<1>. HIDE DEF m, add
<1>6. whole + add = m /\ m - whole = add /\ (add = 0 <=> m = whole)
  BY <1>1, <1>4, <1>5
<1>. QED
  BY <1>2, <1>3, <1>6, Zenon

(* The reply is damaged as promised. *)
LEMMA PlanMutate == ASSUME NEW t, PlainStep(t), mutate_read(t) PROVE PlanInv'
<1>1. /\ CountsDue(t) /\ ReplyDue(t) /\ pc \in [Threads -> Where] /\ t \in Threads
      /\ status \in [Threads -> Errors \cup {"Ok"}] /\ DOMAIN reply = Threads
      /\ log \in Seq(Entries)
  BY DEF PlainStep, PlanInv, IInv, TypeOK, Where
<1>2. /\ pc[t] = "mutate" /\ pc'[t] = "idle" /\ UNCHANGED <<op, counters, log>>
      /\ reply' = [reply EXCEPT ![t] = IF @.len = 0 THEN @ ELSE Mutated(@.len, op[t].rx, counters)]
  BY <1>1 DEF mutate_read, Return, GoTo
<1>3. ReadPhase(op[t].kind) /\ reply[t] = [NoReply EXCEPT !.len = op[t].rx]
  BY <1>1, <1>2 DEF ReplyDue
<1>4. reply[t].len = op[t].rx /\ (op[t].rx = 0 => reply[t] = NoReply)
  BY <1>3 DEF NoReply
<1>5. op[t].rx \in Nat
  <2>1. bus \in Buses /\ op[t] \in Operation
    BY <1>1, <1>2 DEF PlainStep, IInv, TypeOK, BudgetOf
  <2>2. Lengths \subseteq Nat
    BY <2>1, BusAssumption DEF Lengths
  <2>. QED
    BY <2>1, <2>2 DEF Operation
<1>6. Len(log) \in Nat /\ counters.read = Reads(Len(log))
  <2>1. Len(log) \in Nat
    BY <1>1
  <2>2. Reads(Len(log)) \in Nat
    BY <2>1, PhasesCounted
  <2>. DEFINE r == Reads(Len(log))
  <2>3. counters.read = r + 0
    BY <1>1, <1>2 DEF CountsDue, One
  <2>. HIDE DEF r
  <2>. QED
    BY <2>1, <2>2, <2>3 DEF r
<1>7. reply'[t] = IF op[t].rx > 0 THEN PromisedReply(spec, Len(log), op[t].rx) ELSE NoReply
  <2>1. CASE op[t].rx = 0
    BY <1>1, <1>2, <1>4, <2>1
  <2>2. CASE op[t].rx # 0
    <3>1. Mutated(op[t].rx, op[t].rx, counters) = PromisedReply(spec, Len(log), op[t].rx)
      BY <1>5, <1>6, <2>2, MutatedAsPromised DEF PlainStep
    <3>. QED
      BY <1>1, <1>2, <1>4, <1>5, <2>2, <3>1
  <2>. QED
    BY <2>1, <2>2
<1>8. PromisedReply(spec, Len(log), op[t].rx)' = PromisedReply(spec, Len(log), op[t].rx)
  BY <1>2 DEF PlainStep, PromisedReply, Reads
<1>9. ReplyDue(t)'
  BY <1>2, <1>3, <1>7, <1>8 DEF ReplyDue
<1>10. DOMAIN reply' = DOMAIN reply
  BY <1>2
<1>11. CountsDue(t)'
  BY <1>2, CountsKept
<1>. QED
  BY <1>2, <1>9, <1>10, <1>11, LogKept

(* A step in which neither the thread nor its counters move. *)
LEMMA PlanIdle ==
  ASSUME NEW t, PlainStep(t),
         UNCHANGED <<pc, op, status, loaded, counters, reply, log>>
  PROVE  PlanInv'
<1>1. CountsDue(t) /\ ReplyDue(t)
  BY DEF PlainStep, PlanInv
<1>2. \A k : Writes(k)' = Writes(k) /\ Reads(k)' = Reads(k)
  BY DEF Writes, Reads
<1>3. CountsDue(t)'
  BY <1>1, <1>2 DEF CountsDue
<1>4. ReplyDue(t)'
  BY <1>1, <1>2 DEF ReplyDue, PromisedReply, PlainStep
<1>. QED
  BY <1>3, <1>4, LogKept

(* Every step keeps to the plan. *)
LEMMA PlanSteps ==
  ASSUME NEW t, PlainStep(t), [Next]_vars PROVE PlanInv'
<1>1. \A u \in Threads : u = t
  BY DEF PlainStep
<1>2. CASE \E u \in Threads : Begin(u) \/ Step(u)
  BY <1>1, <1>2, PlanBegin, PlanCount, PlanDecide, PlanAtAdapter, PlanRecord, PlanMutate
     DEF Step
<1>3. CASE Open \/ Close \/ SnapshotInner \/ SnapshotInjected \/ UNCHANGED vars
  BY <1>3, PlanIdle DEF Open, Close, SnapshotInner, SnapshotInjected, vars, stats
<1>. QED
  BY <1>2, <1>3 DEF Next

(* The plan and the bus it is for stay. *)
LEMMA FaultStep == ASSUME IInv, TypeOK', FaultInv, [Next]_vars PROVE FaultInv'
<1>1. UNCHANGED <<bus, spec>>
  BY DEF Next, vars
<1>2. Plain' <=> Plain
  BY <1>1 DEF Plain, Threads, Misread, Said
<1>3. spec' = parse(bus'.query)
  BY <1>1 DEF FaultInv
<1>4. ASSUME Plain PROVE PlanInv'
  <2>1. IsFiniteSet(Threads) /\ bus \in Buses
    BY BusAssumption DEF IInv, TypeOK, Threads
  <2>2. PICK t : Threads = {t}
    BY <1>4, <2>1, FS_Singleton DEF Plain
  <2>3. spec = [f \in Fields |-> Said(f)] /\ spec \in [Fields -> Nat]
    BY <1>4, <2>1, PlanFacts DEF FaultInv, Plain
  <2>4. spec.drop_after + spec.drop_for < U32
    BY <1>4, <2>3 DEF Plain, Fields
  <2>5. PlainStep(t)
    BY <1>1, <1>4, <2>2, <2>3, <2>4 DEF PlainStep, FaultInv
  <2>. QED
    BY <2>5, PlanSteps
<1>. QED
  BY <1>2, <1>3, <1>4 DEF FaultInv

(* No operation is counted at the start. *)
LEMMA InitFaults == Init => FaultInv
<1>. SUFFICES ASSUME Init PROVE FaultInv
  OBVIOUS
<1>1. log \in Seq(Entries) /\ Len(log) = 0 /\ DOMAIN log = {} /\ DOMAIN reply = Threads
  BY DEF Init
<1>2. Writes(0) = 0 /\ Reads(0) = 0
  BY FS_EmptySet DEF Writes, Reads
<1>3. ASSUME NEW t \in Threads PROVE CountsDue(t) /\ ReplyDue(t)
  <2>1. pc[t] = "idle" /\ op[t] = None /\ reply[t] = NoReply /\ counters = Zero
    BY DEF Init
  <2>. QED
    BY <1>1, <1>2, <2>1 DEF CountsDue, ReplyDue, One, Zero
<1>. QED
  BY <1>1, <1>3 DEF Init, FaultInv, PlanInv

(* On a bus of one thread, whatever its query and however its operations   *)
(* fail, each fault, delay and damaged reply comes when the query's text   *)
(* says, counted from the first operation.                                 *)
THEOREM FaultsCorrect == Spec => []FaultsOnSchedule
<1>1. IInv /\ IInv' /\ FaultInv /\ [Next]_vars => FaultInv'
  BY FaultStep DEF IInv
<1>2. IInv /\ FaultInv => FaultsOnSchedule
  <2>. SUFFICES ASSUME IInv, FaultInv,
                       Cardinality(Threads) = 1, ~Misread,
                       [f \in Fields |-> Said(f)].drop_after
                         + [f \in Fields |-> Said(f)].drop_for < U32
                PROVE  LET said == [f \in Fields |-> Said(f)] IN
                       /\ \A k \in DOMAIN log : /\ log[k].fault = PromisedFault(said, k)
                                               /\ log[k].latency = said.latency_us
                       /\ \A t \in Threads :
                            pc[t] = "idle" /\ op[t] # None /\ status[t] = "Ok" =>
                              reply[t] = IF ReadPhase(op[t].kind) /\ op[t].rx > 0
                                         THEN PromisedReply(said, Len(log), op[t].rx)
                                         ELSE NoReply
    BY Zenon DEF FaultsOnSchedule
  <2>1. spec = [f \in Fields |-> Said(f)]
    BY PlanFacts DEF FaultInv, IInv, TypeOK
  <2>2. Plain
    <3>1. "drop_after" \in Fields /\ "drop_for" \in Fields
      BY DEF Fields
    <3>. QED
      BY <3>1 DEF Plain
  <2>3. PlanInv
    BY <2>2 DEF FaultInv
  <2>4. \A k \in DOMAIN log : log[k].latency = spec.latency_us
    <3>1. log \in Seq(Entries)
      BY <2>3 DEF PlanInv
    <3>2. \A k \in DOMAIN log : log[k] \in Entries
      BY <3>1
    <3>. QED
      BY <3>2 DEF Entries
  <2>. QED
    BY <2>1, <2>3, <2>4 DEF PlanInv, ReplyDue
<1>. QED
  BY BusInvariant, InitFaults, <1>1, <1>2, PTL DEF Spec

-----------------------------------------------------------------------------
(* BusSetup *)

-----------------------------------------------------------------------------
(* The list of unmet requirements. *)

Ids == {"bus_present", "bus_access", "bus_clock"}
Statuses == {"met", "unmet", "unknown"}
Requirements ==
  [id : Ids, status : Statuses]

(* What readiness_diagnostics does at a requirement, and its fold. *)
Listed(s, r) == IF r.status = "unmet" THEN Append(s, r.id) ELSE s
Listing(h) ==
  h = [s \in SUBSET (DOMAIN found) |->
         IF s = {} THEN <<>> ELSE Listed(h[s \ {Max(s)}], found[Max(s)])]

(* host_unmet names as many requirements as are unmet. *)
LEMMA UnmetListed ==
  ASSUME found \in Seq(Requirements)
  PROVE  /\ Len(readiness_diagnostics.host_unmet) = Cardinality(Unmet)
         /\ readiness_diagnostics.host_check = IF Unmet = {} THEN "ok" ELSE "unmet"
<1>. DEFINE n == Len(found)
            A == Seq(Ids)
            F == [i \in 1..n |-> [a \in A |-> Listed(a, found[i])]]
            h == CHOOSE h : Listing(h)
            Unmets(k) == {i \in 1..k : found[i].status = "unmet"}
<1>1. n \in Nat /\ DOMAIN found = 1..n /\ \A i \in 1..n : found[i] \in Requirements
  <2>. HIDE DEF Requirements
  <2>. QED
    OBVIOUS
<1>2. ASSUME NEW a \in A, NEW i \in 1..n PROVE Listed(a, found[i]) \in A
  <2>1. found[i].id \in Ids
    BY <1>1 DEF Requirements
  <2>. DEFINE x == found[i].id
  <2>. HIDE DEF x
  <2>2. Append(a, x) \in A
    BY <2>1 DEF x
  <2>. QED
    BY <2>2 DEF Listed, x
<1>3. \E g : Listing(g)
  <2>1. <<>> \in A /\ F \in [1..n -> [A -> A]]
    BY <1>2
  <2>2. PICK g : Folded(g, F, <<>>, n) /\ \A s \in SUBSET (1..n) : g[s] \in A
    <3>. HIDE DEF F, A, n
    <3>. QED
      BY <1>1, <2>1, FoldExists
  <2>3. ASSUME NEW s \in SUBSET (1..n), s # {}
        PROVE  F[Max(s)][g[s \ {Max(s)}]] = Listed(g[s \ {Max(s)}], found[Max(s)])
    <3>1. s \subseteq 0..n
      OBVIOUS
    <3>2. Max(s) \in 1..n /\ s \ {Max(s)} \in SUBSET (1..n)
      BY <1>1, <2>3, <3>1, MaxOfPositions
    <3>. QED
      BY <2>2, <3>2
  <2>4. Listing(g)
    <3>. HIDE DEF F
    <3>. QED
      BY <1>1, <2>2, <2>3, Zenon DEF Folded, Listing
  <2>. QED
    BY <2>4
<1>4. Listing(h)
  BY <1>3
<1>5. FoldLeft(Listed, <<>>, found) = h[DOMAIN found]
  BY DEF FoldLeft, MapThenFoldSet, Listing
<1>. HIDE DEF h
<1>6. h[1..0] = <<>>
  BY <1>1, <1>4 DEF Listing
<1>7. ASSUME NEW k \in 0..(n - 1)
      PROVE  h[1..(k + 1)] = Listed(h[1..k], found[k + 1])
  <2>1. /\ 1..(k + 1) \in SUBSET (1..n) /\ 1..(k + 1) # {}
        /\ Max(1..(k + 1)) = k + 1 /\ (1..(k + 1)) \ {k + 1} = 1..k
    BY <1>1, LastPosition
  <2>. DEFINE s == 1..(k + 1)
  <2>2. h[s] = IF s = {} THEN <<>> ELSE Listed(h[s \ {Max(s)}], found[Max(s)])
    BY <1>1, <1>4, <2>1, Zenon DEF Listing
  <2>. QED
    BY <2>1, <2>2
<1>. DEFINE T == {k \in Nat : k <= n => /\ h[1..k] \in A /\ Cardinality(Unmets(k)) \in Nat
                                       /\ Len(h[1..k]) = Cardinality(Unmets(k))}
<1>8. 0 \in T
  <2>1. Unmets(0) = {}
    OBVIOUS
  <2>2. <<>> \in A /\ Len(<<>>) = 0 /\ Cardinality({}) = 0
    BY FS_EmptySet
  <2>3. h[1..0] \in A /\ Len(h[1..0]) = 0 /\ Cardinality(Unmets(0)) = 0
    BY <1>6, <2>1, <2>2
  <2>. QED
    BY <2>3
<1>9. ASSUME NEW k \in Nat, k \in T PROVE k + 1 \in T
  <2>. SUFFICES ASSUME k + 1 <= n
                PROVE  /\ h[1..(k + 1)] \in A /\ Cardinality(Unmets(k + 1)) \in Nat
                       /\ Len(h[1..(k + 1)]) = Cardinality(Unmets(k + 1))
    OBVIOUS
  <2>0. k \in 0..(n - 1) /\ k + 1 \in 1..n
    BY <1>1
  <2>1. /\ h[1..k] \in A /\ Cardinality(Unmets(k)) \in Nat
        /\ Len(h[1..k]) = Cardinality(Unmets(k))
    BY <1>9, <2>0
  <2>2. h[1..(k + 1)] = Listed(h[1..k], found[k + 1])
    BY <1>7, <2>0
  <2>3. Unmets(k + 1) = IF found[k + 1].status = "unmet" THEN Unmets(k) \cup {k + 1} ELSE Unmets(k)
    OBVIOUS
  <2>4. Cardinality(Unmets(k) \cup {k + 1}) = Cardinality(Unmets(k)) + 1
    <3>1. k + 1 \notin Unmets(k) /\ Unmets(k) \subseteq 1..k
      OBVIOUS
    <3>2. IsFiniteSet(1..k)
      BY FS_Interval
    <3>3. IsFiniteSet(Unmets(k))
      BY <3>1, <3>2, FS_Subset
    <3>. HIDE DEF Unmets
    <3>. QED
      BY <3>1, <3>3, FS_AddElement
  <2>5. found[k + 1].id \in Ids
    BY <1>1, <2>0 DEF Requirements
  <2>. DEFINE x == found[k + 1].id
              l == h[1..k]
              c == Cardinality(Unmets(k))
              d == Cardinality(Unmets(k + 1))
  <2>. HIDE DEF Unmets, x, l
  <2>6. CASE found[k + 1].status = "unmet"
    <3>1. d = c + 1
      BY <2>3, <2>4, <2>6
    <3>2. h[1..(k + 1)] = Append(l, x)
      BY <2>2, <2>6 DEF Listed, l, x
    <3>3. l \in A /\ x \in Ids /\ Len(l) = c /\ c \in Nat
      BY <2>1, <2>5 DEF l, x
    <3>. QED
      BY <3>1, <3>2, <3>3
  <2>7. CASE found[k + 1].status # "unmet"
    BY <2>1, <2>2, <2>3, <2>7 DEF Listed
  <2>. QED
    BY <2>6, <2>7
<1>. HIDE DEF T
<1>10. n \in T
  BY <1>1, <1>8, <1>9, NatSetInduction
<1>11. Len(FoldLeft(Listed, <<>>, found)) = Cardinality(Unmet)
  <2>1. Unmets(n) = Unmet
    BY <1>1 DEF Unmet
  <2>. QED
    <3>1. Len(h[1..n]) = Cardinality(Unmets(n))
      <4>1. n <= n
        BY <1>1
      <4>. HIDE DEF n, Unmets
      <4>. QED
        BY <1>10, <4>1, Zenon DEF T
    <3>. HIDE DEF Unmets
    <3>. QED
      BY <1>1, <1>5, <2>1, <3>1
<1>12. CASE Unmet = {}
  BY <1>12, FS_EmptySet DEF readiness_diagnostics
<1>13. CASE Unmet # {}
  <2>1. readiness_diagnostics.host_unmet = FoldLeft(Listed, <<>>, found)
    BY <1>13 DEF readiness_diagnostics, FoldLeft, MapThenFoldSet, Listed
  <2>2. readiness_diagnostics.host_check = "unmet"
    BY <1>13 DEF readiness_diagnostics
  <2>. QED
    BY <1>11, <1>13, <2>1, <2>2
<1>. QED
  BY <1>12, <1>13

-----------------------------------------------------------------------------
(* The host check. *)

Present == ~Barred("checker") /\ Exists(checked)
No ==
  /\ ~Barred("checker")
  /\ \/ ~Exists(checked)
     \/ setup.user = "other"
     \/ ClockIsExposed /\ setup.max_hz # Absent /\ setup.hz > setup.max_hz

(* What has been reported before each question.  While nothing changes, the *)
(* checker goes on only where the bus is, and what it reports in the end    *)
(* says no where the host says no.                                          *)
CheckInv ==
  /\ setup \in Deployments /\ present \subseteq Nodes /\ changes \in Nat
  /\ found \in Seq(Requirements)
  /\ question = "stat" => found = <<>>
  /\ question = "access" =>
       /\ Len(found) = 1 /\ found[1] = Requirement("bus_present", "met")
       /\ changes = 0 => Present
  /\ question = "clock" =>
       /\ Len(found) = 2 /\ found[1] = Requirement("bus_present", "met")
       /\ found[2].id = "bus_access" /\ setup.max_hz # Absent
       /\ changes = 0 => Present /\ (found[2].status = "unmet" <=> setup.user = "other")
  /\ question = "checked" =>
       /\ Len(found) = IF setup.max_hz = Absent THEN 2 ELSE 3
       /\ found[1].id = "bus_present" /\ found[2].id = "bus_access"
       /\ setup.max_hz # Absent => found[3].id = "bus_clock"
       /\ changes = 0 => (Unmet # {} <=> No)

(* One requirement more. *)
LEMMA OneMore ==
  ASSUME NEW s \in Seq(Requirements), NEW r \in Requirements
  PROVE  /\ s \o <<r>> \in Seq(Requirements) /\ Len(s \o <<r>>) = Len(s) + 1
         /\ (s \o <<r>>)[Len(s) + 1] = r /\ \A i \in 1..Len(s) : (s \o <<r>>)[i] = s[i]
         /\ Len(s) \in Nat
<1>. HIDE DEF Requirements
<1>1. s \o <<r>> = Append(s, r)
  OBVIOUS
<1>. QED
  BY <1>1

(* Requirements are well formed. *)
LEMMA RequirementType ==
  ASSUME NEW id \in Ids, NEW s \in Statuses
  PROVE  /\ Requirement(id, s) \in Requirements
         /\ Requirement(id, s).id = id /\ Requirement(id, s).status = s
BY DEF Requirement, Requirements

(* Nothing is reported at the start. *)
LEMMA InitCheck == SetupInit => CheckInv
BY DEF SetupInit, CheckInv, Requirements

(* A change of the file system. *)
LEMMA WorldStep ==
  ASSUME CheckInv, UNCHANGED <<setup, check>>, changes' = changes + 1, present' \subseteq Nodes
  PROVE  CheckInv'
<1>1. changes' \in Nat /\ changes' # 0
  BY DEF CheckInv
<1>. QED
  BY <1>1 DEF CheckInv, check

(* While the file system stays, so does what the check is about. *)
LEMMA SameHost ==
  ASSUME UNCHANGED <<setup, world>>
  PROVE  /\ Present' <=> Present
         /\ No' <=> No
BY DEF world, Present, No, Barred, Exists, checked, Meant, ClockIsExposed, adapter_name

(* A check that goes no further: the bus is not there, or not to be seen. *)
LEMMA SkipStep ==
  ASSUME CheckInv, question = "stat", NEW s \in {"unknown", "unmet"}, Skip(s),
         s = "unmet" <=> No
  PROVE  CheckInv'
<1>. DEFINE a == Requirement("bus_present", s)
            b == Requirement("bus_access", "unknown")
            c == Requirement("bus_clock", "unknown")
            two == <<a, b>>
<1>1. /\ a \in Requirements /\ b \in Requirements /\ c \in Requirements
      /\ a.id = "bus_present" /\ b.id = "bus_access" /\ c.id = "bus_clock"
      /\ a.status = s /\ b.status = "unknown" /\ c.status = "unknown"
  BY RequirementType DEF Ids, Statuses
<1>2. /\ found' = <<>> \o (two \o Clock("unknown")) /\ question' = "checked"
      /\ UNCHANGED <<setup, world>>
  BY DEF Skip, Report, CheckInv
<1>. HIDE DEF a, b, c
<1>3. two \in Seq(Requirements) /\ Len(two) = 2 /\ two[1] = a /\ two[2] = b
  <2>. HIDE DEF Requirements
  <2>. QED
    BY <1>1
<1>4. /\ Clock("unknown") = IF setup.max_hz = Absent THEN <<>> ELSE <<c>>
  BY DEF Clock, c
<1>. HIDE DEF two
<1>5. CASE setup.max_hz = Absent
  <2>1. found' = two
    <3>. HIDE DEF Requirements
    <3>1. <<>> \o (two \o <<>>) = two
      BY <1>3
    <3>. QED
      BY <1>2, <1>4, <1>5, <3>1
  <2>2. Unmet' # {} <=> s = "unmet"
    BY <1>1, <1>3, <2>1 DEF Unmet
  <2>. QED
    BY <1>1, <1>2, <1>3, <1>5, <2>1, <2>2, SameHost DEF CheckInv, world
<1>6. CASE setup.max_hz # Absent
  <2>. DEFINE three == two \o <<c>>
  <2>1. /\ three \in Seq(Requirements) /\ Len(three) = 3
        /\ three[1] = a /\ three[2] = b /\ three[3] = c
    <3>1. /\ three \in Seq(Requirements) /\ Len(three) = Len(two) + 1
          /\ three[Len(two) + 1] = c /\ \A i \in 1..Len(two) : three[i] = two[i]
      <4>. HIDE DEF Requirements
      <4>. QED
        BY <1>1, <1>3, OneMore, Zenon
    <3>. HIDE DEF three, Requirements
    <3>. QED
      BY <1>3, <3>1
  <2>. HIDE DEF three
  <2>2. found' = three
    <3>. HIDE DEF Requirements
    <3>1. <<>> \o three = three
      BY <2>1
    <3>. QED
      BY <1>2, <1>4, <1>6, <3>1 DEF three
  <2>3. Unmet' # {} <=> s = "unmet"
    <3>1. DOMAIN found' = 1..3
      <4>. HIDE DEF Requirements
      <4>. QED
        BY <2>1, <2>2
    <3>. QED
      BY <1>1, <2>1, <2>2, <3>1 DEF Unmet
  <2>. QED
    BY <1>1, <1>2, <1>6, <2>1, <2>2, <2>3, SameHost DEF CheckInv, world
<1>. QED
  BY <1>5, <1>6

(* Where the bus is to be seen, its user is not barred from its directory,  *)
(* so that the answer to its open depends on who asks.                      *)
LEMMA AccessWherePresent ==
  ASSUME CheckInv, Present
  PROVE  /\ access_of \in Statuses
         /\ access_of = "unmet" <=> setup.user = "other"
<1>1. setup.user \in Users /\ Exists(checked) /\ present \subseteq Nodes
  BY SetupAssumption DEF CheckInv, Present
<1>2. setup.user # "barred"
  <2>1. CASE checked.name = Mock
    <3>1. Meant(checked) = Mock
      BY <2>1, SetupAssumption DEF Meant
    <3>. QED
      BY <1>1, <3>1, SetupAssumption DEF Exists
  <2>2. CASE checked.name # Mock
    BY <2>2 DEF Present, Barred, checked
  <2>. QED
    BY <2>1, <2>2
<1>. QED
  BY <1>1, <1>2 DEF access_of, Users, Statuses

(* A question is answered with one requirement. *)
LEMMA OneAnswer ==
  ASSUME CheckInv, NEW id \in Ids, NEW s \in Statuses, NEW next,
         Report(<<Requirement(id, s)>>, next)
  PROVE  LET n == Len(found) IN
         /\ found' \in Seq(Requirements) /\ Len(found') = n + 1 /\ question' = next
         /\ found'[n + 1].id = id /\ found'[n + 1].status = s
         /\ \A i \in 1..n : found'[i] = found[i]
         /\ DOMAIN found' = 1..(n + 1) /\ n \in Nat
         /\ UNCHANGED <<setup, world>>
<1>. DEFINE r == Requirement(id, s)
            n == Len(found)
<1>1. r \in Requirements /\ r.id = id /\ r.status = s
  BY RequirementType
<1>2. found' = found \o <<r>> /\ question' = next /\ UNCHANGED <<setup, world>>
  BY DEF Report
<1>3. found \in Seq(Requirements)
  BY DEF CheckInv
<1>. HIDE DEF r, Requirements
<1>4. /\ found' \in Seq(Requirements) /\ Len(found') = n + 1
      /\ found'[n + 1] = r /\ \A i \in 1..n : found'[i] = found[i] /\ n \in Nat
  BY <1>1, <1>2, <1>3, OneMore
<1>5. DOMAIN found' = 1..(n + 1)
  BY <1>4
<1>. QED
  BY <1>1, <1>2, <1>4, <1>5

(* Its first question: is the bus there? *)
LEMMA StatStep == CheckInv /\ Stat => CheckInv'
<1>. SUFFICES ASSUME CheckInv, Stat PROVE CheckInv'
  OBVIOUS
<1>1. question = "stat" /\ found = <<>>
  BY DEF Stat, CheckInv
<1>2. CASE Barred("checker") /\ Skip("unknown")
  BY <1>1, <1>2, SkipStep DEF No
<1>3. CASE ~Barred("checker") /\ ~Exists(checked) /\ Skip("unmet")
  BY <1>1, <1>3, SkipStep DEF No
<1>4. CASE /\ ~Barred("checker") /\ Exists(checked)
           /\ Report(<<Requirement("bus_present", "met")>>, "access")
  <2>1. "bus_present" \in Ids /\ "met" \in Statuses /\ Len(found) = 0 /\ found \in Seq(Requirements)
    BY <1>1 DEF Ids, Statuses, Requirements
  <2>. DEFINE r == Requirement("bus_present", "met")
  <2>2. /\ found' = found \o <<r>> /\ r \in Requirements
    BY <1>4, <2>1, RequirementType DEF Report
  <2>3. found'[1] = r
    <3>1. (found \o <<r>>)[Len(found) + 1] = r
      <4>. HIDE DEF r, Requirements
      <4>. QED
        BY <2>1, <2>2, OneMore
    <3>. HIDE DEF r, Requirements
    <3>. QED
      BY <2>1, <2>2, <3>1
  <2>4. /\ found' \in Seq(Requirements) /\ Len(found') = 0 + 1 /\ question' = "access"
        /\ UNCHANGED <<setup, world>>
    BY <1>4, <2>1, OneAnswer
  <2>5. Present
    BY <1>4 DEF Present
  <2>. HIDE DEF r
  <2>. QED
    BY <2>3, <2>4, <2>5, SameHost DEF CheckInv, world, r
<1>. QED
  BY <1>2, <1>3, <1>4 DEF Stat

(* Its second: may the user open it? *)
LEMMA AccessStep == CheckInv /\ Access => CheckInv'
<1>. SUFFICES ASSUME CheckInv, Access PROVE CheckInv'
  OBVIOUS
<1>. DEFINE next == IF setup.max_hz = Absent THEN "checked" ELSE "clock"
            s == access_of
<1>1. /\ Len(found) = 1 /\ found[1] = Requirement("bus_present", "met")
      /\ changes = 0 => Present
  BY DEF Access, CheckInv
<1>2. /\ s \in Statuses
      /\ changes = 0 => (s = "unmet" <=> setup.user = "other")
  <2>1. s \in Statuses
    BY DEF access_of, Statuses
  <2>. QED
    BY <1>1, <2>1, AccessWherePresent
<1>3. found[1].id = "bus_present" /\ found[1].status = "met" /\ "bus_access" \in Ids
  BY <1>1, RequirementType DEF Ids, Statuses
<1>4. Report(<<Requirement("bus_access", s)>>, next)
  BY DEF Access
<1>. HIDE DEF s, next
<1>5. /\ found' \in Seq(Requirements) /\ Len(found') = 2 /\ question' = next
      /\ found'[2].id = "bus_access" /\ found'[2].status = s
      /\ found'[1] = found[1]
      /\ DOMAIN found' = 1..2
      /\ UNCHANGED <<setup, world>>
  <2>1. LET n == Len(found) IN
         /\ found' \in Seq(Requirements) /\ Len(found') = n + 1 /\ question' = next
         /\ found'[n + 1].id = "bus_access" /\ found'[n + 1].status = s
         /\ \A i \in 1..n : found'[i] = found[i]
         /\ DOMAIN found' = 1..(n + 1) /\ n \in Nat
         /\ UNCHANGED <<setup, world>>
    BY <1>2, <1>3, <1>4, OneAnswer
  <2>. HIDE DEF Requirements
  <2>. QED
    BY <1>1, <2>1
<1>6. /\ Present' <=> Present
      /\ No' <=> No
  BY <1>5, SameHost
<1>7. CASE setup.max_hz # Absent
  <2>1. question' = "clock"
    BY <1>5, <1>7 DEF next
  <2>. QED
    BY <1>1, <1>2, <1>5, <1>6, <1>7, <2>1 DEF CheckInv, world
<1>8. CASE setup.max_hz = Absent
  <2>1. question' = "checked"
    BY <1>5, <1>8 DEF next
  <2>2. Unmet' # {} <=> s = "unmet"
    BY <1>3, <1>5 DEF Unmet
  <2>3. changes = 0 => (No <=> setup.user = "other")
    BY <1>1, <1>8 DEF No, Present
  <2>. QED
    BY <1>1, <1>2, <1>3, <1>5, <1>6, <1>8, <2>1, <2>2, <2>3 DEF CheckInv, world
<1>. QED
  BY <1>7, <1>8

(* Its third: is its clock too fast? *)
LEMMA ReadClockStep == CheckInv /\ ReadClock => CheckInv'
<1>. SUFFICES ASSUME CheckInv, ReadClock PROVE CheckInv'
  OBVIOUS
<1>. DEFINE s == IF ClockIsExposed THEN check_clock ELSE "unknown"
<1>1. /\ Len(found) = 2 /\ found[1] = Requirement("bus_present", "met")
      /\ found[2].id = "bus_access" /\ setup.max_hz # Absent
      /\ changes = 0 => Present /\ (found[2].status = "unmet" <=> setup.user = "other")
  BY DEF ReadClock, CheckInv
<1>2. /\ s \in Statuses
      /\ s = "unmet" <=> ClockIsExposed /\ setup.hz > setup.max_hz
  BY DEF check_clock, Statuses
<1>3. found[1].id = "bus_present" /\ found[1].status = "met" /\ "bus_clock" \in Ids
  BY <1>1, RequirementType DEF Ids, Statuses
<1>4. Report(<<Requirement("bus_clock", s)>>, "checked")
  BY <1>1 DEF ReadClock, Clock
<1>. HIDE DEF s
<1>5. /\ found' \in Seq(Requirements) /\ Len(found') = 3 /\ question' = "checked"
      /\ found'[3].id = "bus_clock" /\ found'[3].status = s
      /\ found'[1] = found[1] /\ found'[2] = found[2]
      /\ DOMAIN found' = 1..3
      /\ UNCHANGED <<setup, world>>
  <2>1. LET n == Len(found) IN
         /\ found' \in Seq(Requirements) /\ Len(found') = n + 1 /\ question' = "checked"
         /\ found'[n + 1].id = "bus_clock" /\ found'[n + 1].status = s
         /\ \A i \in 1..n : found'[i] = found[i]
         /\ DOMAIN found' = 1..(n + 1) /\ n \in Nat
         /\ UNCHANGED <<setup, world>>
    BY <1>2, <1>3, <1>4, OneAnswer
  <2>. HIDE DEF Requirements
  <2>. QED
    BY <1>1, <2>1
<1>6. No' <=> No
  BY <1>5, SameHost
<1>7. Unmet' # {} <=> found[2].status = "unmet" \/ s = "unmet"
  BY <1>3, <1>5 DEF Unmet
<1>8. changes = 0 => (No <=> setup.user = "other" \/ (ClockIsExposed /\ setup.hz > setup.max_hz))
  BY <1>1 DEF No, Present
<1>. QED
  BY <1>1, <1>2, <1>3, <1>5, <1>6, <1>7, <1>8 DEF CheckInv, world

(* Every step keeps it: the file system's, the checker's, a claim's. *)
LEMMA CheckStep == CheckInv /\ [SetupNext]_setupVars => CheckInv'
<1>. SUFFICES ASSUME CheckInv, [SetupNext]_setupVars PROVE CheckInv'
  OBVIOUS
<1>1. ASSUME NEW n \in Nodes, NodeComesOrGoes(n) PROVE CheckInv'
  BY <1>1, WorldStep DEF NodeComesOrGoes, CheckInv
<1>2. ASSUME NEW n \in Nodes \cup {Absent}, AliasMoves(n) PROVE CheckInv'
  BY <1>2, WorldStep DEF AliasMoves, CheckInv
<1>3. CASE Stat
  BY <1>3, StatStep
<1>4. CASE Access
  BY <1>4, AccessStep
<1>5. CASE ReadClock
  BY <1>5, ReadClockStep
<1>6. CASE UNCHANGED <<setup, world, check>>
  <2>1. (Present' <=> Present) /\ (No' <=> No)
    BY <1>6, SameHost
  <2>. QED
    BY <1>6, <2>1 DEF CheckInv, world, check, Unmet
<1>7. ASSUME NEW p \in Providers, Claim(p) PROVE CheckInv'
  BY <1>6, <1>7 DEF Claim
<1>8. CASE UNCHANGED setupVars
  BY <1>6, <1>8 DEF setupVars, world, check
<1>. QED
  BY <1>1, <1>2, <1>3, <1>4, <1>5, <1>7, <1>8 DEF SetupNext

(* The identifiers, in order. *)
LEMMA IdsInOrder ==
  ASSUME CheckInv, question = "checked"
  PROVE  [i \in DOMAIN found |-> found[i].id] =
           <<"bus_present", "bus_access">>
             \o (IF setup.max_hz = Absent THEN <<>> ELSE <<"bus_clock">>)
<1>. DEFINE two == <<"bus_present", "bus_access">>
            ids == [i \in DOMAIN found |-> found[i].id]
<1>1. /\ Len(found) = IF setup.max_hz = Absent THEN 2 ELSE 3
      /\ found[1].id = "bus_present" /\ found[2].id = "bus_access"
      /\ setup.max_hz # Absent => found[3].id = "bus_clock"
      /\ found \in Seq(Requirements)
  BY DEF CheckInv
<1>2. DOMAIN found = 1..Len(found)
  <2>1. found \in Seq(Requirements)
    BY DEF CheckInv
  <2>. HIDE DEF Requirements
  <2>. QED
    BY ONLY <2>1
<1>0. two \in Seq(Ids)
  BY DEF Ids
<1>3. CASE setup.max_hz = Absent
  <2>1. two \o <<>> = two
    <3>. HIDE DEF two
    <3>. QED
      BY ONLY <1>0
  <2>2. ids = two
    <3>1. DOMAIN ids = 1..2 /\ ids[1] = "bus_present" /\ ids[2] = "bus_access"
      BY <1>1, <1>2, <1>3
    <3>. QED
      BY <1>1, <1>2, <1>3, <3>1
  <2>. QED
    BY <1>3, <2>1, <2>2
<1>4. CASE setup.max_hz # Absent
  <2>. DEFINE three == <<"bus_present", "bus_access", "bus_clock">>
  <2>1. two \o <<"bus_clock">> = three
    <3>1. "bus_present" \in Ids /\ "bus_access" \in Ids /\ "bus_clock" \in Ids
      BY DEF Ids
    <3>. QED
      BY <3>1, TwoAndOne
  <2>2. ids = three
    <3>1. DOMAIN found = 1..3 /\ found[1].id = "bus_present" /\ found[2].id = "bus_access" /\ found[3].id = "bus_clock"
      BY <1>1, <1>2, <1>4
    <3>. QED
      BY <3>1
  <2>. QED
    BY <1>4, <2>1, <2>2
<1>. QED
  BY <1>3, <1>4

(* What has been reported decides. *)
LEMMA CheckInvImplies == CheckInv => HostCheckDecides
<1>. SUFFICES ASSUME CheckInv, question = "checked"
     PROVE  /\ changes = 0 => (exit_code = 1 <=> No)
            /\ (exit_code = 1) = (readiness_diagnostics.host_check = "unmet")
            /\ Len(readiness_diagnostics.host_unmet) = Cardinality(Unmet)
            /\ [i \in DOMAIN found |-> found[i].id] = <<"bus_present", "bus_access">>
                   \o (IF setup.max_hz = Absent THEN <<>> ELSE <<"bus_clock">>)
  BY DEF HostCheckDecides, No
<1>1. /\ Len(readiness_diagnostics.host_unmet) = Cardinality(Unmet)
      /\ readiness_diagnostics.host_check = IF Unmet = {} THEN "ok" ELSE "unmet"
  BY UnmetListed DEF CheckInv
<1>2. changes = 0 => (Unmet # {} <=> No)
  BY DEF CheckInv
<1>3. exit_code = 1 <=> Unmet # {}
  BY DEF exit_code
<1>4. (exit_code = 1) = (readiness_diagnostics.host_check = "unmet")
  BY <1>1, <1>3
<1>. QED
  BY <1>1, <1>2, <1>3, <1>4, IdsInOrder

(* Of a host that does not change under it, the check says no exactly if it *)
(* should; its exit code, its diagnostics and its list agree.               *)
THEOREM HostCheckCorrect == SetupSpec => []HostCheckDecides
<1>1. SetupInit => CheckInv
  BY InitCheck
<1>2. CheckInv /\ [SetupNext]_setupVars => CheckInv'
  BY CheckStep
<1>3. CheckInv => HostCheckDecides
  BY CheckInvImplies
<1>. QED
  BY <1>1, <1>2, <1>3, PTL DEF SetupSpec

-----------------------------------------------------------------------------
(* Claims. *)

(* A key is added to a tag that lacks it, and the tag repeats none. *)
LEMMA AddClaim ==
  ASSUME NEW K, NEW s \in Seq(K), IsInjective(s), NEW k \in K
  PROVE  /\ add_claim(s, k) \in Seq(K) /\ IsInjective(add_claim(s, k))
         /\ Range(add_claim(s, k)) = Range(s) \cup {k}
<1>1. CASE k \in Range(s)
  BY <1>1 DEF add_claim
<1>2. CASE k \notin Range(s)
  <2>. DEFINE t == Append(s, k)
              n == Len(s)
  <2>1. /\ n \in Nat /\ DOMAIN s = 1..n /\ DOMAIN t = 1..(n + 1)
        /\ t[n + 1] = k /\ \A i \in 1..n : t[i] = s[i]
    OBVIOUS
  <2>2. add_claim(s, k) = t
    BY <1>2 DEF add_claim
  <2>3. t \in Seq(K) /\ Range(t) = Range(s) \cup {k}
    BY RangeOfAppend
  <2>. HIDE DEF t, n
  <2>4. \A i \in 1..(n + 1) : i \in 1..n \/ i = n + 1
    BY <2>1
  <2>5. \A i \in 1..n : s[i] # k
    BY <1>2, <2>1 DEF Range
  <2>6. IsInjective(t)
    BY <2>1, <2>4, <2>5 DEF IsInjective
  <2>. QED
    BY <2>2, <2>3, <2>6
<1>. QED
  BY <1>1, <1>2

(* The fold that FoldLeft takes to add the keys q to a tag. *)
Adding(h, keys, q) ==
  h = [s \in SUBSET (DOMAIN q) |->
         IF s = {} THEN keys ELSE add_claim(h[s \ {Max(s)}], q[Max(s)])]

(* A list of keys is added to a tag, one after the other. *)
LEMMA ClaimsAdded ==
  ASSUME NEW K, NEW keys \in Seq(K), IsInjective(keys), NEW q \in Seq(K)
  PROVE  LET r == FoldLeft(add_claim, keys, q) IN
         r \in Seq(K) /\ IsInjective(r) /\ Range(r) = Range(keys) \cup Range(q)
<1>. DEFINE n == Len(q)
            A == {a \in Seq(K) : IsInjective(a)}
            F == [i \in 1..n |-> [a \in A |-> add_claim(a, q[i])]]
            h == CHOOSE h : Adding(h, keys, q)
            First(k) == {q[i] : i \in 1..k}
<1>1. n \in Nat /\ DOMAIN q = 1..n /\ \A i \in 1..n : q[i] \in K
  OBVIOUS
<1>2. ASSUME NEW a \in A, NEW i \in 1..n PROVE add_claim(a, q[i]) \in A
  BY <1>1, AddClaim
<1>3. \E g : Adding(g, keys, q)
  <2>1. keys \in A /\ F \in [1..n -> [A -> A]]
    BY <1>2
  <2>2. PICK g : Folded(g, F, keys, n) /\ \A s \in SUBSET (1..n) : g[s] \in A
    <3>. HIDE DEF F, A, n
    <3>. QED
      BY <1>1, <2>1, FoldExists
  <2>3. ASSUME NEW s \in SUBSET (1..n), s # {}
        PROVE  F[Max(s)][g[s \ {Max(s)}]] = add_claim(g[s \ {Max(s)}], q[Max(s)])
    <3>1. s \subseteq 0..n
      OBVIOUS
    <3>2. Max(s) \in 1..n /\ s \ {Max(s)} \in SUBSET (1..n)
      BY <1>1, <2>3, <3>1, MaxOfPositions
    <3>3. g[s \ {Max(s)}] \in A
      BY <2>2, <3>2
    <3>. HIDE DEF A
    <3>. QED
      BY <3>2, <3>3
  <2>4. Adding(g, keys, q)
    <3>. HIDE DEF F
    <3>. QED
      BY <1>1, <2>2, <2>3, Zenon DEF Folded, Adding
  <2>. QED
    BY <2>4
<1>4. Adding(h, keys, q)
  BY <1>3
<1>5. FoldLeft(add_claim, keys, q) = h[DOMAIN q]
  BY DEF FoldLeft, MapThenFoldSet, Adding
<1>. HIDE DEF h
<1>6. h[1..0] = keys
  BY <1>1, <1>4 DEF Adding
<1>7. ASSUME NEW k \in 0..(n - 1)
      PROVE  h[1..(k + 1)] = add_claim(h[1..k], q[k + 1])
  <2>1. /\ 1..(k + 1) \in SUBSET (1..n) /\ 1..(k + 1) # {}
        /\ Max(1..(k + 1)) = k + 1 /\ (1..(k + 1)) \ {k + 1} = 1..k
    BY <1>1, LastPosition
  <2>. DEFINE s == 1..(k + 1)
  <2>2. h[s] = IF s = {} THEN keys ELSE add_claim(h[s \ {Max(s)}], q[Max(s)])
    BY <1>1, <1>4, <2>1, Zenon DEF Adding
  <2>. QED
    BY <2>1, <2>2
<1>. DEFINE T == {k \in Nat : k <= n => h[1..k] \in A /\ Range(h[1..k]) = Range(keys) \cup First(k)}
<1>8. 0 \in T
  <2>1. First(0) = {} /\ keys \in A
    OBVIOUS
  <2>. HIDE DEF A, First
  <2>. QED
    BY <1>6, <2>1
<1>9. ASSUME NEW k \in Nat, k \in T PROVE k + 1 \in T
  <2>. SUFFICES ASSUME k + 1 <= n
                PROVE  h[1..(k + 1)] \in A /\ Range(h[1..(k + 1)]) = Range(keys) \cup First(k + 1)
    OBVIOUS
  <2>1. k \in 0..(n - 1) /\ k + 1 \in 1..n
    BY <1>1
  <2>2. h[1..k] \in A /\ Range(h[1..k]) = Range(keys) \cup First(k)
    BY <1>9, <2>1
  <2>3. First(k + 1) = First(k) \cup {q[k + 1]}
    <3>1. 1..(k + 1) = (1..k) \cup {k + 1}
      OBVIOUS
    <3>. QED
      BY <3>1
  <2>4. /\ add_claim(h[1..k], q[k + 1]) \in A
        /\ Range(add_claim(h[1..k], q[k + 1])) = Range(h[1..k]) \cup {q[k + 1]}
    <3>. DEFINE a == h[1..k]
                b == q[k + 1]
    <3>1. a \in Seq(K) /\ IsInjective(a) /\ b \in K
      BY <1>1, <2>1, <2>2
    <3>. HIDE DEF a, b
    <3>2. /\ add_claim(a, b) \in Seq(K) /\ IsInjective(add_claim(a, b))
          /\ Range(add_claim(a, b)) = Range(a) \cup {b}
      BY <3>1, AddClaim
    <3>. QED
      BY <3>2 DEF a, b
  <2>. HIDE DEF A, First
  <2>. QED
    BY <1>7, <2>1, <2>2, <2>3, <2>4
<1>. HIDE DEF T
<1>10. n \in T
  BY <1>1, <1>8, <1>9, NatSetInduction
<1>11. First(n) = Range(q)
  BY <1>1 DEF Range
<1>. QED
  <2>1. h[1..n] \in A /\ Range(h[1..n]) = Range(keys) \cup First(n)
    BY <1>1, <1>10 DEF T
  <2>. HIDE DEF First
  <2>. QED
    BY <1>1, <1>5, <1>11, <2>1

Spellings == [name : Nodes \cup {Alias, Mock}, spelling : {"plain", "odd"}]
AllKeys == [bus : Spellings, address : Nat]
Places == Nodes \cup {Alias, Mock, Absent}

(* What a provider's tag s says of the claims that its configuration c made, *)
(* r the buses its path led to: the path as it is written, every bus the     *)
(* path was known to lead to, and no other bus.                              *)
Honest(c, s, r) ==
  LET K == Range(s)
      R == Range(r) \ {Absent}
  IN  /\ IsInjective(s)
      /\ s # <<>> => Key(c.path, c.address) \in K
      /\ s # <<>> /\ c.path.name # Alias => c.path.name \in R
      /\ IF c.path.name = Alias THEN R \subseteq Nodes ELSE R \subseteq {c.path.name}
      /\ c.release = "new" => \A b \in R : Key(Path(b, "plain"), c.address) \in K
      /\ \A k \in K : /\ k.address = c.address /\ ~HasSpace(k.bus)
                      /\ k.bus.name = c.path.name \/ k.bus.name \in R

ClaimInv ==
  /\ setup \in Deployments
  /\ present \subseteq Nodes /\ target \in Nodes \cup {Absent}
  /\ tag \in [Providers -> Seq(AllKeys)] /\ reached \in [Providers -> Seq(Places)]
  /\ \A p \in Providers : Honest(setup.config[p], tag[p], reached[p])

(* A path is a name and a spelling. *)
LEMMA PathFields ==
  ASSUME NEW n, NEW s
  PROVE  Path(n, s).name = n /\ Path(n, s).spelling = s
BY DEF Path

(* A key is a path and an address. *)
LEMMA KeyFields ==
  ASSUME NEW b, NEW a
  PROVE  Key(b, a).bus = b /\ Key(b, a).address = a
BY DEF Key

(* A provider's configuration: a node's path is spelled in one of two ways. *)
LEMMA Configured ==
  ASSUME ClaimInv, NEW p \in Providers
  PROVE  LET c == setup.config[p] IN
         /\ c \in Configs /\ c.path \in Spellings
         /\ c.path.name = Mock => c.path.spelling = "plain"
         /\ c.path.name = Alias => c.path.spelling = "plain"
         /\ c.address \in Nat /\ c.release \in {"old", "new"}
<1>. DEFINE c == setup.config[p]
<1>1. c \in Configs
  BY SetupAssumption DEF ClaimInv, Providers, Range
<1>2. c.path \in Paths /\ c.address \in Nat /\ c.release \in {"old", "new"}
  BY <1>1 DEF Configs
<1>. HIDE DEF c
<1>3. PICK n, s : /\ c.path = Path(n, s) /\ n \in Nodes \cup {Alias, Mock}
                  /\ s \in {"plain", "odd"}
                  /\ n \in {Alias, Mock} => s = "plain"
  <2>1. CASE c.path \in {Path(n, "plain") : n \in Nodes \cup {Alias, Mock}}
    BY <2>1
  <2>2. CASE c.path \in {Path(n, "odd") : n \in Nodes}
    <3>1. PICK n \in Nodes : c.path = Path(n, "odd")
      BY <2>2
    <3>2. n \notin {Alias, Mock}
      BY <3>1, SetupAssumption
    <3>. QED
      BY <3>1, <3>2
  <2>. QED
    BY <1>2, <2>1, <2>2 DEF Paths
<1>4. c.path.name = n /\ c.path.spelling = s /\ c.path \in Spellings
  BY <1>3 DEF Path, Spellings
<1>. QED
  BY <1>1, <1>2, <1>3, <1>4 DEF c

(* The keys a claim adds. *)
LEMMA KeysAdded ==
  ASSUME ClaimInv, NEW p \in Providers, ~ClaimThrows(p)
  PROVE  LET c == setup.config[p]
             b == canonical_bus_path(p)
             w == Key(c.path, c.address)
         IN  /\ KeysFor(p) \in Seq(AllKeys) /\ b \in Spellings
             /\ w \in Range(KeysFor(p))
             /\ Range(KeysFor(p)) \subseteq {w, Key(b, c.address)} /\ ~HasSpace(c.path)
             /\ c.release = "new" => Key(b, c.address) \in Range(KeysFor(p)) /\ ~HasSpace(b)
             /\ c.release = "old" => Range(KeysFor(p)) = {w}
<1>. DEFINE c == setup.config[p]
            b == canonical_bus_path(p)
            w == Key(c.path, c.address)
            v == Key(b, c.address)
<1>1. /\ c.path \in Spellings /\ c.address \in Nat /\ c.release \in {"old", "new"}
  BY Configured
<1>2. b \in Spellings
  <2>1. ASSUME NEW n \in Nodes \cup {Alias, Mock} PROVE Path(n, "plain") \in Spellings
    BY DEF Path, Spellings
  <2>2. c.path.name \in Nodes \cup {Alias, Mock}
    BY <1>1 DEF Spellings
  <2>3. c.path.name = Alias /\ Exists(c.path) => target \in Nodes
    BY DEF Exists, Meant, ClaimInv
  <2>. QED
    BY <1>1, <2>1, <2>2, <2>3 DEF canonical_bus_path
<1>3. ~HasSpace(c.path) /\ (c.release = "new" => ~HasSpace(b))
  BY DEF ClaimThrows
<1>. HIDE DEF c, b
<1>4. w \in AllKeys /\ v \in AllKeys
  BY <1>1, <1>2 DEF Key, AllKeys
<1>. DEFINE one == c.release = "old" \/ b = c.path
<1>5. KeysFor(p) = <<w>> \o IF one THEN <<>> ELSE <<v>>
  BY DEF KeysFor, c, b
<1>. HIDE DEF w, v, AllKeys
<1>6. <<w>> \in Seq(AllKeys) /\ Range(<<w>>) = {w}
  BY <1>4 DEF Range
<1>7. CASE one
  <2>1. KeysFor(p) = <<w>>
    <3>1. <<w>> \o <<>> = <<w>>
      BY <1>4
    <3>. QED
      BY <1>5, <1>7, <3>1
  <2>2. c.release = "new" => v = w
    BY <1>7 DEF v, w
  <2>. QED
    BY <1>2, <1>3, <1>6, <2>1, <2>2 DEF c, b, w, v
<1>8. CASE ~one
  <2>. DEFINE s == <<w>>
  <2>0. s \in Seq(AllKeys) /\ Range(s) = {w}
    BY <1>6
  <2>. HIDE DEF s
  <2>1. KeysFor(p) = Append(s, v)
    <3>1. s \o <<v>> = Append(s, v)
      BY <1>4, <2>0
    <3>. QED
      BY <1>5, <1>8, <3>1 DEF s
  <2>2. KeysFor(p) \in Seq(AllKeys) /\ Range(KeysFor(p)) = {w, v}
    BY <1>4, <2>0, <2>1, RangeOfAppend
  <2>3. c.release # "old"
    BY <1>8
  <2>. QED
    BY <1>2, <1>3, <2>2, <2>3 DEF c, b, w, v
<1>. QED
  BY <1>7, <1>8

(* Where a claim's path led, and the canonical path it had then. *)
LEMMA WhereItLed ==
  ASSUME ClaimInv, NEW p \in Providers
  PROVE  LET c == setup.config[p]
             n == Reached(p)
         IN  /\ n \in Places
             /\ c.path.name # Alias => n = c.path.name
             /\ c.path.name = Alias => n \in Nodes \cup {Absent}
             /\ IF n = Absent THEN canonical_bus_path(p).name = c.path.name
                ELSE canonical_bus_path(p) = Path(n, "plain")
<1>. DEFINE path == setup.config[p].path
<1>1. /\ path \in Spellings
      /\ path.name = Mock => path.spelling = "plain"
  BY Configured
<1>2. Absent \notin Nodes \cup {Alias, Mock} /\ Alias # Mock
  BY SetupAssumption
<1>3. path.name \in Nodes \cup {Alias, Mock} /\ path = [name |-> path.name, spelling |-> path.spelling]
  BY <1>1 DEF Spellings
<1>4. CASE path.name = Alias /\ Exists(path) /\ ~Barred(p)
  <2>1. target \in Nodes
    BY <1>4 DEF Exists, Meant, ClaimInv
  <2>2. Reached(p) = target /\ canonical_bus_path(p) = Path(target, "plain")
    BY <1>2, <1>4 DEF Reached, canonical_bus_path
  <2>. QED
    BY <1>2, <1>4, <2>1, <2>2 DEF Places
<1>5. CASE path.name = Alias /\ ~(Exists(path) /\ ~Barred(p))
  BY <1>2, <1>5 DEF Reached, canonical_bus_path, Places, Path
<1>6. CASE path.name # Alias
  <2>1. Reached(p) = path.name /\ Reached(p) # Absent
    BY <1>2, <1>3, <1>6 DEF Reached
  <2>2. canonical_bus_path(p) = Path(path.name, "plain")
    BY <1>1, <1>3, <1>6 DEF canonical_bus_path, Path
  <2>. QED
    BY <1>3, <1>6, <2>1, <2>2 DEF Places
<1>. QED
  BY <1>4, <1>5, <1>6

(* A claim leaves its provider's tag honest. *)
LEMMA HonestClaim ==
  ASSUME ClaimInv, NEW p \in Providers, ~ClaimThrows(p)
  PROVE  LET s == FoldLeft(add_claim, tag[p], KeysFor(p))
             r == Append(reached[p], Reached(p))
         IN  /\ s \in Seq(AllKeys) /\ r \in Seq(Places)
             /\ Honest(setup.config[p], s, r)
<1>. DEFINE c == setup.config[p]
            b == canonical_bus_path(p)
            n == Reached(p)
            w == Key(c.path, c.address)
            v == Key(b, c.address)
            s == FoldLeft(add_claim, tag[p], KeysFor(p))
            r == Append(reached[p], n)
            K == Range(s)
            R == Range(r) \ {Absent}
            K0 == Range(tag[p])
            R0 == Range(reached[p]) \ {Absent}
            Q == Range(KeysFor(p))
<1>1. /\ tag[p] \in Seq(AllKeys) /\ reached[p] \in Seq(Places)
      /\ Honest(c, tag[p], reached[p])
  BY DEF ClaimInv
<1>2. /\ c.path \in Spellings /\ ~HasSpace(c.path) /\ c.release \in {"old", "new"}
  BY Configured, KeysAdded
<1>3. /\ KeysFor(p) \in Seq(AllKeys)
      /\ w \in Q /\ Q \subseteq {w, v}
      /\ c.release = "new" => v \in Q /\ ~HasSpace(b)
      /\ c.release = "old" => Q = {w}
  BY KeysAdded
<1>4. /\ n \in Places
      /\ c.path.name # Alias => n = c.path.name
      /\ c.path.name = Alias => n \in Nodes \cup {Absent}
      /\ IF n = Absent THEN b.name = c.path.name ELSE b = Path(n, "plain")
  BY WhereItLed
<1>5. s \in Seq(AllKeys) /\ IsInjective(s) /\ K = K0 \cup Q
  <2>1. IsInjective(tag[p])
    BY <1>1 DEF Honest
  <2>. QED
    BY <1>1, <1>3, <2>1, ClaimsAdded
<1>6. r \in Seq(Places) /\ R = (R0 \cup {n}) \ {Absent}
  BY <1>1, <1>4, RangeOfAppend
<1>7. /\ IF c.path.name = Alias THEN R0 \subseteq Nodes ELSE R0 \subseteq {c.path.name}
      /\ c.release = "new" => \A d \in R0 : Key(Path(d, "plain"), c.address) \in K0
      /\ \A k \in K0 : /\ k.address = c.address /\ ~HasSpace(k.bus)
                       /\ k.bus.name = c.path.name \/ k.bus.name \in R0
  BY <1>1 DEF Honest
<1>8. Absent \notin Nodes \cup {Alias, Mock} /\ c.path.name \in Nodes \cup {Alias, Mock}
  BY <1>2, SetupAssumption DEF Spellings
<1>9. /\ w.address = c.address /\ w.bus = c.path
      /\ v.address = c.address /\ v.bus = b
  BY DEF Key
<1>10. IF n = Absent THEN b.name = c.path.name ELSE b.name = n
  BY <1>4, PathFields
<1>. HIDE DEF c, b, n, w, v, s, r, Q, K0, R0
<1>11. c.path.name # Alias => c.path.name \in R
  BY <1>4, <1>6, <1>8
<1>12. IF c.path.name = Alias THEN R \subseteq Nodes ELSE R \subseteq {c.path.name}
  BY <1>4, <1>6, <1>7
<1>13. ASSUME c.release = "new", NEW d \in R PROVE Key(Path(d, "plain"), c.address) \in K
  <2>1. CASE d \in R0
    BY <1>5, <1>7, <1>13, <2>1
  <2>2. CASE d \notin R0
    <3>1. d = n /\ n # Absent
      BY <1>6, <1>13, <2>2
    <3>2. Key(Path(d, "plain"), c.address) = v
      BY <1>4, <3>1 DEF v
    <3>. QED
      BY <1>3, <1>5, <1>13, <3>2
  <2>. QED
    BY <2>1, <2>2
<1>14. ASSUME NEW k \in K
       PROVE  /\ k.address = c.address /\ ~HasSpace(k.bus)
              /\ k.bus.name = c.path.name \/ k.bus.name \in R
  <2>1. CASE k \in K0
    BY <1>6, <1>7, <1>8, <2>1
  <2>2. CASE k = w
    BY <1>2, <1>9, <2>2
  <2>3. CASE k = v /\ k # w /\ k \in Q
    <3>1. ~HasSpace(b)
      <4>1. c.release # "old"
        BY <1>3, <2>3
      <4>. QED
        BY <1>2, <1>3, <4>1
    <3>. QED
      BY <1>6, <1>9, <1>10, <2>3, <3>1
  <2>. QED
    BY <1>3, <1>5, <1>14, <2>1, <2>2, <2>3
<1>. QED
  <2>1. Honest(c, s, r)
    <3>. HIDE DEF K, R
    <3>1. w \in K
      BY <1>3, <1>5
    <3>. QED
      BY <1>5, <1>11, <1>12, <1>13, <1>14, <3>1 DEF Honest, K, R, w
  <2>. QED
    BY <1>5, <1>6, <2>1 DEF c, s, r, n

(* Nothing is claimed at the start. *)
LEMMA InitClaims == SetupInit => ClaimInv
<1>. SUFFICES ASSUME SetupInit PROVE ClaimInv
  OBVIOUS
<1>1. Range(<<>>) = {} /\ IsInjective(<<>>)
  BY DEF Range, IsInjective
<1>2. ASSUME NEW p \in Providers
      PROVE  tag[p] = <<>> /\ reached[p] = <<>>
  BY DEF SetupInit
<1>3. ASSUME NEW p \in Providers PROVE Honest(setup.config[p], tag[p], reached[p])
  BY <1>1, <1>2 DEF Honest
<1>4. tag \in [Providers -> Seq(AllKeys)] /\ reached \in [Providers -> Seq(Places)]
  <2>. HIDE DEF AllKeys, Places
  <2>1. <<>> \in Seq(AllKeys) /\ <<>> \in Seq(Places)
    OBVIOUS
  <2>. QED
    BY <2>1 DEF SetupInit
<1>. QED
  BY <1>3, <1>4 DEF SetupInit, ClaimInv

(* A claim keeps every tag honest. *)
LEMMA ClaimStep ==
  ASSUME ClaimInv, NEW p \in Providers, Claim(p)
  PROVE  ClaimInv'
<1>. DEFINE s == FoldLeft(add_claim, tag[p], KeysFor(p))
            r == Append(reached[p], Reached(p))
<1>1. /\ s \in Seq(AllKeys) /\ r \in Seq(Places)
      /\ Honest(setup.config[p], s, r)
  BY HonestClaim DEF Claim
<1>2. /\ tag \in [Providers -> Seq(AllKeys)] /\ reached \in [Providers -> Seq(Places)]
      /\ \A q \in Providers : Honest(setup.config[q], tag[q], reached[q])
  BY DEF ClaimInv
<1>3. /\ tag' = [tag EXCEPT ![p] = s] /\ reached' = [reached EXCEPT ![p] = r]
      /\ UNCHANGED <<setup, world, check>>
  BY DEF Claim
<1>. HIDE DEF s, r, AllKeys, Places
<1>4. Providers' = Providers
  BY <1>3 DEF Providers
<1>5. tag' \in [Providers -> Seq(AllKeys)] /\ reached' \in [Providers -> Seq(Places)]
  BY <1>1, <1>2, <1>3
<1>6. ASSUME NEW q \in Providers PROVE Honest(setup.config[q], tag'[q], reached'[q])
  <2>1. CASE q = p
    <3>1. tag'[p] = s /\ reached'[p] = r
      BY <1>2, <1>3
    <3>. QED
      BY <1>1, <2>1, <3>1
  <2>2. CASE q # p
    <3>1. tag'[q] = tag[q] /\ reached'[q] = reached[q]
      BY <1>2, <1>3, <2>2
    <3>. QED
      BY <1>2, <3>1
  <2>. QED
    BY <2>1, <2>2
<1>7. setup' = setup /\ present' = present /\ target' = target
  BY <1>3 DEF world
<1>. QED
  BY <1>4, <1>5, <1>6, <1>7 DEF ClaimInv

(* So does every other step: links and nodes may go, the tags stay. *)
LEMMA ClaimsKept == ClaimInv /\ [SetupNext]_setupVars => ClaimInv'
<1>. SUFFICES ASSUME ClaimInv, [SetupNext]_setupVars PROVE ClaimInv'
  OBVIOUS
<1>1. CASE /\ UNCHANGED <<setup, claims>>
           /\ present' \subseteq Nodes /\ target' \in Nodes \cup {Absent}
  BY <1>1 DEF ClaimInv, claims, Providers
<1>2. ASSUME NEW n \in Nodes, NodeComesOrGoes(n) PROVE ClaimInv'
  BY <1>1, <1>2 DEF NodeComesOrGoes, ClaimInv
<1>3. ASSUME NEW n \in Nodes \cup {Absent}, AliasMoves(n) PROVE ClaimInv'
  BY <1>1, <1>3 DEF AliasMoves, ClaimInv
<1>4. CASE Stat \/ Access \/ ReadClock
  BY <1>1, <1>4 DEF Stat, Access, ReadClock, Skip, Report, ClaimInv, world
<1>5. ASSUME NEW p \in Providers, Claim(p) PROVE ClaimInv'
  BY <1>5, ClaimStep
<1>6. CASE UNCHANGED setupVars
  BY <1>1, <1>6 DEF setupVars, world, ClaimInv
<1>. QED
  BY <1>2, <1>3, <1>4, <1>5, <1>6 DEF SetupNext

(* Honest tags of one device share a key. *)
LEMMA SharedDeviceFollows == ClaimInv => SharedDeviceIsSeen
<1>. SUFFICES ASSUME ClaimInv, NEW p \in Providers, NEW q \in Providers,
                     SameAddress(p, q), tag[p] # <<>>, tag[q] # <<>>,
                     LET c == setup.config[p]  d == setup.config[q] IN
                     \/ c.path = d.path
                     \/ /\ c.release = "new" /\ d.release = "new"
                        /\ (Range(reached[p]) \cap Range(reached[q])) \ {Absent} # {}
              PROVE  Collide(p, q)
  BY DEF SharedDeviceIsSeen
<1>. DEFINE c == setup.config[p]
            d == setup.config[q]
<1>1. c.address = d.address
  BY DEF SameAddress
<1>2. Honest(c, tag[p], reached[p]) /\ Honest(d, tag[q], reached[q])
  BY DEF ClaimInv
<1>3. CASE c.path = d.path
  <2>1. Key(c.path, c.address) \in Keys(p) /\ Key(d.path, d.address) \in Keys(q)
    BY <1>2 DEF Honest, Keys
  <2>. QED
    BY <1>1, <1>3, <2>1 DEF Collide
<1>4. CASE /\ c.release = "new" /\ d.release = "new"
           /\ (Range(reached[p]) \cap Range(reached[q])) \ {Absent} # {}
  <2>1. PICK b : b \in Range(reached[p]) \ {Absent} /\ b \in Range(reached[q]) \ {Absent}
    BY <1>4
  <2>2. Key(Path(b, "plain"), c.address) \in Keys(p) /\ Key(Path(b, "plain"), d.address) \in Keys(q)
    BY <1>2, <1>4, <2>1 DEF Honest, Keys
  <2>. QED
    BY <1>1, <2>2 DEF Collide
<1>. QED
  BY <1>3, <1>4

(* Honest tags share a key only of one device. *)
LEMMA CollisionsFollow == ClaimInv => CollisionsAreReal
<1>. SUFFICES ASSUME ClaimInv PROVE CollisionsAreReal
  OBVIOUS
<1>1. ASSUME NEW p \in Providers, NEW q \in Providers, Collide(p, q)
      PROVE  /\ SameAddress(p, q)
             /\ \/ setup.config[p].path.name = setup.config[q].path.name
                \/ (Range(reached[p]) \cap Range(reached[q])) \ {Absent} # {}
  <2>. DEFINE c == setup.config[p]
              d == setup.config[q]
              R == Range(reached[p]) \ {Absent}
              T == Range(reached[q]) \ {Absent}
  <2>1. PICK k : k \in Keys(p) /\ k \in Keys(q)
    BY <1>1 DEF Collide
  <2>2. Honest(c, tag[p], reached[p]) /\ Honest(d, tag[q], reached[q])
    BY DEF ClaimInv
  <2>3. tag[p] # <<>> /\ tag[q] # <<>>
    BY <2>1 DEF Keys, Range
  <2>4. /\ k.address = c.address
        /\ k.address = d.address
        /\ k.bus.name = c.path.name \/ k.bus.name \in R
        /\ k.bus.name = d.path.name \/ k.bus.name \in T
    BY <2>1, <2>2 DEF Honest, Keys
  <2>5. /\ c.path.name # Alias => c.path.name \in R
        /\ d.path.name # Alias => d.path.name \in T
        /\ IF c.path.name = Alias THEN R \subseteq Nodes ELSE R \subseteq {c.path.name}
        /\ IF d.path.name = Alias THEN T \subseteq Nodes ELSE T \subseteq {d.path.name}
    BY <2>2, <2>3 DEF Honest
  <2>6. Alias \notin Nodes
    BY SetupAssumption
  <2>. HIDE DEF c, d, R, T
  <2>7. c.path.name = d.path.name \/ R \cap T # {}
    BY <2>4, <2>5, <2>6
  <2>. QED
    BY <2>4, <2>7 DEF SameAddress, c, d, R, T
<1>2. ASSUME NEW p \in Providers
      PROVE  /\ Cardinality(Keys(p)) = Len(tag[p])
             /\ \A k \in Keys(p) : ~HasSpace(k.bus)
  <2>1. tag[p] \in Seq(AllKeys) /\ Honest(setup.config[p], tag[p], reached[p])
    BY DEF ClaimInv
  <2>2. Cardinality(Range(tag[p])) = Len(tag[p])
    BY <2>1, DistinctListed DEF Honest
  <2>. QED
    BY <2>1, <2>2 DEF Honest, Keys
<1>. QED
  BY <1>1, <1>2 DEF CollisionsAreReal

(* Two providers that claimed one device collide, whatever paths they wrote *)
(* and whenever each claimed, as far as their releases could tell.          *)
THEOREM SharedDeviceSeen == SetupSpec => []SharedDeviceIsSeen
<1>. QED
  BY InitClaims, ClaimsKept, SharedDeviceFollows, PTL DEF SetupSpec

(* Providers that collide have one address and one path or one bus; a tag   *)
(* holds each key once, and none with a space.                              *)
THEOREM CollisionsReal == SetupSpec => []CollisionsAreReal
<1>. QED
  BY InitClaims, ClaimsKept, CollisionsFollow, PTL DEF SetupSpec
=============================================================================
