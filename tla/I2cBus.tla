-------------------------------- MODULE I2cBus --------------------------------
(***************************************************************************)
(* The shared I2C transport: LinuxI2cBus, the FaultInjectingI2cBus that    *)
(* decorates it, and the IoStats both keep.  Threads issue operations; the *)
(* health task takes snapshots of the counters meanwhile.  IoStatsMap is   *)
(* guarded by a mutex, so a record or a read of it is one step; the        *)
(* decorator's operation counters are plain integers, so two threads that  *)
(* increment them race and either increment can be lost.                   *)
(*                                                                         *)
(* The kernel (the I2C_RDWR ioctl) is external: a call succeeds, fails     *)
(* with EINTR or EAGAIN, or fails otherwise.  Messages are shorter than    *)
(* i2c_msg's 16-bit length.  open and close are called while no operation  *)
(* is in progress.  The decorator's faults come from the query of the bus   *)
(* path it was made for, which FaultSpec::parse reads.                     *)
(***************************************************************************)
EXTENDS Integers, SequencesExt

CONSTANTS
  Buses,        \* the buses of an instance, see Bus
  Addresses,
  retry_count,  \* LinuxI2cBus's retry_count argument; may be negative
  Timeout,      \* a read's timeout, in polls of 200 us
  U8, U32, ULong, \* 2^8, 2^32 and what an unsigned long wraps at
  None          \* no operation; no number in a text

Fields ==
  {"pad", "pad_byte", "short_every", "corrupt_every", "nak_every",
   "read_fail_every", "timeout_every", "drop_after", "drop_for", "latency_us"}
FaultSpecs == [Fields -> 0..(U32 - 1)]
NoFaults == [f \in Fields |-> IF f = "pad_byte" THEN U8 - 1 ELSE 0]

(* The text of a query's value: what stands before the digits (nothing or a *)
(* plus sign, a minus sign, a blank, or a blank and a minus sign), the      *)
(* number they denote (decimal, or with 0x or 0 before it), and whether     *)
(* more text follows.                                                       *)
Texts == [lead : {"plain", "minus", "blank", "blank_minus"},
          number : Nat \cup {None}, tail : BOOLEAN]

ASSUME BusAssumption ==
  /\ retry_count \in Int /\ Timeout \in Nat /\ None \notin Nat
  /\ {U8, U32, ULong} \subseteq Nat \ {0} /\ U8 <= U32 /\ U32 <= ULong
  /\ \A b \in Buses : /\ IsFiniteSet(b.threads)
                      /\ b.lengths \subseteq Nat /\ b.max_ops \in Nat
                      /\ b.query \in Seq([key : STRING, value : Texts])

VARIABLES
  bus,  \* which of them it is
  spec  \* FaultInjectingI2cBus::spec_

(* A bus has the threads that share it, its query (pairs of a key and a      *)
(* value), the byte counts of their tx_data and rx_data, and a bound on the  *)
(* operations issued.                                                       *)
Threads == bus.threads
Lengths == bus.lengths
MaxOps == bus.max_ops

Kinds == {"write", "read", "write_then_read"}
Operation == [kind : Kinds, address : Addresses, tx : Lengths, rx : Lengths]
Operations ==
  {o \in Operation : /\ o.kind = "write" => o.rx = Min(Lengths)
                     /\ o.kind = "read" => o.tx = Min(Lengths)}
Errors ==
  {"InvalidArgument", "NotOpen", "WriteFailed", "ReadFailed", "Timeout", "BusError"}
Stats == [ok : Nat, failed : Nat, retried_attempts : Nat]
NoStats == [ok |-> 0, failed |-> 0, retried_attempts |-> 0]

-----------------------------------------------------------------------------
(* FaultSpec::parse.  strtoul skips blanks and wraps a negative number. *)
Strtoul(text) ==
  IF text.lead = "blank_minus" THEN (ULong - text.number) % ULong ELSE text.number

ParsesPrefix(text) ==  \* a slip: what follows the number is not looked at
  text.number # None /\ text.lead # "minus" /\ text.number < ULong /\ Strtoul(text) < U32

(* parse_u32 *)
Parses(text) ==
  /\ text.number # None /\ ~text.tail /\ text.lead # "minus"
  /\ text.number < ULong /\ Strtoul(text) < U32

(* One pair.  A key that names no field, and a pair without "=", does nothing. *)
SetField(s, pair) ==
  IF pair.key \in Fields /\ Parses(pair.value)
  THEN [s EXCEPT ![pair.key] = IF pair.key = "pad_byte" THEN Strtoul(pair.value) % U8
                               ELSE Strtoul(pair.value)]
  ELSE s
parse(query) == FoldLeft(SetField, NoFaults, query)

-----------------------------------------------------------------------------
VARIABLES
  opened,      \* LinuxI2cBus::opened_
  op, pc,      \* each thread's operation and where it is in it
  loaded,      \* the counters as a thread read them for its increments
  counters,    \* op_count_, write_count_, read_count_
  attempts, elapsed,
  status,      \* the I2cError of a thread's last operation
  reply,       \* what its last read brought: *rx_received and the bytes
  io_stats, fault_stats,
  snapshot,    \* the health task's io_stats_for in progress or done
  log,         \* the operations so far: kind, address, latency, the fault injected
  wire         \* what the adapter saw: operations, ioctls, successes

stats == <<io_stats, fault_stats>>
vars == <<bus, spec, opened, op, pc, loaded, counters, attempts, elapsed, status, reply,
          stats, snapshot, log, wire>>

(* The bytes of a reply: how many, whether the first is flipped, and what    *)
(* pads the end.                                                            *)
NoReply == [len |-> 0, flipped |-> FALSE, pads |-> 0, pad_byte |-> None]

Zero == [op |-> 0, write |-> 0, read |-> 0]
Add(s, r) == [f \in DOMAIN s |-> s[f] + r[f]]

TypeOK ==
  /\ bus \in Buses /\ opened \in BOOLEAN
  /\ op \in [Threads -> Operation \cup {None}]
  /\ pc \in [Threads -> {"idle", "load", "store", "decide", "enter", "attempt",
                         "succeeded", "failed", "mutate"}]
  /\ counters \in [{"op", "write", "read"} -> Nat]
  /\ loaded \in [Threads -> [{"op", "write", "read"} -> Nat]]
  /\ attempts \in [Threads -> Nat] /\ elapsed \in [Threads -> Nat]
  /\ status \in [Threads -> Errors \cup {"Ok"}]
  /\ io_stats \in [Addresses -> Stats] /\ fault_stats \in [Addresses -> Stats]
  /\ snapshot \in [address : Addresses \cup {None}, done : BOOLEAN,
                  value : Stats, before : Stats, after : Stats]

Init ==
  /\ bus \in Buses /\ spec = parse(bus.query)
  /\ opened = FALSE
  /\ op = [t \in Threads |-> None] /\ pc = [t \in Threads |-> "idle"]
  /\ loaded = [t \in Threads |-> Zero] /\ counters = Zero
  /\ attempts = [t \in Threads |-> 0] /\ elapsed = [t \in Threads |-> 0]
  /\ status = [t \in Threads |-> "Ok"]
  /\ reply = [t \in Threads |-> NoReply]
  /\ io_stats = [a \in Addresses |-> NoStats]
  /\ fault_stats = [a \in Addresses |-> NoStats]
  /\ snapshot = [address |-> None, done |-> TRUE, value |-> NoStats,
                 before |-> NoStats, after |-> NoStats]
  /\ log = <<>>
  /\ wire = [a \in Addresses |-> [ops |-> 0, calls |-> 0, ok |-> 0]]

-----------------------------------------------------------------------------
(* Plausible slips. *)
RetriesCountTheFirst(s, ok, attempts_made) ==
  [ok |-> s.ok + IF ok THEN 1 ELSE 0, failed |-> s.failed + IF ok THEN 0 ELSE 1,
   retried_attempts |-> s.retried_attempts + attempts_made]

(* IoStatsMap::record. *)
record(s, ok, attempts_made) ==
  [ok |-> s.ok + IF ok THEN 1 ELSE 0, failed |-> s.failed + IF ok THEN 0 ELSE 1,
   retried_attempts |-> s.retried_attempts + Max({attempts_made - 1, 0})]

GoTo(t, where) == pc' = [pc EXCEPT ![t] = where]
Return(t, code) == GoTo(t, "idle") /\ status' = [status EXCEPT ![t] = code]

WritePhase(kind) == kind \in {"write", "write_then_read"}
ReadPhase(kind) == kind \in {"read", "write_then_read"}

(* Operations on the decorated bus. *)
Begin(t) ==
  /\ pc[t] = "idle"
  /\ Len(log) + Cardinality({u \in Threads : pc[u] \in {"load", "store", "decide"}})
       < MaxOps
  /\ \E o \in Operations : op' = [op EXCEPT ![t] = o]
  /\ reply' = [reply EXCEPT ![t] = NoReply]
  /\ GoTo(t, "load")
  /\ UNCHANGED <<opened, loaded, counters, attempts, elapsed, status, stats,
                 snapshot, log, wire>>

(* pre_op: ++op_count_ and its siblings, each a load and a store. *)
LoadCounters(t) ==
  /\ pc[t] = "load" /\ GoTo(t, "store")
  /\ loaded' = [loaded EXCEPT ![t] = counters]
  /\ UNCHANGED <<opened, op, counters, attempts, elapsed, status, reply,
                 stats, snapshot, log, wire>>

IncrementPerPhase(t, c, due) ==  \* a slip: write_then_read counts as two
  IF due THEN {counters[c] + IF c = "op" /\ op[t].kind = "write_then_read" THEN 2 ELSE 1}
  ELSE {counters[c]}
Increment(t, c, due) ==
  IF due THEN {loaded[t][c] + 1, counters[c] + 1} ELSE {counters[c]}

StoreCounters(t) ==
  /\ pc[t] = "store" /\ GoTo(t, "decide")
  /\ \E n \in Increment(t, "op", TRUE),
        w \in Increment(t, "write", WritePhase(op[t].kind)),
        r \in Increment(t, "read", ReadPhase(op[t].kind)) :
       counters' = [op |-> n, write |-> w, read |-> r]
  /\ loaded' = [loaded EXCEPT ![t] = Zero]
  /\ UNCHANGED <<opened, op, attempts, elapsed, status, reply,
                 stats, snapshot, log, wire>>

Every(n, count) == n > 0 /\ count % n = 0

(* The drop window: the sum is taken in 32 bits. *)
DropWindowOpen(c) == spec.drop_for > 0 /\ c.op >= spec.drop_after  \* a slip
InDropWindow(c) ==
  /\ spec.drop_for > 0
  /\ c.op > spec.drop_after
  /\ c.op <= (spec.drop_after + spec.drop_for) % U32

Fault(c, kind) ==
  CASE InDropWindow(c) -> "BusError"
    [] ~InDropWindow(c) /\ Every(spec.timeout_every, c.op) -> "Timeout"
    [] OTHER ->
         CASE WritePhase(kind) /\ Every(spec.nak_every, c.write) -> "WriteFailed"
           [] ~(WritePhase(kind) /\ Every(spec.nak_every, c.write))
              /\ ReadPhase(kind) /\ Every(spec.read_fail_every, c.read) -> "ReadFailed"
           [] OTHER -> "Ok"

(* The rest of pre_op: an injected fault is recorded and returned at once. *)
Decide(t) ==
  LET a == op[t].address
      fault == Fault(counters, op[t].kind) IN
  /\ pc[t] = "decide"
  /\ log' = Append(log, [kind |-> op[t].kind, address |-> a,
                         latency |-> spec.latency_us, fault |-> fault])
  /\ IF fault # "Ok"
     THEN Return(t, fault) /\ fault_stats' = [fault_stats EXCEPT ![a] = record(@, FALSE, 1)]
     ELSE GoTo(t, "enter") /\ UNCHANGED <<status, fault_stats>>
  /\ UNCHANGED <<opened, op, loaded, counters, attempts, elapsed, reply,
                 io_stats, snapshot, wire>>

-----------------------------------------------------------------------------
(* LinuxI2cBus.  An open that the kernel refuses, or that finds the bus open, *)
(* changes nothing, and so does a close that finds it closed.                 *)
Open ==
  /\ ~opened /\ \A t \in Threads : pc[t] = "idle"
  /\ opened' = TRUE
  /\ UNCHANGED <<op, pc, loaded, counters, attempts, elapsed, status, reply,
                 stats, snapshot, log, wire>>

Close ==
  /\ opened /\ \A t \in Threads : pc[t] = "idle"
  /\ opened' = FALSE
  /\ UNCHANGED <<op, pc, loaded, counters, attempts, elapsed, status, reply,
                 stats, snapshot, log, wire>>

Enter(t) ==
  LET o == op[t]
      empty == CASE o.kind = "write" -> o.tx = 0
                 [] o.kind = "read" -> o.rx = 0
                 [] OTHER -> o.tx = 0 /\ o.rx = 0 IN
  /\ pc[t] = "enter"
  /\ CASE ~opened -> Return(t, "NotOpen")
       [] opened /\ empty -> Return(t, "InvalidArgument")
       [] OTHER -> GoTo(t, "attempt") /\ UNCHANGED status
  /\ UNCHANGED <<opened, op, loaded, counters, attempts, elapsed, reply,
                 stats, snapshot, log, wire>>

retry_count_ == Max({retry_count, 0})   \* the constructor's clamp
max_attempts == Max({retry_count_ + 1, 1})

(* Whether an operation tries again after an attempt that failed `now` polls *)
(* into it: a read until its deadline, the others within the retry budget.   *)
RetriesTransientForever(t, errno, now) ==  \* a slip
  IF op[t].kind = "read" THEN now < Timeout ELSE errno = "transient"
TriesAgain(t, errno, now) ==
  IF op[t].kind = "read" THEN now < Timeout
  ELSE errno = "transient" /\ attempts[t] + 1 < max_attempts

(* One I2C_RDWR, which may take time, and a read's sleep before the next. *)
Attempt(t) ==
  LET o == op[t]
      a == o.address IN
  /\ pc[t] = "attempt"
  /\ attempts' = [attempts EXCEPT ![t] = @ + 1]
  /\ \E ioctl \in {"ok", "transient", "hard"},
        now \in IF o.kind = "read" THEN {elapsed[t], elapsed[t] + 1} ELSE {0} :
       /\ wire' = [wire EXCEPT ![a] =
            [ops |-> @.ops + IF attempts[t] = 0 THEN 1 ELSE 0,
             calls |-> @.calls + 1,
             ok |-> @.ok + IF ioctl = "ok" THEN 1 ELSE 0]]
       /\ CASE ioctl = "ok" -> GoTo(t, "succeeded") /\ UNCHANGED elapsed
            [] ioctl # "ok" /\ TriesAgain(t, ioctl, now) ->
                 elapsed' = [elapsed EXCEPT ![t] = now + 1] /\ UNCHANGED pc
            [] OTHER -> GoTo(t, "failed") /\ UNCHANGED elapsed
  /\ UNCHANGED <<opened, op, loaded, counters, status, reply, stats, snapshot, log>>

Failure(kind) ==
  CASE kind = "write" -> "WriteFailed" [] kind = "read" -> "Timeout"
    [] OTHER -> "BusError"

(* The operation is recorded, once, with the attempts it took. *)
Record(t) ==
  LET o == op[t]
      ok == pc[t] = "succeeded" IN
  /\ pc[t] \in {"succeeded", "failed"}
  /\ io_stats' = [io_stats EXCEPT ![o.address] = record(@, ok, attempts[t])]
  /\ reply' = [reply EXCEPT ![t].len = IF ok /\ ReadPhase(o.kind) THEN o.rx ELSE @]
  /\ CASE ~ok -> Return(t, Failure(o.kind))
       [] ok /\ ReadPhase(o.kind) -> GoTo(t, "mutate") /\ UNCHANGED status
       [] OTHER -> Return(t, "Ok")
  /\ attempts' = [attempts EXCEPT ![t] = 0]
  /\ elapsed' = [elapsed EXCEPT ![t] = 0]
  /\ UNCHANGED <<opened, op, loaded, counters, fault_stats, snapshot, log,
                 wire>>

(* mutate_read: a flipped byte, a short read, then padding up to the end of *)
(* the caller's buffer.  Callers ask how much was received (rx_received is  *)
(* not null): of one that does not, the reply would be left as it is.       *)
PaddedBlindly(n, room, c) ==  \* a slip: the room that is left is not looked at
  LET base == n - IF Every(spec.short_every, c.read) THEN 1 ELSE 0
  IN  [len |-> base + spec.pad, flipped |-> Every(spec.corrupt_every, c.read),
       pads |-> spec.pad, pad_byte |-> IF spec.pad = 0 THEN None ELSE spec.pad_byte]
Mutated(n, room, c) ==
  LET base == n - IF Every(spec.short_every, c.read) THEN 1 ELSE 0
      add == Min({spec.pad, room - base})
  IN  [len |-> base + add, flipped |-> Every(spec.corrupt_every, c.read),
       pads |-> add, pad_byte |-> IF add = 0 THEN None ELSE spec.pad_byte]

mutate_read(t) ==
  /\ pc[t] = "mutate" /\ Return(t, "Ok")
  /\ reply' = [reply EXCEPT ![t] =
       IF @.len = 0 THEN @ ELSE Mutated(@.len, op[t].rx, counters)]
  /\ UNCHANGED <<opened, op, loaded, counters, attempts, elapsed, stats,
                 snapshot, log, wire>>

-----------------------------------------------------------------------------
(* io_stats_for: the inner bus's counters, then the injected ones.  before  *)
(* and after are what an observer of both maps sees at either end.          *)
Combined(a) == Add(io_stats[a], fault_stats[a])

SnapshotInner ==
  /\ snapshot.done
  /\ \E a \in Addresses :
       snapshot' = [snapshot EXCEPT !.address = a, !.done = FALSE,
                                    !.value = io_stats[a], !.before = Combined(a)]
  /\ UNCHANGED <<opened, op, pc, loaded, counters, attempts, elapsed, status,
                 reply, stats, log, wire>>

InjectedForgotten ==  \* a slip
  /\ ~snapshot.done
  /\ snapshot' = [snapshot EXCEPT !.done = TRUE, !.after = Combined(snapshot.address)]
  /\ UNCHANGED <<opened, op, pc, loaded, counters, attempts, elapsed, status,
                 reply, stats, log, wire>>

SnapshotInjected ==
  /\ ~snapshot.done
  /\ snapshot' = [snapshot EXCEPT !.done = TRUE,
                    !.value = Add(@, fault_stats[snapshot.address]),
                    !.after = Combined(snapshot.address)]
  /\ UNCHANGED <<opened, op, pc, loaded, counters, attempts, elapsed, status,
                 reply, stats, log, wire>>

Step(t) ==
  \/ LoadCounters(t) \/ StoreCounters(t) \/ Decide(t)
  \/ Enter(t) \/ Attempt(t) \/ Record(t) \/ mutate_read(t)

Next ==
  /\ \/ \E t \in Threads : Begin(t) \/ Step(t)
     \/ Open \/ Close \/ SnapshotInner \/ SnapshotInjected
  /\ UNCHANGED <<bus, spec>>

Spec == Init /\ [][Next]_vars

-----------------------------------------------------------------------------
(* Properties *)

(* Operations that have reached the wire and are not yet recorded. *)
InFlight(a) ==
  {t \in Threads : /\ pc[t] \in {"attempt", "succeeded", "failed"}
                   /\ attempts[t] > 0 /\ op[t].address = a}

(* docs/metrics.md: the counters account for every operation that reached   *)
(* the transport and for every attempt beyond its first, "so intermittent   *)
(* trouble that retries absorb stays visible", whatever the threads' order. *)
CountersMatchTheWire ==
  \A a \in Addresses :
    LET s == io_stats[a]
        unrecorded == SumFunctionOnSet([t \in Threads |-> attempts[t] - 1], InFlight(a)) IN
    /\ s.ok + s.failed + Cardinality(InFlight(a)) = wire[a].ops
    /\ s.retried_attempts + unrecorded = wire[a].calls - wire[a].ops
    /\ s.ok + Cardinality({t \in InFlight(a) : pc[t] = "succeeded"}) = wire[a].ok

(* A health snapshot reads two maps under two locks while operations go on; *)
(* each of its numbers still lies between the totals at its two ends.       *)
SnapshotIsPlausible ==
  snapshot.done =>
    \A f \in DOMAIN NoStats :
      snapshot.before[f] <= snapshot.value[f] /\ snapshot.value[f] <= snapshot.after[f]

(* An operation is never tried more often than its budget: retry_count      *)
(* beyond the first, or once per poll of a read's timeout and once more.    *)
RetryBudgetKept ==
  \A t \in Threads :
    pc[t] \in {"attempt", "succeeded", "failed"} =>
      attempts[t] <= 1 + IF op[t].kind = "read" THEN Timeout ELSE retry_count_

(* A well-formed value: a number of 32 bits.  No minus sign may begin it,    *)
(* and after a blank one makes any number but 0 malformed.                   *)
WellFormed(v) ==
  /\ ~v.tail /\ v.number \in 0..(U32 - 1)
  /\ v.lead \in {"plain", "blank"} \/ (v.lead = "blank_minus" /\ v.number = 0)

(* What the query says of a field: the number of the last well-formed pair   *)
(* that names it, or the default.  " -31" is malformed, and strtoul takes it *)
(* for a number: such a query is left out.                                   *)
Said(f) ==
  LET ks == {k \in DOMAIN bus.query :
               bus.query[k].key = f /\ WellFormed(bus.query[k].value)}
  IN  CASE ks = {} -> NoFaults[f]
        [] ks # {} /\ f = "pad_byte" -> bus.query[Max(ks)].value.number % U8
        [] OTHER -> bus.query[Max(ks)].value.number
Misread ==
  \E k \in DOMAIN bus.query :
    LET v == bus.query[k].value IN v.lead = "blank_minus" /\ Parses(v) /\ Strtoul(v) # 0

Writes(k) == Cardinality({j \in 1..k : WritePhase(log[j].kind)})
Reads(k) == Cardinality({j \in 1..k : ReadPhase(log[j].kind)})

(* What a query that says s promises of the k-th operation. *)
Dropped(s, k) == s.drop_for > 0 /\ k \in (s.drop_after + 1)..(s.drop_after + s.drop_for)

PromisedFault(s, k) ==
  LET nak == WritePhase(log[k].kind) /\ Every(s.nak_every, Writes(k))
      fail == ReadPhase(log[k].kind) /\ Every(s.read_fail_every, Reads(k)) IN
  CASE Dropped(s, k) -> "BusError"
    [] ~Dropped(s, k) /\ Every(s.timeout_every, k) -> "Timeout"
    [] OTHER -> CASE nak -> "WriteFailed"
                  [] ~nak /\ fail -> "ReadFailed"
                  [] OTHER -> "Ok"

(* Of the reply to a whole read of rx bytes, too. *)
PromisedReply(s, k, rx) ==
  LET whole == rx - IF Every(s.short_every, Reads(k)) THEN 1 ELSE 0
      len == Min({rx, whole + s.pad})
  IN  [len |-> len, flipped |-> Every(s.corrupt_every, Reads(k)),
       pads |-> len - whole, pad_byte |-> IF len = whole THEN None ELSE s.pad_byte]

(* fault_injecting_i2c_bus.hpp: faults are "count-based and deterministic",  *)
(* "parsed from mock:// query params", where "unknown keys are ignored" and  *)
(* "malformed values leave that field at its default": with one thread, and  *)
(* a drop window that ends within 32 bits, the k-th operation fails, waits   *)
(* and returns bytes as the text of the query says of k and of the write and *)
(* read phases up to it, whatever became of the operations before it; a      *)
(* reply never overruns its buffer.                                         *)
FaultsOnSchedule ==
  LET said == [f \in Fields |-> Said(f)] IN
  Cardinality(Threads) = 1 /\ ~Misread /\ said.drop_after + said.drop_for < U32 =>
    /\ \A k \in DOMAIN log : /\ log[k].fault = PromisedFault(said, k)
                            /\ log[k].latency = said.latency_us
    /\ \A t \in Threads :
         pc[t] = "idle" /\ op[t] # None /\ status[t] = "Ok" =>
           reply[t] = IF ReadPhase(op[t].kind) /\ op[t].rx > 0
                      THEN PromisedReply(said, Len(log), op[t].rx) ELSE NoReply

(* fault_injecting_i2c_bus.hpp: "drop_after=N drop_for=M  after N ops, the   *)
(* next M ops fail BusError".                                                *)
NextOpsDrop == \A k \in DOMAIN log : Dropped(spec, k) => log[k].fault = "BusError"
=============================================================================
