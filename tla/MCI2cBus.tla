------------------------------ MODULE MCI2cBus ------------------------------
(***************************************************************************)
(* A bus whose counters two threads race on, one with every failure mode   *)
(* under one thread, one whose drop window is to last, and one operation on *)
(* each of many buses whose queries name a field once or twice, with values *)
(* well formed and not.                                                    *)
(***************************************************************************)
EXTENDS I2cBus, TLC
CONSTANTS t1, t2

ThreadSymmetry == Permutations({t1, t2})

Text(lead, number, tail) == [lead |-> lead, number |-> number, tail |-> tail]
Set(key, number) == [key |-> key, value |-> Text("plain", number, FALSE)]

EverySecond == <<Set("nak_every", 2), Set("read_fail_every", 2)>>
EveryFault ==
  <<Set("pad", 2), Set("pad_byte", U8 + 1), Set("short_every", 2),
    Set("corrupt_every", 2), Set("nak_every", 2), Set("read_fail_every", 2),
    Set("timeout_every", 3), Set("drop_after", 1), Set("drop_for", 1),
    Set("latency_us", 1), Set("speed", 1)>>
DropForGood == <<Set("drop_after", 1), Set("drop_for", U32 - 1)>>

Values ==
  {Text("plain", n, FALSE) : n \in {0, 1, U32 - 1, U32, ULong + 1, None}} \cup
  {Text(lead, 1, FALSE) : lead \in {"blank", "minus", "blank_minus"}} \cup
  {Text("blank_minus", n, FALSE) : n \in {0, ULong - 1}} \cup {Text("plain", 1, TRUE)}
Short == <<Set("short_every", 1), Set("pad", 1)>>
Queries ==
  UNION {{Short \o <<[key |-> f, value |-> v]>> : v \in Values} \cup
         {Short \o <<Set(f, 1), [key |-> f, value |-> v]>> : v \in Values} : f \in Fields}

Bus(threads, query, lengths, max_ops) ==
  [threads |-> threads, query |-> query, lengths |-> lengths, max_ops |-> max_ops]
MCBuses ==
  {Bus({t1, t2}, EverySecond, {1}, 3)} \cup {Bus({t}, EveryFault, {0, 2}, 4) : t \in {t1, t2}}
    \cup {Bus({t}, q, {1}, 1) : t \in {t1, t2}, q \in Queries}
LastingDrop == {Bus({t1}, DropForGood, {1}, 2)}
=============================================================================
