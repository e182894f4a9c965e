-------------------------- MODULE ReferenceProvider --------------------------
(***************************************************************************)
(* The simulated heaters of the reference provider (reference_provider.cpp) *)
(* and what its ProviderRuntime does with them.  A heater integrates the    *)
(* energy it draws lazily: only a read, a call or stop() moves its model to *)
(* now, so every change of its power has to come after such a move.         *)
(*                                                                         *)
(* Power is counted in levels of 0..Full, which stand for 0.0 to 1.0, and   *)
(* energy in what one level draws in one tick.  The temperature is a       *)
(* closed formula of the same two numbers and is left out.                 *)
(***************************************************************************)
EXTENDS CallValidation

CONSTANTS
  Heaters,  \* the configured heaters
  Full,     \* the level that stands for power 1.0
  MaxTime   \* bound: the clock's last tick

ASSUME HeatersAssumption == Full \in Nat \ {0} /\ MaxTime \in Nat

VARIABLES
  now,     \* the clock
  power,   \* Heater::power_
  energy,  \* Heater::energy_
  at,      \* Heater::at_
  drawn,   \* history: the energy a heater has drawn in fact
  taken_out \* history: the energy that reset_energy has taken out of the count

heaterVars == <<now, power, energy, at, drawn, taken_out>>

Levels == 0..Full

HeaterTypeOK ==
  /\ now \in Nat
  /\ power \in [Heaters -> Levels]
  /\ energy \in [Heaters -> Nat] /\ at \in [Heaters -> Nat]
  /\ drawn \in [Heaters -> Nat] /\ taken_out \in [Heaters -> Nat]

HeaterInit ==
  /\ now = 0
  /\ power = [h \in Heaters |-> 0] /\ energy = [h \in Heaters |-> 0]
  /\ at = [h \in Heaters |-> 0]
  /\ drawn = [h \in Heaters |-> 0] /\ taken_out = [h \in Heaters |-> 0]

Tick ==
  /\ now < MaxTime /\ now' = now + 1
  /\ drawn' = [h \in Heaters |-> drawn[h] + power[h]]
  /\ UNCHANGED <<power, energy, at, taken_out>>

-----------------------------------------------------------------------------
(* Heater::advance moves the energy count to this moment; every read and *)
(* call does it first.                                                   *)
Advanced(h) == energy[h] + power[h] * (now - at[h])

(* A slip: the power is set without moving the model to now first. *)
SetPowerUnadvanced(h, level) ==
  /\ power' = [power EXCEPT ![h] = level]
  /\ UNCHANGED <<now, energy, at, drawn, taken_out>>

advance(h) ==
  /\ energy' = [energy EXCEPT ![h] = Advanced(h)]
  /\ at' = [at EXCEPT ![h] = now]
  /\ UNCHANGED <<now, power, drawn, taken_out>>

SetPower(h, level) ==
  /\ power' = [power EXCEPT ![h] = level]
  /\ energy' = [energy EXCEPT ![h] = Advanced(h)]
  /\ at' = [at EXCEPT ![h] = now]
  /\ UNCHANGED <<now, drawn, taken_out>>

ResetEnergy(h) ==
  /\ taken_out' = [taken_out EXCEPT ![h] = @ + Advanced(h)]
  /\ energy' = [energy EXCEPT ![h] = 0]
  /\ at' = [at EXCEPT ![h] = now]
  /\ UNCHANGED <<now, power, drawn>>

(* ReferenceRuntime::stop, the provider's on_shutdown. *)
Stop ==
  /\ power' = [h \in Heaters |-> 0]
  /\ energy' = [h \in Heaters |-> Advanced(h)] /\ at' = [h \in Heaters |-> now]
  /\ UNCHANGED <<now, drawn, taken_out>>

-----------------------------------------------------------------------------
(* heater_capabilities *)
Signals == {"temperature", "power", "energy"}

DeclaredArgs(function) ==
  IF function = "set_power"
  THEN <<[name |-> "power", type |-> "double", required |-> TRUE,
          lo |-> 0, hi |-> Full, allowed |-> {}]>>
  ELSE <<>>
DeclaredFunctions == {"set_power", "reset_energy"}

(* ReferenceRuntime::call, and what it hands back: its error or OK, and the *)
(* results, of which reset_energy alone has one.                            *)
call(h, function, args) ==
  CASE function = "set_power" -> SetPower(h, get_arg("double", args, "power", 0))
    [] function = "reset_energy" -> ResetEnergy(h)
    [] OTHER -> advance(h)
CallCode(function) == IF function \in DeclaredFunctions THEN "OK" ELSE "NOT_FOUND"
StaleResult(h, function) == IF function = "reset_energy" THEN energy[h] ELSE 0 \* a slip
CallResult(h, function) == IF function = "reset_energy" THEN Advanced(h) ELSE 0

-----------------------------------------------------------------------------
(* No energy is lost or counted twice, however seldom the model is moved: *)
(* the count, what has accrued since, and what reset_energy has taken out *)
(* are together what the heater has drawn.                                *)
EnergyIsConserved ==
  \A h \in Heaters : Advanced(h) + taken_out[h] = drawn[h]
=============================================================================
