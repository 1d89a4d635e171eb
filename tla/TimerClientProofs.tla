-------------------------- MODULE TimerClientProofs --------------------------
(***************************************************************************)
(* Theorems about TimerClient, for every count and whatever values are     *)
(* passed to timer_setTimer(): an interrupt of an old count can only be    *)
(* there between its two stores.                                           *)
(***************************************************************************)
EXTENDS TimerClient, TLAPS

(* An old interrupt was turned stale by the first store; the second, or    *)
(* the handler, clears it.                                                 *)
StaleInBetween == stale => pc = "clear"

IInv == TypeOK /\ StaleInBetween

(* What timer_init() writes to the control register has 32 bits.           *)
LEMMA ControlBits == Control \subseteq 0 .. 31
<1> SUFFICES ASSUME NEW bit \in Control PROVE bit \in 0 .. 31
  OBVIOUS
<1>1. \/ bit \in {1} \/ bit \in Shift({1}, 2) \/ bit \in Shift({0}, 5)
      \/ bit \in Shift({0}, 7) \/ bit \in Shift({0}, 9) \/ bit \in 1 .. 5
  BY Zenon DEF Control, Bits0x3e
<1> QED
  BY <1>1 DEF Shift

LEMMA InitIInv == Init => IInv
<1> SUFFICES ASSUME Init PROVE IInv
  OBVIOUS
<1>1. 0 \in 0 .. UintMod - 1
  BY TimerAssumption
<1> QED
  BY <1>1, ControlBits
     DEF Init, IInv, TypeOK, TimerTypeOK, StaleInBetween, DefaultPREDIV

(* The load register stays a uint, wherever the product wraps around.      *)
LEMMA SetTimerKeepsIInv == IInv /\ timer_setTimer => IInv'
<1> SUFFICES ASSUME IInv, timer_setTimer PROVE IInv'
  OBVIOUS
<1> USE DEF IInv, TypeOK, TimerTypeOK, StaleInBetween
<1>1. CASE pc = "load" /\ FirstStore /\ pc' = "clear" /\ UNCHANGED value
  <2>1. value * TicksPerMs \in Nat
    BY TimerAssumption, MsAssumption
  <2>2. (value * TicksPerMs) % UintMod \in 0 .. UintMod - 1
    BY <2>1, TimerAssumption
  <2>3. load' \in 0 .. UintMod - 1
    BY <1>1, <2>2 DEF FirstStore, WriteLoad
  <2> QED
    BY <1>1, <2>3 DEF FirstStore, WriteLoad
<1>2. CASE pc = "clear" /\ SecondStore /\ pc' = "idle" /\ value' = 0
  BY <1>2 DEF SecondStore, timer_clearIrq
<1> QED
  BY <1>1, <1>2 DEF timer_setTimer

LEMMA StepKeepsIInv == IInv /\ [Next]_vars => IInv'
<1> SUFFICES ASSUME IInv, [Next]_vars PROVE IInv'
  OBVIOUS
<1> USE DEF IInv, TypeOK, TimerTypeOK, StaleInBetween
<1>1. CASE \E v \in Ms : Call(v)
  BY <1>1 DEF Call, timerVars
<1>2. CASE timer_setTimer
  BY <1>2, SetTimerKeepsIInv
<1>3. CASE interrupts_enable \/ interrupts_disable
  <2>1. masked' \in BOOLEAN
    BY <1>3 DEF interrupts_enable, interrupts_disable
  <2>2. UNCHANGED <<control, preDiv, load, rawIrq, pc, value, stale>>
    BY <1>3 DEF interrupts_enable, interrupts_disable, timerVars
  <2> QED
    BY <2>1, <2>2
<1>4. CASE HandleIrq
  BY <1>4 DEF HandleIrq, timer_clearIrq
<1>5. CASE TimerExpires
  BY <1>5 DEF TimerExpires, Expire
<1>6. CASE UNCHANGED vars
  BY <1>6 DEF vars, timerVars
<1> QED
  BY <1>1, <1>2, <1>3, <1>4, <1>5, <1>6 DEF Next

THEOREM SpecIInv == Spec => []IInv
  BY InitIInv, StepKeepsIInv, PTL DEF Spec

(* timer_setTimer() leaves no interrupt of the count it replaced.          *)
THEOREM TimerClientNoStaleInterrupt == Spec => []NoStaleInterrupt
<1>1. IInv => NoStaleInterrupt
  BY DEF IInv, StaleInBetween, NoStaleInterrupt
<1> QED
  BY <1>1, SpecIInv, PTL
=============================================================================
