-------------------------------- MODULE Timer --------------------------------
(***************************************************************************)
(* The driver of the ARM side timer, src/src/drivers/timer.c, and the      *)
(* timer as far as the driver uses it.  A register is the set of its bits  *)
(* that are 1, or a number where the driver computes one.                  *)
(***************************************************************************)
EXTENDS Integers

CONSTANTS UintMod,     \* 2^32: a uint counts modulo this
          TicksPerMs   \* the 4000 of timer_setTimer

ASSUME TimerAssumption == UintMod \in Nat \ {0} /\ TicksPerMs \in Nat \ {0}

VARIABLES
  control,   \* TIMER->control
  preDiv,    \* TIMER->preDiv
  load,      \* TIMER->load: what the timer counts down from
  rawIrq     \* TIMER->rawIrq: it has reached 0 and was not cleared since

timerVars == <<control, preDiv, load, rawIrq>>

(* The bits of `x << n'; 0x3e has bits 1 to 5.                             *)
Shift(x, n) == {bit + n : bit \in x}
Bits0x3e == 1 .. 5

(* The fields of the control register.                                     *)
IE == 5
ENABLE == 7
DefaultFREEDIV == Shift(Bits0x3e, 16)
DefaultPREDIV == 125

TimerInit ==
  /\ control = DefaultFREEDIV
  /\ preDiv = DefaultPREDIV
  /\ load = 0
  /\ rawIrq = FALSE

(* The value timer_init() puts together, in the order of its statements.   *)
Control ==
  UNION {{1}, Shift({1}, 2), Shift({0}, 5), Shift({0}, 7), Shift({0}, 9), Bits0x3e}

WriteControl ==
  /\ control' = Control
  /\ UNCHANGED <<preDiv, load, rawIrq>>

WritePreDiv ==
  /\ preDiv' = 125
  /\ UNCHANGED <<control, load, rawIrq>>

(* The line to the interrupt controller.                                   *)
TimerLine == rawIrq /\ IE \in control

(* The timer reaches 0.                                                    *)
Expire ==
  /\ ENABLE \in control
  /\ ~rawIrq
  /\ rawIrq' = TRUE
  /\ UNCHANGED <<control, preDiv, load>>

(* Mutant: what is written does not clear the interrupt.                   *)
ClearNothing == UNCHANGED timerVars

timer_clearIrq ==
  /\ rawIrq' = FALSE
  /\ UNCHANGED <<control, preDiv, load>>

(* The first store of timer_setTimer(value), of which the second is        *)
(* timer_clearIrq.                                                         *)
WriteLoad(value) ==
  /\ load' = (value * TicksPerMs) % UintMod
  /\ UNCHANGED <<control, preDiv, rawIrq>>

TimerTypeOK ==
  /\ control \subseteq 0 .. 31
  /\ preDiv \in Nat /\ load \in 0 .. UintMod - 1
  /\ rawIrq \in BOOLEAN
=============================================================================
