----------------------------- MODULE TimerClient -----------------------------
(***************************************************************************)
(* Kernel code that sets the timer through drivers/timer.h once            *)
(* timer_init() is done, the timer itself, and its interrupt handler,      *)
(* which runs at any instruction of that code unless that code has called  *)
(* interrupts_disable().                                                   *)
(***************************************************************************)
EXTENDS Timer

CONSTANT Ms   \* the values passed to timer_setTimer

ASSUME MsAssumption == Ms \subseteq Nat

VARIABLES
  pc,      \* what timer_setTimer() does next, or "idle"
  value,   \* its argument
  masked,  \* the I bit of daif
  stale    \* history: rawIrq stands for a count the code has since replaced

vars == <<timerVars, pc, value, masked, stale>>

Init ==
  /\ control = Control /\ preDiv = DefaultPREDIV
  /\ load = 0 /\ rawIrq = FALSE
  /\ pc = "idle" /\ value = 0 /\ masked = FALSE /\ stale = FALSE

Call(v) ==
  /\ pc = "idle"
  /\ value' = v
  /\ pc' = "load"
  /\ UNCHANGED <<timerVars, masked, stale>>

interrupts_enable ==
  /\ pc = "idle" /\ masked' = FALSE
  /\ UNCHANGED <<timerVars, pc, value, stale>>

interrupts_disable ==
  /\ pc = "idle" /\ masked' = TRUE
  /\ UNCHANGED <<timerVars, pc, value, stale>>

(* The stores of timer_setTimer, in this order.                            *)
FirstStore == WriteLoad(value) /\ stale' = rawIrq /\ UNCHANGED masked
SecondStore == timer_clearIrq /\ stale' = FALSE /\ UNCHANGED masked

(* Mutant: the interrupt is cleared first.                                 *)
ClearThenLoad ==
  \/ pc = "load" /\ SecondStore /\ pc' = "clear" /\ UNCHANGED value
  \/ pc = "clear" /\ FirstStore /\ pc' = "idle" /\ value' = 0

timer_setTimer ==
  \/ pc = "load" /\ FirstStore /\ pc' = "clear" /\ UNCHANGED value
  \/ pc = "clear" /\ SecondStore /\ pc' = "idle" /\ value' = 0

(* timer_handleIRQ(), if there is an interrupt to handle.                  *)
HandleIrq ==
  /\ TimerLine /\ ~masked
  /\ timer_clearIrq
  /\ stale' = FALSE
  /\ UNCHANGED <<pc, value, masked>>

TimerExpires == Expire /\ UNCHANGED <<pc, value, masked, stale>>

Next ==
  \/ \E v \in Ms : Call(v)
  \/ timer_setTimer \/ interrupts_enable \/ interrupts_disable
  \/ HandleIrq \/ TimerExpires

Spec == Init /\ [][Next]_vars

-----------------------------------------------------------------------------

(* The ranges of the variables, for the proofs.                            *)
TypeOK ==
  /\ TimerTypeOK
  /\ pc \in {"idle", "load", "clear"} /\ value \in Ms \cup {0}
  /\ masked \in BOOLEAN /\ stale \in BOOLEAN

(* Once timer_setTimer() has returned, an interrupt means that the time    *)
(* just set is over: one from before is cleared, whenever it occurred.     *)
NoStaleInterrupt == pc = "idle" => ~(rawIrq /\ stale)
=============================================================================
