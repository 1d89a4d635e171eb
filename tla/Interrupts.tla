----------------------------- MODULE Interrupts -----------------------------
(***************************************************************************)
(* The interrupt controller driver, src/src/interrupts.c, and the GIC-400  *)
(* as far as the driver uses it.  This module holds the state and the      *)
(* operations; Kernel says when they happen.                               *)
(*                                                                         *)
(* The driver never writes interruptConfig, so every interrupt is level    *)
(* sensitive: it is pending for as long as the GIC sees its line asserted, *)
(* and writing to interruptClearPending or to irq0_pending2 changes        *)
(* nothing.  Deactivating an interrupt after ending it has no effect, as   *)
(* the control register leaves the two combined.                           *)
(***************************************************************************)
EXTENDS Integers

CONSTANTS
  ArmcId,    \* the ARMC interrupts the machine has
  Handler,   \* the functions that can be installed
  NoHandler, \* NULL in interruptHandlers[]
  Junk       \* anything else that RAM may hold before it is cleared

ASSUME InterruptsAssumption ==
  /\ ArmcId \subseteq 0 .. 31
  /\ NoHandler \notin Handler /\ Junk \notin Handler /\ NoHandler # Junk

VARIABLES
  gicOn,              \* the parts of the GIC that let interrupts through
  enabled,            \* interruptEnable: the ids that are forwarded
  targeted,           \* interruptTargetProcessor: the ids that go to cpu0
  armcEnabled,        \* the ARMC interrupts that reach the GIC
  seen,               \* the ids whose line the GIC sees asserted
  active,             \* the ids acknowledged and not ended
  interruptHandlers,
  masked,             \* PSTATE.I
  irqPc,              \* where irq_handler is, or "none"
  interruptId         \* its local variable

gicVars == <<gicOn, enabled, targeted, armcEnabled, seen, active>>
handlerVars == <<irqPc, interruptId>>
interruptsVars == <<gicVars, interruptHandlers, masked, handlerVars>>

Id == {armcId + 64 : armcId \in ArmcId}
Spurious == 1023          \* what the GIC answers when nothing is pending

(* The three stores of interrupts_init(): the priority mask, the           *)
(* distributor and the CPU interface.                                      *)
GicPart == {"priorityMask", "distributor", "cpuInterface"}

(* The firmware may have turned the GIC on, but enables no interrupt.      *)
InterruptsInit ==
  /\ gicOn \in {{}, GicPart}
  /\ enabled = {} /\ targeted = {} /\ armcEnabled = {}
  /\ seen = {} /\ active = {}
  /\ irqPc = "none" /\ interruptId = Spurious

TurnOn(part) ==
  /\ gicOn' = gicOn \cup {part}
  /\ UNCHANGED <<enabled, targeted, armcEnabled, seen, active,
                 interruptHandlers, masked, handlerVars>>

interrupts_enable ==
  /\ masked' = FALSE
  /\ UNCHANGED <<gicVars, interruptHandlers, handlerVars>>

(* Mutant: the ARMC id is taken for the id of the GIC.                     *)
EnableArmcIdInGic(armcId) ==
  /\ enabled' = enabled \cup {armcId}
  /\ UNCHANGED <<gicOn, targeted, armcEnabled, seen, active,
                 interruptHandlers, masked, handlerVars>>

(* The three stores of interrupts_enableARMCInterrupt(armcId).             *)
EnableInGic(armcId) ==
  /\ enabled' = enabled \cup {armcId + 64}
  /\ UNCHANGED <<gicOn, targeted, armcEnabled, seen, active,
                 interruptHandlers, masked, handlerVars>>

TargetCpu0(armcId) ==
  /\ targeted' = targeted \cup {armcId + 64}
  /\ UNCHANGED <<gicOn, enabled, armcEnabled, seen, active,
                 interruptHandlers, masked, handlerVars>>

EnableInArmc(armcId) ==
  /\ armcEnabled' = armcEnabled \cup {armcId}
  /\ UNCHANGED <<gicOn, enabled, targeted, seen, active,
                 interruptHandlers, masked, handlerVars>>

HandlerPresent(armcId) == interruptHandlers[armcId + 64] # NoHandler

interrupts_addARMCInterruptHandler(armcId, handler) ==
  /\ ~HandlerPresent(armcId)
  /\ interruptHandlers' = [interruptHandlers EXCEPT ![armcId + 64] = handler]
  /\ UNCHANGED <<gicVars, masked, handlerVars>>

-----------------------------------------------------------------------------
(* The GIC.                                                                *)

(* What could be acknowledged.  All interrupts have one priority, so an    *)
(* active one holds back every other.                                      *)
Pending == IF gicOn = GicPart THEN seen \cap enabled \cap targeted ELSE {}

Signalled == Pending # {} /\ active = {}

(* The GIC notices, some time after it happened, that lines changed.       *)
Sample(lines) ==
  /\ seen # {armcId + 64 : armcId \in lines \cap armcEnabled}
  /\ seen' = {armcId + 64 : armcId \in lines \cap armcEnabled}
  /\ UNCHANGED <<gicOn, enabled, targeted, armcEnabled, active,
                 interruptHandlers, masked, handlerVars>>

-----------------------------------------------------------------------------
(* An IRQ: the CPU masks IRQs and branches to irq_handler, which saves     *)
(* registers (see IrqEntry), calls interrupts_handleIRQ(), restores them   *)
(* and returns.                                                            *)

TakeIrq ==
  /\ irqPc = "none" /\ ~masked /\ Signalled
  /\ masked' = TRUE
  /\ irqPc' = "save"
  /\ UNCHANGED <<gicVars, interruptHandlers, interruptId>>

Saving == irqPc = "save" /\ UNCHANGED interruptsVars

(* The line may have been deasserted in the meantime: a spurious id.       *)
Acknowledge ==
  /\ irqPc = "acknowledge"
  /\ IF Signalled
       THEN \E id \in Pending : interruptId' = id /\ active' = active \cup {id}
       ELSE interruptId' = Spurious /\ UNCHANGED active
  /\ irqPc' = "dispatch"
  /\ UNCHANGED <<gicOn, enabled, targeted, armcEnabled, seen,
                 interruptHandlers, masked>>

(* interruptHandlers[id] for the id acknowledged.                          *)
Dispatched == interruptHandlers[interruptId]

Dispatch ==
  /\ irqPc = "dispatch" /\ interruptId \in Id /\ Dispatched # NoHandler
  /\ irqPc' = "handler"
  /\ UNCHANGED <<gicVars, interruptHandlers, masked, interruptId>>

Goto(label, next) ==
  /\ irqPc = label
  /\ irqPc' = next
  /\ UNCHANGED <<gicOn, enabled, targeted, armcEnabled, seen,
                 interruptHandlers, masked, interruptId>>

CallHandleIRQ == Goto("save", "acknowledge") /\ UNCHANGED active

(* The handler runs, and returns; then the stores to interruptClearPending,*)
(* endOfInterrupt, deactivateInterrupt and irq0_pending2, of which only    *)
(* the second changes anything.                                            *)
InHandler == irqPc = "handler" /\ UNCHANGED interruptsVars

Handled == Goto("handler", "clearPending") /\ UNCHANGED active

ClearPending == Goto("clearPending", "end") /\ UNCHANGED active

(* Mutant: the GIC is not told of the end.                                 *)
EndNotWritten == Goto("end", "deactivate") /\ UNCHANGED active

EndOfInterrupt ==
  /\ Goto("end", "deactivate")
  /\ active' = active \ {interruptId}

Deactivate == Goto("deactivate", "restore") /\ UNCHANGED active

Restoring == irqPc = "restore" /\ UNCHANGED interruptsVars

(* eret restores the PSTATE of the interrupted code: it was unmasked.      *)
ExceptionReturn ==
  /\ irqPc = "restore"
  /\ masked' = FALSE
  /\ irqPc' = "none"
  /\ interruptId' = Spurious
  /\ UNCHANGED <<gicVars, interruptHandlers>>

-----------------------------------------------------------------------------

InterruptsTypeOK ==
  /\ gicOn \subseteq GicPart /\ masked \in BOOLEAN
  /\ enabled \subseteq Id /\ targeted \subseteq Id /\ armcEnabled \subseteq ArmcId
  /\ seen \subseteq Id /\ active \subseteq Id
  /\ interruptHandlers \in [Id -> Handler \cup {NoHandler, Junk}]
  /\ irqPc \in {"none", "save", "acknowledge", "dispatch", "handler", "clearPending",
                "end", "deactivate", "restore"}
  /\ interruptId \in Id \cup {Spurious}
=============================================================================
