------------------------------- MODULE Kernel -------------------------------
(***************************************************************************)
(* The kernel's one thread, from boot.s through main() in src/src/main.c   *)
(* to its last call, halt(), interrupted by the IRQ handler at any         *)
(* instruction, next to the timer, the interrupt controller and the UART   *)
(* to which both print.                                                    *)
(*                                                                         *)
(* pageAlloc_init(), vm_init() and kalloc_init() have modules of their     *)
(* own; here is what concerns this state, the MMU bit, the assertions      *)
(* about it and what they print.                                           *)
(***************************************************************************)
EXTENDS Boot, IrqEntry, Timer, Uart, Gpio, Sequences

VARIABLES
  mainPc,       \* the step of main() that comes next
  gpio,         \* the registers of Gpio
  vectorBase,   \* VBAR_EL1
  interrupted,  \* history: an IRQ was taken since main() found room in the UART
  panic         \* "none", or what stopped the kernel

consoleVars == <<uartVars, interrupted>>
deviceVars == <<timerVars, consoleVars, gpio>>
vars == <<interruptsVars, bootVars, entryVars, deviceVars, mainPc, vectorBase, panic>>

TimerArmcId == 0

(* The BCM2711 has the timer's interrupt, and its handler is a function    *)
(* like any other.                                                         *)
ASSUME KernelAssumption ==
  TimerArmcId \in ArmcId /\ "timer_handleIRQ" \in Handler

(* Mutant: main() initializes the timer before it enables interrupts.      *)
TimerFirst == <<
  "uart_disable", "uart_format", "pin14", "pin15", "uart_enable", "print",
  "assertEL1", "exceptions_init", "print",
  "priorityMask", "distributor", "cpuInterface", "print",
  "pageAlloc_init", "print",
  "vm_mapAllocating", "print", "vm_enable", "print", "kalloc_init", "print",
  "control", "preDiv", "enableInGic", "targetCpu0", "enableInArmc", "addHandler", "print",
  "interrupts_enable", "print", "print", "print", "halt">>

(* What main() does, in its order: the stores of uart_init(),              *)
(* interrupts_init() and timer_init(), and the messages in between.        *)
MainOrder == <<
  "uart_disable", "uart_format", "pin14", "pin15", "uart_enable", "print",
  "assertEL1", "exceptions_init", "print",
  "priorityMask", "distributor", "cpuInterface", "print",
  "pageAlloc_init", "print",
  "vm_mapAllocating", "print", "vm_enable", "print", "kalloc_init", "print",
  "interrupts_enable", "print",
  "control", "preDiv", "enableInGic", "targetCpu0", "enableInArmc", "addHandler", "print",
  "print", "print", "halt">>

Reached(label) == \E n \in 1 .. mainPc - 1 : MainOrder[n] = label

Init ==
  /\ InterruptsInit /\ BootInit /\ EntryInit /\ TimerInit /\ UartInit
  /\ \E bits \in {{}, Bit} : gpio = [r \in GpioReg |-> bits]
  /\ mainPc = 1
  /\ vectorBase = "firmware"
  /\ interrupted = FALSE
  /\ panic = "none"

-----------------------------------------------------------------------------
(* boot.s and main().  The interrupted code runs only while the handler    *)
(* does not.                                                               *)

Thread == panic = "none" /\ irqPc = "none"

Boot ==
  /\ Thread
  /\ BootStep
  /\ UNCHANGED <<entryVars, deviceVars, mainPc, vectorBase, panic>>

At(label) ==
  /\ Thread
  /\ bootPc = "main" /\ MainOrder[mainPc] = label
  /\ UNCHANGED <<entryVars, bootPc, el, mmuKept, x1, w2>>

Main(label) == At(label) /\ mainPc' = mainPc + 1 /\ UNCHANGED panic

(* assert(): main() goes on, or _panic() stops it.                         *)
Asserts(condition, reason) ==
  /\ mainPc' = IF condition THEN mainPc + 1 ELSE mainPc
  /\ panic' = IF condition THEN panic ELSE reason

uart_init ==
  /\ \/ Main("uart_disable") /\ uart_init_disable /\ UNCHANGED gpio
     \/ Main("uart_format") /\ uart_init_format /\ UNCHANGED gpio
     \/ Main("pin14") /\ gpio' = gpio_useAsAlt5(gpio, 14) /\ UNCHANGED uartVars
     \/ Main("pin15") /\ gpio' = gpio_useAsAlt5(gpio, 15) /\ UNCHANGED uartVars
     \/ Main("uart_enable") /\ uart_init_enable /\ UNCHANGED gpio
  /\ UNCHANGED <<interruptsVars, timerVars, mmu, interrupted, vectorBase>>

(* print(): one byte is looked for room for, and written.                  *)
PrintByte ==
  /\ At("print")
  /\ \/ FindRoom("main") /\ interrupted' = FALSE
     \/ WriteByte("main") /\ UNCHANGED interrupted
  /\ UNCHANGED <<interruptsVars, timerVars, gpio, mmu, mainPc, vectorBase, panic>>

print ==
  /\ Main("print")
  /\ PrintReturns("main")
  /\ UNCHANGED <<interruptsVars, timerVars, gpio, mmu, interrupted, vectorBase>>

AssertExceptionLevel ==
  /\ At("assertEL1")
  /\ Asserts(el = 1, "exceptionLevel")
  /\ UNCHANGED <<interruptsVars, deviceVars, mmu, vectorBase>>

exceptions_init ==
  /\ Main("exceptions_init")
  /\ vectorBase' = "exceptionVector"
  /\ UNCHANGED <<interruptsVars, deviceVars, mmu>>

interrupts_init ==
  /\ \/ Main("priorityMask") /\ TurnOn("priorityMask")
     \/ Main("distributor") /\ TurnOn("distributor")
     \/ Main("cpuInterface") /\ TurnOn("cpuInterface")
  /\ UNCHANGED <<deviceVars, mmu, vectorBase>>

main_pageAlloc_init ==
  /\ Main("pageAlloc_init")
  /\ UNCHANGED <<interruptsVars, deviceVars, mmu, vectorBase>>

(* vm_init() maps the kernel, reports on the registers and turns the MMU   *)
(* on.                                                                     *)
vm_mapAllocating ==
  /\ At("vm_mapAllocating")
  /\ Asserts(~mmu, "vmEnabled")
  /\ UNCHANGED <<interruptsVars, deviceVars, mmu, vectorBase>>

vm_enable ==
  /\ Main("vm_enable")
  /\ mmu' = TRUE
  /\ UNCHANGED <<interruptsVars, deviceVars, vectorBase>>

kalloc_init ==
  /\ At("kalloc_init")
  /\ Asserts(mmu, "vmNotEnabled")
  /\ UNCHANGED <<interruptsVars, deviceVars, mmu, vectorBase>>

main_interrupts_enable ==
  /\ Main("interrupts_enable")
  /\ interrupts_enable
  /\ UNCHANGED <<deviceVars, mmu, vectorBase>>

(* timer_init(): the two registers of the timer, then                      *)
(* interrupts_enableARMCInterrupt(0), then                                 *)
(* interrupts_addARMCInterruptHandler(0, timer_handleIRQ).                 *)
timer_init_registers ==
  /\ \/ Main("control") /\ WriteControl
     \/ Main("preDiv") /\ WritePreDiv
  /\ UNCHANGED <<interruptsVars, consoleVars, gpio, mmu, vectorBase>>

timer_init_enable ==
  /\ \/ Main("enableInGic") /\ EnableInGic(TimerArmcId)
     \/ Main("targetCpu0") /\ TargetCpu0(TimerArmcId)
     \/ Main("enableInArmc") /\ EnableInArmc(TimerArmcId)
  /\ UNCHANGED <<deviceVars, mmu, vectorBase>>

timer_init_addHandler ==
  /\ At("addHandler")
  /\ Asserts(~HandlerPresent(TimerArmcId), "handlerPresent")
  /\ IF HandlerPresent(TimerArmcId) THEN UNCHANGED interruptsVars
     ELSE interrupts_addARMCInterruptHandler(TimerArmcId, "timer_handleIRQ")
  /\ UNCHANGED <<deviceVars, mmu, vectorBase>>

MainStep ==
  \/ Boot \/ uart_init \/ PrintByte \/ print
  \/ AssertExceptionLevel \/ exceptions_init
  \/ interrupts_init \/ main_pageAlloc_init
  \/ vm_mapAllocating \/ vm_enable \/ kalloc_init
  \/ main_interrupts_enable
  \/ timer_init_registers \/ timer_init_enable \/ timer_init_addHandler

-----------------------------------------------------------------------------
(* irq_handler, and interrupts_handleIRQ() with timer_handleIRQ() as the   *)
(* only handler.                                                           *)

Irq(step) ==
  /\ panic = "none"
  /\ step
  /\ UNCHANGED <<bootVars, gpio, mainPc, vectorBase, panic>>

Untimed(step) == Irq(step) /\ UNCHANGED <<timerVars, consoleVars>>

SaveRegisters == Untimed(Saving /\ Push)
CallHandler == Untimed(CallHandleIRQ /\ CallC)

AcknowledgeIrq == Untimed(Acknowledge) /\ UNCHANGED entryVars
DispatchIrq == Untimed(Dispatch) /\ UNCHANGED entryVars

(* timer_handleIRQ() prints, and then clears the interrupt.                *)
HandlerPrintByte ==
  /\ Irq(InHandler)
  /\ FindRoom("irq") \/ WriteByte("irq")
  /\ UNCHANGED <<entryVars, timerVars, interrupted>>

timer_handleIRQ ==
  /\ Irq(Handled)
  /\ PrintReturns("irq")
  /\ timer_clearIrq
  /\ UNCHANGED <<entryVars, interrupted>>

EndIrq ==
  /\ \/ Untimed(ClearPending)
     \/ Untimed(EndOfInterrupt)
     \/ Untimed(Deactivate)
  /\ UNCHANGED entryVars

RestoreRegisters == Untimed(Restoring /\ Pop)

ReturnFromIrq ==
  /\ AllPopped
  /\ Untimed(ExceptionReturn)
  /\ UNCHANGED entryVars

IrqFails(reason) ==
  /\ panic = "none" /\ irqPc = "dispatch"
  /\ panic' = reason
  /\ UNCHANGED <<interruptsVars, bootVars, entryVars, deviceVars, mainPc, vectorBase>>

(* The assertion that there is a handler.                                  *)
MissingHandler ==
  /\ interruptId \in Id /\ Dispatched = NoHandler
  /\ IrqFails("missingHandler")

(* The read of interruptHandlers[1023] is past the end of the array.  What *)
(* it finds there is NULL, or is called.                                   *)
SpuriousDispatch ==
  /\ interruptId = Spurious
  /\ \E reason \in {"missingHandler", "wildCall"} : IrqFails(reason)

IrqStep ==
  \/ SaveRegisters \/ CallHandler
  \/ AcknowledgeIrq \/ DispatchIrq \/ HandlerPrintByte \/ timer_handleIRQ \/ EndIrq
  \/ RestoreRegisters \/ ReturnFromIrq
  \/ MissingHandler \/ SpuriousDispatch

-----------------------------------------------------------------------------
(* The hardware.                                                           *)

Interrupt ==
  /\ Irq(TakeIrq /\ Enter)
  /\ interrupted' = TRUE
  /\ UNCHANGED <<timerVars, uartVars>>

(* Other devices may assert their lines; nobody enables them.              *)
Lines == (IF TimerLine THEN {TimerArmcId} ELSE {}) \cup (ArmcId \ {TimerArmcId})

Hardware(step) ==
  /\ step
  /\ UNCHANGED <<bootVars, entryVars, gpio, interrupted, mainPc, vectorBase, panic>>

SampleLines == Hardware(Sample(Lines)) /\ UNCHANGED <<timerVars, uartVars>>
TimerExpires == Hardware(Expire) /\ UNCHANGED <<interruptsVars, uartVars>>
UartTransmits == Hardware(Transmit) /\ UNCHANGED <<interruptsVars, timerVars>>

(* halt(): the loop of main(), or of _panic().                             *)
Halted ==
  /\ MainOrder[mainPc] = "halt" \/ panic # "none"
  /\ UNCHANGED vars

Next ==
  \/ MainStep \/ IrqStep
  \/ Interrupt \/ SampleLines \/ TimerExpires \/ UartTransmits
  \/ Halted

Spec == Init /\ [][Next]_vars

(* The CPU goes on with whatever it executes, takes an interrupt that      *)
(* stays signalled, the GIC follows its lines, and the UART sends what it  *)
(* holds.  Nobody has to let the timer expire.                             *)
FairSpec ==
  /\ Spec
  /\ WF_vars(MainStep) /\ WF_vars(IrqStep)
  /\ WF_vars(Interrupt) /\ WF_vars(SampleLines) /\ WF_vars(UartTransmits)

-----------------------------------------------------------------------------

TypeOK ==
  /\ InterruptsTypeOK /\ BootTypeOK /\ EntryTypeOK /\ TimerTypeOK /\ UartTypeOK
  /\ gpio \in [GpioReg -> SUBSET Bit]
  /\ mainPc \in 1 .. Len(MainOrder)
  /\ vectorBase \in {"firmware", "exceptionVector"}
  /\ interrupted \in BOOLEAN
  /\ panic \in {"none", "exceptionLevel", "vmEnabled", "vmNotEnabled",
                "handlerPresent", "missingHandler", "wildCall"}

(* Whatever level the firmware enters at and whatever the RAM holds, the   *)
(* assertions about the state boot.s has set up hold: main() runs at EL1,  *)
(* and no handler is present before one is added, not even for an          *)
(* interrupt nobody adds one for.  vm_init() finds the MMU off, so that it *)
(* may walk the tables, and kalloc_init() finds it on.  In one case only   *)
(* vm_init() stops the kernel: nothing turns an MMU off that the firmware  *)
(* left on at EL1.                                                         *)
MainStartsClean ==
  /\ panic \notin {"exceptionLevel", "vmNotEnabled", "handlerPresent"}
  /\ panic = "vmEnabled" => mmuKept
  /\ bootPc = "main" =>
       /\ mmu <=> (mmuKept \/ Reached("vm_enable"))
       /\ ~Reached("addHandler") => interruptHandlers = [id \in Id |-> NoHandler]

(* IRQs are unmasked from boot.s on, but the kernel takes none before      *)
(* main() says it may: nothing is enabled in the GIC before.  By then the  *)
(* exception vectors are the kernel's.                                     *)
NoIrqBeforeEnable ==
  irqPc # "none" => Reached("interrupts_enable") /\ vectorBase = "exceptionVector"

(* Whenever interrupted code runs again, the GIC has been told of the end  *)
(* of every interrupt: an interrupt left active would hold back all others *)
(* for ever.                                                               *)
NothingLeftActive == irqPc = "none" => active = {}

(* The interrupted code finds on its stack what it had there, and in the   *)
(* registers that irq_handler or the C code save what it had in them.      *)
SavedRegistersComeBack ==
  irqPc = "none" => stack = <<>> /\ \A g \in Group \ {"x4_x18"} : reg[g] = g

(* Nothing is printed before the UART and the two pins it is connected to  *)
(* are set up as uart_init() means them to be, whatever the firmware left. *)
ConsoleReady ==
  (\E c \in Context : sent[c] > 0 \/ roomSeen[c]) =>
    /\ uart = [ENABLES |-> 1, IER |-> 0, CNTL |-> 3, LCR |-> 3, MCR |-> 0, BAUD |-> 541]
    /\ \A pin \in {14, 15} :
         PinFunction(gpio, pin) = GPIO_FUNCTION_ALT5 /\ PinPull(gpio, pin) = PULL_NONE

(* The pins share registers; setting up two of them leaves all the others  *)
(* as they were.                                                           *)
OtherPinsStay ==
  [][\A pin \in Pin \ {14, 15} :
       UNCHANGED <<PinFunction(gpio, pin), PinPull(gpio, pin)>>]_vars

(* uart_writeByte() checks for room and then writes, not atomically.  The  *)
(* handler never loses a byte, and main() loses one only if an IRQ came    *)
(* between its check and its write: at most one for each IRQ.              *)
LossNeedsInterrupt ==
  \A c \in Context :
    roomSeen[c] /\ txFifo = FifoDepth => c = "main" /\ interrupted

(* A timer that expires is attended to: its interrupt is cleared, unless   *)
(* the kernel stops.  The handler waits for the UART before it clears it.  *)
TimerIsServed == rawIrq ~> (~rawIrq \/ panic # "none")

(* Unless the timer expires again and again, main() gets to its end: every *)
(* wait for the UART is over some time, and no interrupt recurs for ever.  *)
MainFinishes ==
  \/ []<><<TimerExpires>>_vars
  \/ <>(MainOrder[mainPc] = "halt" \/ panic # "none")

(* The assertion of interrupts_handleIRQ(): interruptHandlers[] has an     *)
(* element for the id the GIC answers with, and a handler in it.           *)
EveryIrqHasHandler ==
  irqPc = "dispatch" => interruptId \in Id /\ Dispatched # NoHandler

(* exceptionVectorTables.s:39: irq_handler is to save the caller-saved     *)
(* registers, `all others will be done by C'.                              *)
InterruptedCodeIsUndisturbed == irqPc = "none" => reg = Untouched
=============================================================================
