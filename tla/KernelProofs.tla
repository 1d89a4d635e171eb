----------------------------- MODULE KernelProofs -----------------------------
(***************************************************************************)
(* Theorems about Kernel, for every size of .bss and of the UART's fifo,   *)
(* every interrupt id and every length of the messages: what boot.s and    *)
(* the initialisations that main() calls have set up holds at every later  *)
(* step, whatever the hardware and the interrupt handler do in between.    *)
(***************************************************************************)
EXTENDS Kernel, SequenceTheorems, TLAPS

(* boot.s arrives in main() at EL1 with the MMU off, which only vm_init()  *)
(* turns on, unless the firmware had it on at EL1 already.                 *)
BootSetsUp ==
  /\ bootPc # "main" => mainPc = 1
  /\ bootPc = "set_el" => (mmuKept <=> (el = 1 /\ mmu))
  /\ bootPc \in {"el3_entry", "el2_entry"} => ~mmuKept
  /\ bootPc \in {"el1_entry", "bss"} => el = 1 /\ (mmu <=> mmuKept)
  /\ bootPc = "main" => el = 1 /\ (mmu <=> (mmuKept \/ Reached("vm_enable")))

(* The words of .bss below x1 are cleared, and the loop gets to them all.  *)
HandlersCleared ==
  /\ bootPc = "bss" =>
       /\ x1 + w2 = BssSize \div 8
       /\ \A id \in Id : WordOf(id) < x1 => interruptHandlers[id] = NoHandler
  /\ (bootPc = "main" /\ ~Reached("addHandler")) =>
       \A id \in Id : interruptHandlers[id] = NoHandler

(* No assert() of main(), of kalloc_init() or of interrupts_addHandler()   *)
(* fails, and that of vm_init() only if the firmware left the MMU on.      *)
AssertionsHold ==
  /\ panic \notin {"exceptionLevel", "vmNotEnabled", "handlerPresent"}
  /\ panic = "vmEnabled" => mmuKept

(* What holds IRQs back, as they are not masked: that nothing is enabled.  *)
QuietBeforeEnable ==
  /\ ~Reached("enableInGic") => enabled = {} /\ irqPc = "none"
  /\ Reached("exceptions_init") => vectorBase = "exceptionVector"

(* Of all interrupts only the one being handled may be active.             *)
OneActive ==
  active \subseteq
    IF irqPc \in {"dispatch", "handler", "clearPending", "end"} THEN {interruptId} ELSE {}

(* At every point of irq_handler a register of Frame still has its value   *)
(* or the stack has it, at the place it is loaded from.                    *)
FrameIsKept ==
  /\ \A i \in 1 .. Len(stack) : stack[i] = Frame[i]
  /\ irqPc = "none" => stack = <<>>
  /\ irqPc \notin {"none", "save", "restore"} => Len(stack) = Len(Frame)
  /\ irqPc = "save" => reg = Untouched
  /\ reg["x19_x29"] = "x19_x29"
  /\ irqPc \in {"none", "restore"} =>
       \A i \in Len(stack) + 1 .. Len(Frame) : reg[Frame[i]] = Frame[i]

(* Each store of uart_init() is there to stay.                             *)
UartIsSet ==
  /\ Reached("uart_disable") => uart["ENABLES"] = 1 /\ uart["IER"] = 0
  /\ Reached("uart_format") => uart["LCR"] = 3 /\ uart["MCR"] = 0 /\ uart["BAUD"] = 541
  /\ Reached("uart_enable") => uart["CNTL"] = 3

(* What gpio_useAsAlt5() leaves for uart_init() to rely on.                *)
PinIsSet(pin) ==
  PinFunction(gpio, pin) = GPIO_FUNCTION_ALT5 /\ PinPull(gpio, pin) = PULL_NONE

PinsAreSet ==
  /\ Reached("pin14") => PinIsSet(14)
  /\ Reached("pin15") => PinIsSet(15)

(* Nobody has asked for room in the fifo before uart_init() has returned.  *)
QuietConsole ==
  ~Reached("uart_enable") => \A c \in Context : sent[c] = 0 /\ ~roomSeen[c]

(* A byte that is about to be written belongs to the message, and there is *)
(* room for it unless an IRQ came in between.                              *)
ByteIsDue ==
  \A c \in Context : roomSeen[c] => sent[c] < MessageLength

(* The handler is never interrupted itself, so the room it saw is there.   *)
RoomIsThere ==
  /\ irqPc # "none" => interrupted
  /\ roomSeen["irq"] => irqPc = "handler"
  /\ \A c \in Context :
       roomSeen[c] => txFifo < FifoDepth \/ (c = "main" /\ interrupted)

(* The inductive invariant.                                                *)
IInv ==
  /\ TypeOK
  /\ BootSetsUp /\ HandlersCleared /\ AssertionsHold
  /\ QuietBeforeEnable /\ OneActive /\ FrameIsKept
  /\ UartIsSet /\ PinsAreSet /\ QuietConsole /\ ByteIsDue /\ RoomIsThere

-----------------------------------------------------------------------------
(* The GPIO driver.                                                        *)

(* gpio_pull() sets the pull of its pin and leaves that of all others.     *)
LEMMA PullOfCall ==
  ASSUME NEW g \in [GpioReg -> SUBSET Bit], NEW n \in Pin, NEW p \in Pin
  PROVE  PinPull(gpio_pull(g, n, PULL_NONE), p) =
           IF p = n THEN PULL_NONE ELSE PinPull(g, p)
<1> DEFINE h == gpio_pull(g, n, PULL_NONE)
           r == GPPUPPDN0 + n \div 16
           k == (n % 16) * 2
<1>1. r \in GpioReg /\ GPPUPPDN0 + p \div 16 \in GpioReg
  BY DEF GpioReg, GPFSEL0, GPSET0, GPCLR0, GPPUPPDN0, Pin, GPIO_MAX_PIN
<1>2. RegOf(n, GPPUPPDN0, 2) = r /\ ShiftOf(n, 2) = k
  <2>1. 32 \div 2 = 16
    OBVIOUS
  <2> QED
    BY <2>1 DEF RegOf, ShiftOf
<1>3. h = [g EXCEPT ![r] = (g[r] \ ShiftLeft(0 .. 2 - 1, k)) \cup ShiftLeft({}, k)]
  BY <1>2 DEF gpio_pull, gpio_call, PULL_NONE
<1>4. k \in Nat /\ r \in Nat
  BY DEF Pin, GPIO_MAX_PIN, GPPUPPDN0
<1> HIDE DEF h, r, k
<1>5. \A x : x \in ShiftLeft(0 .. 2 - 1, k) <=> x = k \/ x = k + 1
  BY <1>4 DEF ShiftLeft
<1>6. ShiftLeft({}, k) = {}
  BY DEF ShiftLeft
<1>7. \A x \in GpioReg \ {r} : h[x] = g[x]
  BY <1>3
<1>8. \A x : x \in h[r] <=> x \in g[r] /\ x # k /\ x # k + 1
  BY <1>1, <1>3, <1>5, <1>6
<1>9. CASE p = n
  BY <1>8, <1>9, <1>4 DEF PinPull, PULL_NONE, r, k, h
<1>10. CASE p # n /\ p \div 16 # n \div 16
  <2>1. h[GPPUPPDN0 + p \div 16] = g[GPPUPPDN0 + p \div 16]
    BY <1>1, <1>7, <1>10 DEF r, GPPUPPDN0, Pin, GPIO_MAX_PIN
  <2> QED
    BY <2>1, <1>10 DEF PinPull, h
<1>11. CASE p # n /\ p \div 16 = n \div 16
  <2>1. p % 16 # n % 16
    BY <1>11 DEF Pin, GPIO_MAX_PIN
  <2>2. \A b \in 0 .. 1 : (p % 16) * 2 + b # k /\ (p % 16) * 2 + b # k + 1
    BY <2>1 DEF k, Pin, GPIO_MAX_PIN
  <2>3. \A b \in 0 .. 1 : (p % 16) * 2 + b \in h[r] <=> (p % 16) * 2 + b \in g[r]
    BY <2>2, <1>8
  <2> QED
    BY <2>3, <1>11 DEF PinPull, h, r
<1> QED
  BY <1>9, <1>10, <1>11

(* gpio_function() sets the function of its pin and leaves that of others, *)
(* whether or not they share the GPFSEL register.                          *)
LEMMA FunctionOfCall ==
  ASSUME NEW g \in [GpioReg -> SUBSET Bit], NEW n \in Pin, NEW p \in Pin
  PROVE  PinFunction(gpio_function(g, n, GPIO_FUNCTION_ALT5), p) =
           IF p = n THEN GPIO_FUNCTION_ALT5 ELSE PinFunction(g, p)
<1> DEFINE h == gpio_function(g, n, GPIO_FUNCTION_ALT5)
           r == GPFSEL0 + n \div 10
           k == (n % 10) * 3
<1>1. r \in GpioReg /\ GPFSEL0 + p \div 10 \in GpioReg
  BY DEF GpioReg, GPFSEL0, GPSET0, GPCLR0, GPPUPPDN0, Pin, GPIO_MAX_PIN
<1>2. RegOf(n, GPFSEL0, 3) = r /\ ShiftOf(n, 3) = k
  <2>1. 32 \div 3 = 10
    OBVIOUS
  <2> QED
    BY <2>1 DEF RegOf, ShiftOf
<1>3. h = [g EXCEPT ![r] = (g[r] \ ShiftLeft(0 .. 3 - 1, k)) \cup ShiftLeft({1}, k)]
  BY <1>2 DEF gpio_function, gpio_call, GPIO_FUNCTION_ALT5
<1>4. k \in Nat /\ r \in Nat
  BY DEF Pin, GPIO_MAX_PIN, GPFSEL0
<1> HIDE DEF h, r, k
<1>5. \A x : x \in ShiftLeft(0 .. 3 - 1, k) <=> x \in {k, k + 1, k + 2}
  BY <1>4 DEF ShiftLeft
<1>6. \A x : x \in ShiftLeft({1}, k) <=> x = k + 1
  BY <1>4 DEF ShiftLeft
<1>7. \A x \in GpioReg \ {r} : h[x] = g[x]
  BY <1>3
<1>8. \A x : x \in h[r] <=> x = k + 1 \/ (x \in g[r] /\ x # k /\ x # k + 2)
  BY <1>1, <1>3, <1>5, <1>6
<1>9. CASE p = n
  <2>1. \A b \in 0 .. 2 : k + b \in h[r] <=> b = 1
    BY <1>4, <1>8
  <2> QED
    BY <2>1, <1>9 DEF PinFunction, GPIO_FUNCTION_ALT5, r, k, h
<1>10. CASE p # n /\ p \div 10 # n \div 10
  <2>1. h[GPFSEL0 + p \div 10] = g[GPFSEL0 + p \div 10]
    BY <1>1, <1>7, <1>10 DEF r, GPFSEL0, Pin, GPIO_MAX_PIN
  <2> QED
    BY <2>1, <1>10 DEF PinFunction, h
<1>11. CASE p # n /\ p \div 10 = n \div 10
  <2>1. p % 10 # n % 10
    BY <1>11 DEF Pin, GPIO_MAX_PIN
  <2>2. \A b \in 0 .. 2 : (p % 10) * 3 + b \notin {k, k + 1, k + 2}
    BY <2>1 DEF k, Pin, GPIO_MAX_PIN
  <2>3. \A b \in 0 .. 2 : (p % 10) * 3 + b \in h[r] <=> (p % 10) * 3 + b \in g[r]
    BY <2>2, <1>8
  <2> QED
    BY <2>3, <1>11 DEF PinFunction, h, r
<1> QED
  BY <1>9, <1>10, <1>11

(* The two banks have no register in common.                               *)
LEMMA BanksAreApart ==
  ASSUME NEW g \in [GpioReg -> SUBSET Bit], NEW n \in Pin, NEW p \in Pin
  PROVE  /\ PinFunction(gpio_pull(g, n, PULL_NONE), p) = PinFunction(g, p)
         /\ PinPull(gpio_function(g, n, GPIO_FUNCTION_ALT5), p) = PinPull(g, p)
<1>1. 32 \div 2 = 16 /\ 32 \div 3 = 10
  OBVIOUS
<1>2. RegOf(n, GPPUPPDN0, 2) # GPFSEL0 + p \div 10
  BY <1>1 DEF RegOf, GPFSEL0, GPPUPPDN0, Pin, GPIO_MAX_PIN
<1>3. RegOf(n, GPFSEL0, 3) # GPPUPPDN0 + p \div 16
  BY <1>1 DEF RegOf, GPFSEL0, GPPUPPDN0, Pin, GPIO_MAX_PIN
<1>4. GPFSEL0 + p \div 10 \in GpioReg /\ GPPUPPDN0 + p \div 16 \in GpioReg
  BY DEF GpioReg, GPFSEL0, GPSET0, GPCLR0, GPPUPPDN0, Pin, GPIO_MAX_PIN
<1>5. gpio_pull(g, n, PULL_NONE)[GPFSEL0 + p \div 10] = g[GPFSEL0 + p \div 10]
  BY <1>2, <1>4 DEF gpio_pull, gpio_call
<1>6. gpio_function(g, n, GPIO_FUNCTION_ALT5)[GPPUPPDN0 + p \div 16]
        = g[GPPUPPDN0 + p \div 16]
  BY <1>3, <1>4 DEF gpio_function, gpio_call
<1> QED
  BY <1>5, <1>6 DEF PinFunction, PinPull

(* gpio_call() writes 32-bit words.                                        *)
LEMMA CallTypes ==
  ASSUME NEW g \in [GpioReg -> SUBSET Bit], NEW n \in Pin
  PROVE  /\ gpio_pull(g, n, PULL_NONE) \in [GpioReg -> SUBSET Bit]
         /\ gpio_function(g, n, GPIO_FUNCTION_ALT5) \in [GpioReg -> SUBSET Bit]
<1>1. 32 \div 3 = 10
  OBVIOUS
<1>2. ShiftLeft(PULL_NONE, ShiftOf(n, 2)) = {}
  BY DEF ShiftLeft, PULL_NONE
<1>3. ShiftLeft(GPIO_FUNCTION_ALT5, ShiftOf(n, 3)) \subseteq Bit
  BY <1>1 DEF ShiftLeft, ShiftOf, GPIO_FUNCTION_ALT5, Bit, Pin, GPIO_MAX_PIN
<1> QED
  BY <1>2, <1>3 DEF gpio_pull, gpio_function, gpio_call

(* What gpio_useAsAlt5(pin) promises: the pin is set up, the others keep   *)
(* their function and their pull, although they share its registers.       *)
THEOREM GpioUseAsAlt5 ==
  ASSUME NEW g \in [GpioReg -> SUBSET Bit], NEW n \in Pin
  PROVE  /\ gpio_useAsAlt5(g, n) \in [GpioReg -> SUBSET Bit]
         /\ PinFunction(gpio_useAsAlt5(g, n), n) = GPIO_FUNCTION_ALT5
         /\ PinPull(gpio_useAsAlt5(g, n), n) = PULL_NONE
         /\ \A p \in Pin \ {n} :
              /\ PinFunction(gpio_useAsAlt5(g, n), p) = PinFunction(g, p)
              /\ PinPull(gpio_useAsAlt5(g, n), p) = PinPull(g, p)
<1> DEFINE h == gpio_pull(g, n, PULL_NONE)
<1>1. h \in [GpioReg -> SUBSET Bit]
  BY CallTypes
<1>2. gpio_useAsAlt5(g, n) = gpio_function(h, n, GPIO_FUNCTION_ALT5)
  BY DEF gpio_useAsAlt5
<1> HIDE DEF h
<1>3. gpio_function(h, n, GPIO_FUNCTION_ALT5) \in [GpioReg -> SUBSET Bit]
  BY <1>1, CallTypes
<1>4. ASSUME NEW p \in Pin
      PROVE  /\ PinFunction(gpio_useAsAlt5(g, n), p) =
                  IF p = n THEN GPIO_FUNCTION_ALT5 ELSE PinFunction(g, p)
             /\ PinPull(gpio_useAsAlt5(g, n), p) =
                  IF p = n THEN PULL_NONE ELSE PinPull(g, p)
  <2>1. PinFunction(h, p) = PinFunction(g, p)
    BY BanksAreApart DEF h
  <2>2. PinPull(h, p) = IF p = n THEN PULL_NONE ELSE PinPull(g, p)
    BY PullOfCall DEF h
  <2>3. PinPull(gpio_function(h, n, GPIO_FUNCTION_ALT5), p) = PinPull(h, p)
    BY <1>1, BanksAreApart
  <2>4. PinFunction(gpio_function(h, n, GPIO_FUNCTION_ALT5), p) =
          IF p = n THEN GPIO_FUNCTION_ALT5 ELSE PinFunction(h, p)
    BY <1>1, FunctionOfCall
  <2> QED
    BY <1>2, <2>1, <2>2, <2>3, <2>4
<1> QED
  BY <1>2, <1>3, <1>4

-----------------------------------------------------------------------------
(* The order of main().                                                    *)

(* main() has 33 steps.                                                    *)
LEMMA MainOrderLength == Len(MainOrder) = 33
  BY DEF MainOrder

(* Where in main() a step is, counted from 1.                              *)
LEMMA PlaceInMain ==
  ASSUME NEW n \in 1 .. Len(MainOrder)
  PROVE  /\ MainOrder[n] = "uart_disable" <=> n = 1
         /\ MainOrder[n] = "uart_format" <=> n = 2
         /\ MainOrder[n] = "pin14" <=> n = 3
         /\ MainOrder[n] = "pin15" <=> n = 4
         /\ MainOrder[n] = "uart_enable" <=> n = 5
         /\ MainOrder[n] = "assertEL1" <=> n = 7
         /\ MainOrder[n] = "exceptions_init" <=> n = 8
         /\ MainOrder[n] = "vm_mapAllocating" <=> n = 16
         /\ MainOrder[n] = "vm_enable" <=> n = 18
         /\ MainOrder[n] = "kalloc_init" <=> n = 20
         /\ MainOrder[n] = "interrupts_enable" <=> n = 22
         /\ MainOrder[n] = "enableInGic" <=> n = 26
         /\ MainOrder[n] = "addHandler" <=> n = 29
         /\ MainOrder[n] = "halt" <=> n = 33
  BY DEF MainOrder

(* What is done only once has been done when main() is past its place.     *)
LEMMA PastItsPlace ==
  ASSUME NEW pc \in 1 .. Len(MainOrder), NEW k \in 1 .. Len(MainOrder), NEW label,
         \A n \in 1 .. Len(MainOrder) : MainOrder[n] = label <=> n = k
  PROVE  (\E n \in 1 .. pc - 1 : MainOrder[n] = label) <=> pc > k
<1>1. \A n \in 1 .. pc - 1 : n \in 1 .. Len(MainOrder)
  BY MainOrderLength
<1>2. pc > k => k \in 1 .. pc - 1
  BY MainOrderLength
<1>3. \A n \in 1 .. pc - 1 : n < pc
  BY MainOrderLength
<1> QED
  BY <1>1, <1>2

(* So Reached() says that main() is past the one place of its argument.    *)
LEMMA ReachedIs ==
  ASSUME NEW pc \in 1 .. Len(MainOrder)
  PROVE  /\ (\E n \in 1 .. pc - 1 : MainOrder[n] = "uart_disable") <=> pc > 1
         /\ (\E n \in 1 .. pc - 1 : MainOrder[n] = "uart_format") <=> pc > 2
         /\ (\E n \in 1 .. pc - 1 : MainOrder[n] = "pin14") <=> pc > 3
         /\ (\E n \in 1 .. pc - 1 : MainOrder[n] = "pin15") <=> pc > 4
         /\ (\E n \in 1 .. pc - 1 : MainOrder[n] = "uart_enable") <=> pc > 5
         /\ (\E n \in 1 .. pc - 1 : MainOrder[n] = "exceptions_init") <=> pc > 8
         /\ (\E n \in 1 .. pc - 1 : MainOrder[n] = "vm_enable") <=> pc > 18
         /\ (\E n \in 1 .. pc - 1 : MainOrder[n] = "interrupts_enable") <=> pc > 22
         /\ (\E n \in 1 .. pc - 1 : MainOrder[n] = "enableInGic") <=> pc > 26
         /\ (\E n \in 1 .. pc - 1 : MainOrder[n] = "addHandler") <=> pc > 29
<1> DEFINE Place(label, k) ==
             k \in 1 .. Len(MainOrder) /\ \A n \in 1 .. Len(MainOrder) : MainOrder[n] = label <=> n = k
           Past(label, k) == (\E n \in 1 .. pc - 1 : MainOrder[n] = label) <=> pc > k
<1>1. ASSUME NEW label, NEW k, Place(label, k) PROVE Past(label, k)
  BY <1>1, PastItsPlace
<1>2. /\ Place("uart_disable", 1)
      /\ Place("uart_format", 2)
      /\ Place("pin14", 3)
      /\ Place("pin15", 4)
      /\ Place("uart_enable", 5)
      /\ Place("exceptions_init", 8)
      /\ Place("vm_enable", 18)
      /\ Place("interrupts_enable", 22)
      /\ Place("enableInGic", 26)
      /\ Place("addHandler", 29)
  BY MainOrderLength, PlaceInMain
<1> HIDE DEF Place
<1> QED
  BY <1>1, <1>2, Zenon

-----------------------------------------------------------------------------
(* Which steps write what.                                                 *)

(* One lemma for each group of variables: the actions that write it.       *)
LEMMA TimerWriters ==
  ASSUME [Next]_vars
  PROVE  \/ UNCHANGED timerVars
         \/ timer_init_registers \/ timer_handleIRQ \/ TimerExpires
  BY DEF Next, MainStep, IrqStep, Boot, uart_init, PrintByte, print,
         AssertExceptionLevel, exceptions_init, interrupts_init,
         main_pageAlloc_init, vm_mapAllocating, vm_enable, kalloc_init, main_interrupts_enable,
         timer_init_enable, timer_init_addHandler, SaveRegisters, CallHandler,
         AcknowledgeIrq, DispatchIrq, HandlerPrintByte, EndIrq,
         RestoreRegisters, ReturnFromIrq, MissingHandler, SpuriousDispatch,
         Interrupt, SampleLines, UartTransmits, Halted, IrqFails, Untimed, Irq,
         Hardware, vars, deviceVars

LEMMA EntryWriters ==
  ASSUME [Next]_vars
  PROVE  \/ UNCHANGED entryVars
         \/ SaveRegisters \/ CallHandler \/ RestoreRegisters
         \/ Interrupt
  BY DEF Next, MainStep, IrqStep, Boot, uart_init, PrintByte, print,
         AssertExceptionLevel, exceptions_init, interrupts_init,
         main_pageAlloc_init, vm_mapAllocating, vm_enable, kalloc_init, main_interrupts_enable,
         timer_init_registers, timer_init_enable, timer_init_addHandler,
         AcknowledgeIrq, DispatchIrq, HandlerPrintByte, timer_handleIRQ,
         EndIrq, ReturnFromIrq, MissingHandler, SpuriousDispatch, SampleLines,
         TimerExpires, UartTransmits, Halted, IrqFails, Untimed, Irq, Hardware,
         vars, deviceVars, At, Main

LEMMA GpioWriters ==
  ASSUME [Next]_vars
  PROVE  \/ UNCHANGED gpio
         \/ uart_init
  BY DEF Next, MainStep, IrqStep, Boot, PrintByte, print, AssertExceptionLevel,
         exceptions_init, interrupts_init, main_pageAlloc_init, vm_mapAllocating, vm_enable,
         kalloc_init, main_interrupts_enable, timer_init_registers,
         timer_init_enable, timer_init_addHandler, SaveRegisters, CallHandler,
         AcknowledgeIrq, DispatchIrq, HandlerPrintByte, timer_handleIRQ,
         EndIrq, RestoreRegisters, ReturnFromIrq, MissingHandler,
         SpuriousDispatch, Interrupt, SampleLines, TimerExpires, UartTransmits,
         Halted, IrqFails, Untimed, Irq, Hardware, vars, deviceVars, At, Main

LEMMA UartWriters ==
  ASSUME [Next]_vars
  PROVE  \/ UNCHANGED uartVars
         \/ uart_init \/ PrintByte \/ print \/ HandlerPrintByte
         \/ timer_handleIRQ \/ UartTransmits
  BY DEF Next, MainStep, IrqStep, Boot, AssertExceptionLevel, exceptions_init,
         interrupts_init, main_pageAlloc_init, vm_mapAllocating, vm_enable, kalloc_init,
         main_interrupts_enable, timer_init_registers, timer_init_enable,
         timer_init_addHandler, SaveRegisters, CallHandler, AcknowledgeIrq,
         DispatchIrq, EndIrq, RestoreRegisters, ReturnFromIrq, MissingHandler,
         SpuriousDispatch, Interrupt, SampleLines, TimerExpires, Halted,
         IrqFails, Untimed, Irq, Hardware, vars, deviceVars, consoleVars

LEMMA BootWriters ==
  ASSUME [Next]_vars
  PROVE  \/ UNCHANGED bootVars
         \/ Boot \/ vm_enable
  BY DEF Next, MainStep, IrqStep, uart_init, PrintByte, print,
         AssertExceptionLevel, exceptions_init, interrupts_init,
         main_pageAlloc_init, vm_mapAllocating, kalloc_init, main_interrupts_enable,
         timer_init_registers, timer_init_enable, timer_init_addHandler,
         SaveRegisters, CallHandler, AcknowledgeIrq, DispatchIrq,
         HandlerPrintByte, timer_handleIRQ, EndIrq, RestoreRegisters,
         ReturnFromIrq, MissingHandler, SpuriousDispatch, Interrupt,
         SampleLines, TimerExpires, UartTransmits, Halted, IrqFails, Untimed,
         Irq, Hardware, vars, deviceVars, At, Main, bootVars

LEMMA IrqWriters ==
  ASSUME [Next]_vars
  PROVE  \/ UNCHANGED handlerVars
         \/ CallHandler \/ AcknowledgeIrq \/ DispatchIrq
         \/ timer_handleIRQ \/ EndIrq \/ ReturnFromIrq \/ Interrupt
  BY DEF Next, MainStep, IrqStep, Boot, uart_init, PrintByte, print,
         AssertExceptionLevel, exceptions_init, interrupts_init,
         main_pageAlloc_init, vm_mapAllocating, vm_enable, kalloc_init, main_interrupts_enable,
         timer_init_registers, timer_init_enable, timer_init_addHandler,
         SaveRegisters, HandlerPrintByte, RestoreRegisters, MissingHandler,
         SpuriousDispatch, SampleLines, TimerExpires, UartTransmits, Halted,
         IrqFails, Untimed, Irq, Hardware, vars, deviceVars, interruptsVars,
         BootStep, set_el, Eret, el3_entry, el2_entry, el1_entry, ClearWord,
         CallMain, BootUnchanged, TurnOn, interrupts_enable, EnableInGic,
         TargetCpu0, EnableInArmc, interrupts_addARMCInterruptHandler, Saving,
         InHandler, Restoring, Sample

LEMMA VectorWriters ==
  ASSUME [Next]_vars
  PROVE  \/ UNCHANGED vectorBase
         \/ exceptions_init
  BY DEF Next, MainStep, IrqStep, Boot, uart_init, PrintByte, print,
         AssertExceptionLevel, interrupts_init, main_pageAlloc_init, vm_mapAllocating, vm_enable,
         kalloc_init, main_interrupts_enable, timer_init_registers,
         timer_init_enable, timer_init_addHandler, SaveRegisters, CallHandler,
         AcknowledgeIrq, DispatchIrq, HandlerPrintByte, timer_handleIRQ,
         EndIrq, RestoreRegisters, ReturnFromIrq, MissingHandler,
         SpuriousDispatch, Interrupt, SampleLines, TimerExpires, UartTransmits,
         Halted, IrqFails, Untimed, Irq, Hardware, vars, deviceVars, At, Main

LEMMA InterruptedWriters ==
  ASSUME [Next]_vars
  PROVE  \/ UNCHANGED interrupted
         \/ PrintByte \/ Interrupt
  BY DEF Next, MainStep, IrqStep, Boot, uart_init, print, AssertExceptionLevel,
         exceptions_init, interrupts_init, main_pageAlloc_init, vm_mapAllocating, vm_enable,
         kalloc_init, main_interrupts_enable, timer_init_registers,
         timer_init_enable, timer_init_addHandler, SaveRegisters, CallHandler,
         AcknowledgeIrq, DispatchIrq, HandlerPrintByte, timer_handleIRQ,
         EndIrq, RestoreRegisters, ReturnFromIrq, MissingHandler,
         SpuriousDispatch, SampleLines, TimerExpires, UartTransmits, Halted,
         IrqFails, Untimed, Irq, Hardware, vars, deviceVars, consoleVars

LEMMA PanicWriters ==
  ASSUME [Next]_vars
  PROVE  \/ UNCHANGED panic
         \/ AssertExceptionLevel \/ vm_mapAllocating \/ kalloc_init
         \/ timer_init_addHandler
         \/ MissingHandler \/ SpuriousDispatch
  BY DEF Next, MainStep, IrqStep, Boot, uart_init, PrintByte, print,
         exceptions_init, interrupts_init, main_pageAlloc_init, vm_enable,
         main_interrupts_enable, timer_init_registers, timer_init_enable,
         SaveRegisters, CallHandler, AcknowledgeIrq, DispatchIrq,
         HandlerPrintByte, timer_handleIRQ, EndIrq, RestoreRegisters,
         ReturnFromIrq, Interrupt, SampleLines, TimerExpires, UartTransmits,
         Halted, IrqFails, Untimed, Irq, Hardware, vars, deviceVars, At, Main

LEMMA GicWriters ==
  ASSUME [Next]_vars
  PROVE  \/ UNCHANGED gicVars
         \/ interrupts_init \/ timer_init_enable \/ SampleLines
         \/ AcknowledgeIrq \/ EndIrq
  BY DEF Next, MainStep, IrqStep, Boot, uart_init, PrintByte, print,
         AssertExceptionLevel, exceptions_init, main_pageAlloc_init, vm_mapAllocating, vm_enable,
         kalloc_init, main_interrupts_enable, timer_init_registers,
         timer_init_addHandler, SaveRegisters, CallHandler, DispatchIrq,
         HandlerPrintByte, timer_handleIRQ, RestoreRegisters, ReturnFromIrq,
         MissingHandler, SpuriousDispatch, Interrupt, TimerExpires,
         UartTransmits, Halted, IrqFails, Untimed, Irq, Hardware, vars,
         deviceVars, interruptsVars, gicVars, BootStep, set_el, Eret,
         el3_entry, el2_entry, el1_entry, ClearWord, CallMain, BootUnchanged,
         TurnOn, interrupts_enable, EnableInGic, TargetCpu0, EnableInArmc,
         interrupts_addARMCInterruptHandler, Saving, InHandler, Restoring,
         Sample, TakeIrq, Acknowledge, Dispatch, Goto, CallHandleIRQ, Handled,
         ClearPending, EndOfInterrupt, Deactivate, ExceptionReturn

LEMMA MaskWriters ==
  ASSUME [Next]_vars
  PROVE  \/ UNCHANGED masked
         \/ Boot \/ main_interrupts_enable \/ ReturnFromIrq \/ Interrupt
  BY DEF Next, MainStep, IrqStep, uart_init, PrintByte, print,
         AssertExceptionLevel, exceptions_init, interrupts_init,
         main_pageAlloc_init, vm_mapAllocating, vm_enable, kalloc_init, timer_init_registers,
         timer_init_enable, timer_init_addHandler, SaveRegisters, CallHandler,
         AcknowledgeIrq, DispatchIrq, HandlerPrintByte, timer_handleIRQ,
         EndIrq, RestoreRegisters, MissingHandler, SpuriousDispatch,
         SampleLines, TimerExpires, UartTransmits, Halted, IrqFails, Untimed,
         Irq, Hardware, vars, deviceVars, interruptsVars, TurnOn,
         interrupts_enable, EnableInGic, TargetCpu0, EnableInArmc,
         interrupts_addARMCInterruptHandler, Saving, InHandler, Restoring,
         Sample, TakeIrq, Acknowledge, Dispatch, Goto, CallHandleIRQ, Handled,
         ClearPending, EndOfInterrupt, Deactivate, ExceptionReturn

LEMMA HandlersWriters ==
  ASSUME [Next]_vars
  PROVE  \/ UNCHANGED interruptHandlers
         \/ Boot \/ timer_init_addHandler
  BY DEF Next, MainStep, IrqStep, uart_init, PrintByte, print,
         AssertExceptionLevel, exceptions_init, interrupts_init,
         main_pageAlloc_init, vm_mapAllocating, vm_enable, kalloc_init, main_interrupts_enable,
         timer_init_registers, timer_init_enable, SaveRegisters, CallHandler,
         AcknowledgeIrq, DispatchIrq, HandlerPrintByte, timer_handleIRQ,
         EndIrq, RestoreRegisters, ReturnFromIrq, MissingHandler,
         SpuriousDispatch, Interrupt, SampleLines, TimerExpires, UartTransmits,
         Halted, IrqFails, Untimed, Irq, Hardware, vars, deviceVars,
         interruptsVars, TurnOn, interrupts_enable, EnableInGic, TargetCpu0,
         EnableInArmc, interrupts_addARMCInterruptHandler, Saving, InHandler,
         Restoring, Sample, TakeIrq, Acknowledge, Dispatch, Goto,
         CallHandleIRQ, Handled, ClearPending, EndOfInterrupt, Deactivate,
         ExceptionReturn

-----------------------------------------------------------------------------
(* Types.                                                                  *)

(* What timer_init() writes to the control register has 32 bits.           *)
LEMMA ControlIsAWord == Control \subseteq 0 .. 31
<1> SUFFICES ASSUME NEW bit \in Control PROVE bit \in 0 .. 31
  OBVIOUS
<1>1. \E part \in {{1}, Shift({1}, 2), Shift({0}, 5), Shift({0}, 7), Shift({0}, 9), 1 .. 5} :
        bit \in part
  BY Zenon DEF Control, Bits0x3e
<1> QED
  BY <1>1 DEF Shift

(* The initial state is well typed.                                        *)
LEMMA TypeInit == Init => TypeOK
<1> SUFFICES ASSUME Init PROVE TypeOK
  OBVIOUS
<1>1. InterruptsTypeOK /\ BootTypeOK
  BY DEF Init, InterruptsInit, BootInit, InterruptsTypeOK, BootTypeOK, GicPart
<1>2. EntryTypeOK
  BY DEF Init, EntryInit, Untouched, EntryTypeOK, Frame
<1>3. TimerTypeOK
  <2>1. 0 \in 0 .. UintMod - 1
    BY TimerAssumption
  <2>2. DefaultFREEDIV \subseteq 0 .. 31
    BY DEF DefaultFREEDIV, Shift, Bits0x3e
  <2> QED
    BY <2>1, <2>2 DEF Init, TimerInit, TimerTypeOK, DefaultPREDIV
<1>4. UartTypeOK
  BY UartAssumption DEF Init, UartInit, UartTypeOK
<1>5. gpio \in [GpioReg -> SUBSET Bit]
  BY DEF Init
<1>6. mainPc \in 1 .. Len(MainOrder)
  BY MainOrderLength DEF Init
<1>7. /\ vectorBase \in {"firmware", "exceptionVector"}
      /\ panic \in {"none", "exceptionLevel", "vmEnabled", "vmNotEnabled",
                    "handlerPresent", "missingHandler", "wildCall"}
  BY DEF Init
<1>8. interrupted \in BOOLEAN
  BY DEF Init
<1> QED
  BY <1>1, <1>2, <1>3, <1>4, <1>5, <1>6, <1>7, <1>8 DEF TypeOK

(* The interrupt controller's part of it.                                  *)
LEMMA TypeOfInterrupts ==
  ASSUME TypeOK, [Next]_vars
  PROVE  InterruptsTypeOK'
<1> USE DEF TypeOK, InterruptsTypeOK
<1>1. TimerArmcId + 64 \in Id
  BY KernelAssumption DEF Id
<1>2. /\ gicOn' \subseteq GicPart /\ enabled' \subseteq Id /\ targeted' \subseteq Id
      /\ armcEnabled' \subseteq ArmcId /\ seen' \subseteq Id /\ active' \subseteq Id
  <2> USE DEF gicVars, interrupts_init, TurnOn, timer_init_enable, EnableInGic,
         TargetCpu0, EnableInArmc, SampleLines, Hardware, Sample, AcknowledgeIrq, Untimed,
         Irq, Acknowledge, EndIrq, ClearPending, EndOfInterrupt, Deactivate, Goto
  <2>1. gicOn' \subseteq GicPart
    BY GicWriters DEF GicPart
  <2>2. enabled' \subseteq Id /\ targeted' \subseteq Id /\ armcEnabled' \subseteq ArmcId
    BY <1>1, KernelAssumption, GicWriters
  <2>3. seen' \subseteq Id
    BY GicWriters DEF Id
  <2>4. active' \subseteq Id
    BY GicWriters DEF Pending
  <2> QED
    BY <2>1, <2>2, <2>3, <2>4
<1>3. masked' \in BOOLEAN
  BY MaskWriters
     DEF Boot, BootStep, set_el, el3_entry, el2_entry, Eret, el1_entry, ClearWord, CallMain,
         main_interrupts_enable, interrupts_enable, ReturnFromIrq, Untimed, Irq,
         ExceptionReturn, Interrupt, TakeIrq
<1>4. interruptHandlers' \in [Id -> Handler \cup {NoHandler, Junk}]
  BY <1>1, KernelAssumption, HandlersWriters
     DEF Boot, BootStep, set_el, el3_entry, el2_entry, Eret, el1_entry, ClearWord, CallMain,
         timer_init_addHandler, interrupts_addARMCInterruptHandler, interruptsVars
<1>5. /\ irqPc' \in {"none", "save", "acknowledge", "dispatch", "handler", "clearPending",
                     "end", "deactivate", "restore"}
      /\ interruptId' \in Id \cup {Spurious}
  BY IrqWriters
     DEF handlerVars, CallHandler, AcknowledgeIrq, Untimed, Irq, CallHandleIRQ, Goto,
         Acknowledge, Pending, DispatchIrq, Dispatch, timer_handleIRQ, Handled, EndIrq,
         ClearPending, EndOfInterrupt, Deactivate, ReturnFromIrq, ExceptionReturn,
         Interrupt, TakeIrq
<1> QED
  BY <1>2, <1>3, <1>4, <1>5

(* The last step of main(), halt(), is not left.                           *)
LEMMA MainGoesOn ==
  ASSUME TypeOK, [Next]_vars
  PROVE  /\ mainPc' \in 1 .. Len(MainOrder)
         /\ \/ mainPc' = mainPc
            \/ mainPc' = mainPc + 1 /\ bootPc = "main" /\ Thread /\ UNCHANGED bootPc
  <1>1. \/ mainPc' = mainPc
        \/ /\ mainPc' = mainPc + 1 /\ bootPc = "main" /\ Thread /\ UNCHANGED bootPc
           /\ MainOrder[mainPc] # "halt"
    BY DEF Next, MainStep, IrqStep, Boot, uart_init, PrintByte, print, AssertExceptionLevel,
           exceptions_init, interrupts_init, main_pageAlloc_init, vm_mapAllocating, vm_enable, kalloc_init,
           main_interrupts_enable, timer_init_registers, timer_init_enable,
           timer_init_addHandler, SaveRegisters, CallHandler, AcknowledgeIrq, DispatchIrq,
           HandlerPrintByte, timer_handleIRQ, EndIrq, RestoreRegisters, ReturnFromIrq,
           MissingHandler, SpuriousDispatch, Interrupt, SampleLines, TimerExpires,
           UartTransmits, Halted, IrqFails, Untimed, Irq, Hardware, Asserts, At, Main, vars
  <1> QED
    BY <1>1, PlaceInMain, MainOrderLength DEF TypeOK

(* The operations of Uart are all that happens to its state.               *)
LEMMA UartOperations ==
  ASSUME [Next]_vars
  PROVE  \/ UNCHANGED uartVars
         \/ uart_init_disable \/ uart_init_format \/ uart_init_enable \/ Transmit
         \/ \E c \in Context : FindRoom(c) \/ WriteByte(c) \/ PrintReturns(c)
  BY UartWriters
     DEF uart_init, PrintByte, print, HandlerPrintByte, timer_handleIRQ, UartTransmits,
         Hardware, Context

(* The UART's part of it.                                                  *)
LEMMA TypeOfUart ==
  ASSUME UartTypeOK, ByteIsDue, [Next]_vars
  PROVE  UartTypeOK'
<1> USE DEF UartTypeOK
<1>1. CASE UNCHANGED uartVars
  BY <1>1 DEF uartVars, transmitVars
<1>2. CASE uart_init_disable \/ uart_init_format \/ uart_init_enable
  <2>1. AUX_MU_BAUD(115200) \in Nat /\ 0 \in 0 .. FifoDepth
    BY UartAssumption DEF AUX_MU_BAUD
  <2>2. uart' \in [UartReg -> Nat]
    BY <1>2, <2>1 DEF uart_init_disable, uart_init_format, uart_init_enable
  <2>3. txFifo' \in 0 .. FifoDepth /\ UNCHANGED <<sent, roomSeen>>
    BY <1>2, <2>1 DEF uart_init_disable, uart_init_format, uart_init_enable, transmitVars
  <2> QED
    BY <2>2, <2>3
<1>3. CASE Transmit
  BY <1>3, UartAssumption DEF Transmit
<1>4. ASSUME NEW c \in Context, FindRoom(c)
      PROVE  UartTypeOK'
  BY <1>4 DEF FindRoom
<1>5. ASSUME NEW c \in Context, WriteByte(c)
      PROVE  UartTypeOK'
  <2>1. roomSeen' \in [Context -> BOOLEAN] /\ UNCHANGED uart
    BY <1>5 DEF WriteByte
  <2>2. txFifo' \in 0 .. FifoDepth
    BY <1>5, UartAssumption DEF WriteByte
  <2>3. sent[c] + 1 \in 0 .. MessageLength
    BY <1>5, UartAssumption DEF WriteByte, ByteIsDue
  <2>4. sent' \in [Context -> 0 .. MessageLength]
    BY <1>5, <2>3 DEF WriteByte
  <2> QED
    BY <2>1, <2>2, <2>4
<1>6. ASSUME NEW c \in Context, PrintReturns(c)
      PROVE  UartTypeOK'
  BY <1>6, UartAssumption DEF PrintReturns
<1> QED
  BY <1>1, <1>2, <1>3, <1>4, <1>5, <1>6, UartOperations

(* Every step keeps the types.                                             *)
LEMMA TypeStep ==
  ASSUME TypeOK, ByteIsDue, [Next]_vars
  PROVE  TypeOK'
<1>1. InterruptsTypeOK'
  BY TypeOfInterrupts
<1>2. BootTypeOK'
  <2> USE DEF TypeOK, BootTypeOK
  <2>1. BssSize \div 8 \in Nat
    BY BootAssumption
  <2>2. CASE UNCHANGED bootVars
    BY <2>2 DEF bootVars
  <2>3. CASE Boot
    <3> USE DEF Boot, BootStep, set_el, el3_entry, el2_entry, Eret, el1_entry, ClearWord,
                CallMain
    <3>1. bootPc' \in {"set_el", "el3_entry", "el2_entry", "el1_entry", "bss", "main"}
      BY <2>3
    <3>2. el' \in 1 .. 3 /\ x1' \in Nat /\ w2' \in Nat
      BY <2>1, <2>3
    <3>3. mmu' \in BOOLEAN /\ mmuKept' \in BOOLEAN
      BY <2>3 DEF BootUnchanged
    <3> QED
      BY <3>1, <3>2, <3>3
  <2>4. CASE vm_enable
    BY <2>4 DEF vm_enable, Main, At
  <2> QED
    BY <2>2, <2>3, <2>4, BootWriters
<1>3. EntryTypeOK'
  <2> USE DEF TypeOK, EntryTypeOK
  <2>1. CASE UNCHANGED entryVars
    BY <2>1 DEF entryVars
  <2>2. CASE SaveRegisters
    BY <2>2 DEF SaveRegisters, Untimed, Irq, Push, Frame, Group
  <2>3. CASE CallHandler
    BY <2>3 DEF CallHandler, Untimed, Irq, CallC
  <2>4. CASE RestoreRegisters
    BY <2>4 DEF RestoreRegisters, Untimed, Irq, Pop, Frame, Group
  <2>5. CASE Interrupt
    BY <2>5 DEF Interrupt, Irq, Enter, Untouched, Frame
  <2> QED
    BY <2>1, <2>2, <2>3, <2>4, <2>5, EntryWriters
<1>4. TimerTypeOK'
  <2> USE DEF TypeOK, TimerTypeOK
  <2>1. CASE UNCHANGED timerVars
    BY <2>1 DEF timerVars
  <2>2. CASE timer_init_registers
    <3>1. Control \subseteq 0 .. 31
      BY ControlIsAWord
    <3>2. CASE WriteControl
      BY <3>1, <3>2 DEF WriteControl
    <3>3. CASE WritePreDiv
      BY <3>3 DEF WritePreDiv
    <3> QED
      BY <2>2, <3>2, <3>3 DEF timer_init_registers
  <2>3. CASE timer_handleIRQ
    BY <2>3 DEF timer_handleIRQ, timer_clearIrq
  <2>4. CASE TimerExpires
    BY <2>4 DEF TimerExpires, Hardware, Expire
  <2> QED
    BY <2>1, <2>2, <2>3, <2>4, TimerWriters
<1>5. UartTypeOK'
  BY TypeOfUart DEF TypeOK
<1>6. gpio' \in [GpioReg -> SUBSET Bit]
  <2>1. 14 \in Pin /\ 15 \in Pin
    BY DEF Pin, GPIO_MAX_PIN
  <2> QED
    BY <2>1, GpioWriters, GpioUseAsAlt5 DEF TypeOK, uart_init
<1>7. mainPc' \in 1 .. Len(MainOrder)
  BY MainGoesOn
<1>8. vectorBase' \in {"firmware", "exceptionVector"}
  BY VectorWriters DEF TypeOK, exceptions_init
<1>9. interrupted' \in BOOLEAN
  BY InterruptedWriters DEF TypeOK, PrintByte, Interrupt
<1>10. panic' \in {"none", "exceptionLevel", "vmEnabled", "vmNotEnabled",
                   "handlerPresent", "missingHandler", "wildCall"}
  BY PanicWriters
     DEF TypeOK, AssertExceptionLevel, vm_mapAllocating, kalloc_init,
         timer_init_addHandler, Asserts,
         MissingHandler, SpuriousDispatch, IrqFails
<1> QED
  BY <1>1, <1>2, <1>3, <1>4, <1>5, <1>6, <1>7, <1>8, <1>9, <1>10 DEF TypeOK

-----------------------------------------------------------------------------
(* The parts of the invariant.                                             *)

(* Which step of main() is done at some places that matter.                *)
LEMMA StepOfMain ==
  ASSUME TypeOK, [Next]_vars, mainPc' # mainPc
  PROVE  /\ mainPc \in 1 .. 5 => uart_init
         /\ mainPc = 8 => exceptions_init
         /\ mainPc = 18 => vm_enable
         /\ mainPc = 26 => timer_init_enable
         /\ mainPc = 29 => timer_init_addHandler
<1> DEFINE label == MainOrder[mainPc]
<1>1. \/ uart_init \/ exceptions_init \/ vm_enable \/ timer_init_enable \/ timer_init_addHandler
      \/ label \in {"print", "assertEL1", "priorityMask", "distributor", "cpuInterface",
                    "pageAlloc_init", "vm_mapAllocating", "kalloc_init", "interrupts_enable", "control", "preDiv"}
  BY DEF Next, MainStep, IrqStep, Boot, PrintByte, print, AssertExceptionLevel,
         interrupts_init, main_pageAlloc_init, vm_mapAllocating, kalloc_init,
         main_interrupts_enable, timer_init_registers,
         SaveRegisters, CallHandler, AcknowledgeIrq, DispatchIrq,
         HandlerPrintByte, timer_handleIRQ, EndIrq, RestoreRegisters, ReturnFromIrq,
         MissingHandler, SpuriousDispatch, Interrupt, SampleLines, TimerExpires,
         UartTransmits, Halted, IrqFails, Untimed, Irq, Hardware, Asserts, At, Main, vars
<1>2. /\ uart_init =>
           label \in {"uart_disable", "uart_format", "pin14", "pin15", "uart_enable"}
      /\ exceptions_init => label = "exceptions_init"
      /\ vm_enable => label = "vm_enable"
      /\ timer_init_enable => label \in {"enableInGic", "targetCpu0", "enableInArmc"}
      /\ timer_init_addHandler => label = "addHandler"
  BY DEF uart_init, exceptions_init, vm_enable, timer_init_enable, timer_init_addHandler,
         Main, At
<1>3. mainPc \in 1 .. Len(MainOrder)
  BY DEF TypeOK
<1> HIDE DEF label
<1>4. /\ mainPc \in 1 .. 5 =>
           label \in {"uart_disable", "uart_format", "pin14", "pin15", "uart_enable"}
      /\ mainPc = 8 => label = "exceptions_init"
      /\ mainPc = 18 => label = "vm_enable"
      /\ mainPc = 26 => label = "enableInGic"
      /\ mainPc = 29 => label = "addHandler"
  BY <1>3, PlaceInMain DEF label
<1> QED
  BY <1>1, <1>2, <1>4

(* How far main() is, as a number.                                         *)
LEMMA ReachedNow ==
  ASSUME TypeOK
  PROVE  /\ Reached("uart_disable") <=> mainPc > 1
         /\ Reached("uart_format") <=> mainPc > 2
         /\ Reached("pin14") <=> mainPc > 3
         /\ Reached("pin15") <=> mainPc > 4
         /\ Reached("uart_enable") <=> mainPc > 5
         /\ Reached("exceptions_init") <=> mainPc > 8
         /\ Reached("vm_enable") <=> mainPc > 18
         /\ Reached("interrupts_enable") <=> mainPc > 22
         /\ Reached("enableInGic") <=> mainPc > 26
         /\ Reached("addHandler") <=> mainPc > 29
  BY ReachedIs DEF TypeOK, Reached

(* After the step, too, Reached() is a matter of the place in main().      *)
LEMMA ReachedNext ==
  ASSUME TypeOK'
  PROVE  /\ Reached("uart_disable")' <=> mainPc' > 1
         /\ Reached("uart_format")' <=> mainPc' > 2
         /\ Reached("pin14")' <=> mainPc' > 3
         /\ Reached("pin15")' <=> mainPc' > 4
         /\ Reached("uart_enable")' <=> mainPc' > 5
         /\ Reached("exceptions_init")' <=> mainPc' > 8
         /\ Reached("vm_enable")' <=> mainPc' > 18
         /\ Reached("interrupts_enable")' <=> mainPc' > 22
         /\ Reached("enableInGic")' <=> mainPc' > 26
         /\ Reached("addHandler")' <=> mainPc' > 29
  BY ReachedIs DEF TypeOK, Reached

(* boot.s comes to main() at EL1, and vm_init() turns the MMU on.          *)
LEMMA BootSetsUpStep ==
  ASSUME TypeOK, TypeOK', BootSetsUp, [Next]_vars
  PROVE  BootSetsUp'
<1> USE DEF BootSetsUp
<1>1. /\ Reached("vm_enable") <=> mainPc > 18
      /\ Reached("vm_enable")' <=> mainPc' > 18
  BY ReachedNow, ReachedNext
<1>2. CASE Boot
  <2>1. UNCHANGED mainPc
    BY <1>2 DEF Boot
  <2>2. /\ el \in 1 .. 3
        /\ mainPc = 1 => ~Reached("vm_enable")'
    BY <1>1, <2>1 DEF TypeOK, BootTypeOK
  <2>3. UNCHANGED mmuKept
    BY <1>2
       DEF Boot, BootStep, set_el, el3_entry, el2_entry, Eret, el1_entry, ClearWord, CallMain,
           BootUnchanged
  <2>4. CASE set_el
    BY <2>1, <2>2, <2>3, <2>4 DEF set_el
  <2>5. CASE el3_entry
    BY <2>1, <2>3, <2>5 DEF el3_entry, Eret
  <2>6. CASE el2_entry
    BY <2>1, <2>3, <2>6 DEF el2_entry, Eret
  <2>7. CASE el1_entry \/ ClearWord
    BY <2>1, <2>3, <2>7 DEF el1_entry, ClearWord
  <2>8. CASE CallMain
    BY <2>1, <2>2, <2>3, <2>8 DEF CallMain
  <2> QED
    BY <1>2, <2>4, <2>5, <2>6, <2>7, <2>8 DEF Boot, BootStep
<1>3. CASE vm_enable
  <2>1. mainPc = 18
    BY <1>3, PlaceInMain DEF vm_enable, Main, At, TypeOK
  <2> QED
    BY <1>1, <1>3, <2>1 DEF vm_enable, Main, At
<1>4. CASE UNCHANGED bootVars /\ ~vm_enable
  <2>1. mainPc # 18 \/ mainPc' = mainPc
    BY <1>4, StepOfMain
  <2> QED
    BY <1>1, <1>4, <2>1, MainGoesOn DEF bootVars, TypeOK
<1> QED
  BY <1>2, <1>3, <1>4, BootWriters

(* The loop of boot.s clears the handlers; main() adds none before its     *)
(* call of interrupts_addHandler().                                        *)
LEMMA HandlersClearedStep ==
  ASSUME TypeOK, TypeOK', BootSetsUp, HandlersCleared, [Next]_vars
  PROVE  HandlersCleared'
<1> USE DEF HandlersCleared
<1>1. /\ Reached("addHandler") <=> mainPc > 29
      /\ Reached("addHandler")' <=> mainPc' > 29
  BY ReachedNow, ReachedNext
<1>2. CASE Boot
  <2>1. \A id \in Id : WordOf(id) \in Nat /\ WordOf(id) < BssSize \div 8
    BY BootAssumption, InterruptsAssumption DEF Id, WordOf
  <2>2. x1 \in Nat /\ w2 \in Nat
    BY DEF TypeOK, BootTypeOK
  <2>3. CASE el1_entry
    BY <2>1, <2>3, BootAssumption DEF el1_entry, Id, WordOf
  <2>4. CASE ClearWord
    BY <2>1, <2>2, <2>4 DEF ClearWord
  <2>5. CASE CallMain
    BY <2>1, <2>2, <2>5, BootAssumption DEF CallMain
  <2>6. CASE set_el \/ el3_entry \/ el2_entry
    <3>1. bootPc' \in {"el1_entry", "el2_entry", "el3_entry"}
      BY <2>6 DEF TypeOK, BootTypeOK, set_el, el3_entry, el2_entry, Eret
    <3> QED
      BY <3>1
  <2> QED
    BY <1>2, <2>3, <2>4, <2>5, <2>6 DEF Boot, BootStep
<1>3. CASE timer_init_addHandler
  <2>1. mainPc = 29 /\ bootPc = "main" /\ UNCHANGED bootPc
    BY <1>3, PlaceInMain DEF timer_init_addHandler, At, TypeOK
  <2>2. ~HandlerPresent(TimerArmcId)
    BY <1>1, <2>1, KernelAssumption DEF HandlerPresent, Id
  <2>3. mainPc' = 30
    BY <1>3, <2>1, <2>2 DEF timer_init_addHandler, Asserts, HandlerPresent
  <2> QED
    BY <1>1, <2>1, <2>3
<1>4. CASE UNCHANGED interruptHandlers /\ ~Boot
  <2>1. UNCHANGED <<bootPc, x1, w2>>
    BY <1>4, BootWriters DEF bootVars, vm_enable, Main, At
  <2> QED
    BY <1>1, <1>4, <2>1, MainGoesOn DEF TypeOK
<1> QED
  BY <1>2, <1>3, <1>4, HandlersWriters

(* So the assertions hold when they are reached.                           *)
LEMMA AssertionsHoldStep ==
  ASSUME TypeOK, BootSetsUp, HandlersCleared, AssertionsHold, [Next]_vars
  PROVE  AssertionsHold'
<1> USE DEF AssertionsHold
<1>0. UNCHANGED mmuKept
  BY BootWriters
     DEF bootVars, Boot, BootStep, set_el, el3_entry, el2_entry, Eret, el1_entry, ClearWord,
         CallMain, BootUnchanged, vm_enable, Main, At
<1>1. CASE AssertExceptionLevel
  BY <1>1 DEF AssertExceptionLevel, At, Thread, Asserts, BootSetsUp
<1>4. CASE vm_mapAllocating
  <2>1. mainPc = 16
    BY <1>4, PlaceInMain DEF vm_mapAllocating, At, TypeOK
  <2> QED
    BY <1>0, <1>4, <2>1, ReachedNow DEF vm_mapAllocating, At, Thread, Asserts, BootSetsUp
<1>2. CASE kalloc_init
  <2>1. mainPc = 20
    BY <1>2, PlaceInMain DEF kalloc_init, At, TypeOK
  <2> QED
    BY <1>2, <2>1, ReachedNow DEF kalloc_init, At, Thread, Asserts, BootSetsUp
<1>3. CASE timer_init_addHandler
  <2>1. mainPc = 29
    BY <1>3, PlaceInMain DEF timer_init_addHandler, At, TypeOK
  <2> QED
    BY <1>3, <2>1, ReachedNow, KernelAssumption
       DEF timer_init_addHandler, At, Thread, Asserts, HandlersCleared, HandlerPresent, Id
<1> QED
  BY <1>0, <1>1, <1>2, <1>3, <1>4, PanicWriters DEF MissingHandler, SpuriousDispatch, IrqFails

(* No interrupt can be taken before one is enabled.                        *)
LEMMA QuietBeforeEnableStep ==
  ASSUME TypeOK, TypeOK', QuietBeforeEnable, [Next]_vars
  PROVE  QuietBeforeEnable'
<1> USE DEF QuietBeforeEnable
<1>1. /\ Reached("enableInGic") <=> mainPc > 26
      /\ Reached("enableInGic")' <=> mainPc' > 26
      /\ Reached("exceptions_init") <=> mainPc > 8
      /\ Reached("exceptions_init")' <=> mainPc' > 8
  BY ReachedNow, ReachedNext
<1>2. mainPc \in Nat /\ (mainPc' = mainPc \/ mainPc' = mainPc + 1)
  BY MainGoesOn DEF TypeOK
<1>3. CASE mainPc' > 26
  <2>1. vectorBase = "exceptionVector"
    BY <1>1, <1>2, <1>3
  <2> QED
    BY <1>1, <1>3, <2>1, VectorWriters DEF exceptions_init
<1>4. CASE ~(mainPc' > 26)
  <2>1. enabled = {} /\ irqPc = "none"
    BY <1>1, <1>2, <1>4
  <2>2. irqPc' = "none"
    <3>1. ~Interrupt
      BY <2>1 DEF Interrupt, Irq, TakeIrq, Signalled, Pending
    <3> QED
      BY <2>1, <3>1, IrqWriters
         DEF handlerVars, CallHandler, AcknowledgeIrq, Untimed, Irq, CallHandleIRQ, Goto,
             Acknowledge, DispatchIrq, Dispatch, timer_handleIRQ, Handled, EndIrq,
             ClearPending, EndOfInterrupt, Deactivate, ReturnFromIrq, ExceptionReturn
  <2>3. enabled' = {}
    <3>1. ~(Main("enableInGic") /\ EnableInGic(TimerArmcId))
      BY <1>4, PlaceInMain DEF TypeOK, Main, At
    <3> QED
      BY <2>1, <3>1, GicWriters
         DEF gicVars, interrupts_init, TurnOn, timer_init_enable, TargetCpu0, EnableInArmc,
             SampleLines, Hardware, Sample, AcknowledgeIrq, Untimed, Irq, Acknowledge,
             EndIrq, ClearPending, EndOfInterrupt, Deactivate, Goto
  <2>4. mainPc' > 8 => vectorBase' = "exceptionVector"
    <3>1. mainPc > 8 => vectorBase' = "exceptionVector"
      BY <1>1, VectorWriters DEF exceptions_init
    <3>2. CASE mainPc = 8 /\ mainPc' # mainPc
      BY <3>2, StepOfMain DEF exceptions_init
    <3> QED
      BY <1>2, <3>1, <3>2
  <2> QED
    BY <1>1, <2>2, <2>3, <2>4
<1> QED
  BY <1>3, <1>4

(* The handling of an interrupt ends it.                                   *)
LEMMA OneActiveStep ==
  ASSUME TypeOK, OneActive, [Next]_vars
  PROVE  OneActive'
<1> USE DEF OneActive
<1>1. CASE UNCHANGED <<active, irqPc, interruptId>>
  BY <1>1
<1>2. CASE CallHandler
  BY <1>2 DEF CallHandler, Untimed, Irq, CallHandleIRQ, Goto
<1>3. CASE AcknowledgeIrq
  <2>1. active = {}
    BY <1>3 DEF AcknowledgeIrq, Untimed, Irq, Acknowledge
  <2> QED
    BY <1>3, <2>1 DEF AcknowledgeIrq, Untimed, Irq, Acknowledge
<1>4. CASE DispatchIrq
  BY <1>4 DEF DispatchIrq, Untimed, Irq, Dispatch, gicVars
<1>5. CASE timer_handleIRQ
  BY <1>5 DEF timer_handleIRQ, Irq, Handled, Goto
<1>6. CASE EndIrq
  BY <1>6 DEF EndIrq, Untimed, Irq, ClearPending, EndOfInterrupt, Deactivate, Goto
<1>7. CASE ReturnFromIrq
  BY <1>7 DEF ReturnFromIrq, Untimed, Irq, ExceptionReturn, gicVars
<1>8. CASE Interrupt
  BY <1>8 DEF Interrupt, Irq, TakeIrq, gicVars
<1>9. CASE UNCHANGED handlerVars
  <2>1. UNCHANGED active \/ AcknowledgeIrq \/ EndIrq
    BY GicWriters
       DEF gicVars, interrupts_init, TurnOn, timer_init_enable, EnableInGic, TargetCpu0,
           EnableInArmc, SampleLines, Hardware, Sample
  <2> QED
    BY <1>1, <1>3, <1>6, <1>9, <2>1 DEF handlerVars
<1> QED
  BY <1>2, <1>3, <1>4, <1>5, <1>6, <1>7, <1>8, <1>9, IrqWriters

(* What is left of the stack when its top is taken.                        *)
LEMMA PrefixOfSeq ==
  ASSUME NEW S, NEW s \in Seq(S), NEW n \in 0 .. Len(s)
  PROVE  /\ Len(SubSeq(s, 1, n)) = n
         /\ \A i \in 1 .. n : SubSeq(s, 1, n)[i] = s[i]
  OBVIOUS

(* The frame of irq_handler has three pairs, and what the stack may hold.  *)
LEMMA EntryTypes ==
  ASSUME EntryTypeOK
  PROVE  /\ Len(Frame) = 3 /\ Frame[1] = "x0_x1" /\ Frame[2] = "x2_x3" /\ Frame[3] = "lr"
         /\ reg \in [Group -> Group \cup {"other"}]
         /\ stack \in Seq(Group \cup {"other"}) /\ Len(stack) \in 0 .. 3
<1>1. Len(Frame) = 3 /\ Frame[1] = "x0_x1" /\ Frame[2] = "x2_x3" /\ Frame[3] = "lr"
  BY DEF Frame
<1>2. Len(stack) \in 0 .. 3
  <2>1. Len(stack) \in Nat
    BY LenProperties DEF EntryTypeOK
  <2>2. PICK n \in Nat : n = Len(stack)
    BY <2>1, Zenon
  <2>3. n <= 3
    BY <1>1, <2>2 DEF EntryTypeOK
  <2>4. n \in 0 .. 3
    BY <2>3
  <2> QED
    BY <2>2, <2>4, Zenon
<1>3. reg \in [Group -> Group \cup {"other"}] /\ stack \in Seq(Group \cup {"other"})
  BY DEF EntryTypeOK
<1> QED
  BY <1>1, <1>2, <1>3, Zenon

(* irq_handler saves before it overwrites, and restores what it saved.     *)
LEMMA FrameIsKeptStep ==
  ASSUME TypeOK, FrameIsKept, [Next]_vars
  PROVE  FrameIsKept'
<1> USE DEF FrameIsKept
<1>1. /\ Len(Frame) = 3 /\ Frame[1] = "x0_x1" /\ Frame[2] = "x2_x3" /\ Frame[3] = "lr"
      /\ reg \in [Group -> Group \cup {"other"}]
      /\ stack \in Seq(Group \cup {"other"}) /\ Len(stack) \in 0 .. 3
  BY EntryTypes DEF TypeOK
<1>2. CASE SaveRegisters
  <2>1. irqPc = "save" /\ UNCHANGED irqPc
    BY <1>2 DEF SaveRegisters, Untimed, Irq, Saving, interruptsVars, handlerVars
  <2>2. Len(stack) < 3 /\ stack' = Append(stack, reg[Frame[Len(stack) + 1]]) /\ reg' = Untouched
    BY <1>1, <1>2, <2>1 DEF SaveRegisters, Untimed, Irq, Push
  <2>3. reg[Frame[Len(stack) + 1]] = Frame[Len(stack) + 1]
    BY <1>1, <2>1, <2>2 DEF Untouched, Group
  <2>4. Len(stack') = Len(stack) + 1 /\ \A i \in 1 .. Len(stack') : stack'[i] = Frame[i]
    BY <1>1, <2>2, <2>3
  <2> QED
    BY <1>1, <2>1, <2>2, <2>4 DEF Untouched
<1>3. CASE CallHandler
  <2>1. irqPc = "save" /\ irqPc' = "acknowledge" /\ Len(stack) = 3 /\ UNCHANGED stack
    BY <1>1, <1>3 DEF CallHandler, Untimed, Irq, CallHandleIRQ, Goto, CallC
  <2>2. reg'["x19_x29"] = "x19_x29"
    BY <1>3 DEF CallHandler, Untimed, Irq, CallC, CallerSaved, Group
  <2> QED
    BY <1>1, <2>1, <2>2
<1>4. CASE RestoreRegisters
  <2>1. irqPc = "restore" /\ UNCHANGED irqPc
    BY <1>4 DEF RestoreRegisters, Untimed, Irq, Restoring, interruptsVars, handlerVars
  <2>2. /\ Len(stack) > 0 /\ stack' = SubSeq(stack, 1, Len(stack) - 1)
        /\ reg' = [reg EXCEPT ![Frame[Len(stack)]] = Frame[Len(stack)]]
    <3>1. /\ Len(stack) > 0 /\ stack' = SubSeq(stack, 1, Len(stack) - 1)
          /\ reg' = [reg EXCEPT ![Frame[Len(stack)]] = stack[Len(stack)]]
      BY <1>4 DEF RestoreRegisters, Untimed, Irq, Pop
    <3>2. Len(stack) \in 1 .. Len(stack)
      BY <1>1, <3>1
    <3> QED
      BY <3>1, <3>2
  <2>3. Len(stack') = Len(stack) - 1 /\ \A i \in 1 .. Len(stack') : stack'[i] = Frame[i]
    <3> DEFINE n == Len(stack) - 1
    <3>1. n \in 0 .. Len(stack)
      BY <1>1, <2>2
    <3>2. stack' = SubSeq(stack, 1, n)
      BY <2>2
    <3> HIDE DEF n
    <3>3. Len(stack') = n /\ \A i \in 1 .. n : stack'[i] = stack[i]
      BY <1>1, <3>1, <3>2, PrefixOfSeq, Zenon
    <3>4. \A i \in 1 .. n : stack[i] = Frame[i]
      BY <1>1, <3>1 DEF n
    <3> QED
      BY <3>3, <3>4 DEF n
  <2>4. \A i \in Len(stack') + 1 .. 3 : reg'[Frame[i]] = Frame[i]
    BY <1>1, <2>1, <2>2, <2>3 DEF Group
  <2>5. reg'["x19_x29"] = "x19_x29"
    BY <1>1, <2>2
  <2> QED
    BY <1>1, <2>1, <2>3, <2>4, <2>5
<1>5. CASE Interrupt
  BY <1>1, <1>5 DEF Interrupt, Irq, TakeIrq, Enter, Untouched, Group
<1>6. CASE UNCHANGED entryVars
  <2>1. UNCHANGED <<reg, stack>>
    BY <1>6 DEF entryVars
  <2>2. CASE UNCHANGED irqPc
    BY <2>1, <2>2
  <2>3. CASE AcknowledgeIrq \/ DispatchIrq \/ timer_handleIRQ \/ EndIrq
    <3>1. /\ irqPc \in {"acknowledge", "dispatch", "handler", "clearPending", "end", "deactivate"}
          /\ irqPc' \in {"dispatch", "handler", "clearPending", "end", "deactivate", "restore"}
      BY <2>3
         DEF AcknowledgeIrq, Acknowledge, DispatchIrq, Dispatch, timer_handleIRQ, Handled,
             EndIrq, ClearPending, EndOfInterrupt, Deactivate, Goto, Untimed, Irq
    <3>2. Len(stack) = 3
      BY <1>1, <3>1
    <3> QED
      BY <1>1, <2>1, <3>1, <3>2
  <2>4. CASE ReturnFromIrq
    BY <1>1, <2>1, <2>4 DEF ReturnFromIrq, AllPopped, Untimed, Irq, ExceptionReturn
  <2> QED
    BY <1>3, <1>5, <2>2, <2>3, <2>4, IrqWriters DEF handlerVars
<1> QED
  BY <1>2, <1>3, <1>4, <1>5, <1>6, EntryWriters

(* uart_init() writes each register once.                                  *)
LEMMA UartIsSetStep ==
  ASSUME TypeOK, TypeOK', UartIsSet, [Next]_vars
  PROVE  UartIsSet'
<1>1. /\ Reached("uart_disable") <=> mainPc > 1
      /\ Reached("uart_disable")' <=> mainPc' > 1
      /\ Reached("uart_format") <=> mainPc > 2
      /\ Reached("uart_format")' <=> mainPc' > 2
      /\ Reached("uart_enable") <=> mainPc > 5
      /\ Reached("uart_enable")' <=> mainPc' > 5
  BY ReachedNow, ReachedNext
<1>2. AUX_MU_BAUD(115200) = 541
  BY DEF AUX_MU_BAUD
<1>3. uart \in [UartReg -> Nat] /\ mainPc \in 1 .. Len(MainOrder)
  BY DEF TypeOK, UartTypeOK
<1>4. CASE uart_init
  <2>1. CASE Main("uart_disable") /\ uart_init_disable
    <3>1. mainPc = 1 /\ mainPc' = 2
      BY <1>3, <2>1, PlaceInMain DEF Main, At
    <3> QED
      BY <1>1, <1>3, <2>1, <3>1 DEF UartIsSet, uart_init_disable, UartReg
  <2>2. CASE Main("uart_format") /\ uart_init_format
    <3>1. mainPc = 2 /\ mainPc' = 3
      BY <1>3, <2>2, PlaceInMain DEF Main, At
    <3> QED
      BY <1>1, <1>2, <1>3, <2>2, <3>1 DEF UartIsSet, uart_init_format, UartReg
  <2>3. CASE Main("uart_enable") /\ uart_init_enable
    <3>1. mainPc = 5 /\ mainPc' = 6
      BY <1>3, <2>3, PlaceInMain DEF Main, At
    <3> QED
      BY <1>1, <1>3, <2>3, <3>1 DEF UartIsSet, uart_init_enable, UartReg
  <2>4. CASE (Main("pin14") \/ Main("pin15")) /\ UNCHANGED uartVars
    <3>1. mainPc \in {3, 4} /\ mainPc' = mainPc + 1
      BY <1>3, <2>4, PlaceInMain DEF Main, At
    <3> QED
      BY <1>1, <2>4, <3>1 DEF UartIsSet, uartVars
  <2> QED
    BY <1>4, <2>1, <2>2, <2>3, <2>4 DEF uart_init
<1>5. CASE ~uart_init
  <2>1. UNCHANGED uart
    BY <1>5, UartWriters
       DEF uartVars, PrintByte, print, HandlerPrintByte, timer_handleIRQ, FindRoom,
           WriteByte, PrintReturns, UartTransmits, Hardware, Transmit
  <2>2. mainPc \in 1 .. 5 => mainPc' = mainPc
    BY <1>5, StepOfMain
  <2> QED
    BY <1>1, <1>3, <2>1, <2>2, MainGoesOn DEF UartIsSet
<1> QED
  BY <1>4, <1>5

(* The pins are written at two places of main(), and nowhere else.         *)
LEMMA GpioWritten ==
  ASSUME TypeOK, [Next]_vars
  PROVE  \/ /\ mainPc = 3 /\ mainPc' = 4
            /\ gpio' = gpio_useAsAlt5(gpio, 14)
         \/ /\ mainPc = 4 /\ mainPc' = 5
            /\ gpio' = gpio_useAsAlt5(gpio, 15)
         \/ UNCHANGED gpio /\ (mainPc \in {3, 4} => mainPc' = mainPc)
<1>1. mainPc \in 1 .. Len(MainOrder)
  BY DEF TypeOK
<1>2. CASE uart_init
  <2>1. /\ Main("pin14") => mainPc = 3 /\ mainPc' = 4
        /\ Main("pin15") => mainPc = 4 /\ mainPc' = 5
        /\ Main("uart_disable") \/ Main("uart_format") \/ Main("uart_enable")
             => mainPc \in {1, 2, 5}
    BY <1>1, PlaceInMain DEF Main, At
  <2> QED
    BY <1>2, <2>1 DEF uart_init
<1>3. CASE ~uart_init
  BY <1>1, <1>3, GpioWriters, StepOfMain, MainOrderLength
<1> QED
  BY <1>2, <1>3

(* Setting up pin 15 must not undo pin 14, with which it shares registers. *)
LEMMA PinsAreSetStep ==
  ASSUME TypeOK, TypeOK', PinsAreSet, [Next]_vars
  PROVE  PinsAreSet'
<1>1. /\ Reached("pin14") <=> mainPc > 3
      /\ Reached("pin14")' <=> mainPc' > 3
      /\ Reached("pin15") <=> mainPc > 4
      /\ Reached("pin15")' <=> mainPc' > 4
  BY ReachedNow, ReachedNext
<1>2. /\ gpio \in [GpioReg -> SUBSET Bit] /\ mainPc \in 1 .. Len(MainOrder)
      /\ 14 \in Pin /\ 15 \in Pin
  BY DEF TypeOK, Pin, GPIO_MAX_PIN
<1>3. CASE mainPc = 3 /\ mainPc' = 4 /\ gpio' = gpio_useAsAlt5(gpio, 14)
  <2>1. PinIsSet(14)'
    BY <1>2, <1>3, GpioUseAsAlt5 DEF PinIsSet
  <2> QED
    BY <1>1, <1>3, <2>1 DEF PinsAreSet
<1>4. CASE mainPc = 4 /\ mainPc' = 5 /\ gpio' = gpio_useAsAlt5(gpio, 15)
  <2>1. PinIsSet(15)'
    BY <1>2, <1>4, GpioUseAsAlt5 DEF PinIsSet
  <2>2. PinIsSet(14)'
    <3>1. PinIsSet(14) /\ 14 \in Pin \ {15}
      BY <1>1, <1>2, <1>4 DEF PinsAreSet
    <3> QED
      BY <1>2, <1>4, <3>1, GpioUseAsAlt5 DEF PinIsSet
  <2> QED
    BY <1>1, <1>4, <2>1, <2>2 DEF PinsAreSet
<1>5. CASE UNCHANGED gpio /\ (mainPc \in {3, 4} => mainPc' = mainPc)
  <2>1. (PinIsSet(14) => PinIsSet(14)') /\ (PinIsSet(15) => PinIsSet(15)')
    BY <1>5 DEF PinIsSet, PinFunction, PinPull
  <2> QED
    BY <1>1, <1>2, <1>5, <2>1, MainGoesOn DEF PinsAreSet
<1> QED
  BY <1>3, <1>4, <1>5, GpioWritten

(* Nobody prints before the UART is enabled: main() is not there yet, and  *)
(* the handler does not run.                                               *)
LEMMA QuietConsoleStep ==
  ASSUME TypeOK, TypeOK', QuietBeforeEnable, QuietConsole, [Next]_vars
  PROVE  QuietConsole'
<1>1. /\ Reached("uart_enable") <=> mainPc > 5
      /\ Reached("uart_enable")' <=> mainPc' > 5
      /\ Reached("enableInGic") <=> mainPc > 26
  BY ReachedNow, ReachedNext
<1>2. mainPc \in 1 .. Len(MainOrder) /\ (mainPc' = mainPc \/ mainPc' = mainPc + 1)
  BY MainGoesOn DEF TypeOK
<1> SUFFICES ASSUME mainPc' <= 5 PROVE \A c \in Context : sent'[c] = 0 /\ ~roomSeen'[c]
  BY <1>1, MainGoesOn, MainOrderLength DEF QuietConsole
<1>3. mainPc <= 5 /\ irqPc = "none" /\ \A c \in Context : sent[c] = 0 /\ ~roomSeen[c]
  BY <1>1, <1>2 DEF QuietBeforeEnable, QuietConsole
<1>4. MainOrder[mainPc] # "print"
  BY <1>2, <1>3 DEF MainOrder
<1>5. UNCHANGED uartVars \/ uart_init \/ UartTransmits
  BY <1>3, <1>4, UartWriters
     DEF PrintByte, print, Main, At, HandlerPrintByte, Irq, InHandler, timer_handleIRQ,
         Handled, Goto
<1>6. UNCHANGED <<sent, roomSeen>>
  BY <1>5
     DEF uartVars, transmitVars, uart_init, uart_init_disable, uart_init_format,
         uart_init_enable, UartTransmits, Hardware, Transmit
<1> QED
  BY <1>3, <1>6

(* A message ends after its last byte.                                     *)
LEMMA ByteIsDueStep ==
  ASSUME TypeOK, ByteIsDue, [Next]_vars
  PROVE  ByteIsDue'
<1> USE DEF ByteIsDue
<1>1. /\ sent \in [Context -> 0 .. MessageLength] /\ roomSeen \in [Context -> BOOLEAN]
  BY DEF TypeOK, UartTypeOK
<1>2. CASE UNCHANGED <<sent, roomSeen>>
  BY <1>2
<1>3. ASSUME NEW c \in Context, FindRoom(c) PROVE ByteIsDue'
  BY <1>1, <1>3 DEF FindRoom
<1>4. ASSUME NEW c \in Context, WriteByte(c) PROVE ByteIsDue'
  BY <1>1, <1>4 DEF WriteByte
<1>5. ASSUME NEW c \in Context, PrintReturns(c) PROVE ByteIsDue'
  BY <1>1, <1>5, UartAssumption DEF PrintReturns
<1>6. uart_init_disable \/ uart_init_format \/ uart_init_enable \/ Transmit \/ UNCHANGED uartVars
        => UNCHANGED <<sent, roomSeen>>
  BY DEF uart_init_disable, uart_init_format, uart_init_enable, Transmit, uartVars, transmitVars
<1> QED
  BY <1>2, <1>3, <1>4, <1>5, <1>6, UartOperations

(* The handler's check and its write have nothing but the transmitter in   *)
(* between; those of main() may have the handler, and then interrupted.    *)
LEMMA RoomIsThereStep ==
  ASSUME TypeOK, ByteIsDue, RoomIsThere, [Next]_vars
  PROVE  RoomIsThere'
<1> USE DEF RoomIsThere
<1>1. /\ txFifo \in 0 .. FifoDepth /\ FifoDepth \in Nat \ {0}
      /\ sent \in [Context -> 0 .. MessageLength] /\ roomSeen \in [Context -> BOOLEAN]
      /\ "main" \in Context /\ "irq" \in Context /\ \A c \in Context : c \in {"main", "irq"}
  BY UartAssumption DEF TypeOK, UartTypeOK, Context
<1>2. interrupted \in BOOLEAN
  BY DEF TypeOK
<1>3. CASE Interrupt
  <2>1. /\ irqPc = "none" /\ interrupted' = TRUE /\ UNCHANGED <<txFifo, roomSeen>>
    BY <1>3 DEF Interrupt, Irq, TakeIrq, uartVars, transmitVars
  <2> QED
    BY <1>1, <2>1
<1>4. CASE PrintByte
  <2>1. irqPc = "none" /\ UNCHANGED irqPc
    BY <1>4 DEF PrintByte, At, Thread, interruptsVars, handlerVars
  <2>2. CASE FindRoom("main")
    BY <1>1, <2>1, <2>2 DEF FindRoom, uart_isWriteByteReady
  <2>3. CASE WriteByte("main")
    <3>1. roomSeen' = [roomSeen EXCEPT !["main"] = FALSE]
      BY <2>3 DEF WriteByte
    <3>2. \A c \in Context : ~roomSeen'[c]
      BY <1>1, <2>1, <3>1
    <3> QED
      BY <1>1, <2>1, <3>2
  <2> QED
    BY <1>4, <2>2, <2>3 DEF PrintByte
<1>5. CASE HandlerPrintByte
  <2>1. irqPc = "handler" /\ UNCHANGED <<irqPc, interrupted>>
    BY <1>5 DEF HandlerPrintByte, Irq, InHandler, interruptsVars, handlerVars
  <2>2. CASE FindRoom("irq")
    BY <1>1, <2>1, <2>2 DEF FindRoom, uart_isWriteByteReady
  <2>3. CASE WriteByte("irq")
    BY <1>1, <2>1, <2>3 DEF WriteByte
  <2> QED
    BY <1>5, <2>2, <2>3 DEF HandlerPrintByte
<1>6. CASE timer_handleIRQ
  <2>1. /\ irqPc = "handler" /\ irqPc' = "clearPending" /\ sent["irq"] = MessageLength
        /\ UNCHANGED <<txFifo, roomSeen, interrupted>>
    BY <1>6 DEF timer_handleIRQ, Irq, Handled, Goto, PrintReturns
  <2>2. ~roomSeen["irq"]
    BY <1>1, <2>1, UartAssumption DEF ByteIsDue
  <2> QED
    BY <1>1, <2>1, <2>2
<1>7. CASE UNCHANGED interrupted /\ ~PrintByte /\ ~HandlerPrintByte /\ ~timer_handleIRQ /\ ~Interrupt
  <2>1. /\ irqPc' # "none" => irqPc # "none"
        /\ irqPc = "handler" => irqPc' = "handler"
    BY <1>7, IrqWriters
       DEF handlerVars, CallHandler, CallHandleIRQ, AcknowledgeIrq, Acknowledge, DispatchIrq,
           Dispatch, EndIrq, ClearPending, EndOfInterrupt, Deactivate, Goto, Untimed, Irq,
           ReturnFromIrq, ExceptionReturn
  <2>2. UNCHANGED roomSeen /\ (txFifo' = txFifo \/ txFifo' < FifoDepth)
    BY <1>1, <1>7, UartWriters
       DEF uartVars, transmitVars, uart_init, uart_init_disable, uart_init_format,
           uart_init_enable, UartTransmits, Hardware, Transmit, print, PrintReturns
  <2> QED
    BY <1>1, <1>7, <2>1, <2>2
<1> QED
  BY <1>3, <1>4, <1>5, <1>6, <1>7, InterruptedWriters

-----------------------------------------------------------------------------

(* The invariant holds initially.                                          *)
LEMMA InitIInv == Init => IInv
<1> SUFFICES ASSUME Init PROVE IInv
  OBVIOUS
<1>1. TypeOK
  BY TypeInit
<1>2. mainPc = 1 /\ bootPc = "set_el" /\ irqPc = "none"
  BY DEF Init, BootInit, InterruptsInit
<1>3. /\ ~Reached("uart_disable") /\ ~Reached("uart_format") /\ ~Reached("uart_enable")
      /\ ~Reached("pin14") /\ ~Reached("pin15") /\ ~Reached("exceptions_init")
  BY <1>1, <1>2, ReachedNow
<1>4. BootSetsUp /\ HandlersCleared
  BY <1>2 DEF Init, BootInit, BootSetsUp, HandlersCleared
<1>5. AssertionsHold /\ QuietBeforeEnable /\ OneActive
  BY <1>2, <1>3 DEF Init, InterruptsInit, AssertionsHold, QuietBeforeEnable, OneActive
<1>6. FrameIsKept
  BY <1>2 DEF Init, EntryInit, Untouched, Group, Frame, FrameIsKept
<1>7. UartIsSet /\ PinsAreSet
  BY <1>3 DEF UartIsSet, PinsAreSet
<1>8. QuietConsole /\ ByteIsDue /\ RoomIsThere
  BY <1>2 DEF Init, UartInit, QuietConsole, ByteIsDue, RoomIsThere, Context
<1> QED
  BY <1>1, <1>4, <1>5, <1>6, <1>7, <1>8 DEF IInv

(* Every step of main(), the handler and the hardware keeps the invariant. *)
LEMMA StepKeepsIInv == IInv /\ [Next]_vars => IInv'
<1> SUFFICES ASSUME IInv, [Next]_vars PROVE IInv'
  OBVIOUS
<1> USE DEF IInv
<1>1. TypeOK'
  BY TypeStep
<1>2. BootSetsUp' /\ HandlersCleared' /\ AssertionsHold'
  BY <1>1, BootSetsUpStep, HandlersClearedStep, AssertionsHoldStep
<1>3. QuietBeforeEnable' /\ OneActive' /\ FrameIsKept'
  BY <1>1, QuietBeforeEnableStep, OneActiveStep, FrameIsKeptStep
<1>4. UartIsSet' /\ PinsAreSet'
  BY <1>1, UartIsSetStep, PinsAreSetStep
<1>5. QuietConsole' /\ ByteIsDue' /\ RoomIsThere'
  BY <1>1, QuietConsoleStep, ByteIsDueStep, RoomIsThereStep
<1> QED
  BY <1>1, <1>2, <1>3, <1>4, <1>5

(* The invariant holds at every step of the kernel.                        *)
THEOREM KernelIInv == Spec => []IInv
  BY InitIInv, StepKeepsIInv, PTL DEF Spec

(* The registers, stacks, fifos and program counters of the kernel from    *)
(* boot.s to halt(), and in every interrupt, are well typed.               *)
THEOREM KernelTypeOK == Spec => []TypeOK
<1>1. IInv => TypeOK
  BY DEF IInv
<1> QED
  BY <1>1, KernelIInv, PTL

(* main() runs at EL1 with the handlers cleared and vm_init() finds the    *)
(* MMU off, whatever the firmware and the RAM were like: an assertion      *)
(* about it fails only if the firmware entered at EL1 with the MMU on.     *)
THEOREM KernelMainStartsClean == Spec => []MainStartsClean
<1>1. IInv => MainStartsClean
  <2> SUFFICES ASSUME IInv PROVE MainStartsClean
    OBVIOUS
  <2>1. (bootPc = "main" /\ ~Reached("addHandler"))
          => interruptHandlers = [id \in Id |-> NoHandler]
    BY DEF IInv, TypeOK, InterruptsTypeOK, HandlersCleared
  <2> QED
    BY <2>1 DEF IInv, BootSetsUp, AssertionsHold, MainStartsClean
<1> QED
  BY <1>1, KernelIInv, PTL

(* No IRQ is taken before interrupts_enable() and exceptions_init(),       *)
(* although IRQs are unmasked from boot.s on.                              *)
THEOREM KernelNoIrqBeforeEnable == Spec => []NoIrqBeforeEnable
<1>1. IInv => NoIrqBeforeEnable
  BY ReachedNow DEF IInv, QuietBeforeEnable, NoIrqBeforeEnable, TypeOK
<1> QED
  BY <1>1, KernelIInv, PTL

(* interrupts_handleIRQ() ends every interrupt it acknowledged.            *)
THEOREM KernelNothingLeftActive == Spec => []NothingLeftActive
<1>1. IInv => NothingLeftActive
  BY DEF IInv, OneActive, NothingLeftActive
<1> QED
  BY <1>1, KernelIInv, PTL

(* irq_handler gives back every register that it or C code saves.          *)
THEOREM KernelSavedRegistersComeBack == Spec => []SavedRegistersComeBack
<1>1. IInv => SavedRegistersComeBack
  <2> SUFFICES ASSUME IInv, irqPc = "none"
               PROVE  stack = <<>> /\ \A g \in Group \ {"x4_x18"} : reg[g] = g
    BY DEF SavedRegistersComeBack
  <2>1. stack = <<>> /\ Len(stack) = 0 /\ reg["x19_x29"] = "x19_x29"
    BY DEF IInv, FrameIsKept
  <2>2. \A i \in 1 .. 3 : reg[Frame[i]] = Frame[i]
    <3>1. \A i \in Len(stack) + 1 .. Len(Frame) : reg[Frame[i]] = Frame[i]
      BY DEF IInv, FrameIsKept
    <3>2. Len(Frame) = 3
      BY DEF Frame
    <3> QED
      BY <2>1, <3>1, <3>2
  <2>3. reg["x0_x1"] = "x0_x1" /\ reg["x2_x3"] = "x2_x3" /\ reg["lr"] = "lr"
    BY <2>2, EntryTypes DEF IInv, TypeOK
  <2> QED
    BY <2>1, <2>3 DEF Group
<1> QED
  BY <1>1, KernelIInv, PTL

(* Nothing is printed, by main() or by the handler, before the UART and    *)
(* its pins are set up.                                                    *)
THEOREM KernelConsoleReady == Spec => []ConsoleReady
<1>1. IInv => ConsoleReady
  <2> SUFFICES ASSUME IInv, NEW c \in Context, sent[c] > 0 \/ roomSeen[c]
               PROVE  /\ uart = [ENABLES |-> 1, IER |-> 0, CNTL |-> 3, LCR |-> 3,
                                 MCR |-> 0, BAUD |-> 541]
                      /\ \A pin \in {14, 15} : PinIsSet(pin)
    BY DEF ConsoleReady, PinIsSet
  <2>1. mainPc > 5
    <3>1. Reached("uart_enable")
      BY DEF IInv, QuietConsole
    <3> QED
      BY <3>1, ReachedNow DEF IInv
  <2>2. /\ Reached("uart_disable") /\ Reached("uart_format") /\ Reached("uart_enable")
        /\ Reached("pin14") /\ Reached("pin15")
    BY <2>1, ReachedNow DEF IInv, TypeOK
  <2>3. \A pin \in {14, 15} : PinIsSet(pin)
    BY <2>2 DEF IInv, PinsAreSet
  <2>4. uart \in [UartReg -> Nat]
    BY DEF IInv, TypeOK, UartTypeOK
  <2>5. /\ uart["ENABLES"] = 1 /\ uart["IER"] = 0 /\ uart["CNTL"] = 3
        /\ uart["LCR"] = 3 /\ uart["MCR"] = 0 /\ uart["BAUD"] = 541
    BY <2>2 DEF IInv, UartIsSet
  <2>6. uart = [ENABLES |-> 1, IER |-> 0, CNTL |-> 3, LCR |-> 3, MCR |-> 0, BAUD |-> 541]
    BY <2>4, <2>5 DEF UartReg
  <2> QED
    BY <2>3, <2>6
<1> QED
  BY <1>1, KernelIInv, PTL

(* A byte of the handler is never lost, and one of main() only with an IRQ *)
(* between its check for room and its write.                               *)
THEOREM KernelLossNeedsInterrupt == Spec => []LossNeedsInterrupt
<1>1. IInv => LossNeedsInterrupt
  BY UartAssumption DEF IInv, TypeOK, UartTypeOK, RoomIsThere, LossNeedsInterrupt
<1> QED
  BY <1>1, KernelIInv, PTL

(* uart_init() leaves the function and the pull of all pins but 14 and 15  *)
(* as they were.                                                           *)
THEOREM KernelOtherPinsStay == Spec => OtherPinsStay
<1> DEFINE Stay == \A pin \in Pin \ {14, 15} :
                     UNCHANGED <<PinFunction(gpio, pin), PinPull(gpio, pin)>>
<1>1. TypeOK /\ [Next]_vars => [Stay]_vars
  <2> SUFFICES ASSUME TypeOK, [Next]_vars PROVE Stay
    OBVIOUS
  <2>1. gpio \in [GpioReg -> SUBSET Bit] /\ 14 \in Pin /\ 15 \in Pin
    BY DEF TypeOK, Pin, GPIO_MAX_PIN
  <2>2. ASSUME NEW n \in {14, 15}, gpio' = gpio_useAsAlt5(gpio, n) PROVE Stay
    <3>1. n \in Pin /\ \A pin \in Pin \ {14, 15} : pin \in Pin \ {n}
      BY <2>1
    <3>2. \A p \in Pin \ {n} :
            /\ PinFunction(gpio_useAsAlt5(gpio, n), p) = PinFunction(gpio, p)
            /\ PinPull(gpio_useAsAlt5(gpio, n), p) = PinPull(gpio, p)
      BY <2>1, <3>1, GpioUseAsAlt5
    <3>3. \A p : /\ PinFunction(gpio, p)' = PinFunction(gpio_useAsAlt5(gpio, n), p)
                 /\ PinPull(gpio, p)' = PinPull(gpio_useAsAlt5(gpio, n), p)
      BY <2>2 DEF PinFunction, PinPull
    <3> QED
      BY <3>1, <3>2, <3>3
  <2>3. CASE UNCHANGED gpio
    BY <2>3 DEF PinFunction, PinPull
  <2> QED
    BY <2>2, <2>3, GpioWritten
<1> QED
  BY <1>1, KernelTypeOK, PTL DEF Spec, OtherPinsStay
=============================================================================
