-------------------------------- MODULE Boot --------------------------------
(***************************************************************************)
(* src/src/boot.s on the main core, from set_el to the call of main():     *)
(* down to EL1 from whatever level the firmware enters the kernel at, then *)
(* .bss is cleared word by word.  Of the variables in .bss,                *)
(* interruptHandlers[] is the one the kernel relies on to be 0: it sets    *)
(* the others before it reads them.                                        *)
(***************************************************************************)
EXTENDS Interrupts

CONSTANTS
  BssSize,         \* _bss_size, in bytes
  HandlersWord     \* the 8-byte word of .bss that is interruptHandlers[64]

(* .bss starts at a multiple of 16 and contains the whole array.           *)
ASSUME BootAssumption ==
  /\ BssSize \in Nat /\ HandlersWord \in Nat
  /\ \A armcId \in ArmcId : (HandlersWord + armcId + 1) * 8 <= BssSize

VARIABLES
  bootPc,   \* where boot.s is, or "main"
  el,       \* CurrentEL
  mmu,      \* SCTLR_EL1.M
  mmuKept,  \* history: the firmware entered at EL1 with the MMU on
  x1, w2    \* the next word of .bss, and how many are left

bootVars == <<bootPc, el, mmu, mmuKept, x1, w2>>

(* The level, the mask and the MMU bit are what the firmware left; if the  *)
(* MMU is on at EL1, the firmware's tables map the kernel to itself.  A    *)
(* word of RAM is 0 or anything else.                                      *)
BootInit ==
  /\ bootPc = "set_el"
  /\ el \in 1 .. 3
  /\ mmu \in BOOLEAN
  /\ mmuKept = (el = 1 /\ mmu)
  /\ masked \in BOOLEAN
  /\ x1 = 0 /\ w2 = 0
  /\ interruptHandlers \in [Id -> {NoHandler, Junk}]

BootUnchanged == UNCHANGED <<mmuKept, gicVars, handlerVars>>

set_el ==
  /\ bootPc = "set_el"
  /\ bootPc' = <<"el1_entry", "el2_entry", "el3_entry">>[el]
  /\ UNCHANGED <<el, mmu, x1, w2, masked, interruptHandlers>>
  /\ BootUnchanged

(* eret to the level and with the mask bits, all 0, of the SPSR.           *)
Eret(level, label) ==
  /\ el' = level
  /\ masked' = FALSE
  /\ bootPc' = label
  /\ UNCHANGED <<x1, w2, interruptHandlers>>
  /\ BootUnchanged

(* Mutant: el3_entry drops to EL1 at once, past el2_entry.                 *)
DropToEl1 == bootPc = "el3_entry" /\ Eret(1, "el1_entry") /\ UNCHANGED mmu

el3_entry == bootPc = "el3_entry" /\ Eret(2, "el2_entry") /\ UNCHANGED mmu

el2_entry == bootPc = "el2_entry" /\ Eret(1, "el1_entry") /\ mmu' = FALSE

el1_entry ==
  /\ bootPc = "el1_entry"
  /\ x1' = 0
  /\ w2' = BssSize \div 8
  /\ bootPc' = "bss"
  /\ UNCHANGED <<el, mmu, masked, interruptHandlers>>
  /\ BootUnchanged

WordOf(id) == HandlersWord + id - 64

(* Mutant: the loop ends one word early.                                   *)
ClearAllButLast ==
  /\ bootPc = "bss" /\ w2 # 0
  /\ interruptHandlers' =
       [id \in Id |-> IF WordOf(id) = x1 /\ w2 # 1 THEN NoHandler ELSE interruptHandlers[id]]
  /\ x1' = x1 + 1 /\ w2' = w2 - 1
  /\ UNCHANGED <<bootPc, el, mmu, masked>>
  /\ BootUnchanged

ClearWord ==
  /\ bootPc = "bss" /\ w2 # 0
  /\ interruptHandlers' =
       [id \in Id |-> IF WordOf(id) = x1 THEN NoHandler ELSE interruptHandlers[id]]
  /\ x1' = x1 + 1 /\ w2' = w2 - 1
  /\ UNCHANGED <<bootPc, el, mmu, masked>>
  /\ BootUnchanged

CallMain ==
  /\ bootPc = "bss" /\ w2 = 0
  /\ bootPc' = "main"
  /\ UNCHANGED <<el, mmu, x1, w2, masked, interruptHandlers>>
  /\ BootUnchanged

BootStep ==
  set_el \/ el3_entry \/ el2_entry \/ el1_entry \/ ClearWord \/ CallMain

BootTypeOK ==
  /\ bootPc \in {"set_el", "el3_entry", "el2_entry", "el1_entry", "bss", "main"}
  /\ el \in 1 .. 3 /\ mmu \in BOOLEAN /\ mmuKept \in BOOLEAN
  /\ x1 \in Nat /\ w2 \in Nat
=============================================================================
