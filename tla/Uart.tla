-------------------------------- MODULE Uart --------------------------------
(***************************************************************************)
(* The UART driver, src/src/drivers/uart.c, with the loop of print() in    *)
(* src/src/io.c that feeds it, and the mini UART's transmitter.  Two       *)
(* contexts print: the main thread and the IRQ handler.  Of the bytes in   *)
(* the transmitter only the number matters.                                *)
(***************************************************************************)
EXTENDS Integers

CONSTANTS
  FifoDepth,      \* the bytes the transmitter holds
  MessageLength   \* the bytes of a message

ASSUME UartAssumption == FifoDepth \in Nat \ {0} /\ MessageLength \in Nat \ {0}

VARIABLES
  uart,       \* the registers uart_init() sets
  txFifo,     \* the bytes in the transmitter
  sent,       \* how much of its message a context has written
  roomSeen    \* whether it has found room and not yet written the byte

transmitVars == <<txFifo, sent, roomSeen>>
uartVars == <<uart, transmitVars>>

Context == {"main", "irq"}
UartReg == {"ENABLES", "IER", "CNTL", "LCR", "MCR", "BAUD"}

AUX_MU_BAUD(baud) == 500000000 \div (baud * 8) - 1

(* What the firmware left is not known: all bits 0, or the two lowest 1.   *)
UartInit ==
  /\ \E left \in {0, 3} : uart = [r \in UartReg |-> left]
  /\ txFifo \in 0 .. FifoDepth
  /\ sent = [c \in Context |-> 0]
  /\ roomSeen = [c \in Context |-> FALSE]

(* uart_init(), up to the pins; writing 0xC6 to AUX_MU_IIR_REG empties the *)
(* transmitter.                                                            *)
uart_init_disable ==
  /\ uart' = [uart EXCEPT !["ENABLES"] = 1, !["IER"] = 0, !["CNTL"] = 0]
  /\ UNCHANGED transmitVars

uart_init_format ==
  /\ uart' = [uart EXCEPT !["LCR"] = 3, !["MCR"] = 0, !["IER"] = 0,
                          !["BAUD"] = AUX_MU_BAUD(115200)]
  /\ txFifo' = 0
  /\ UNCHANGED <<sent, roomSeen>>

(* Mutant: only the receiver is enabled.                                   *)
EnableReceiver ==
  /\ uart' = [uart EXCEPT !["CNTL"] = 1]
  /\ UNCHANGED transmitVars

uart_init_enable ==
  /\ uart' = [uart EXCEPT !["CNTL"] = 3]
  /\ UNCHANGED transmitVars

TransmitterOn == uart["CNTL"] \in {2, 3}

-----------------------------------------------------------------------------

(* Mutant: the bit tested says that the transmitter is enabled.            *)
ReadyWhenOn == TransmitterOn

uart_isWriteByteReady == txFifo < FifoDepth

(* uart_writeByte(): the last turn of its loop ...                         *)
FindRoom(c) ==
  /\ sent[c] < MessageLength /\ ~roomSeen[c]
  /\ uart_isWriteByteReady
  /\ roomSeen' = [roomSeen EXCEPT ![c] = TRUE]
  /\ UNCHANGED <<uart, txFifo, sent>>

(* ... and the store.  A byte written to a full transmitter is lost.       *)
WriteByte(c) ==
  /\ roomSeen[c]
  /\ txFifo' = IF txFifo < FifoDepth THEN txFifo + 1 ELSE txFifo
  /\ sent' = [sent EXCEPT ![c] = @ + 1]
  /\ roomSeen' = [roomSeen EXCEPT ![c] = FALSE]
  /\ UNCHANGED uart

(* print() returns.                                                        *)
PrintReturns(c) ==
  /\ sent[c] = MessageLength
  /\ sent' = [sent EXCEPT ![c] = 0]
  /\ UNCHANGED <<uart, txFifo, roomSeen>>

(* The transmitter sends a byte.                                           *)
Transmit ==
  /\ TransmitterOn /\ txFifo > 0
  /\ txFifo' = txFifo - 1
  /\ UNCHANGED <<uart, sent, roomSeen>>

UartTypeOK ==
  /\ uart \in [UartReg -> Nat]
  /\ txFifo \in 0 .. FifoDepth
  /\ sent \in [Context -> 0 .. MessageLength]
  /\ roomSeen \in [Context -> BOOLEAN]
=============================================================================
