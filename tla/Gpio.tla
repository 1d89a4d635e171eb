-------------------------------- MODULE Gpio --------------------------------
(***************************************************************************)
(* The GPIO driver, src/src/drivers/gpio.c.  The registers are 32-bit      *)
(* words, counted from GPFSEL0; a word, a mask and a value are the set of  *)
(* their bits that are 1.  Each pin has a field in a bank of registers,    *)
(* and the driver updates a field by reading and writing its register.     *)
(***************************************************************************)
EXTENDS Integers

GPFSEL0 == 0
GPSET0 == 7        \* 0x20001C
GPCLR0 == 10       \* 0x200028
GPPUPPDN0 == 57    \* 0x2000E4

GPIO_MAX_PIN == 53
PULL_NONE == {}
GPIO_FUNCTION_ALT5 == {1}
GPIO_FUNCTION_ALT3 == {0, 1, 2}

Pin == 0 .. GPIO_MAX_PIN
Bit == 0 .. 31

(* The registers of the four banks: 10, 32 and 16 pins have a field in one *)
(* register.                                                               *)
GpioReg == (GPFSEL0 .. GPFSEL0 + 5) \cup (GPSET0 .. GPSET0 + 1)
             \cup (GPCLR0 .. GPCLR0 + 1) \cup (GPPUPPDN0 .. GPPUPPDN0 + 3)

ShiftLeft(bits, n) == {bit + n : bit \in bits}

(* reg and shift of gpio_call().                                           *)
RegOf(pinNumber, base, fieldSize) == base + pinNumber \div (32 \div fieldSize)
ShiftOf(pinNumber, fieldSize) == (pinNumber % (32 \div fieldSize)) * fieldSize

(* Mutant: the bits of the field are not cleared first.                    *)
CallWithoutMask(gpio, pinNumber, value, base, fieldSize) ==
  [gpio EXCEPT ![RegOf(pinNumber, base, fieldSize)] =
     @ \cup ShiftLeft(value, ShiftOf(pinNumber, fieldSize))]

(* Mutant: the mask is (1 << (fieldSize + 1)) - 1.                         *)
CallWithWideMask(gpio, pinNumber, value, base, fieldSize) ==
  [gpio EXCEPT ![RegOf(pinNumber, base, fieldSize)] =
     (@ \ ShiftLeft(0 .. fieldSize, ShiftOf(pinNumber, fieldSize)))
       \cup ShiftLeft(value, ShiftOf(pinNumber, fieldSize))]

(* The registers after gpio_call().  It asserts that there is such a pin   *)
(* and that the value fits the field: all pins and values the kernel gives *)
(* it do, so that the assertions are left out.                             *)
gpio_call(gpio, pinNumber, value, base, fieldSize) ==
  [gpio EXCEPT ![RegOf(pinNumber, base, fieldSize)] =
     (@ \ ShiftLeft(0 .. fieldSize - 1, ShiftOf(pinNumber, fieldSize)))
       \cup ShiftLeft(value, ShiftOf(pinNumber, fieldSize))]

gpio_set(gpio, pin, value) == gpio_call(gpio, pin, value, GPSET0, 1)
gpio_clear(gpio, pin, value) == gpio_call(gpio, pin, value, GPCLR0, 1)
gpio_pull(gpio, pin, value) == gpio_call(gpio, pin, value, GPPUPPDN0, 2)
gpio_function(gpio, pin, value) == gpio_call(gpio, pin, value, GPFSEL0, 3)

gpio_useAsAlt3(gpio, pin) ==
  gpio_function(gpio_pull(gpio, pin, PULL_NONE), pin, GPIO_FUNCTION_ALT3)
gpio_useAsAlt5(gpio, pin) ==
  gpio_function(gpio_pull(gpio, pin, PULL_NONE), pin, GPIO_FUNCTION_ALT5)

-----------------------------------------------------------------------------
(* What a pin is set to: the meaning of the registers, as the manual of    *)
(* the BCM2711 gives it and independent of how the driver finds a field.   *)

PinFunction(gpio, pin) ==
  {b \in 0 .. 2 : (pin % 10) * 3 + b \in gpio[GPFSEL0 + pin \div 10]}
PinPull(gpio, pin) ==
  {b \in 0 .. 1 : (pin % 16) * 2 + b \in gpio[GPPUPPDN0 + pin \div 16]}
=============================================================================
