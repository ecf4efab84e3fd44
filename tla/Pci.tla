---------------------------------- MODULE Pci ----------------------------------
(***************************************************************************)
(* PCI enumeration: kernel/driver/pci.c and pci.h.                         *)
(*                                                                         *)
(* Config gives every function <<bus, slot, function>> that is there its   *)
(* configuration bytes by offset; a function that is not there reads as    *)
(* all ones.  The byte readers of pci.h take the low byte of the word that *)
(* pci_config_read_word returns, and that word starts at an even offset:   *)
(* get_class_code, get_prog_if and get_secondery_bus ask for an odd offset *)
(* and get the byte before the one they name.                              *)
(***************************************************************************)
EXTENDS Integers, Sequences, SequencesExt

CONSTANTS
  Config,       \* the machine's functions
  LastSlot      \* slots of a bus are 0 .. LastSlot, 31 in the code

VENDOR_ID == 0
SUBCLASS == 10
CLASS_CODE == 11
HEADER_TYPE == 14
SECONDERY_BUS_NUMBER == 25
ABAR == 36                  \* PCI_OFFSET_BASE_ADDRESS_5, the size its BAR reports
AllOnes == 255

Register(f, offset) == IF f \in DOMAIN Config THEN Config[f][offset] ELSE AllOnes

\* A reader of one byte: the low byte of the word at the even offset.
ConfigByte(f, offset) == Register(f, offset - (offset % 2))

Exists(f) == Register(f, VENDOR_ID) # AllOnes
MultiFunction(f) == ConfigByte(f, HEADER_TYPE) >= 128

RECURSIVE check_bus(_)

\* A bridge leads to another bus, every other function is a device of the list.
check_function(f) ==
  IF ConfigByte(f, CLASS_CODE) = 6 /\ ConfigByte(f, SUBCLASS) = 4
  THEN check_bus(ConfigByte(f, SECONDERY_BUS_NUMBER))
  ELSE <<f>>

\* check_device that takes every device for one with a single function.
check_deviceFirst(bus, slot) ==
  IF ~ Exists(<<bus, slot, 0>>) THEN <<>> ELSE check_function(<<bus, slot, 0>>)

check_device(bus, slot) ==
  IF ~ Exists(<<bus, slot, 0>>) THEN <<>>
  ELSE check_function(<<bus, slot, 0>>)
       \o IF ~ MultiFunction(<<bus, slot, 0>>) THEN <<>>
          ELSE FlattenSeq([n \in 1 .. 7 |-> IF Exists(<<bus, slot, n>>) THEN check_function(<<bus, slot, n>>) ELSE <<>>])

check_bus(bus) == FlattenSeq([n \in 1 .. LastSlot + 1 |-> check_device(bus, n - 1)])

\* list_pci_devices in the order of discovery; the list itself is built by prepending.  With
\* several host controllers the loop breaks at the first one that is there.
enumerate_pci ==
  IF ~ MultiFunction(<<0, 0, 0>>) THEN check_bus(0)
  ELSE LET gone == {n \in 0 .. 7 : \A k \in 0 .. n : ~ Exists(<<0, 0, k>>)}
       IN  FlattenSeq([n \in 1 .. 8 |-> IF n - 1 \in gone THEN check_bus(n - 1) ELSE <<>>])

\* assign_bar: NULL (FALSE) for a BAR that reports no size.
assign_bar(f) == ConfigByte(f, ABAR) # 0

\* The test of setup_ahci_controllers.
IsController(f) ==
  ConfigByte(f, CLASS_CODE) \in {1, 6} /\ ConfigByte(f, SUBCLASS) \in {1, 6} /\ assign_bar(f)
================================================================================
