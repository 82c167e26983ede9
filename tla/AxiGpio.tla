------------------------------ MODULE AxiGpio ------------------------------
(***************************************************************************)
(* AxiGpio's interrupts (dev/src/ip_drivers/gpio.cpp), one action per      *)
(* register access, against a core whose inputs change at any time and     *)
(* whose status register toggles the bits that are written.  One thread    *)
(* uses the driver.                                                        *)
(***************************************************************************)
EXTENDS Naturals

VARIABLES
    dual,    \* dual_channel_: the instance has a second channel
    isr,     \* the core: the channels whose interrupt is pending
    gpc,     \* the driver: where it is,
    mask,    \*   the channels it is to clear,
    toggle,  \*   the bits it is about to write
    raised   \* history: the channels with an event that was not cleared since
gpio == <<dual, isr, gpc, mask, toggle, raised>>

supported == {1} \cup (IF dual THEN {2} ELSE {})
\* Bits of a mask; there is no third channel.
MaskBits == 1 .. 3

GpioInit ==
    /\ dual \in BOOLEAN
    /\ isr = {} /\ gpc = "idle" /\ mask = {} /\ toggle = {} /\ raised = {}

\* An input of channel n changes.
Event(n) ==
    /\ n \in supported
    /\ isr' = isr \cup {n}
    /\ raised' = raised \cup {n}
    /\ UNCHANGED <<dual, gpc, mask, toggle>>

\* A mask with a channel this instance lacks is refused.
Clear(bits) ==
    /\ gpc = "idle"
    /\ bits \subseteq supported
    /\ mask' = bits
    /\ gpc' = "read"
    /\ UNCHANGED <<dual, isr, toggle, raised>>
\* Mutant: the requested mask is written as it is.
ClearMask == mask
ClearPending == isr \cap supported \cap mask
ReadStatus ==
    /\ gpc = "read"
    /\ toggle' = ClearPending
    /\ gpc' = IF toggle' = {} THEN "idle" ELSE "write"
    /\ UNCHANGED <<dual, isr, mask, raised>>
\* Writing a bit toggles it; an event since the read goes with the one before.
WriteStatus ==
    /\ gpc = "write"
    /\ isr' = (isr \ toggle) \cup (toggle \ isr)
    /\ raised' = raised \ toggle
    /\ gpc' = "idle"
    /\ UNCHANGED <<dual, mask, toggle>>
\* The access throws: nothing is written.
AccessThrows ==
    /\ gpc \in {"read", "write"}
    /\ gpc' = "idle"
    /\ UNCHANGED <<dual, isr, mask, toggle, raised>>

GpioNext ==
    \/ \E n \in {1, 2} : Event(n)
    \/ \E bits \in SUBSET MaskBits : Clear(bits)
    \/ ReadStatus \/ WriteStatus \/ AccessThrows
GpioSpec == GpioInit /\ [][GpioNext]_gpio

-----------------------------------------------------------------------------
GpioTypeOK ==
    /\ dual \in BOOLEAN
    /\ isr \subseteq supported /\ raised \subseteq supported
    /\ mask \subseteq supported /\ toggle \subseteq supported
    /\ gpc \in {"idle", "read", "write"}

\* dev/include/mrs_fpga_dev/ip_drivers/gpio.h, clearInterrupts: clearing never
\* makes a channel pending that had no event, and an event on a channel that
\* it did not find pending, or was not asked for, stays pending, whatever
\* happens between its two accesses and wherever it is cut off.
PendingIsRaised == isr = raised
=============================================================================
