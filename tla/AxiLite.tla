------------------------------ MODULE AxiLite ------------------------------
(***************************************************************************)
(* Two threads over one XDMAUser: one reads a running counter with         *)
(* read64Stable, the other clears GPIO interrupts.  Each access names its  *)
(* register (pread, pwrite), so the threads share no file position and     *)
(* their accesses interleave freely.                                       *)
(***************************************************************************)
EXTENDS SplitCounter, AxiGpio

LiteInit == Init /\ GpioInit
CounterStep == Next /\ UNCHANGED gpio
GpioStep == GpioNext /\ UNCHANGED vars
LiteNext == CounterStep \/ GpioStep
LiteSpec == LiteInit /\ [][LiteNext]_<<vars, gpio>>
=============================================================================
