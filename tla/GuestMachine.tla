---------------------------- MODULE GuestMachine ----------------------------
(***************************************************************************)
(* The machine a guest believes to run on: a processor whose instructions  *)
(* take effect once, in order, and two devices of one byte.  test.py runs  *)
(* the same machine beside the real one, with unicorn as its processor.    *)
(*                                                                         *)
(* Emulator, where an instruction may take several exits, handlers and     *)
(* ioctls, implements it.                                                  *)
(***************************************************************************)
EXTENDS Integers

VARIABLES
  code,    \* the instructions by their offset from YAKVM_ENTRY
  al,      \* the register al
  rip,     \* the offset of the next instruction
  pio,     \* the byte written to the device at the port
  mmio,    \* the byte written to the device in memory
  halted

machineVars == <<code, al, rip, pio, mmio, halted>>

U8 == 256    \* 2^8: the registers of the devices are a uint8_t

Init ==
  /\ al = 0
  /\ rip = 0
  /\ pio = 0
  /\ mmio = 0
  /\ halted = FALSE

(* The processor executes an instruction of some kind, and then goes on.    *)
Execute(op) ==
  /\ ~halted
  /\ rip \in DOMAIN code
  /\ code[rip].op = op
  /\ UNCHANGED code

Advance == rip' = rip + code[rip].len

Mov ==
  /\ Execute("mov")
  /\ al' = code[rip].val % U8
  /\ Advance
  /\ UNCHANGED <<pio, mmio, halted>>

(* An access to memory.                                                     *)
Touch ==
  /\ Execute("touch")
  /\ Advance
  /\ UNCHANGED <<al, pio, mmio, halted>>

(* A loop goes back as long as al differs from a value.                     *)
Jne ==
  /\ Execute("jne")
  /\ \/ al # code[rip].val /\ rip' = rip - code[rip].back
     \/ al = code[rip].val /\ Advance
  /\ UNCHANGED <<al, pio, mmio, halted>>

(* The devices (tool/devices.c): one answers with one more than it was      *)
(* sent, the other with one less.  test.py has the answer of the first to   *)
(* guest.c as a constant.                                                   *)
Out ==
  /\ Execute("out")
  /\ pio' = al
  /\ Advance
  /\ UNCHANGED <<al, mmio, halted>>

In ==
  /\ Execute("in")
  /\ al' = (pio + 1) % U8
  /\ Advance
  /\ UNCHANGED <<pio, mmio, halted>>

MmioOut ==
  /\ Execute("mmio_out")
  /\ mmio' = al
  /\ Advance
  /\ UNCHANGED <<al, pio, halted>>

MmioIn ==
  /\ Execute("mmio_in")
  /\ al' = (mmio - 1) % U8
  /\ Advance
  /\ UNCHANGED <<pio, mmio, halted>>

Hlt ==
  /\ Execute("hlt")
  /\ halted' = TRUE
  /\ UNCHANGED <<al, rip, pio, mmio>>

Next == Mov \/ Touch \/ Jne \/ Out \/ In \/ MmioOut \/ MmioIn \/ Hlt

Spec == Init /\ [][Next]_machineVars
=============================================================================
