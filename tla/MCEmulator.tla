----------------------------- MODULE MCEmulator -----------------------------
(* Guests for the emulator.                                                *)
EXTENDS Emulator

(* tool/guest.c, whose first instruction is a push.                        *)
Guest_c == Image(entry(YAKVM_STACK + 4096 - 4))

(* Instructions of every kind: a value that does not fit in al, the stack,  *)
(* the last byte of the memory, the device itself and the page of the       *)
(* device, and what the emulator does not support.                          *)
Atoms ==
  {Mov(5), Mov(511), Insn("out", 0, 1), Insn("mmio_out", 0, 3),
   Insn("in", 0, 1), Insn("mmio_in", 0, 3), Insn("in16", 0, 1),
   Insn("vmrun", 0, 3), Insn("triple", 0, 2), Insn("touch", YAKVM_STACK, 2),
   Insn("touch", YAKVM_MEMORY - 1, 2), Insn("touch", 0, 2),
   Insn("touch", 8, 2)}

(* bound: programs of up to three instructions and hlt, and the ones of a   *)
(* single instruction, which run into what follows them.                    *)
Programs ==
  {Image(p \o hlt) : p \in UNION {[1 .. n -> Atoms] : n \in 0 .. 3}}
    \union {Image(<<i>>) : i \in Atoms}

(* Images of a size at a boundary; the code is that of guest.c.             *)
Sized(size) == [Guest_c EXCEPT !.size = size]
Empty == Image(<<>>)
Sizes ==
  {Empty, Guest_c, Sized(YAKVM_MEMORY - YAKVM_ENTRY), Sized(YAKVM_MEMORY),
   Sized(YAKVM_MEMORY + 1)}

Guests == Programs \union Sizes
=============================================================================
