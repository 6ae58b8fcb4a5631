------------------------------- MODULE Guest --------------------------------
(***************************************************************************)
(* Guest programs (tool/guest.c, tool/guest.h): sequences of instructions  *)
(* and their image in memory.                                              *)
(***************************************************************************)
EXTENDS Integers, Sequences

(* An instruction: what it does, an operand, its length in bytes, and, for  *)
(* the end of a loop, how far back the loop begins.                         *)
Insn(op, val, len) == [op |-> op, val |-> val, len |-> len, back |-> 0]

(* gcc loads al (and dx, with the port or the address) before the asm.      *)
Mov(val) == Insn("mov", val, 12)

pio_out8(val) == <<Mov(val), Insn("out", 0, 1)>>
pio_in8 == <<Insn("in", 0, 1)>>
mmio_out8(val) == <<Mov(val), Insn("mmio_out", 0, 3)>>
mmio_in8 == <<Insn("mmio_in", 0, 3)>>
hlt == <<Insn("hlt", 0, 1)>>

(* An access to memory at a guest physical address.                         *)
Touch(gpa) == <<Insn("touch", gpa, 2)>>

(* Where each instruction begins, and where the last one ends.              *)
Offsets(prog) ==
  LET off[i \in 1 .. Len(prog) + 1] ==
        IF i = 1 THEN 0 ELSE off[i - 1] + prog[i - 1].len
  IN off

(* while (body != val) ;                                                    *)
Until(body, val) ==
  Append(body, [op |-> "jne", val |-> val, len |-> 4,
                back |-> Offsets(body)[Len(body) + 1]])

(* entry(), which begins with a push on the stack.                          *)
entry(stack) ==
  Touch(stack)
    \o pio_out8(1) \o Until(pio_in8, 2)
    \o mmio_out8(3) \o Until(mmio_in8, 2)
    \o hlt

(* The image objcopy makes of a program: its size and its instructions by   *)
(* their offset.                                                            *)
Image(prog) ==
  LET off == Offsets(prog)
  IN [size |-> off[Len(prog) + 1],
      code |-> [a \in {off[i] : i \in DOMAIN prog} |->
                 prog[CHOOSE i \in DOMAIN prog : off[i] = a]]]
=============================================================================
