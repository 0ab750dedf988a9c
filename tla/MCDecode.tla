------------------------------ MODULE MCDecode ------------------------------
(***************************************************************************)
(* Instructions for the decoder: every entry of the opcode table with a    *)
(* few operands, one of them with all encodings of all addresses, runs of  *)
(* prefixes up to the length of the buffer, and rep prefixes.              *)
(***************************************************************************)
EXTENDS DecodeInv

(* Costs that no two different sums of surcharges share.                   *)
MCCosts == [None |-> 0, VeryLow |-> 1, Low |-> 2, Moderate |-> 4, ModRMSurcharge |-> 8,
            MemoryAccess |-> 16, ConditionalBranch |-> 128, WriteableMemoryExec |-> 256]

(* A slot as it is by default, and one that held an instruction with two   *)
(* operands in memory and an immediate.                                    *)
Slot(args) == [function |-> "nop", args |-> args, gas_cost |-> 77, eip_size |-> 1,
               size_override |-> FALSE, opcode |-> 0]
Stale == Argument(SIBAddress([NoModRM EXCEPT !.mode = 1, !.disp = <<9, 0, 0, 0>>], "Dword"), TRUE)
MCReused ==
  { [slot |-> Slot(<<NoArgument, NoArgument, NoArgument>>), writeable |-> FALSE],
    [slot |-> Slot(<<Stale, Stale, Argument(ImmediateOf(<<7>>), FALSE)>>), writeable |-> TRUE] }

-----------------------------------------------------------------------------
(* Operands                                                                *)

Negative == <<\h80, 255, 255, 255>>
Far      == <<\h80, 0, 2, \h81>>

Operand == { InRegister(r) : r \in 0 .. 7 }
  \union { InMemory(base, index, scale, disp) :
             base \in {None} \union 0 .. 7, index \in {None} \union (0 .. 7 \ {ESP}),
             scale \in {1, 2, 4, 8}, disp \in {Zero, Negative, Far} }

(* An index that is not there has no scale.                                *)
AllOperands == { o \in Operand : o.kind = "memory" /\ o.index = None => o.scale = 1 }

FewOperands == { InRegister(3), InMemory(None, None, 1, Far),
                 InMemory(EBP, None, 1, Zero), InMemory(1, 7, 8, Negative) }

-----------------------------------------------------------------------------
(* Instructions.  Those whose operand does not go with their opcode are    *)
(* left to the specification to drop.                                      *)

Bare(pss, numbers) == { Instruction(ps, k, 0, NoOperand, NoEncoding) : ps \in pss, k \in numbers }

(* With each encoding of an operand, and with some encoding of it.         *)
Every(pss, k, regs, os) ==
  UNION { { Instruction(ps, k, reg, o, form) : ps \in pss, reg \in regs, form \in Encodings(o) }
          : o \in os }

Some(pss, numbers, regs, os) ==
  { Instruction(ps, k, reg, o, CHOOSE form \in Encodings(o) : TRUE) :
    ps \in pss, k \in numbers, reg \in regs, o \in os }

(* An opcode byte that is a prefix is one.                                 *)
AllNumbers == (0 .. 511) \ {\h0F, \h66, \h67, \hF2, \hF3}

Runs(lengths) == { [i \in 1 .. l |-> \h66] : l \in lengths }

(* nop, mov r8, call, enter, jz near, bswap; mov r/m8 and r/m32, imul.     *)
LongPrefixes ==
  Bare(Runs(9 .. 16), {\h90, \hB1, \hE8, \hC8, \h184, \h1C9})
  \union Some(Runs(5 .. 11), {\hC6, \hC7, \h69, \h1AF}, {0}, FewOperands)

RepPrefixes ==
  Bare({<<\hF2>>, <<\hF3>>, <<\hF2, \hF3>>, <<\hF3, \h66, \hF2>>, <<\h66, \hF3>>,
        <<\h67>>, <<\hF3, \h67>>}
       \union { [i \in 1 .. l |-> \hF3] : l \in {14, 15, 16} },
       {\hA4, \h90, \h1C9})

MCInstructions ==
  Bare({<<>>, <<\h66>>}, AllNumbers)
  \union Some({<<>>, <<\h66>>}, AllNumbers, 0 .. 7, FewOperands)
  \union Every({<<>>}, \hC7, {0}, AllOperands)
  \union LongPrefixes \union RepPrefixes

=============================================================================
