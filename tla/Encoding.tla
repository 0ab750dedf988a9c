------------------------------ MODULE Encoding ------------------------------
(***************************************************************************)
(* The instruction format, from the assembler's side: the bytes that       *)
(* denote an instruction with given operands.  An operand may have several *)
(* encodings, and every one of them has to decode to it.                   *)
(*                                                                         *)
(* A value of several bytes is the sequence of its bytes, the lowest first.*)
(***************************************************************************)
EXTENDS OpcodeTable

Byte == 0 .. 255
None == -1
ESP  == 4
EBP  == 5

(* u8 as i8 as i32 as u32.                                                 *)
SignExtended(b) == LET s == IF b >= 128 THEN 255 ELSE 0 IN <<b, s, s, s>>

Zero == <<0, 0, 0, 0>>

NoOperand     == [kind |-> "none"]
InRegister(r) == [kind |-> "register", reg |-> r]
Immediate(bs) == [kind |-> "immediate", bytes |-> bs]

(* [base + index * scale + disp], where base and index may be None.        *)
InMemory(base, index, scale, disp) ==
  [kind |-> "memory", base |-> base, index |-> index, scale |-> scale, disp |-> disp]

(* Operands of a ModR/M byte: an index that is not there has no scale, and *)
(* esp is none.                                                            *)
RMOperands ==
  [kind : {"register"}, reg : 0 .. 7]
  \union { o \in [kind : {"memory"}, base : {None} \union 0 .. 7,
                  index : {None} \union (0 .. 7 \ {ESP}),
                  scale : {1, 2, 4, 8}, disp : [1 .. 4 -> Byte]] :
             o.index = None => o.scale = 1 }

-----------------------------------------------------------------------------
(* ModR/M, SIB and displacement.                                           *)

(* A mode with the displacement bytes that go with it.                     *)
Displacements(o) ==
  IF o.base = None THEN { [mode |-> 0, bytes |-> o.disp] }
  ELSE { d \in { [mode |-> 0, bytes |-> <<>>],
                 [mode |-> 1, bytes |-> <<o.disp[1]>>],
                 [mode |-> 2, bytes |-> o.disp] } :
         /\ d.mode = 0 => o.disp = Zero /\ o.base # EBP
         /\ d.mode = 1 => SignExtended(o.disp[1]) = o.disp }

(* Without a SIB byte: no index, and not esp, whose number means "SIB".    *)
Plain(o) ==
  IF o.index # None \/ o.base = ESP THEN {}
  ELSE { [mode |-> d.mode, rm |-> IF o.base = None THEN 5 ELSE o.base, tail |-> d.bytes]
         : d \in Displacements(o) }

(* With one: its number for "no index" is that of esp, with any scale, and *)
(* its number for "no base" that of ebp, in mode 0.                        *)
SIBByte(log, o) ==
  log * 64 + (IF o.index = None THEN 4 ELSE o.index) * 8 + (IF o.base = None THEN 5 ELSE o.base)

Scaled(o) ==
  { [mode |-> d.mode, rm |-> 4, tail |-> <<SIBByte(log, o)>> \o d.bytes]
    : d \in Displacements(o), log \in { l \in 0 .. 3 : o.index = None \/ 2 ^ l = o.scale } }

Encodings(o) ==
  IF o.kind = "register" THEN { [mode |-> 3, rm |-> o.reg, tail |-> <<>>] }
  ELSE Plain(o) \union Scaled(o)

-----------------------------------------------------------------------------
(* An instruction: its prefixes, its opcode, the reg field and the operand *)
(* of the ModR/M byte, and the encoding chosen for the operand.            *)

Instruction(ps, number, reg, rm, form) ==
  [prefixes |-> ps, number |-> number, reg |-> reg, rm |-> rm, form |-> form]

(* Bytes that are a prefix where an opcode may stand.                      *)
PrefixBytes == {\h66, \h67, \hF2, \hF3}

(* What can be assembled: any prefixes in any order, with an opcode that   *)
(* is not read as one of them, and an encoding of the operand.             *)
Encodable(i) ==
  /\ i.prefixes \in Seq(PrefixBytes)
  /\ i.number \in 0 .. 511 \ (PrefixBytes \union {\h0F})
  /\ i.reg \in 0 .. 7
  /\ i.rm # NoOperand => i.rm \in RMOperands /\ i.form \in Encodings(i.rm)

NoEncoding == [mode |-> 0, rm |-> 0, tail |-> <<>>]

Known(i)     == i.number \in Keys
HasRM(i)     == Known(i) /\ OPCODES[i.number].has_modrm
OpcodeFor(i) == IF Known(i) THEN OPCODES[i.number].opcodes[IF HasRM(i) THEN i.reg ELSE 0]
                ELSE Undefined

(* The instructions among is whose operand goes with their opcode, which   *)
(* is one that has a ModR/M byte, with what the table has for it.          *)
Assembled(is) ==
  { [prefixes |-> i.prefixes, number |-> i.number, opcode |-> OpcodeFor(i),
     reg |-> i.reg, rm |-> i.rm, form |-> i.form] :
    i \in { i \in is : HasRM(i) <=> i.rm # NoOperand } }

Override(i) == \h66 \in Range(i.prefixes)
Fixed(s, override) == IF s # "NativeWord" THEN s ELSE IF override THEN "Word" ELSE "Dword"
SizeOf(i, a) == Fixed(a.size, Override(i))
BytesOf(s) == CASE s = "None" -> 0 [] s = "Byte" -> 1 [] s = "Word" -> 2 [] s = "Dword" -> 4

(* The immediate that argument n stands for: bytes that tell it from the   *)
(* others.                                                                 *)
ImmediateBytes(i, n) ==
  LET a == i.opcode.args[n]
      w == CASE a.source = "ImmediateAddress" -> 4
             [] a.source \in {"ImmediateValue", "JumpRel"} -> BytesOf(SizeOf(i, a))
             [] OTHER -> 0
  IN  [j \in 1 .. w |-> 112 + 16 * n + j]

ModRMBytes(i) ==
  IF i.rm = NoOperand THEN <<>>
  ELSE <<i.form.mode * 64 + i.reg * 8 + i.form.rm>> \o i.form.tail

Immediates(i) == ImmediateBytes(i, 1) \o ImmediateBytes(i, 2) \o ImmediateBytes(i, 3)

Prefixed(i) == i.prefixes \o (IF i.number >= TwoByte THEN <<\h0F>> ELSE <<>>)

Bytes(i) == Prefixed(i) \o <<i.number % 256>> \o ModRMBytes(i) \o Immediates(i)

=============================================================================
