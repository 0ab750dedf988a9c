---------------------------- MODULE DecodeProofs ----------------------------
(***************************************************************************)
(* Theorems about the decoder: for every instruction that can be encoded,  *)
(* with any prefixes and any of the encodings of its operand, every gas    *)
(* schedule and whatever the slot held before, decoding is the inverse of  *)
(* assembling.                                                             *)
(***************************************************************************)
EXTENDS DecodeInv, FiniteSetTheorems, SequenceTheorems, TLAPS

(* Functions on 1 .. n are sequences.                                      *)
LEMMA TupleType ==
  ASSUME NEW S, NEW n \in Nat, NEW s \in [1 .. n -> S]
  PROVE  s \in Seq(S) /\ Len(s) = n
<1>1. s \in Seq(S) BY SeqDef
<1> QED BY <1>1, LenProperties

LEMMA DoubleWordType == \A w \in [1 .. 4 -> Byte] : w \in Seq(Byte) /\ Len(w) = 4
  BY TupleType

-----------------------------------------------------------------------------
(* The instruction                                                         *)

(* What is assembled can be encoded, and has its opcode from the table.    *)
LEMMA InstructionType ==
  ASSUME Given
  PROVE  /\ Encodable(instr)
         /\ HasRM(instr) <=> instr.rm # NoOperand
         /\ Defined = OpcodeFor(instr)
<1>1. PICK i \in Instructions :
        /\ HasRM(i) <=> i.rm # NoOperand
        /\ instr = [prefixes |-> i.prefixes, number |-> i.number, opcode |-> OpcodeFor(i),
                    reg |-> i.reg, rm |-> i.rm, form |-> i.form]
  BY DEF Given, Assembled
<1>2. Encodable(i) BY DecodeAssumption
<1>3. /\ instr.prefixes = i.prefixes /\ instr.number = i.number /\ instr.reg = i.reg
      /\ instr.rm = i.rm /\ instr.form = i.form /\ instr.opcode = OpcodeFor(i)
  BY <1>1
<1>4. Known(instr) = Known(i) /\ HasRM(instr) = HasRM(i)
  BY <1>3 DEF Known, HasRM
<1>5. OpcodeFor(instr) = OpcodeFor(i)
  BY <1>3, <1>4 DEF OpcodeFor
<1>6. Encodable(instr)
  BY <1>2, <1>3 DEF Encodable
<1> QED BY <1>1, <1>3, <1>4, <1>5, <1>6 DEF Defined

LEMMA NumberType == ASSUME Given PROVE instr.number \in 0 .. 511 /\ instr.reg \in 0 .. 7
<1>1. Encodable(instr) BY InstructionType
<1> QED BY <1>1 DEF Encodable

(* An instruction's opcode is one that the decoder can rely on, whether    *)
(* the table has it or not.                                                *)
LEMMA DefinedWellFormed ==
  ASSUME Given
  PROVE  /\ WellFormed(Defined, HasRM(instr))
         /\ Known(instr) => /\ OPCODES[instr.number].has_modrm <=> HasRM(instr)
                            /\ Suits(Defined)
<1>1. CASE Known(instr)
  <2> DEFINE r == IF HasRM(instr) THEN instr.reg ELSE 0
  <2>1. instr.number \in Keys /\ r \in 0 .. 7
    BY <1>1, InstructionType DEF Known, Encodable
  <2>2. Defined = OPCODES[instr.number].opcodes[r]
    BY <1>1, InstructionType DEF OpcodeFor
  <2>3. OPCODES[instr.number].has_modrm <=> HasRM(instr)
    BY <1>1 DEF HasRM
  <2>4. OPCODES[instr.number].has_modrm \in BOOLEAN
        /\ WellFormed(Defined, OPCODES[instr.number].has_modrm)
    BY <2>1, <2>2, TableAssumption
  <2>5. Suits(Defined) BY <2>1, <2>2, LogicAssumption
  <2> QED BY <1>1, <2>3, <2>4, <2>5 DEF WellFormed
<1>2. CASE ~Known(instr)
  <2>1. Defined = Undefined BY <1>2, InstructionType DEF OpcodeFor
  <2>2. \A n \in 1 .. 3 : Undefined.args[n] = NoArg
    BY DEF Undefined
  <2>3. NoArg.source = "None" /\ NoArg.size = "None" /\ NoArg.value = 0
    BY DEF NoArg, Arg
  <2>4. WellFormed(Undefined, HasRM(instr))
    <3>1. Undefined.function = "op_undefined" /\ Undefined.gas = "None"
          /\ Undefined.jump = "Unpredictable"
      BY DEF Undefined
    <3>2. Undefined.function \in LogicFunctions
      BY <3>1 DEF LogicFunctions
    <3> QED BY <2>2, <2>3, <3>1, <3>2
         DEF WellFormed, GasLevels, Behaviours, ArgSources, FixedSizes, Encoded
  <2> QED BY <1>2, <2>1, <2>4
<1> QED BY <1>1, <1>2

LEMMA Sized ==
  ASSUME NEW s \in FixedSizes \union {"NativeWord"}, NEW o \in BOOLEAN
  PROVE  /\ Fixed(s, o) \in FixedSizes
         /\ BytesOf(Fixed(s, o)) \in {0, 1, 2, 4}
         /\ BytesOf(Fixed(s, o)) = 0 <=> s = "None"
         /\ BytesOf(Fixed(s, o)) = 1 <=> s = "Byte"
  BY DEF FixedSizes, Fixed, BytesOf

(* The immediates of an instruction.                                       *)
LEMMA ImmediateType ==
  ASSUME Given, NEW n \in 1 .. 3
  PROVE  LET a == Defined.args[n]
         IN  /\ Width(n) \in {0, 1, 2, 4}
             /\ ImmediateBytes(instr, n) = [j \in 1 .. Width(n) |-> 112 + 16 * n + j]
             /\ ImmediateBytes(instr, n) \in Seq(Byte)
             /\ Width(n) = CASE a.source = "ImmediateAddress" -> 4
                             [] a.source \in {"ImmediateValue", "JumpRel"} ->
                                  BytesOf(SizeOf(instr, a))
                             [] OTHER -> 0
             /\ Width(n) = 1 <=> a.source \in {"ImmediateValue", "JumpRel"} /\ a.size = "Byte"
<1> DEFINE a == Defined.args[n]
           w == CASE a.source = "ImmediateAddress" -> 4
                  [] a.source \in {"ImmediateValue", "JumpRel"} -> BytesOf(SizeOf(instr, a))
                  [] OTHER -> 0
<1>1. a.size \in FixedSizes \union {"NativeWord"}
  BY DefinedWellFormed DEF WellFormed
<1>2. /\ BytesOf(SizeOf(instr, a)) \in {0, 1, 2, 4}
      /\ BytesOf(SizeOf(instr, a)) = 1 <=> a.size = "Byte"
  <2>1. Override(instr) \in BOOLEAN BY DEF Override
  <2> QED BY <1>1, <2>1, Sized DEF SizeOf
<1>3. w \in {0, 1, 2, 4} /\ (w = 1 <=> a.source \in {"ImmediateValue", "JumpRel"} /\ a.size = "Byte")
  BY <1>2
<1>4. ImmediateBytes(instr, n) = [j \in 1 .. w |-> 112 + 16 * n + j]
  BY DEF ImmediateBytes, Defined
<1> HIDE DEF w
<1>5. [j \in 1 .. w |-> 112 + 16 * n + j] \in Seq(Byte) /\ Len([j \in 1 .. w |-> 112 + 16 * n + j]) = w
  BY <1>3 DEF Byte
<1> QED BY <1>3, <1>4, <1>5 DEF Width, w

-----------------------------------------------------------------------------
(* The encodings of an operand                                             *)

LEMMA OperandFields ==
  ASSUME NEW o \in RMOperands
  PROVE  \/ o.kind = "register" /\ o = InRegister(o.reg) /\ o.reg \in 0 .. 7
         \/ /\ o.kind = "memory"
            /\ o = InMemory(o.base, o.index, o.scale, o.disp)
            /\ o.base \in {None} \union 0 .. 7
            /\ o.index \in {None} \union (0 .. 7 \ {ESP})
            /\ o.index = None => o.scale = 1
            /\ o.disp \in [1 .. 4 -> Byte]
  BY DEF RMOperands, InRegister, InMemory

LEMMA DisplacementCases ==
  ASSUME NEW o \in RMOperands, o.kind = "memory", NEW d \in Displacements(o)
  PROVE  \/ o.base = None /\ d.mode = 0 /\ d.bytes = o.disp
         \/ /\ o.base # None /\ o.base # EBP /\ d.mode = 0 /\ d.bytes = <<>>
            /\ o.disp = Zero
         \/ /\ o.base # None /\ d.mode = 1 /\ d.bytes = <<o.disp[1]>>
            /\ SignExtended(o.disp[1]) = o.disp
         \/ o.base # None /\ d.mode = 2 /\ d.bytes = o.disp
<1>1. CASE o.base = None BY <1>1 DEF Displacements
<1>2. CASE o.base # None
  <2>1. d \in { [mode |-> 0, bytes |-> <<>>], [mode |-> 1, bytes |-> <<o.disp[1]>>],
                [mode |-> 2, bytes |-> o.disp] }
        /\ (d.mode = 0 => o.disp = Zero /\ o.base # EBP)
        /\ (d.mode = 1 => SignExtended(o.disp[1]) = o.disp)
    BY <1>2 DEF Displacements
  <2> QED BY <1>2, <2>1
<1> QED BY <1>1, <1>2

(* A displacement is a sequence of up to four bytes.                       *)
LEMMA DisplacementType ==
  ASSUME NEW o \in RMOperands, o.kind = "memory", NEW d \in Displacements(o)
  PROVE  /\ d.mode \in 0 .. 2
         /\ d.bytes \in Seq(Byte) /\ Len(d.bytes) <= 4
         /\ o.disp \in Seq(Byte) /\ Len(o.disp) = 4
<1>1. o.disp \in [1 .. 4 -> Byte] BY OperandFields
<1>2. o.disp \in Seq(Byte) /\ Len(o.disp) = 4 BY <1>1, DoubleWordType
<1>3. <<o.disp[1]>> \in Seq(Byte) /\ Len(<<o.disp[1]>>) = 1 BY <1>1
<1>4. <<>> \in Seq(Byte) /\ Len(<<>>) = 0 BY EmptySeq
<1>5. \/ d.mode = 0 /\ d.bytes = o.disp
      \/ d.mode = 0 /\ d.bytes = <<>>
      \/ d.mode = 1 /\ d.bytes = <<o.disp[1]>>
      \/ d.mode = 2 /\ d.bytes = o.disp
  BY DisplacementCases
<1>6. d.mode \in 0 .. 2 BY <1>5
<1>7. d.bytes \in Seq(Byte) /\ Len(d.bytes) <= 4
  <2>1. CASE d.bytes = o.disp
    <3>1. Len(o.disp) <= 4 BY <1>2
    <3> QED BY <1>2, <2>1, <3>1
  <2>2. CASE d.bytes = <<>> BY <1>4, <2>2
  <2>3. CASE d.bytes = <<o.disp[1]>> BY <1>3, <2>3
  <2> QED BY <1>5, <2>1, <2>2, <2>3
<1> QED BY <1>2, <1>6, <1>7

(* The three forms of an encoding: a register, an address without a SIB    *)
(* byte, and one with it.                                                  *)
LEMMA EncodingCases ==
  ASSUME NEW o \in RMOperands, NEW f \in Encodings(o)
  PROVE  \/ o.kind = "register" /\ f.mode = 3 /\ f.rm = o.reg /\ f.tail = <<>>
         \/ /\ o.kind = "memory" /\ o.index = None /\ o.base # ESP
            /\ \E d \in Displacements(o) :
                 /\ f.mode = d.mode /\ f.tail = d.bytes
                 /\ f.rm = IF o.base = None THEN 5 ELSE o.base
         \/ /\ o.kind = "memory" /\ f.rm = 4
            /\ \E d \in Displacements(o), log \in 0 .. 3 :
                 /\ f.mode = d.mode
                 /\ f.tail = <<SIBByte(log, o)>> \o d.bytes
                 /\ o.index = None \/ 2 ^ log = o.scale
<1>1. CASE o.kind = "register" BY <1>1 DEF Encodings
<1>2. CASE o.kind = "memory"
  <2>1. f \in Plain(o) \/ f \in Scaled(o) BY <1>2 DEF Encodings
  <2>2. CASE f \in Plain(o)
    <3>1. o.index = None /\ o.base # ESP BY <2>2 DEF Plain
    <3>2. \E d \in Displacements(o) :
            f = [mode |-> d.mode, rm |-> IF o.base = None THEN 5 ELSE o.base, tail |-> d.bytes]
      BY <2>2, <3>1 DEF Plain
    <3> QED BY <1>2, <3>1, <3>2
  <2>3. CASE f \in Scaled(o)
    <3>1. PICK d \in Displacements(o), log \in { l \in 0 .. 3 : o.index = None \/ 2 ^ l = o.scale } :
            f = [mode |-> d.mode, rm |-> 4, tail |-> <<SIBByte(log, o)>> \o d.bytes]
      BY <2>3 DEF Scaled
    <3> QED BY <1>2, <3>1
  <2> QED BY <2>1, <2>2, <2>3
<1> QED BY <1>1, <1>2, OperandFields

LEMMA FieldsOf ==
  ASSUME NEW h \in 0 .. 3, NEW m \in 0 .. 7, NEW l \in 0 .. 7
  PROVE  /\ h * 64 + m * 8 + l \in Byte
         /\ Fields(h * 64 + m * 8 + l) = [low |-> l, middle |-> m, high |-> h]
  BY DEF Byte, Fields

LEMMA SIBByteType ==
  ASSUME NEW o \in RMOperands, o.kind = "memory", NEW log \in 0 .. 3
  PROVE  /\ SIBByte(log, o) \in Byte
         /\ Fields(SIBByte(log, o)) = [low    |-> IF o.base = None THEN 5 ELSE o.base,
                                       middle |-> IF o.index = None THEN 4 ELSE o.index,
                                       high   |-> log]
<1> DEFINE m == IF o.index = None THEN 4 ELSE o.index
           b == IF o.base = None THEN 5 ELSE o.base
<1>1. m \in 0 .. 7 /\ b \in 0 .. 7 BY OperandFields
<1> HIDE DEF m, b
<1>2. /\ log * 64 + m * 8 + b \in Byte
      /\ Fields(log * 64 + m * 8 + b) = [low |-> b, middle |-> m, high |-> log]
  BY <1>1, FieldsOf
<1> QED BY <1>2 DEF SIBByte, m, b

(* The bytes behind the opcode.                                            *)
LEMMA EncodingType ==
  ASSUME NEW o \in RMOperands, NEW f \in Encodings(o)
  PROVE  /\ f.mode \in 0 .. 3 /\ f.rm \in 0 .. 7
         /\ f.tail \in Seq(Byte) /\ Len(f.tail) <= 5
<1>1. CASE o.kind = "register"
  <2>1. f.mode = 3 /\ f.rm \in 0 .. 7 /\ f.tail = <<>>
    BY <1>1, EncodingCases, OperandFields
  <2> QED BY <2>1, EmptySeq
<1>2. CASE o.kind = "memory"
  <2>1. \A d \in Displacements(o) :
          d.mode \in 0 .. 3 /\ d.bytes \in Seq(Byte) /\ Len(d.bytes) <= 4
    BY <1>2, DisplacementType
  <2>2. (IF o.base = None THEN 5 ELSE o.base) \in 0 .. 7
    BY <1>2, OperandFields
  <2>3. CASE \E d \in Displacements(o) :
               /\ f.mode = d.mode /\ f.tail = d.bytes
               /\ f.rm = IF o.base = None THEN 5 ELSE o.base
    BY <2>1, <2>2, <2>3
  <2>4. ASSUME f.rm = 4, NEW d \in Displacements(o), NEW log \in 0 .. 3,
               f.mode = d.mode, f.tail = <<SIBByte(log, o)>> \o d.bytes
        PROVE  /\ f.mode \in 0 .. 3 /\ f.rm \in 0 .. 7
               /\ f.tail \in Seq(Byte) /\ Len(f.tail) <= 5
    <3> DEFINE b == SIBByte(log, o)
    <3>1. b \in Byte BY <1>2, SIBByteType
    <3> HIDE DEF b
    <3>2. <<b>> \in Seq(Byte) /\ Len(<<b>>) = 1 BY <3>1
    <3>3. d.bytes \in Seq(Byte) /\ Len(d.bytes) <= 4 BY <2>1
    <3> DEFINE t == <<b>> \o d.bytes
    <3>4. t \in Seq(Byte) /\ Len(t) = 1 + Len(d.bytes)
      BY <3>2, <3>3, ConcatProperties
    <3>5. f.tail = t BY <2>4 DEF b
    <3>6. f.mode \in 0 .. 3 /\ f.rm = 4 BY <2>1, <2>4
    <3> HIDE DEF t
    <3>7. f.rm \in 0 .. 7 BY <3>6
    <3>8. Len(t) <= 5 BY <3>3, <3>4
    <3> QED BY <3>4, <3>5, <3>6, <3>7, <3>8
  <2> QED BY <1>2, <2>3, <2>4, EncodingCases
<1> QED BY <1>1, <1>2, OperandFields

-----------------------------------------------------------------------------
(* Where the parts of an instruction are                                   *)

(* A byte of two sequences in a row.                                       *)
LEMMA Joined ==
  ASSUME NEW s \in Seq(Byte), NEW t \in Seq(Byte)
  PROVE  /\ s \o t \in Seq(Byte)
         /\ Len(s \o t) = Len(s) + Len(t)
         /\ \A i \in 1 .. Len(s) : (s \o t)[i] = s[i]
         /\ \A i \in 1 .. Len(t) : (s \o t)[Len(s) + i] = t[i]
<1>1. Len(s) \in Nat /\ Len(t) \in Nat BY LenProperties
<1> QED BY <1>1, ConcatProperties

LEMMA ModRMType ==
  ASSUME Given
  PROVE  /\ ModRMBytes(instr) \in Seq(Byte) /\ ModRMWidth \in Nat /\ ModRMWidth <= 6
         /\ instr.rm = NoOperand => ModRMBytes(instr) = <<>> /\ ModRMWidth = 0
         /\ instr.rm # NoOperand =>
              /\ instr.rm \in RMOperands /\ instr.form \in Encodings(instr.rm)
              /\ ModRMWidth = 1 + Len(instr.form.tail)
              /\ Fields(ModRMBytes(instr)[1]) =
                   [low |-> instr.form.rm, middle |-> instr.reg, high |-> instr.form.mode]
              /\ \A i \in 1 .. Len(instr.form.tail) :
                   ModRMBytes(instr)[1 + i] = instr.form.tail[i]
<1>1. CASE instr.rm = NoOperand
  BY <1>1, EmptySeq DEF ModRMBytes, ModRMWidth
<1>2. CASE instr.rm # NoOperand
  <2> DEFINE f == instr.form
             b == f.mode * 64 + instr.reg * 8 + f.rm
             tail == f.tail
  <2>1. instr.rm \in RMOperands /\ f \in Encodings(instr.rm) /\ instr.reg \in 0 .. 7
    BY <1>2, InstructionType DEF Encodable
  <2>2. f.mode \in 0 .. 3 /\ f.rm \in 0 .. 7 /\ tail \in Seq(Byte) /\ Len(tail) <= 5
    BY <2>1, EncodingType
  <2>3. ModRMBytes(instr) = <<b>> \o tail
    BY <1>2 DEF ModRMBytes
  <2> HIDE DEF f, tail
  <2>4. /\ b \in Byte
        /\ Fields(b) = [low |-> f.rm, middle |-> instr.reg, high |-> f.mode]
    BY <2>1, <2>2, FieldsOf
  <2> HIDE DEF b
  <2>5. <<b>> \in Seq(Byte) /\ Len(<<b>>) = 1 /\ <<b>>[1] = b
    BY <2>4
  <2> DEFINE s == <<b>>
             t == s \o tail
  <2>6. s \in Seq(Byte) /\ Len(s) = 1 /\ s[1] = b BY <2>5
  <2> HIDE DEF s
  <2>7. /\ t \in Seq(Byte) /\ Len(t) = 1 + Len(tail) /\ t[1] = b
        /\ \A i \in 1 .. Len(tail) : t[1 + i] = tail[i]
    <3>1. \A i \in 1 .. Len(s) : t[i] = s[i]
      BY <2>2, <2>6, Joined
    <3>2. 1 \in 1 .. Len(s) BY <2>6
    <3>3. /\ t \in Seq(Byte) /\ Len(t) = Len(s) + Len(tail)
          /\ \A i \in 1 .. Len(tail) : t[Len(s) + i] = tail[i]
      BY <2>2, <2>6, Joined
    <3> HIDE DEF t
    <3> QED BY <2>2, <2>6, <3>1, <3>2, <3>3
  <2>8. ModRMBytes(instr) = t BY <2>3 DEF s
  <2> HIDE DEF t
  <2>9. ModRMBytes(instr) \in Seq(Byte) /\ ModRMWidth = 1 + Len(tail)
    BY <2>7, <2>8 DEF ModRMWidth
  <2>10. ModRMWidth \in Nat /\ ModRMWidth <= 6 BY <2>2, <2>9, LenProperties
  <2>11. /\ Fields(ModRMBytes(instr)[1]) = [low |-> f.rm, middle |-> instr.reg, high |-> f.mode]
         /\ \A i \in 1 .. Len(tail) : ModRMBytes(instr)[1 + i] = tail[i]
    BY <2>4, <2>7, <2>8
  <2> QED BY <1>2, <2>1, <2>9, <2>10, <2>11 DEF f, tail
<1> QED BY <1>1, <1>2

LEMMA PrefixedType ==
  ASSUME Given
  PROVE  LET n == Len(instr.prefixes)
         IN  /\ Prefixed(instr) \in Seq(Byte)
             /\ n \in Nat /\ instr.prefixes \in [1 .. n -> PrefixBytes]
             /\ Skipped = IF instr.number >= TwoByte THEN n + 1 ELSE n
             /\ \A i \in 1 .. n : Prefixed(instr)[i] = instr.prefixes[i]
             /\ instr.number >= TwoByte => Prefixed(instr)[n + 1] = \h0F
<1> DEFINE ps == instr.prefixes
           t  == IF instr.number >= TwoByte THEN <<\h0F>> ELSE <<>>
<1>1. ps \in Seq(PrefixBytes) BY InstructionType DEF Encodable
<1>2. ps \in Seq(Byte) /\ Len(ps) \in Nat /\ ps \in [1 .. Len(ps) -> PrefixBytes]
  <2>1. PrefixBytes \subseteq Byte BY DEF PrefixBytes, Byte
  <2> QED BY <1>1, <2>1, SeqMonotonic, LenProperties
<1>3. t \in Seq(Byte) /\ (instr.number < TwoByte => Len(t) = 0)
      /\ (instr.number >= TwoByte => Len(t) = 1 /\ t[1] = \h0F)
  <2>1. instr.number \in Int /\ TwoByte = 256
    BY NumberType DEF TwoByte
  <2>2. \h0F \in Byte BY DEF Byte
  <2>3. CASE instr.number >= TwoByte
    <3>1. t = <<\h0F>> BY <2>3
    <3> QED BY <2>1, <2>2, <2>3, <3>1
  <2>4. CASE instr.number < TwoByte
    <3>1. t = <<>> BY <2>1, <2>4
    <3> QED BY <2>1, <2>4, <3>1, EmptySeq
  <2> QED BY <2>1, <2>3, <2>4
<1>4. Prefixed(instr) = ps \o t BY DEF Prefixed
<1>5. instr.number \in Int /\ TwoByte = 256
  BY NumberType DEF TwoByte
<1> HIDE DEF t, ps
<1>6. /\ ps \o t \in Seq(Byte) /\ Len(ps \o t) = Len(ps) + Len(t)
      /\ \A i \in 1 .. Len(ps) : (ps \o t)[i] = ps[i]
      /\ \A i \in 1 .. Len(t) : (ps \o t)[Len(ps) + i] = t[i]
  BY <1>2, <1>3, Joined
<1> QED BY <1>2, <1>3, <1>4, <1>5, <1>6 DEF Skipped, ps

(* The bytes of an instruction: its prefixes, its opcode, what belongs to  *)
(* the ModR/M byte, and its immediates.                                    *)
LEMMA Layout ==
  ASSUME Given
  PROVE  /\ Bytes(instr) \in Seq(Byte)
         /\ Total = Skipped + 1 + ModRMWidth + Before(4)
         /\ \A i \in 1 .. Skipped : Bytes(instr)[i] = Prefixed(instr)[i]
         /\ Bytes(instr)[Skipped + 1] = instr.number % 256
         /\ \A i \in 1 .. ModRMWidth : Bytes(instr)[Skipped + 1 + i] = ModRMBytes(instr)[i]
         /\ \A n \in 1 .. 3 : \A j \in 1 .. Width(n) :
              Bytes(instr)[Skipped + 1 + ModRMWidth + Before(n) + j] = ImmediateBytes(instr, n)[j]
<1> DEFINE p  == Prefixed(instr)
           o  == <<instr.number % 256>>
           m  == ModRMBytes(instr)
           i1 == ImmediateBytes(instr, 1)
           i2 == ImmediateBytes(instr, 2)
           i3 == ImmediateBytes(instr, 3)
           po == p \o o
           pm == po \o m
           ii == i1 \o i2
           im == ii \o i3
           bs == pm \o im
<1>1. p \in Seq(Byte) /\ m \in Seq(Byte)
      /\ i1 \in Seq(Byte) /\ i2 \in Seq(Byte) /\ i3 \in Seq(Byte)
  BY PrefixedType, ModRMType, ImmediateType
<1>2. o \in Seq(Byte) /\ Len(o) = 1 /\ o[1] = instr.number % 256
  <2>1. instr.number % 256 \in Byte BY NumberType DEF Byte
  <2> QED BY <2>1
<1>3. Bytes(instr) = bs BY DEF Bytes, Immediates
<1>4. /\ Skipped = Len(p) /\ ModRMWidth = Len(m)
      /\ Width(1) = Len(i1) /\ Width(2) = Len(i2) /\ Width(3) = Len(i3)
      /\ Before(1) = 0 /\ Before(2) = Len(i1) /\ Before(3) = Len(i1) + Len(i2)
      /\ Before(4) = Len(i1) + Len(i2) + Len(i3)
  <2>1. Len(i1) \in Nat /\ Len(i2) \in Nat /\ Len(i3) \in Nat BY <1>1, LenProperties
  <2> HIDE DEF i1, i2, i3
  <2> QED BY <2>1 DEF Skipped, ModRMWidth, Width, Before, i1, i2, i3
<1> HIDE DEF p, o, m, i1, i2, i3
<1>5. /\ po \in Seq(Byte) /\ Len(po) = Len(p) + Len(o)
      /\ \A i \in 1 .. Len(p) : po[i] = p[i]
      /\ \A i \in 1 .. Len(o) : po[Len(p) + i] = o[i]
  BY <1>1, <1>2, Joined
<1> HIDE DEF po
<1>6. /\ pm \in Seq(Byte) /\ Len(pm) = Len(po) + Len(m)
      /\ \A i \in 1 .. Len(po) : pm[i] = po[i]
      /\ \A i \in 1 .. Len(m) : pm[Len(po) + i] = m[i]
  BY <1>1, <1>5, Joined
<1>7. /\ ii \in Seq(Byte) /\ Len(ii) = Len(i1) + Len(i2)
      /\ \A i \in 1 .. Len(i1) : ii[i] = i1[i]
      /\ \A i \in 1 .. Len(i2) : ii[Len(i1) + i] = i2[i]
  BY <1>1, Joined
<1> HIDE DEF pm, ii
<1>8. /\ im \in Seq(Byte) /\ Len(im) = Len(ii) + Len(i3)
      /\ \A i \in 1 .. Len(ii) : im[i] = ii[i]
      /\ \A i \in 1 .. Len(i3) : im[Len(ii) + i] = i3[i]
  BY <1>1, <1>7, Joined
<1> HIDE DEF im
<1>9. /\ bs \in Seq(Byte) /\ Len(bs) = Len(pm) + Len(im)
      /\ \A i \in 1 .. Len(pm) : bs[i] = pm[i]
      /\ \A i \in 1 .. Len(im) : bs[Len(pm) + i] = im[i]
  BY <1>6, <1>8, Joined
<1> HIDE DEF bs
<1>10. Len(p) \in Nat /\ Len(m) \in Nat /\ Len(i1) \in Nat /\ Len(i2) \in Nat /\ Len(i3) \in Nat
  BY <1>1, LenProperties
<1>11. Total = Len(bs) BY <1>3 DEF Total
<1>12. Len(po) = Len(p) + 1 /\ Len(pm) = Len(p) + 1 + Len(m)
       /\ Len(ii) = Len(i1) + Len(i2) /\ Len(im) = Len(i1) + Len(i2) + Len(i3)
  BY <1>2, <1>5, <1>6, <1>7, <1>8, <1>10
<1> DEFINE lp == Len(p)
           lm == Len(m)
           l1 == Len(i1)
           l2 == Len(i2)
           l3 == Len(i3)
<1>13. \A i \in 1 .. lp : bs[i] = p[i]
  BY <1>5, <1>6, <1>9, <1>10, <1>12
<1>14. bs[lp + 1] = instr.number % 256
  <2>1. 1 \in 1 .. Len(o) BY <1>2
  <2>2. po[lp + 1] = o[1] BY <1>5, <2>1
  <2>3. lp + 1 \in 1 .. Len(po) BY <1>10, <1>12
  <2>4. lp + 1 \in 1 .. Len(pm) BY <1>10, <1>12
  <2> HIDE DEF lp
  <2> QED BY <1>2, <1>6, <1>9, <2>2, <2>3, <2>4
<1>15. \A i \in 1 .. lm : bs[lp + 1 + i] = m[i]
  BY <1>6, <1>9, <1>10, <1>12
<1>16. /\ \A j \in 1 .. l1 : bs[lp + 1 + lm + j] = i1[j]
       /\ \A j \in 1 .. l2 : bs[lp + 1 + lm + l1 + j] = i2[j]
       /\ \A j \in 1 .. l3 : bs[lp + 1 + lm + (l1 + l2) + j] = i3[j]
  <2>1. \A i \in 1 .. l1 + l2 + l3 : bs[lp + 1 + lm + i] = im[i]
    BY <1>9, <1>10, <1>12
  <2>2. \A i \in 1 .. l1 + l2 : im[i] = ii[i]
    BY <1>8, <1>10, <1>12
  <2>3. \A j \in 1 .. l3 : im[l1 + l2 + j] = i3[j]
    BY <1>8, <1>10, <1>12
  <2>4. /\ \A j \in 1 .. l1 : ii[j] = i1[j]
        /\ \A j \in 1 .. l2 : ii[l1 + j] = i2[j]
    BY <1>7
  <2>5. lp \in Nat /\ lm \in Nat /\ l1 \in Nat /\ l2 \in Nat /\ l3 \in Nat
    BY <1>10
  <2> HIDE DEF lp, lm, l1, l2, l3
  <2>6. \A j \in 1 .. l1 : bs[lp + 1 + lm + j] = i1[j]
    BY <2>1, <2>2, <2>4, <2>5
  <2>7. ASSUME NEW j \in 1 .. l2 PROVE bs[lp + 1 + lm + l1 + j] = i2[j]
    <3>1. l1 + j \in 1 .. l1 + l2 /\ l1 + j \in 1 .. l1 + l2 + l3
          /\ lp + 1 + lm + l1 + j = lp + 1 + lm + (l1 + j)
      BY <2>5
    <3> QED BY <2>1, <2>2, <2>4, <3>1
  <2>8. ASSUME NEW j \in 1 .. l3 PROVE bs[lp + 1 + lm + (l1 + l2) + j] = i3[j]
    <3>1. l1 + l2 + j \in 1 .. l1 + l2 + l3
          /\ lp + 1 + lm + (l1 + l2) + j = lp + 1 + lm + (l1 + l2 + j)
      BY <2>5
    <3> QED BY <2>1, <2>3, <3>1
  <2> QED BY <2>6, <2>7, <2>8
<1>17. \A n \in 1 .. 3 : \A j \in 1 .. Width(n) :
         bs[Skipped + 1 + ModRMWidth + Before(n) + j] = ImmediateBytes(instr, n)[j]
  <2>1. \A j \in 1 .. Width(1) :
          bs[Skipped + 1 + ModRMWidth + Before(1) + j] = ImmediateBytes(instr, 1)[j]
    BY <1>4, <1>10, <1>16 DEF i1
  <2>2. \A j \in 1 .. Width(2) :
          bs[Skipped + 1 + ModRMWidth + Before(2) + j] = ImmediateBytes(instr, 2)[j]
    BY <1>4, <1>10, <1>16 DEF i2
  <2>3. \A j \in 1 .. Width(3) :
          bs[Skipped + 1 + ModRMWidth + Before(3) + j] = ImmediateBytes(instr, 3)[j]
    BY <1>4, <1>10, <1>16 DEF i3
  <2> QED BY <2>1, <2>2, <2>3
<1>18. bs \in Seq(Byte) /\ Total = Skipped + 1 + ModRMWidth + Before(4)
  BY <1>4, <1>9, <1>10, <1>11, <1>12
<1> QED BY <1>3, <1>4, <1>13, <1>14, <1>15, <1>17, <1>18 DEF p, m

LEMMA WidthType == ASSUME Given, NEW n \in 1 .. 4
  PROVE Skipped \in Nat /\ ModRMWidth \in Nat /\ Before(n) \in Nat /\ Total \in Nat
        /\ (n <= 3 => Width(n) \in Nat /\ Before(n + 1) = Before(n) + Width(n))
<1>1. Width(1) \in Nat /\ Width(2) \in Nat /\ Width(3) \in Nat BY ImmediateType
<1>2. Skipped \in Nat /\ ModRMWidth \in Nat BY PrefixedType, ModRMType, LenProperties DEF Skipped
<1>3. \A k \in 1 .. 4 : Before(k) \in Nat BY <1>1 DEF Before
<1>4. Total \in Nat BY <1>2, <1>3, Layout
<1>5. n <= 3 => Before(n + 1) = Before(n) + Width(n) BY <1>1 DEF Before
<1>6. n <= 3 => Width(n) \in Nat BY <1>1
<1> QED BY <1>2, <1>3, <1>4, <1>5, <1>6

(* The bytes that are fetched: zeros follow the instruction.               *)
LEMMA FetchedBytes ==
  ASSUME Given
  PROVE  /\ buffer \in [1 .. MaxFetch -> Byte]
         /\ buffer \in Seq(Byte) /\ Len(buffer) = MaxFetch
         /\ \A k \in 1 .. MaxFetch : buffer[k] = IF k <= Total THEN Bytes(instr)[k] ELSE 0
<1> DEFINE bs == Bytes(instr)
           zs == [i \in 1 .. MaxFetch |-> 0]
           s  == bs \o zs
           k  == Len(bs)
<1>1. bs \in Seq(Byte) BY Layout
<1>2. zs \in Seq(Byte) /\ Len(zs) = 16 /\ \A i \in 1 .. 16 : zs[i] = 0
  <2>1. zs \in [1 .. 16 -> Byte] BY DEF MaxFetch, Byte
  <2>2. \A i \in 1 .. 16 : zs[i] = 0 BY DEF MaxFetch
  <2> HIDE DEF zs
  <2>3. 16 \in Nat OBVIOUS
  <2> QED BY <2>1, <2>2, <2>3, TupleType
<1>3. Total = k BY DEF Total
<1> HIDE DEF bs, zs
<1>4. /\ s \in Seq(Byte) /\ Len(s) = Len(bs) + Len(zs)
      /\ \A i \in 1 .. Len(bs) : s[i] = bs[i]
      /\ \A i \in 1 .. Len(zs) : s[Len(bs) + i] = zs[i]
  BY <1>1, <1>2, Joined
<1> HIDE DEF s
<1>5. k \in Nat BY <1>1, LenProperties
<1>6. Len(s) = k + 16 BY <1>2, <1>4
<1>7. \A i \in 1 .. k : s[i] = bs[i] BY <1>4
<1>8. \A i \in 1 .. 16 : s[k + i] = 0 BY <1>2, <1>4
<1> HIDE DEF k
<1>9. \A i \in 1 .. 16 : s[i] = IF i <= k THEN bs[i] ELSE 0
  <2> SUFFICES ASSUME NEW i \in 1 .. 16, ~(i <= k) PROVE s[i] = 0
    BY <1>5, <1>7
  <2>1. i - k \in 1 .. 16 /\ k + (i - k) = i BY <1>5
  <2> QED BY <1>8, <2>1
<1>10. buffer = SubSeq(s, 1, 16) BY DEF Given, Fetched, MaxFetch, s, bs, zs
<1>11. /\ SubSeq(s, 1, 16) \in Seq(Byte) /\ Len(SubSeq(s, 1, 16)) = 16
       /\ \A i \in 1 .. 16 : SubSeq(s, 1, 16)[i] = s[i]
  BY <1>4, <1>5, <1>6, SubSeqProperties
<1>12. buffer \in [1 .. 16 -> Byte]
  BY <1>10, <1>11, LenProperties
<1> QED BY <1>3, <1>9, <1>10, <1>11, <1>12 DEF MaxFetch, bs

-----------------------------------------------------------------------------
(* The ModR/M byte                                                         *)

(* An encoding with a SIB byte has it first.                               *)
LEMMA SIBFirst ==
  ASSUME NEW o \in RMOperands, o.kind = "memory", NEW d \in Displacements(o), NEW log \in 0 .. 3
  PROVE  LET t == <<SIBByte(log, o)>> \o d.bytes
         IN  /\ t[1] = SIBByte(log, o)
             /\ Len(t) = 1 + Len(d.bytes)
             /\ \A i \in 1 .. Len(d.bytes) : t[1 + i] = d.bytes[i]
<1> DEFINE b == SIBByte(log, o)
           s == <<b>>
           r == d.bytes
           t == s \o r
<1>1. b \in Byte BY SIBByteType
<1>2. r \in Seq(Byte) BY DisplacementType
<1> HIDE DEF b, r
<1>3. s \in Seq(Byte) /\ Len(s) = 1 /\ s[1] = b BY <1>1
<1> HIDE DEF s
<1>4. /\ Len(t) = Len(s) + Len(r)
      /\ \A i \in 1 .. Len(s) : t[i] = s[i]
      /\ \A i \in 1 .. Len(r) : t[Len(s) + i] = r[i]
  BY <1>2, <1>3, Joined
<1>5. 1 \in 1 .. Len(s) BY <1>3
<1>6. t[1] = b /\ Len(t) = 1 + Len(r) /\ \A i \in 1 .. Len(r) : t[1 + i] = r[i]
  <2> HIDE DEF t
  <2> QED BY <1>3, <1>4, <1>5
<1> QED BY <1>6 DEF t, s, b, r

(* There are double words.                                                 *)
LEMMA ZeroType == Zero \in DoubleWord
  BY DEF Zero, DoubleWord, Byte

(* What each mode of a ModR/M byte stands for.                             *)
LEMMA Modes ==
  ASSUME NEW m, NEW z
  PROVE  /\ m.mode = 3 => DecodeModRM(m, z) = Argument(RegisterValue(m.rm, z), FALSE)
         /\ m.mode = 0 /\ m.rm = 5 => DecodeModRM(m, z) = Argument(Address(m.disp, z), TRUE)
         /\ m.mode = 0 /\ m.rm \notin {4, 5} =>
              DecodeModRM(m, z) = Argument(RegisterAddress(m.rm, z), TRUE)
         /\ m.mode \in {1, 2} /\ m.rm # 4 =>
              DecodeModRM(m, z) = Argument(ModRMAddress(m.rm, m.disp, z), TRUE)
         /\ m.mode \in {0, 1, 2} /\ m.rm = 4 =>
              DecodeModRM(m, z) = Argument(SIBAddress(m, z), TRUE)
<1>1. m.mode = 3 => DecodeModRM(m, z) = Argument(RegisterValue(m.rm, z), FALSE)
  BY DEF DecodeModRM
<1>2. m.mode = 0 /\ m.rm = 5 => DecodeModRM(m, z) = Argument(Address(m.disp, z), TRUE)
  BY DEF DecodeModRM
<1>3. ASSUME m.mode = 0, m.rm \notin {4, 5}
      PROVE  DecodeModRM(m, z) = Argument(RegisterAddress(m.rm, z), TRUE)
  <2>1. m.mode # 3 /\ m.rm # 5 BY <1>3
  <2> QED BY <1>3, <2>1 DEF DecodeModRM
<1>4. ASSUME m.mode \in {1, 2}, m.rm # 4
      PROVE  DecodeModRM(m, z) = Argument(ModRMAddress(m.rm, m.disp, z), TRUE)
  <2>1. m.mode # 3 /\ m.mode # 0 BY <1>4
  <2> QED BY <1>4, <2>1 DEF DecodeModRM
<1>5. ASSUME m.mode \in {0, 1, 2}, m.rm = 4
      PROVE  DecodeModRM(m, z) = Argument(SIBAddress(m, z), TRUE)
  <2>1. m.mode # 3 /\ m.rm # 5 /\ ~(m.rm \notin {4, 5}) BY <1>5
  <2> QED BY <1>5, <2>1 DEF DecodeModRM
<1> QED BY <1>1, <1>2, <1>3, <1>4, <1>5

(* The operands that locations denote.                                     *)
LEMMA Denotes ==
  ASSUME NEW r, NEW z, NEW d
  PROVE  /\ Denoted(RegisterValue(r, z)) = InRegister(r)
         /\ DenotedWidth(RegisterValue(r, z)) = BytesOf(z)
         /\ Denoted(Address(d, z)) = InMemory(None, None, 1, d)
         /\ DenotedWidth(Address(d, z)) = BytesOf(z)
         /\ Denoted(RegisterAddress(r, z)) = InMemory(r, None, 1, Zero)
         /\ DenotedWidth(RegisterAddress(r, z)) = BytesOf(z)
         /\ Denoted(ModRMAddress(r, d, z)) = InMemory(r, None, 1, d)
         /\ DenotedWidth(ModRMAddress(r, d, z)) = BytesOf(z)
         /\ Denoted(ImmediateOf(d)) = Immediate(d)
         /\ DenotedWidth(ImmediateOf(d)) = Len(d)
         /\ Denoted(NoArgument.location) = NoOperand
         /\ DenotedWidth(NoArgument.location) = 0
<1>1. Denoted(RegisterValue(r, z)) = InRegister(r) /\ DenotedWidth(RegisterValue(r, z)) = BytesOf(z)
  BY DEF Denoted, DenotedWidth, RegisterValue
<1>2. /\ Denoted(Address(d, z)) = InMemory(None, None, 1, d)
      /\ DenotedWidth(Address(d, z)) = BytesOf(z)
  BY DEF Denoted, DenotedWidth, Address
<1>3. /\ Denoted(RegisterAddress(r, z)) = InMemory(r, None, 1, Zero)
      /\ DenotedWidth(RegisterAddress(r, z)) = BytesOf(z)
  BY DEF Denoted, DenotedWidth, RegisterAddress
<1>4. /\ Denoted(ModRMAddress(r, d, z)) = InMemory(r, None, 1, d)
      /\ DenotedWidth(ModRMAddress(r, d, z)) = BytesOf(z)
  BY DEF Denoted, DenotedWidth, ModRMAddress
<1>5. Denoted(ImmediateOf(d)) = Immediate(d) /\ DenotedWidth(ImmediateOf(d)) = Len(d)
  BY DEF Denoted, DenotedWidth, ImmediateOf
<1>6. Denoted(NoArgument.location) = NoOperand /\ DenotedWidth(NoArgument.location) = 0
  BY DEF Denoted, DenotedWidth, NoArgument, Argument
<1> QED BY <1>1, <1>2, <1>3, <1>4, <1>5, <1>6

(* Where a decoded argument may be.                                        *)
LEMMA LocationType ==
  ASSUME NEW r \in 0 .. 7, NEW z \in FixedSizes, NEW d \in DoubleWord
  PROVE  /\ RegisterValue(r, z) \in Locations
         /\ RegisterAddress(r, z) \in Locations
         /\ Address(d, z) \in Locations
         /\ ModRMAddress(r, d, z) \in Locations
         /\ \A bs \in Seq(Byte) : ImmediateOf(bs) \in Locations
         /\ NoArgument.location \in Locations
<1> DEFINE rs == [kind : {"RegisterValue", "RegisterAddress"}, reg : 0 .. 7, size : FixedSizes]
           as == [kind : {"Address"}, addr : DoubleWord, size : FixedSizes]
           ms == [kind : {"ModRMAddress"}, reg : 0 .. 7, offset : DoubleWord, size : FixedSizes]
           is == [kind : {"Immediate"}, bytes : Seq(Byte)]
           ns == [kind : {"None"}]
<1>1. RegisterValue(r, z) \in rs /\ RegisterAddress(r, z) \in rs
  BY DEF RegisterValue, RegisterAddress
<1>2. Address(d, z) \in as BY DEF Address
<1>3. ModRMAddress(r, d, z) \in ms BY DEF ModRMAddress
<1>4. \A bs \in Seq(Byte) : ImmediateOf(bs) \in is BY DEF ImmediateOf
<1>5. NoArgument.location \in ns BY DEF NoArgument, Argument
<1>6. rs \subseteq Locations /\ as \subseteq Locations /\ ms \subseteq Locations
      /\ is \subseteq Locations /\ ns \subseteq Locations
  BY DEF Locations
<1> HIDE DEF rs, as, ms, is, ns
<1> QED BY <1>1, <1>2, <1>3, <1>4, <1>5, <1>6

(* What ModRM::decode makes of an encoding is its operand.                 *)
LEMMA DecodesTo ==
  ASSUME NEW o \in RMOperands, NEW f \in Encodings(o), NEW m, NEW z \in FixedSizes,
         m.mode = f.mode, m.rm = f.rm,
         o.kind = "memory" => m.disp = o.disp,
         f.mode # 3 /\ f.rm = 4 => m.sib = Fields(f.tail[1])
  PROVE  LET a == DecodeModRM(m, z)
         IN  /\ Locates(a, o, BytesOf(z))
             /\ a.is_memory = (o.kind = "memory")
             /\ a \in [location : Locations, is_memory : BOOLEAN]
<1> DEFINE a == DecodeModRM(m, z)
           Right(l, b) == /\ Denoted(l) = o /\ DenotedWidth(l) = BytesOf(z)
                          /\ l \in Locations /\ b = (o.kind = "memory")
<1>1. SUFFICES \E l, b : a = Argument(l, b) /\ Right(l, b)
  <2>1. PICK l, b : a = Argument(l, b) /\ Right(l, b) BY <1>1
  <2>2. a.location = l /\ a.is_memory = b /\ b \in BOOLEAN BY <2>1 DEF Argument
  <2>3. a \in [location : Locations, is_memory : BOOLEAN] BY <2>1, <2>2 DEF Argument
  <2> QED BY <2>1, <2>2, <2>3 DEF Locates
<1>2. CASE o.kind = "register" /\ f.mode = 3 /\ f.rm = o.reg
  <2>1. o = InRegister(o.reg) /\ o.reg \in 0 .. 7 BY <1>2, OperandFields
  <2>2. a = Argument(RegisterValue(o.reg, z), FALSE) BY <1>2, Modes
  <2>3. RegisterValue(o.reg, z) \in Locations BY <2>1, ZeroType, LocationType
  <2>4. Denoted(RegisterValue(o.reg, z)) = o /\ DenotedWidth(RegisterValue(o.reg, z)) = BytesOf(z)
    BY <2>1, Denotes
  <2> QED BY <1>2, <2>2, <2>3, <2>4
<1>3. CASE /\ o.kind = "memory" /\ o.index = None /\ o.base # ESP
           /\ \E d \in Displacements(o) :
                /\ f.mode = d.mode /\ f.tail = d.bytes
                /\ f.rm = IF o.base = None THEN 5 ELSE o.base
  <2>1. /\ o = InMemory(o.base, None, 1, o.disp)
        /\ o.base \in {None} \union 0 .. 7 /\ o.disp \in DoubleWord
    BY <1>3, OperandFields DEF DoubleWord
  <2>2. PICK d \in Displacements(o) :
          f.mode = d.mode /\ f.rm = IF o.base = None THEN 5 ELSE o.base
    BY <1>3
  <2>3. \/ o.base = None /\ f.mode = 0
        \/ o.base # None /\ o.base # EBP /\ f.mode = 0 /\ o.disp = Zero
        \/ o.base # None /\ f.mode \in {1, 2}
    BY <1>3, <2>2, DisplacementCases
  <2>4. m.mode = f.mode /\ m.rm = f.rm /\ m.disp = o.disp BY <1>3
  <2>5. CASE o.base = None /\ f.mode = 0
    <3>1. m.mode = 0 /\ m.rm = 5 BY <2>2, <2>4, <2>5
    <3>2. a = Argument(Address(o.disp, z), TRUE) BY <2>4, <3>1, Modes
    <3>3. Address(o.disp, z) \in Locations BY <2>1, LocationType
    <3>4. Denoted(Address(o.disp, z)) = o /\ DenotedWidth(Address(o.disp, z)) = BytesOf(z)
      BY <2>1, <2>5, Denotes
    <3> QED BY <1>3, <3>2, <3>3, <3>4
  <2>6. CASE o.base # None /\ o.base # EBP /\ f.mode = 0 /\ o.disp = Zero
    <3>1. o.base \in 0 .. 7 /\ m.mode = 0 /\ m.rm = o.base /\ m.rm \notin {4, 5}
      BY <1>3, <2>1, <2>2, <2>4, <2>6 DEF ESP, EBP
    <3>2. a = Argument(RegisterAddress(o.base, z), TRUE) BY <3>1, Modes
    <3>3. RegisterAddress(o.base, z) \in Locations BY <2>1, <3>1, LocationType
    <3>4. /\ Denoted(RegisterAddress(o.base, z)) = o
          /\ DenotedWidth(RegisterAddress(o.base, z)) = BytesOf(z)
      BY <2>1, <2>6, Denotes
    <3> QED BY <1>3, <3>2, <3>3, <3>4
  <2>7. CASE o.base # None /\ f.mode \in {1, 2}
    <3>1. o.base \in 0 .. 7 /\ m.mode \in {1, 2} /\ m.rm = o.base /\ m.rm # 4
      BY <1>3, <2>1, <2>2, <2>4, <2>7 DEF ESP
    <3>2. a = Argument(ModRMAddress(o.base, o.disp, z), TRUE) BY <2>4, <3>1, Modes
    <3>3. ModRMAddress(o.base, o.disp, z) \in Locations BY <2>1, <3>1, LocationType
    <3>4. /\ Denoted(ModRMAddress(o.base, o.disp, z)) = o
          /\ DenotedWidth(ModRMAddress(o.base, o.disp, z)) = BytesOf(z)
      BY <2>1, Denotes
    <3> QED BY <1>3, <3>2, <3>3, <3>4
  <2> QED BY <2>3, <2>5, <2>6, <2>7
<1>4. CASE /\ o.kind = "memory" /\ f.rm = 4
           /\ \E d \in Displacements(o), log \in 0 .. 3 :
                /\ f.mode = d.mode
                /\ f.tail = <<SIBByte(log, o)>> \o d.bytes
                /\ o.index = None \/ 2 ^ log = o.scale
  <2>1. PICK d \in Displacements(o), log \in 0 .. 3 :
          /\ f.mode = d.mode
          /\ f.tail = <<SIBByte(log, o)>> \o d.bytes
          /\ o.index = None \/ 2 ^ log = o.scale
    BY <1>4
  <2>2. /\ o = InMemory(o.base, o.index, o.scale, o.disp)
        /\ o.base \in {None} \union 0 .. 7 /\ o.index \in {None} \union (0 .. 7 \ {ESP})
        /\ o.index = None => o.scale = 1
        /\ o.disp \in DoubleWord
    BY <1>4, OperandFields DEF DoubleWord
  <2>3. f.mode \in {0, 1, 2} /\ (o.base = None => f.mode = 0) /\ (o.base = EBP => f.mode # 0)
    BY <1>4, <2>1, DisplacementCases DEF None, EBP
  <2>4. f.tail[1] = SIBByte(log, o)
    BY <1>4, <2>1, SIBFirst
  <2>5. m.sib = Fields(SIBByte(log, o))
    <3>1. f.mode # 3 BY <2>3
    <3> QED BY <1>4, <2>4, <3>1
  <2>6. m.sib = [low    |-> IF o.base = None THEN 5 ELSE o.base,
                 middle |-> IF o.index = None THEN 4 ELSE o.index,
                 high   |-> log]
    BY <1>4, <2>5, SIBByteType
  <2>7. a = Argument(SIBAddress(m, z), TRUE)
    BY <1>4, <2>3, Modes
  <2> DEFINE l == SIBAddress(m, z)
  <2>8. l = [kind |-> "SIBAddress", offset |-> o.disp, size |-> z,
             scale |-> 2 ^ log, base |-> o.base, index |-> o.index]
    <3>1. (IF m.sib.low # 5 THEN m.sib.low ELSE IF m.mode = 0 THEN None ELSE EBP) = o.base
      BY <2>2, <2>3, <2>6 DEF EBP
    <3>2. (IF m.sib.middle = 4 THEN None ELSE m.sib.middle) = o.index
      BY <2>2, <2>6 DEF ESP
    <3> QED BY <1>4, <2>6, <3>1, <3>2 DEF SIBAddress
  <2>9. l \in Locations
    <3>1. 2 ^ log \in Scales BY DEF Scales
    <3>2. l \in [kind : {"SIBAddress"}, offset : DoubleWord, size : FixedSizes, scale : Scales,
                 base : {None} \union 0 .. 7, index : {None} \union 0 .. 7]
      <4> HIDE DEF l
      <4>1. o.index \in {None} \union 0 .. 7 BY <2>2
      <4> QED BY <2>2, <2>8, <3>1, <4>1
    <3> QED BY <3>2 DEF Locations
  <2> HIDE DEF l
  <2>10. Denoted(l) = InMemory(o.base, o.index, IF o.index = None THEN 1 ELSE 2 ^ log, o.disp)
    BY <2>8 DEF Denoted
  <2>11. Denoted(l) = o BY <2>1, <2>2, <2>10
  <2>12. DenotedWidth(l) = BytesOf(z) BY <2>8 DEF DenotedWidth
  <2> QED BY <1>4, <2>7, <2>9, <2>11, <2>12 DEF l
<1> QED BY <1>2, <1>3, <1>4, EncodingCases

LEMMA NoSIBType == NoSIB = [low |-> 0, middle |-> 0, high |-> 0]
  BY DEF NoSIB, Fields

LEMMA DispSizes ==
  ASSUME NEW m, NEW s
  PROVE  /\ m.high = 3 => DispSize(m, s) = 0
         /\ m.high = 2 => DispSize(m, s) = 4
         /\ m.high = 1 => DispSize(m, s) = 1
         /\ m.high = 0 /\ (m.low = 5 \/ s.low = 5) => DispSize(m, s) = 4
         /\ m.high = 0 /\ m.low # 5 /\ s.low # 5 => DispSize(m, s) = 0
<1>1. m.high = 3 => DispSize(m, s) = 0 BY DEF DispSize
<1>2. m.high = 2 => DispSize(m, s) = 4 BY DEF DispSize
<1>3. m.high = 1 => DispSize(m, s) = 1 BY DEF DispSize
<1>4. m.high = 0 /\ (m.low = 5 \/ s.low = 5) => DispSize(m, s) = 4 BY DEF DispSize
<1>5. m.high = 0 /\ m.low # 5 /\ s.low # 5 => DispSize(m, s) = 0 BY DEF DispSize
<1> QED BY <1>1, <1>2, <1>3, <1>4, <1>5

(* The c bytes behind the first k of the tail are the displacement.        *)
Displaced(o, tail, k, c) ==
  /\ c = 0 => o.disp = Zero
  /\ c = 1 => o.disp = SignExtended(tail[k + 1])
  /\ c = 4 => \A i \in 1 .. 4 : o.disp[i] = tail[k + i]

(* The bytes that ParsedModRM::from_bytes finds behind the ModR/M byte are *)
(* those of the encoding, no more and no fewer.                            *)
LEMMA Shape ==
  ASSUME NEW o \in RMOperands, NEW f \in Encodings(o),
         NEW m, m.low = f.rm, m.high = f.mode,
         NEW s, s = IF HasSIB(m) THEN Fields(f.tail[1]) ELSE NoSIB,
         NEW k, k = IF HasSIB(m) THEN 1 ELSE 0,
         NEW c, c = DispSize(m, s)
  PROVE  /\ c = 0 \/ c = 1 \/ c = 4
         /\ 1 + Len(f.tail) = 1 + k + c
         /\ s \in [low : 0 .. 7, middle : 0 .. 7, high : 0 .. 3]
         /\ o.kind = "memory" => Displaced(o, f.tail, k, c)
<1> USE DEF Displaced
<1>1. CASE o.kind = "register" /\ f.mode = 3 /\ f.rm = o.reg /\ f.tail = <<>>
  <2>1. ~HasSIB(m) BY <1>1 DEF HasSIB
  <2>2. c = 0 BY <1>1, DispSizes
  <2>3. Len(f.tail) = 0 BY <1>1
  <2>4. s = [low |-> 0, middle |-> 0, high |-> 0] BY <2>1, NoSIBType
  <2> QED BY <1>1, <2>1, <2>2, <2>3, <2>4
<1>2. CASE /\ o.kind = "memory" /\ o.index = None /\ o.base # ESP
           /\ \E d \in Displacements(o) :
                /\ f.mode = d.mode /\ f.tail = d.bytes
                /\ f.rm = IF o.base = None THEN 5 ELSE o.base
  <2>1. PICK d \in Displacements(o) :
          /\ f.mode = d.mode /\ f.tail = d.bytes
          /\ f.rm = IF o.base = None THEN 5 ELSE o.base
    BY <1>2
  <2>2. o.base \in {None} \union 0 .. 7 /\ o.disp \in Seq(Byte) /\ Len(o.disp) = 4
    BY <1>2, OperandFields, DoubleWordType
  <2>3. f.rm # 4 BY <1>2, <2>1 DEF ESP
  <2>4. ~HasSIB(m) BY <2>3 DEF HasSIB
  <2>5. s = [low |-> 0, middle |-> 0, high |-> 0] BY <2>4, NoSIBType
  <2>6. k = 0 BY <2>4
  <2>7. \/ /\ o.base = None /\ f.mode = 0 /\ f.tail = o.disp
        \/ /\ o.base # None /\ o.base # EBP /\ f.mode = 0 /\ f.tail = <<>> /\ o.disp = Zero
        \/ f.mode = 1 /\ f.tail = <<o.disp[1]>> /\ SignExtended(o.disp[1]) = o.disp
        \/ f.mode = 2 /\ f.tail = o.disp
    BY <1>2, <2>1, DisplacementCases
  <2>8. CASE o.base = None /\ f.mode = 0 /\ f.tail = o.disp
    <3>1. c = 4 BY <2>1, <2>8, DispSizes
    <3>2. Len(f.tail) = 4 BY <2>2, <2>8
    <3> QED BY <1>2, <2>5, <2>6, <2>8, <3>1, <3>2
  <2>9. CASE o.base # None /\ o.base # EBP /\ f.mode = 0 /\ f.tail = <<>> /\ o.disp = Zero
    <3>1. m.low # 5 /\ s.low # 5 BY <2>1, <2>5, <2>9 DEF EBP
    <3>2. c = 0 BY <2>9, <3>1, DispSizes
    <3>3. Len(f.tail) = 0 BY <2>9
    <3> QED BY <1>2, <2>5, <2>6, <2>9, <3>2, <3>3
  <2>10. CASE f.mode = 1 /\ f.tail = <<o.disp[1]>> /\ SignExtended(o.disp[1]) = o.disp
    <3>1. c = 1 BY <2>10, DispSizes
    <3>2. Len(f.tail) = 1 /\ f.tail[1] = o.disp[1] BY <2>10
    <3> QED BY <1>2, <2>5, <2>6, <2>10, <3>1, <3>2
  <2>11. CASE f.mode = 2 /\ f.tail = o.disp
    <3>1. c = 4 BY <2>11, DispSizes
    <3>2. Len(f.tail) = 4 BY <2>2, <2>11
    <3> QED BY <1>2, <2>5, <2>6, <2>11, <3>1, <3>2
  <2> QED BY <2>7, <2>8, <2>9, <2>10, <2>11
<1>3. CASE /\ o.kind = "memory" /\ f.rm = 4
           /\ \E d \in Displacements(o), log \in 0 .. 3 :
                /\ f.mode = d.mode
                /\ f.tail = <<SIBByte(log, o)>> \o d.bytes
                /\ o.index = None \/ 2 ^ log = o.scale
  <2>1. PICK d \in Displacements(o), log \in 0 .. 3 :
          /\ f.mode = d.mode
          /\ f.tail = <<SIBByte(log, o)>> \o d.bytes
    BY <1>3
  <2>2. /\ o.base \in {None} \union 0 .. 7 /\ o.index \in {None} \union 0 .. 7
        /\ o.disp \in Seq(Byte) /\ Len(o.disp) = 4
    BY <1>3, OperandFields, DoubleWordType
  <2>3. /\ f.tail[1] = SIBByte(log, o)
        /\ Len(f.tail) = 1 + Len(d.bytes)
        /\ \A i \in 1 .. Len(d.bytes) : f.tail[1 + i] = d.bytes[i]
    BY <1>3, <2>1, SIBFirst
  <2>4. d.mode \in {0, 1, 2} BY <1>3, DisplacementCases
  <2>5. HasSIB(m) BY <1>3, <2>1, <2>4 DEF HasSIB
  <2>6. s = [low    |-> IF o.base = None THEN 5 ELSE o.base,
             middle |-> IF o.index = None THEN 4 ELSE o.index,
             high   |-> log]
    <3>1. s = Fields(SIBByte(log, o)) BY <2>3, <2>5
    <3> QED BY <1>3, <3>1, SIBByteType
  <2>7. s \in [low : 0 .. 7, middle : 0 .. 7, high : 0 .. 3]
    BY <2>2, <2>6
  <2>8. k = 1 BY <2>5
  <2>9. \/ /\ o.base = None /\ f.mode = 0 /\ d.bytes = o.disp
        \/ /\ o.base # None /\ o.base # EBP /\ f.mode = 0 /\ d.bytes = <<>> /\ o.disp = Zero
        \/ f.mode = 1 /\ d.bytes = <<o.disp[1]>> /\ SignExtended(o.disp[1]) = o.disp
        \/ f.mode = 2 /\ d.bytes = o.disp
    BY <1>3, <2>1, DisplacementCases
  <2>10. ASSUME c = 4, d.bytes = o.disp
         PROVE  /\ 1 + Len(f.tail) = 1 + k + c
                /\ \A i \in 1 .. 4 : o.disp[i] = f.tail[k + i]
    <3>1. Len(d.bytes) = 4 BY <2>2, <2>10
    <3>2. 1 + Len(f.tail) = 1 + k + c BY <2>3, <2>8, <2>10, <3>1
    <3>3. \A i \in 1 .. 4 : f.tail[1 + i] = d.bytes[i] BY <2>3, <3>1
    <3> QED BY <2>8, <2>10, <3>2, <3>3
  <2>11. CASE o.base = None /\ f.mode = 0 /\ d.bytes = o.disp
    <3>1. s.low = 5 BY <2>6, <2>11
    <3>2. c = 4 BY <2>11, <3>1, DispSizes
    <3> QED BY <1>3, <2>7, <2>10, <2>11, <3>2
  <2>12. CASE o.base # None /\ o.base # EBP /\ f.mode = 0 /\ d.bytes = <<>> /\ o.disp = Zero
    <3>1. m.low # 5 /\ s.low # 5 BY <1>3, <2>6, <2>12 DEF EBP
    <3>2. c = 0 BY <2>12, <3>1, DispSizes
    <3>3. Len(d.bytes) = 0 BY <2>12
    <3>4. Len(f.tail) = 1 BY <2>3, <3>3
    <3> QED BY <1>3, <2>7, <2>8, <2>12, <3>2, <3>4
  <2>13. CASE f.mode = 1 /\ d.bytes = <<o.disp[1]>> /\ SignExtended(o.disp[1]) = o.disp
    <3>1. c = 1 BY <2>13, DispSizes
    <3>2. Len(d.bytes) = 1 /\ d.bytes[1] = o.disp[1] BY <2>13
    <3>3. Len(f.tail) = 2 /\ f.tail[2] = o.disp[1] BY <2>3, <3>2
    <3> QED BY <1>3, <2>7, <2>8, <2>13, <3>1, <3>3
  <2>14. CASE f.mode = 2 /\ d.bytes = o.disp
    <3>1. c = 4 BY <2>14, DispSizes
    <3> QED BY <1>3, <2>7, <2>10, <2>14, <3>1
  <2> QED BY <2>9, <2>11, <2>12, <2>13, <2>14
<1> QED BY <1>1, <1>2, <1>3, EncodingCases

-----------------------------------------------------------------------------
(* Steps                                                                   *)

(* What depends on the instruction alone stays as it is.                   *)
LEMMA Stays ==
  ASSUME instr' = instr, buffer' = buffer
  PROVE  /\ Given' = Given
         /\ Skipped' = Skipped /\ ModRMWidth' = ModRMWidth /\ Total' = Total
         /\ IsRep' = IsRep /\ Defined' = Defined /\ Outcome' = Outcome
         /\ Known(instr)' = Known(instr) /\ Override(instr)' = Override(instr)
         /\ \A n : Width(n)' = Width(n) /\ Before(n)' = Before(n) /\ Intended(n)' = Intended(n)
<1>1. Given' = Given BY DEF Given, Fetched
<1>2. Skipped' = Skipped /\ ModRMWidth' = ModRMWidth /\ Total' = Total
  BY DEF Skipped, ModRMWidth, Total
<1>3. IsRep' = IsRep /\ Defined' = Defined /\ Outcome' = Outcome
  BY DEF IsRep, Defined, Outcome
<1>4. Known(instr)' = Known(instr) /\ Override(instr)' = Override(instr)
  OBVIOUS
<1>5. \A n : Width(n)' = Width(n) /\ Before(n)' = Before(n) /\ Intended(n)' = Intended(n)
  BY DEF Width, Before, Intended, Defined
<1> QED BY <1>1, <1>2, <1>3, <1>4, <1>5

(* The byte at hand, among the prefixes and where they end.                *)
LEMMA NextByte ==
  ASSUME Given, at \in 0 .. MaxFetch, at < MaxFetch
  PROVE  LET n == Len(instr.prefixes)
         IN  /\ n \in Nat /\ Skipped = IF instr.number >= TwoByte THEN n + 1 ELSE n
             /\ at < n => Peek(0) = instr.prefixes[at + 1] /\ instr.prefixes[at + 1] \in PrefixBytes
             /\ at = n => /\ instr.number >= TwoByte => Peek(0) = \h0F
                          /\ ~(instr.number >= TwoByte) =>
                               Peek(0) = instr.number /\ Peek(0) \notin PrefixBytes \union {\h0F}
             /\ at = Skipped => Peek(0) = instr.number % 256
<1> DEFINE n == Len(instr.prefixes)
<1>1. /\ n \in Nat /\ instr.prefixes \in [1 .. n -> PrefixBytes]
      /\ Skipped = IF instr.number >= TwoByte THEN n + 1 ELSE n
      /\ \A i \in 1 .. n : Prefixed(instr)[i] = instr.prefixes[i]
      /\ instr.number >= TwoByte => Prefixed(instr)[n + 1] = \h0F
  BY PrefixedType
<1> HIDE DEF n
<1>2. /\ \A k \in 1 .. MaxFetch : buffer[k] = IF k <= Total THEN Bytes(instr)[k] ELSE 0
      /\ Total = Skipped + 1 + ModRMWidth + Before(4)
      /\ \A i \in 1 .. Skipped : Bytes(instr)[i] = Prefixed(instr)[i]
      /\ Bytes(instr)[Skipped + 1] = instr.number % 256
  BY FetchedBytes, Layout
<1>3. ModRMWidth \in Nat /\ Before(4) \in Nat /\ Skipped \in Nat BY WidthType
<1>4. Peek(0) = buffer[at + 1] /\ at + 1 \in 1 .. MaxFetch BY DEF Peek, MaxFetch
<1>5. at + 1 <= Skipped + 1 => Peek(0) = Bytes(instr)[at + 1]
  <2>1. Total >= Skipped + 1 BY <1>2, <1>3
  <2> QED BY <1>2, <1>3, <1>4, <2>1
<1>6. instr.number \in 0 .. 511 /\ instr.number \notin PrefixBytes \union {\h0F}
  BY InstructionType DEF Encodable
<1>7. at = Skipped => Peek(0) = instr.number % 256 BY <1>2, <1>5
<1>8. at < n => Peek(0) = instr.prefixes[at + 1] /\ instr.prefixes[at + 1] \in PrefixBytes
  <2> SUFFICES ASSUME at < n PROVE Peek(0) = instr.prefixes[at + 1]
                                   /\ instr.prefixes[at + 1] \in PrefixBytes
    OBVIOUS
  <2>1. at + 1 \in 1 .. n /\ at + 1 \in 1 .. Skipped BY <1>1
  <2> QED BY <1>1, <1>2, <1>3, <1>5, <2>1
<1>9. at = n /\ instr.number >= TwoByte => Peek(0) = \h0F
  <2> SUFFICES ASSUME at = n, instr.number >= TwoByte PROVE Peek(0) = \h0F
    OBVIOUS
  <2>1. n + 1 \in 1 .. Skipped BY <1>1
  <2> QED BY <1>1, <1>2, <1>3, <1>5, <2>1
<1>10. at = n /\ ~(instr.number >= TwoByte) =>
         Peek(0) = instr.number /\ Peek(0) \notin PrefixBytes \union {\h0F}
  <2> SUFFICES ASSUME at = n, ~(instr.number >= TwoByte) PROVE Peek(0) = instr.number
    BY <1>6
  <2>1. instr.number % 256 = instr.number BY <1>6 DEF TwoByte
  <2> QED BY <1>1, <1>7, <2>1
<1> QED BY <1>1, <1>7, <1>8, <1>9, <1>10 DEF n

(* Once all prefixes are read, what is known of them.                      *)
LEMMA AllPrefixes ==
  ASSUME Given, PrefixesRead(Len(instr.prefixes)), prefixes.size_override \in BOOLEAN
  PROVE  /\ IsRep <=> prefixes.rep_mode # "None"
         /\ prefixes.size_override = Override(instr)
         /\ \h67 \notin Range(instr.prefixes)
<1> DEFINE n  == Len(instr.prefixes)
           ps == instr.prefixes
<1>1. n \in Nat /\ ps \in [1 .. n -> PrefixBytes] BY PrefixedType
<1>2. Range(ps) = { ps[j] : j \in 1 .. n }
  <2>1. DOMAIN ps = 1 .. n BY <1>1
  <2> HIDE DEF ps, n
  <2> QED BY <2>1 DEF Range
<1>3. /\ \A j \in 1 .. n : ps[j] # \h67
      /\ prefixes.size_override <=> \E j \in 1 .. n : ps[j] = \h66
      /\ RepMode(n)
  BY DEF PrefixesRead
<1> HIDE DEF n
<1>4. IsRep <=> \E j \in 1 .. n : ps[j] \in Reps
  <2>1. IsRep <=> \E b \in Range(ps) : b \in Reps BY DEF IsRep, Reps
  <2> QED BY <1>2, <2>1
<1>5. (\E j \in 1 .. n : ps[j] \in Reps) <=> prefixes.rep_mode # "None"
  BY <1>3 DEF RepMode
<1>6. prefixes.size_override = Override(instr)
  <2>1. Override(instr) = (\h66 \in Range(ps)) BY DEF Override
  <2>2. \h66 \in Range(ps) <=> \E j \in 1 .. n : ps[j] = \h66 BY <1>2
  <2>3. prefixes.size_override <=> Override(instr) BY <1>3, <2>1, <2>2
  <2>4. Override(instr) \in BOOLEAN BY <2>1
  <2> QED BY <2>3, <2>4
<1>7. \h67 \notin Range(ps) BY <1>2, <1>3
<1> QED BY <1>3, <1>4, <1>5, <1>6, <1>7

LEMMA GetPrefixStep == ASSUME Inv, GetPrefix PROVE Inv'
<1> DEFINE n == Len(instr.prefixes)
<1>1. /\ phase = "prefixes" /\ at \in 0 .. MaxFetch /\ MaxFetch - at > 0
      /\ Peek(0) \in {\h66, \hF2, \hF3}
      /\ prefixes' = Activate(Peek(0)) /\ at' = at + 1
      /\ UNCHANGED <<instr, buffer, writeable, phase, modrm, arg, taken, slot, stop, result>>
  BY DEF Inv, TypeOK, GetPrefix, Left
<1>2. Given /\ Untouched /\ ~prefixes.two_bytes /\ at <= n /\ PrefixesRead(at)
  BY <1>1 DEF Inv, Progress
<1>3. /\ n \in Nat
      /\ at < n => Peek(0) = instr.prefixes[at + 1]
      /\ at = n => Peek(0) \notin PrefixBytes
  BY <1>1, <1>2, NextByte DEF PrefixBytes, MaxFetch
<1> HIDE DEF n
<1>4. at < n /\ Peek(0) = instr.prefixes[at + 1]
  BY <1>1, <1>2, <1>3 DEF PrefixBytes, MaxFetch
<1>5. prefixes \in [size_override : BOOLEAN, two_bytes : BOOLEAN,
                    rep_mode : {"None", "Repe", "Repne"}]
  BY DEF Inv, TypeOK
<1> DEFINE b == instr.prefixes[at + 1]
<1> DEFINE p == prefixes'
           types == [size_override : BOOLEAN, two_bytes : BOOLEAN,
                     rep_mode : {"None", "Repe", "Repne"}]
<1>6. /\ p \in types /\ p.two_bytes = prefixes.two_bytes
      /\ \/ b = \h66 /\ p.size_override = TRUE /\ p.rep_mode = prefixes.rep_mode
         \/ b = \hF2 /\ p.size_override = prefixes.size_override /\ p.rep_mode = "Repne"
         \/ b = \hF3 /\ p.size_override = prefixes.size_override /\ p.rep_mode = "Repe"
  <2>1. Activate(\h66) = [prefixes EXCEPT !.size_override = TRUE] BY DEF Activate
  <2>2. Activate(\hF2) = [prefixes EXCEPT !.rep_mode = "Repne"] BY DEF Activate
  <2>3. Activate(\hF3) = [prefixes EXCEPT !.rep_mode = "Repe"] BY DEF Activate
  <2>4. Peek(0) = b BY <1>4
  <2>5. p = Activate(Peek(0)) BY <1>1
  <2> HIDE DEF p, b
  <2>6. CASE Peek(0) = \h66
    <3>1. p = [prefixes EXCEPT !.size_override = TRUE] BY <2>1, <2>5, <2>6
    <3> QED BY <1>5, <2>4, <2>6, <3>1
  <2>7. CASE Peek(0) = \hF2
    <3>1. p = [prefixes EXCEPT !.rep_mode = "Repne"] BY <2>2, <2>5, <2>7
    <3> QED BY <1>5, <2>4, <2>7, <3>1
  <2>8. CASE Peek(0) = \hF3
    <3>1. p = [prefixes EXCEPT !.rep_mode = "Repe"] BY <2>3, <2>5, <2>8
    <3> QED BY <1>5, <2>4, <2>8, <3>1
  <2> QED BY <1>1, <2>6, <2>7, <2>8
<1>7. TypeOK'
  <2>1. at' \in 0 .. MaxFetch BY <1>1 DEF MaxFetch
  <2> QED BY <1>1, <1>6, <2>1 DEF Inv, TypeOK
<1>8. prefixes'.two_bytes = prefixes.two_bytes BY <1>6
<1>9. /\ \A j \in 1 .. at : instr.prefixes[j] # \h67
      /\ prefixes.size_override <=> \E j \in 1 .. at : instr.prefixes[j] = \h66
      /\ RepMode(at)
  BY <1>2 DEF PrefixesRead
<1>10. 1 .. at + 1 = 1 .. at \union {at + 1} BY <1>1
<1>11. \A j \in 1 .. at + 1 : instr.prefixes[j] # \h67
  <2>1. b # \h67 BY <1>6
  <2> QED BY <1>9, <1>10, <2>1
<1>12. prefixes'.size_override <=> \E j \in 1 .. at + 1 : instr.prefixes[j] = \h66
  <2>1. CASE b = \h66
    <3>1. at + 1 \in 1 .. at + 1 BY <1>1
    <3> QED BY <1>6, <2>1, <3>1
  <2>2. CASE b # \h66
    <3>1. prefixes'.size_override = prefixes.size_override BY <1>5, <1>6, <2>2
    <3> QED BY <1>9, <1>10, <2>2, <3>1
  <2> QED BY <2>1, <2>2
<1>13. \/ /\ prefixes'.rep_mode = "None"
          /\ \A j \in 1 .. at + 1 : instr.prefixes[j] \notin Reps
       \/ \E j \in 1 .. at + 1 :
            /\ instr.prefixes[j] \in Reps
            /\ \A k \in j + 1 .. at + 1 : instr.prefixes[k] \notin Reps
            /\ prefixes'.rep_mode = IF instr.prefixes[j] = \hF3 THEN "Repe" ELSE "Repne"
  <2>1. CASE b = \h66
    <3>1. prefixes'.rep_mode = prefixes.rep_mode BY <1>5, <1>6, <2>1
    <3>2. b \notin Reps BY <2>1 DEF Reps
    <3>3. CASE \A j \in 1 .. at : instr.prefixes[j] \notin Reps
      <4>1. prefixes.rep_mode = "None" BY <1>9, <3>3 DEF RepMode
      <4>2. \A j \in 1 .. at + 1 : instr.prefixes[j] \notin Reps BY <1>10, <3>2, <3>3
      <4> QED BY <3>1, <4>1, <4>2
    <3>4. CASE \E j \in 1 .. at :
                 /\ instr.prefixes[j] \in Reps
                 /\ \A k \in j + 1 .. at : instr.prefixes[k] \notin Reps
                 /\ prefixes.rep_mode = IF instr.prefixes[j] = \hF3 THEN "Repe" ELSE "Repne"
      <4>1. PICK j \in 1 .. at :
              /\ instr.prefixes[j] \in Reps
              /\ \A k \in j + 1 .. at : instr.prefixes[k] \notin Reps
              /\ prefixes.rep_mode = IF instr.prefixes[j] = \hF3 THEN "Repe" ELSE "Repne"
        BY <3>4
      <4>2. j \in 1 .. at + 1 BY <1>1
      <4>3. \A k \in j + 1 .. at + 1 : k \in j + 1 .. at \/ k = at + 1 BY <1>1
      <4>4. \A k \in j + 1 .. at + 1 : instr.prefixes[k] \notin Reps BY <3>2, <4>1, <4>3
      <4> QED BY <3>1, <4>1, <4>2, <4>4
    <3> QED BY <1>9, <3>3, <3>4 DEF RepMode
  <2>2. CASE b # \h66
    <3>1. b \in Reps /\ prefixes'.rep_mode = IF b = \hF3 THEN "Repe" ELSE "Repne"
      BY <1>5, <1>6, <2>2 DEF Reps
    <3>2. at + 1 \in 1 .. at + 1 /\ \A k \in at + 1 + 1 .. at + 1 : FALSE BY <1>1
    <3> QED BY <3>1, <3>2
  <2> QED BY <2>1, <2>2
<1>14. RepMode(at)'
  <2>1. instr' = instr /\ at' = at + 1 BY <1>1
  <2> QED BY <1>13, <2>1 DEF RepMode
<1>15. PrefixesRead(at)'
  <2>1. instr' = instr /\ at' = at + 1 BY <1>1
  <2> QED BY <1>11, <1>12, <1>14, <2>1 DEF PrefixesRead
<1>16. Progress'
  <2>1. at' <= n BY <1>1, <1>3, <1>4
  <2>2. Untouched' BY <1>1, <1>2 DEF Untouched
  <2> QED BY <1>1, <1>2, <1>8, <1>15, <2>1, <2>2 DEF Progress, n
<1>17. (Length /\ Cost /\ (Done /\ IsRep => RepSlot /\ stop))'
  BY <1>1 DEF Length, Cost, Done, Filled
<1> QED BY <1>1, <1>2, <1>7, <1>16, <1>17, Stays DEF Inv

(* The end of the prefixes: a byte that is none of them is where the       *)
(* opcode begins.                                                          *)
LEMMA PrefixesEnd ==
  ASSUME Inv, phase = "prefixes", Left > 0, Peek(0) \notin PrefixBytes
  PROVE  /\ at = Len(instr.prefixes) /\ PrefixesRead(Len(instr.prefixes))
         /\ Given /\ Untouched /\ ~prefixes.two_bytes /\ at \in 0 .. 15
         /\ Peek(0) = \h0F <=> instr.number >= TwoByte
         /\ Skipped = IF instr.number >= TwoByte THEN at + 1 ELSE at
<1>1. /\ Given /\ Untouched /\ ~prefixes.two_bytes
      /\ at <= Len(instr.prefixes) /\ PrefixesRead(at)
  BY DEF Inv, Progress
<1>2. at \in 0 .. MaxFetch /\ at < MaxFetch BY DEF Inv, TypeOK, Left, MaxFetch
<1>3. LET n == Len(instr.prefixes)
      IN  /\ n \in Nat /\ Skipped = IF instr.number >= TwoByte THEN n + 1 ELSE n
          /\ at < n => Peek(0) \in PrefixBytes
          /\ at = n => /\ instr.number >= TwoByte => Peek(0) = \h0F
                       /\ ~(instr.number >= TwoByte) => Peek(0) # \h0F
  BY <1>1, <1>2, NextByte
<1>4. at = Len(instr.prefixes) BY <1>1, <1>2, <1>3
<1>5. at \in 0 .. 15 BY <1>2 DEF MaxFetch
<1> QED BY <1>1, <1>3, <1>4, <1>5

LEMMA GetTwoByteStep == ASSUME Inv, GetTwoByte PROVE Inv'
<1>1. /\ phase = "prefixes" /\ Left > 0 /\ Peek(0) = \h0F
      /\ prefixes' = [prefixes EXCEPT !.two_bytes = TRUE] /\ at' = at + 1 /\ phase' = "lookup"
      /\ UNCHANGED <<instr, buffer, writeable, modrm, arg, taken, slot, stop, result>>
  BY DEF GetTwoByte
<1>2. Peek(0) \notin PrefixBytes BY <1>1 DEF PrefixBytes
<1>3. /\ at = Len(instr.prefixes) /\ PrefixesRead(Len(instr.prefixes))
      /\ Given /\ Untouched /\ at \in 0 .. 15
      /\ instr.number >= TwoByte /\ Skipped = at + 1
  BY <1>1, <1>2, PrefixesEnd
<1>4. prefixes \in [size_override : BOOLEAN, two_bytes : BOOLEAN,
                    rep_mode : {"None", "Repe", "Repne"}]
  BY DEF Inv, TypeOK
<1>5. /\ prefixes' \in [size_override : BOOLEAN, two_bytes : BOOLEAN,
                        rep_mode : {"None", "Repe", "Repne"}]
      /\ prefixes'.size_override = prefixes.size_override
      /\ prefixes'.rep_mode = prefixes.rep_mode /\ prefixes'.two_bytes = TRUE
  BY <1>1, <1>4
<1>6. TypeOK'
  <2>0. at \in 0 .. 15 /\ at' = at + 1 BY <1>1, <1>3
  <2>1. at' \in 0 .. MaxFetch BY <2>0 DEF MaxFetch
  <2>2. phase' \in Phases BY <1>1 DEF Phases
  <2> QED BY <1>1, <1>5, <2>1, <2>2 DEF Inv, TypeOK
<1>7. AtOpcode'
  <2>1. PrefixesRead(Len(instr.prefixes))'
    BY <1>1, <1>3, <1>5 DEF PrefixesRead, RepMode
  <2> QED BY <1>1, <1>3, <1>5, <2>1, Stays DEF AtOpcode
<1>8. Progress'
  <2>1. Untouched' BY <1>1, <1>3 DEF Untouched
  <2> QED BY <1>1, <1>7, <2>1 DEF Progress
<1>9. (Length /\ Cost /\ (Done /\ IsRep => RepSlot /\ stop))'
  BY <1>1 DEF Length, Cost, Done, Filled
<1> QED BY <1>1, <1>3, <1>6, <1>8, <1>9, Stays DEF Inv

LEMMA NoMorePrefixesStep == ASSUME Inv, NoMorePrefixes PROVE Inv'
<1>1. /\ phase = "prefixes" /\ Left > 0 /\ Peek(0) \notin {\h66, \hF2, \hF3, \h0F, \h67}
      /\ phase' = "lookup"
      /\ UNCHANGED <<instr, buffer, writeable, at, prefixes, modrm, arg, taken, slot, stop, result>>
  BY DEF NoMorePrefixes
<1>2. Peek(0) \notin PrefixBytes /\ Peek(0) # \h0F BY <1>1 DEF PrefixBytes
<1>3. /\ at = Len(instr.prefixes) /\ PrefixesRead(Len(instr.prefixes))
      /\ Given /\ Untouched /\ ~prefixes.two_bytes
      /\ ~(instr.number >= TwoByte) /\ Skipped = at
  BY <1>1, <1>2, PrefixesEnd
<1>4. prefixes.two_bytes \in BOOLEAN BY DEF Inv, TypeOK
<1>5. TypeOK'
  <2>1. phase' \in Phases BY <1>1 DEF Phases
  <2> QED BY <1>1, <2>1 DEF Inv, TypeOK
<1>6. AtOpcode'
  <2>1. PrefixesRead(Len(instr.prefixes))'
    <3>1. PrefixesRead(Len(instr.prefixes)) /\ instr' = instr /\ prefixes' = prefixes
      BY <1>1, <1>3
    <3> QED BY <3>1 DEF PrefixesRead, RepMode
  <2>2. Skipped' = Skipped /\ at' = Skipped BY <1>1, <1>3, Stays
  <2>3. prefixes'.two_bytes <=> instr'.number >= TwoByte BY <1>1, <1>3
  <2> QED BY <2>1, <2>2, <2>3 DEF AtOpcode
<1>7. Progress'
  <2>1. Untouched' BY <1>1, <1>3 DEF Untouched
  <2> QED BY <1>1, <1>6, <2>1 DEF Progress
<1>8. (Length /\ Cost /\ (Done /\ IsRep => RepSlot /\ stop))'
  BY <1>1 DEF Length, Cost, Done, Filled
<1> QED BY <1>1, <1>3, <1>5, <1>7, <1>8, Stays DEF Inv

(* An action that ends with something else than "Ok" has to tell the right *)
(* outcome, and nothing more.                                              *)
LEMMA Failing ==
  ASSUME Inv, instr' = instr, buffer' = buffer, phase' = "done", result' = Outcome,
         result' # "Ok", TypeOK'
  PROVE  Inv'
<1>1. Given BY DEF Inv
<1>2. Given' /\ Outcome' = Outcome BY <1>1, Stays
<1>3. Finished' BY <1>2 DEF Finished
<1>4. Progress' BY <1>3 DEF Progress
<1>5. (Length /\ Cost /\ (Done /\ IsRep => RepSlot /\ stop))'
  BY DEF Length, Cost, Done, Filled
<1> QED BY <1>2, <1>4, <1>5 DEF Inv

LEMMA PrefixPanicStep == ASSUME Inv, PrefixPanic PROVE Inv'
<1>1. /\ phase = "prefixes" /\ (Left > 0 => Peek(0) = \h67)
      /\ phase' = "done" /\ result' = "panic"
      /\ UNCHANGED <<instr, buffer, writeable, at, prefixes, modrm, arg, taken, slot, stop>>
  BY DEF PrefixPanic, Fail
<1>2. Given /\ at <= Len(instr.prefixes) BY <1>1 DEF Inv, Progress
<1>3. at \in 0 .. MaxFetch BY DEF Inv, TypeOK
<1>4. Outcome = "panic"
  <2>1. CASE Left > 0
    <3>1. Peek(0) = \h67 /\ at < MaxFetch BY <1>1, <1>3, <2>1 DEF Left, MaxFetch
    <3>2. LET n == Len(instr.prefixes)
          IN  /\ n \in Nat
              /\ at < n => Peek(0) = instr.prefixes[at + 1]
              /\ at = n => Peek(0) = \h0F \/ Peek(0) \notin PrefixBytes
      BY <1>2, <1>3, <3>1, NextByte
    <3>3. \h67 \in PrefixBytes BY DEF PrefixBytes
    <3>4. at < Len(instr.prefixes) /\ instr.prefixes[at + 1] = \h67
      BY <1>2, <1>3, <3>1, <3>2, <3>3
    <3>5. at + 1 \in DOMAIN instr.prefixes
      BY <1>2, <1>3, <3>2, <3>4, PrefixedType
    <3>6. \h67 \in Range(instr.prefixes) BY <3>4, <3>5 DEF Range
    <3> QED BY <3>6 DEF Outcome
  <2>2. CASE ~(Left > 0)
    <3>1. at = MaxFetch BY <1>3, <2>2 DEF Left, MaxFetch
    <3>2. Skipped \in Nat /\ Skipped >= Len(instr.prefixes) /\ Len(instr.prefixes) \in Nat
      BY <1>2, PrefixedType
    <3>3. Skipped >= MaxFetch BY <1>2, <3>1, <3>2 DEF MaxFetch
    <3> QED BY <3>3 DEF Outcome, Skipped
  <2> QED BY <2>1, <2>2
<1>5. TypeOK'
  <2>1. phase' \in Phases BY <1>1 DEF Phases
  <2> QED BY <1>1, <2>1 DEF Inv, TypeOK
<1> QED BY <1>1, <1>4, <1>5, Failing

(* The last immediate is a single byte.                                    *)
Short == \E i \in 1 .. 3 : Width(i) = 1 /\ \A j \in i + 1 .. 3 : Width(j) = 0

LEMMA Outcomes ==
  ASSUME Given
  PROVE  /\ Skipped >= MaxFetch => Outcome = "panic"
         /\ \h67 \notin Range(instr.prefixes) /\ Skipped < MaxFetch =>
              /\ IsRep => Outcome = "Ok"
              /\ ~IsRep /\ ~Known(instr) => Outcome = "panic"
              /\ ~IsRep /\ Known(instr) =>
                   /\ Skipped > MaxFetch - 6 => Outcome = "DecodingOverrun"
                   /\ Skipped <= MaxFetch - 6 /\ Total > MaxFetch =>
                        Outcome = IF Short /\ Total = MaxFetch + 1 THEN "panic"
                                  ELSE "DecodingOverrun"
                   /\ Skipped <= MaxFetch - 6 /\ Total <= MaxFetch =>
                        Outcome = IF Defined.jump = "RelativeJump" /\ Override(instr)
                                  THEN "ReadBadMemory" ELSE "Ok"
<1> DEFINE short == \E i \in 1 .. 3 : /\ Len(ImmediateBytes(instr, i)) = 1
                                      /\ \A j \in i + 1 .. 3 : ImmediateBytes(instr, j) = <<>>
           found == \h67 \in Range(instr.prefixes)
           total == Len(Bytes(instr))
           skipped == Len(Prefixed(instr))
<1>1. short <=> Short
  <2>1. \A j \in 1 .. 3 : ImmediateBytes(instr, j) \in Seq(Byte) BY ImmediateType
  <2>2. \A j \in 1 .. 3 : ImmediateBytes(instr, j) = <<>> <=> Width(j) = 0
    BY <2>1, EmptySeq DEF Width
  <2>3. \A i \in 1 .. 3 : \A j \in i + 1 .. 3 : j \in 1 .. 3 OBVIOUS
  <2>4. \A i \in 1 .. 3 : Width(i) = Len(ImmediateBytes(instr, i)) BY DEF Width
  <2> QED BY <2>2, <2>3, <2>4 DEF Short
<1>2. Outcome = IF found \/ skipped >= MaxFetch THEN "panic"
                ELSE IF IsRep THEN "Ok"
                ELSE IF ~Known(instr) THEN "panic"
                ELSE IF skipped > MaxFetch - 6 THEN "DecodingOverrun"
                ELSE IF total > MaxFetch
                THEN IF short /\ total = MaxFetch + 1 THEN "panic" ELSE "DecodingOverrun"
                ELSE IF Defined.jump = "RelativeJump" /\ Override(instr)
                     THEN "ReadBadMemory" ELSE "Ok"
  BY Zenon DEF Outcome
<1>3. Skipped = skipped /\ Total = total BY DEF Skipped, Total
<1>4. Skipped \in Nat /\ Total \in Nat BY WidthType
<1> HIDE DEF short, found, total, skipped
<1>5. MaxFetch = 16 BY DEF MaxFetch
<1>6. found <=> \h67 \in Range(instr.prefixes) BY DEF found
<1> QED BY <1>1, <1>2, <1>3, <1>4, <1>5, <1>6

(* What is known where the opcode is looked up.                            *)
LEMMA OpcodeByte ==
  ASSUME Inv, AtOpcode
  PROVE  /\ Given /\ at = Skipped /\ at \in 0 .. MaxFetch
         /\ \h67 \notin Range(instr.prefixes)
         /\ prefixes.size_override = Override(instr)
         /\ IsRep <=> prefixes.rep_mode # "None"
         /\ at < MaxFetch => /\ Peek(0) = instr.number % 256 /\ Peek(0) \in Byte
                             /\ Key = instr.number
<1>1. Given /\ at = Skipped /\ at \in 0 .. MaxFetch
      /\ prefixes.size_override \in BOOLEAN /\ prefixes.two_bytes \in BOOLEAN
  BY DEF Inv, TypeOK, AtOpcode
<1>2. PrefixesRead(Len(instr.prefixes)) /\ (prefixes.two_bytes <=> instr.number >= TwoByte)
  BY DEF AtOpcode
<1>3. /\ \h67 \notin Range(instr.prefixes)
      /\ prefixes.size_override = Override(instr)
      /\ IsRep <=> prefixes.rep_mode # "None"
  BY <1>1, <1>2, AllPrefixes
<1>4. ASSUME at < MaxFetch
      PROVE  Peek(0) = instr.number % 256 /\ Peek(0) \in Byte /\ Key = instr.number
  <2>1. Peek(0) = instr.number % 256 BY <1>1, <1>4, NextByte
  <2>2. instr.number \in 0 .. 511 BY <1>1, NumberType
  <2>3. instr.number % 256 \in Byte
        /\ (instr.number % 256) + (IF instr.number >= 256 THEN 256 ELSE 0) = instr.number
    BY <2>2 DEF Byte
  <2>4. Key = (instr.number % 256) + (IF instr.number >= 256 THEN 256 ELSE 0)
    BY <1>2, <2>1 DEF Key, TwoByte
  <2> QED BY <2>1, <2>3, <2>4
<1> QED BY <1>1, <1>3, <1>4

LEMMA CostType == \A c \in Charges : Costs[c] \in Nat
  BY DecodeAssumption

LEMMA SurchargeType == Surcharge \in Nat
  <1>1. Costs["WriteableMemoryExec"] \in Nat BY CostType DEF Charges
  <1> QED BY <1>1 DEF Surcharge

LEMMA FillRepStep == ASSUME Inv, FillRep PROVE Inv'
<1> DEFINE fn == IF prefixes.rep_mode = "Repe" THEN "repe" ELSE "repne"
           gas == Costs["Moderate"] + Surcharge
<1>1. /\ phase = "lookup" /\ Left > 0 /\ prefixes.rep_mode # "None"
      /\ slot' = [slot EXCEPT !.size_override = prefixes.size_override,
                              !.gas_cost = gas, !.eip_size = at + 1,
                              !.opcode = Peek(0), !.function = fn]
      /\ stop' = TRUE /\ phase' = "done" /\ result' = "Ok"
      /\ UNCHANGED <<instr, buffer, writeable, at, prefixes, modrm, arg, taken>>
  BY DEF FillRep
<1>2. AtOpcode BY <1>1 DEF Inv, Progress
<1>3. /\ Given /\ at = Skipped /\ at \in 0 .. MaxFetch
      /\ \h67 \notin Range(instr.prefixes)
      /\ prefixes.size_override = Override(instr)
      /\ IsRep /\ at < MaxFetch
      /\ Peek(0) = instr.number % 256 /\ Peek(0) \in Byte
  BY <1>1, <1>2, OpcodeByte DEF Inv, TypeOK, Left, MaxFetch
<1>4. Outcome = "Ok" BY <1>3, Outcomes
<1>5. /\ slot \in Slots /\ prefixes.size_override \in BOOLEAN
      /\ prefixes.rep_mode \in {"None", "Repe", "Repne"}
  BY DEF Inv, TypeOK
<1>6. gas \in Nat /\ fn \in LogicFunctions \union {"repe", "repne"}
  <2>1. Costs["Moderate"] \in Nat BY CostType DEF Charges, GasLevels
  <2> QED BY <2>1, SurchargeType
<1>7. at + 1 \in 0 .. MaxFetch BY <1>3 DEF MaxFetch
<1> HIDE DEF fn, gas
<1>8. /\ slot' \in Slots /\ slot'.size_override = prefixes.size_override
      /\ slot'.eip_size = at + 1 /\ slot'.opcode = Peek(0) /\ slot'.function = fn
  BY <1>1, <1>3, <1>5, <1>6, <1>7 DEF Slots
<1>9. TypeOK'
  <2>1. phase' \in Phases BY <1>1 DEF Phases
  <2> QED BY <1>1, <1>8, <2>1 DEF Inv, TypeOK
<1>10. RepSlot'
  <2> DEFINE ps == instr.prefixes
  <2>1. PrefixesRead(Len(ps)) BY <1>2 DEF AtOpcode
  <2>2. PICK j \in 1 .. Len(ps) :
          /\ ps[j] \in Reps
          /\ \A k \in j + 1 .. Len(ps) : ps[k] \notin Reps
          /\ prefixes.rep_mode = IF ps[j] = \hF3 THEN "Repe" ELSE "Repne"
    BY <1>1, <2>1 DEF PrefixesRead, RepMode
  <2>3. j \in DOMAIN ps BY <1>3, PrefixedType
  <2>4. fn = IF ps[j] = \hF3 THEN "repe" ELSE "repne" BY <2>2 DEF fn
  <2>5. instr' = instr BY <1>1
  <2> QED BY <1>3, <1>8, <2>2, <2>3, <2>4, <2>5 DEF RepSlot, Reps
<1>11. Length'
  <2>1. Len(Prefixed(instr)) = at BY <1>3 DEF Skipped
  <2> QED BY <1>1, <1>3, <1>8, <2>1, Stays DEF Length
<1>12. Cost' BY <1>1, <1>3, Stays DEF Cost, Filled
<1>13. Progress' BY <1>1, <1>3, <1>4, Stays DEF Progress, Finished
<1> QED BY <1>1, <1>3, <1>9, <1>10, <1>11, <1>12, <1>13, Stays DEF Inv

LEMMA TableDomain == DOMAIN OPCODES = Keys
  BY TableAssumption

LEMMA LookUpStep == ASSUME Inv, LookUp PROVE Inv'
<1>1. /\ phase = "lookup" /\ Left > 0 /\ prefixes.rep_mode = "None"
      /\ Key \in DOMAIN OPCODES
      /\ IF OPCODES[Key].has_modrm
         THEN /\ slot' = [slot EXCEPT !.opcode = Peek(0), !.gas_cost = Costs["ModRMSurcharge"]]
              /\ phase' = "modrm"
         ELSE /\ slot' = [slot EXCEPT !.opcode = Peek(0)]
              /\ phase' = "select"
      /\ UNCHANGED <<instr, buffer, writeable, at, prefixes, modrm, arg, taken, stop, result>>
  BY DEF LookUp
<1>2. AtOpcode /\ Untouched BY <1>1 DEF Inv, Progress
<1>3. /\ Given /\ at = Skipped /\ at \in 0 .. MaxFetch /\ at < MaxFetch
      /\ ~IsRep /\ Peek(0) \in Byte /\ Key = instr.number
  BY <1>1, <1>2, OpcodeByte DEF Inv, TypeOK, Left, MaxFetch
<1>4. Known(instr) BY <1>1, <1>3, TableDomain DEF Known
<1>5. OPCODES[Key].has_modrm <=> instr.rm # NoOperand
  BY <1>3, <1>4, InstructionType, DefinedWellFormed
<1>6. slot \in Slots /\ slot.gas_cost = 0 BY <1>2 DEF Inv, TypeOK, Untouched
<1>7. Costs["ModRMSurcharge"] \in Nat BY CostType DEF Charges
<1>8. slot' \in Slots
  <2>1. CASE OPCODES[Key].has_modrm
    <3>1. slot' = [slot EXCEPT !.opcode = Peek(0), !.gas_cost = Costs["ModRMSurcharge"]]
      BY <1>1, <2>1
    <3> QED BY <1>3, <1>6, <1>7, <3>1 DEF Slots
  <2>2. CASE ~OPCODES[Key].has_modrm
    <3>1. slot' = [slot EXCEPT !.opcode = Peek(0)] BY <1>1, <2>2
    <3> QED BY <1>3, <1>6, <3>1 DEF Slots
  <2> QED BY <2>1, <2>2
<1>9. slot'.gas_cost = IF instr.rm # NoOperand THEN Costs["ModRMSurcharge"] ELSE 0
  <2>1. CASE instr.rm # NoOperand
    <3>1. slot' = [slot EXCEPT !.opcode = Peek(0), !.gas_cost = Costs["ModRMSurcharge"]]
      BY <1>1, <1>5, <2>1
    <3> QED BY <1>6, <2>1, <3>1 DEF Slots
  <2>2. CASE instr.rm = NoOperand
    <3>1. slot' = [slot EXCEPT !.opcode = Peek(0)] BY <1>1, <1>5, <2>2
    <3> QED BY <1>6, <2>2, <3>1 DEF Slots
  <2> QED BY <2>1, <2>2
<1>10. phase' = IF instr.rm # NoOperand THEN "modrm" ELSE "select" BY <1>1, <1>5
<1>11. TypeOK'
  <2>1. phase' \in Phases BY <1>10 DEF Phases
  <2> QED BY <1>1, <1>8, <2>1 DEF Inv, TypeOK
<1>12. OpcodeRead'
  <2>1. AtOpcode'
    <3>1. Skipped' = Skipped BY <1>1, Stays
    <3>2. instr' = instr /\ prefixes' = prefixes /\ at' = at BY <1>1
    <3> QED BY <1>2, <3>1, <3>2 DEF AtOpcode, PrefixesRead, RepMode
  <2> QED BY <1>1, <1>2, <1>3, <1>4, <1>9, <2>1, Stays DEF OpcodeRead, Untouched
<1>13. instr.rm = NoOperand => ModRMRead'
  <2> SUFFICES ASSUME instr.rm = NoOperand PROVE ModRMRead'
    OBVIOUS
  <2>1. ModRMWidth = 0 BY <1>3, ModRMType
  <2>2. ModRMWidth' = 0 BY <1>1, <2>1, Stays
  <2>3. modrm' = NoModRM BY <1>1, <1>2 DEF Untouched
  <2>4. at' + 1 <= MaxFetch BY <1>1, <1>3 DEF MaxFetch
  <2>5. instr'.rm = NoOperand /\ at' \in Nat BY <1>1, <1>3
  <2> QED BY <2>2, <2>3, <2>4, <2>5 DEF ModRMRead, NoModRM
<1>14. modrm' = NoModRM BY <1>1, <1>2 DEF Untouched
<1>15. Progress'
  BY <1>1, <1>10, <1>12, <1>13, <1>14 DEF Progress
<1>16. (Length /\ Cost /\ (Done /\ IsRep => RepSlot /\ stop))'
  BY <1>10 DEF Length, Cost, Done, Filled
<1> QED BY <1>1, <1>3, <1>11, <1>15, <1>16, Stays DEF Inv

LEMMA LookUpPanicStep == ASSUME Inv, LookUpPanic PROVE Inv'
<1>1. /\ phase = "lookup"
      /\ Left > 0 => prefixes.rep_mode = "None" /\ Key \notin DOMAIN OPCODES
      /\ phase' = "done" /\ result' = "panic"
      /\ UNCHANGED <<instr, buffer, writeable, at, prefixes, modrm, arg, taken, slot, stop>>
  BY DEF LookUpPanic, Fail
<1>2. AtOpcode BY <1>1 DEF Inv, Progress
<1>3. /\ Given /\ at = Skipped /\ at \in 0 .. MaxFetch
      /\ \h67 \notin Range(instr.prefixes)
      /\ IsRep <=> prefixes.rep_mode # "None"
      /\ at < MaxFetch => Key = instr.number
  BY <1>2, OpcodeByte
<1>4. Outcome = "panic"
  <2>1. CASE Left > 0
    <3>1. at < MaxFetch BY <1>3, <2>1 DEF Left, MaxFetch
    <3>2. ~IsRep /\ ~Known(instr) BY <1>1, <1>3, <2>1, <3>1, TableDomain DEF Known
    <3> QED BY <1>3, <3>1, <3>2, Outcomes
  <2>2. CASE ~(Left > 0)
    <3>1. Skipped >= MaxFetch BY <1>3, <2>2 DEF Left, MaxFetch
    <3> QED BY <1>3, <3>1, Outcomes
  <2> QED BY <2>1, <2>2
<1>5. TypeOK'
  <2>1. phase' \in Phases BY <1>1 DEF Phases
  <2> QED BY <1>1, <2>1 DEF Inv, TypeOK
<1> QED BY <1>1, <1>4, <1>5, Failing

LEMMA SignExtendedType == \A b \in Byte : SignExtended(b) \in DoubleWord
  BY DEF SignExtended, DoubleWord, Byte

(* A stretch of the buffer.                                                *)
LEMMA Taken ==
  ASSUME Given, at \in Nat, NEW i \in Nat, NEW n \in Nat, at + i + n <= MaxFetch
  PROVE  /\ Take(i, n) \in [1 .. n -> Byte]
         /\ Take(i, n) \in Seq(Byte) /\ Len(Take(i, n)) = n
         /\ \A j \in 1 .. n : Take(i, n)[j] = buffer[at + i + j]
<1> DEFINE first == at + 1 + i
           last == at + i + n
           t == SubSeq(buffer, first, last)
           l == Len(buffer)
<1>1. buffer \in Seq(Byte) /\ l = 16 /\ MaxFetch = 16 BY FetchedBytes DEF MaxFetch
<1>2. Take(i, n) = t BY DEF Take
<1> HIDE DEF l
<1>3. /\ last - first + 1 = n /\ first \in Int /\ last \in Int
      /\ \A j \in 1 .. n : first + j - 1 = at + i + j
      /\ \A k \in first .. last : k \in 1 .. MaxFetch
  BY <1>1
<1> HIDE DEF first, last
<1>4. t \in Seq(Byte) /\ Len(t) = (IF first <= last THEN last - first + 1 ELSE 0)
      /\ \A j \in 1 .. last - first + 1 : t[j] = buffer[first + j - 1]
  <2>1. \A k \in first .. last : buffer[k] \in Byte BY <1>3, FetchedBytes
  <2> QED BY <1>3, <2>1, SubSeqProperties
<1>5. t \in Seq(Byte) /\ Len(t) = n /\ \A j \in 1 .. n : t[j] = buffer[at + i + j]
  BY <1>3, <1>4
<1> HIDE DEF t
<1>6. t \in [1 .. n -> Byte] BY <1>5, LenProperties
<1> QED BY <1>2, <1>5, <1>6

(* The bytes of the ModR/M byte and behind it, as far as they are fetched. *)
LEMMA ModRMPeek ==
  ASSUME Given, at = Skipped, at \in 0 .. MaxFetch, instr.rm # NoOperand
  PROVE  /\ at + 2 <= MaxFetch =>
              /\ Peek(1) \in Byte
              /\ Fields(Peek(1)) = [low |-> instr.form.rm, middle |-> instr.reg,
                                    high |-> instr.form.mode]
         /\ \A i \in 1 .. Len(instr.form.tail) :
              at + 2 + i <= MaxFetch => /\ buffer[at + 2 + i] = instr.form.tail[i]
                                        /\ buffer[at + 2 + i] \in Byte
<1> DEFINE b == Bytes(instr)
           m == ModRMBytes(instr)
           n == Len(instr.form.tail)
           tail == instr.form.tail
<1>1. /\ \A k \in 1 .. MaxFetch : buffer[k] = IF k <= Total THEN b[k] ELSE 0
      /\ buffer \in [1 .. MaxFetch -> Byte]
      /\ Total = Skipped + 1 + ModRMWidth + Before(4)
      /\ \A i \in 1 .. ModRMWidth : b[Skipped + 1 + i] = m[i]
  BY FetchedBytes, Layout
<1>2. /\ ModRMWidth = 1 + n
      /\ Fields(m[1]) = [low |-> instr.form.rm, middle |-> instr.reg, high |-> instr.form.mode]
      /\ \A i \in 1 .. n : m[1 + i] = tail[i]
      /\ instr.rm \in RMOperands /\ instr.form \in Encodings(instr.rm)
  BY ModRMType
<1>3. n \in Nat BY <1>2, EncodingType, LenProperties
<1>4. Skipped \in Nat /\ ModRMWidth \in Nat /\ Before(4) \in Nat BY WidthType
<1> HIDE DEF b, m, n, tail
<1>5. ASSUME NEW i \in 1 .. ModRMWidth, at + 1 + i <= MaxFetch
      PROVE  buffer[at + 1 + i] = m[i] /\ buffer[at + 1 + i] \in Byte
  <2>1. at + 1 + i \in 1 .. MaxFetch /\ at + 1 + i <= Total BY <1>1, <1>4, <1>5 DEF MaxFetch
  <2> QED BY <1>1, <2>1
<1>6. ASSUME at + 2 <= MaxFetch
      PROVE  Peek(1) = m[1] /\ Peek(1) \in Byte
  <2>1. 1 \in 1 .. ModRMWidth BY <1>2, <1>3
  <2>2. buffer[at + 1 + 1] = m[1] /\ buffer[at + 1 + 1] \in Byte BY <1>5, <1>6, <2>1
  <2> QED BY <2>2 DEF Peek
<1>7. ASSUME NEW i \in 1 .. n, at + 2 + i <= MaxFetch
      PROVE  buffer[at + 2 + i] = tail[i] /\ buffer[at + 2 + i] \in Byte
  <2>1. 1 + i \in 1 .. ModRMWidth /\ at + 1 + (1 + i) = at + 2 + i BY <1>2, <1>3
  <2>2. buffer[at + 1 + (1 + i)] = m[1 + i] /\ buffer[at + 1 + (1 + i)] \in Byte
    BY <1>5, <1>7, <2>1
  <2> QED BY <1>2, <2>1, <2>2
<1> QED BY <1>2, <1>6, <1>7 DEF n, tail

ModRMTypes == [mode : 0 .. 3, reg : 0 .. 7, rm : 0 .. 7, size : 0 .. 6, disp : DoubleWord,
               sib : [low : 0 .. 7, middle : 0 .. 7, high : 0 .. 3]]

(* What is parsed is as long as its encoding, and when it is all there, it *)
(* stands for the operand.                                                 *)
LEMMA Parses ==
  ASSUME Given, at = Skipped, at \in 0 .. MaxFetch, instr.rm # NoOperand, at + 5 <= MaxFetch,
         NEW m, m = Fields(Peek(1)),
         NEW s, s = IF HasSIB(m) THEN Fields(Peek(2)) ELSE NoSIB,
         NEW before, before = IF HasSIB(m) THEN 3 ELSE 2,
         NEW count, count = DispSize(m, s)
  PROVE  LET p == Parsed(m, s, before, count)
         IN  /\ before + count = 1 + ModRMWidth
             /\ before + count <= MaxFetch - at =>
                  /\ p \in ModRMTypes /\ p.size = ModRMWidth /\ p.reg = instr.reg
                  /\ \A z \in FixedSizes :
                       LET a == DecodeModRM(p, z)
                       IN  /\ Locates(a, instr.rm, BytesOf(z))
                           /\ a.is_memory = (instr.rm.kind = "memory")
                           /\ a \in [location : Locations, is_memory : BOOLEAN]
<1> DEFINE o == instr.rm
           f == instr.form
           k == IF HasSIB(m) THEN 1 ELSE 0
           p == Parsed(m, s, before, count)
           n == Len(f.tail)
<1>1. /\ o \in RMOperands /\ f \in Encodings(o) /\ ModRMWidth = 1 + n /\ ModRMWidth <= 6
      /\ f.mode \in 0 .. 3 /\ f.rm \in 0 .. 7 /\ f.tail \in Seq(Byte) /\ n \in Nat
  BY ModRMType, EncodingType, LenProperties
<1>2. instr.reg \in 0 .. 7 BY NumberType
<1>3. MaxFetch = 16 /\ at \in Nat BY DEF MaxFetch
<1>4. m.low = f.rm /\ m.middle = instr.reg /\ m.high = f.mode
  BY <1>3, ModRMPeek
<1>5. s = IF HasSIB(m) THEN Fields(f.tail[1]) ELSE NoSIB
  <2> SUFFICES ASSUME HasSIB(m) PROVE Peek(2) = f.tail[1]
    OBVIOUS
  <2> DEFINE s0 == Fields(f.tail[1])
             c0 == DispSize(m, s0)
  <2>1. /\ s0 = IF HasSIB(m) THEN Fields(f.tail[1]) ELSE NoSIB
        /\ k = IF HasSIB(m) THEN 1 ELSE 0
        /\ c0 = DispSize(m, s0)
    OBVIOUS
  <2>2. (c0 = 0 \/ c0 = 1 \/ c0 = 4) /\ 1 + n = 1 + k + c0
    <3>1. o \in RMOperands /\ f \in Encodings(o) /\ m.low = f.rm /\ m.high = f.mode
      BY <1>1, <1>4
    <3> HIDE DEF o, f, s0, k, c0
    <3> QED BY <2>1, <3>1, Shape
  <2> HIDE DEF c0
  <2>3. 1 \in 1 .. n BY <1>1, <2>2
  <2>4. at + 2 + 1 <= MaxFetch BY <1>3
  <2>5. buffer[at + 2 + 1] = f.tail[1] BY <2>3, <2>4, ModRMPeek
  <2>6. at + 2 + 1 = at + 1 + 2 BY <1>3
  <2> QED BY <2>5, <2>6 DEF Peek
<1>6. /\ count = 0 \/ count = 1 \/ count = 4
      /\ 1 + n = 1 + k + count
      /\ s \in [low : 0 .. 7, middle : 0 .. 7, high : 0 .. 3]
      /\ o.kind = "memory" => Displaced(o, f.tail, k, count)
  <2>1. k = IF HasSIB(m) THEN 1 ELSE 0 OBVIOUS
  <2>2. o \in RMOperands /\ f \in Encodings(o) /\ m.low = f.rm /\ m.high = f.mode
    BY <1>1, <1>4
  <2> HIDE DEF o, f, k
  <2> QED BY <1>5, <2>1, <2>2, Shape
<1>7. k \in {0, 1} /\ before = 2 + k OBVIOUS
<1> HIDE DEF k, n
<1>8. before + count = 1 + ModRMWidth BY <1>1, <1>6, <1>7
<1>9. ASSUME before + count <= MaxFetch - at
      PROVE  /\ p \in ModRMTypes /\ p.size = ModRMWidth /\ p.reg = instr.reg
             /\ p.mode = f.mode /\ p.rm = f.rm /\ p.sib = s
             /\ o.kind = "memory" => p.disp = o.disp
  <2> DEFINE d == CASE count = 0 -> Zero
                    [] count = 1 -> SignExtended(Peek(before))
                    [] count = 4 -> Take(before, 4)
  <2>1. p = [mode |-> f.mode, reg |-> instr.reg, rm |-> f.rm, sib |-> s,
             size |-> before - 1 + count, disp |-> d]
    BY <1>4 DEF Parsed
  <2>2. before - 1 + count = ModRMWidth /\ ModRMWidth \in 0 .. 6
    BY <1>1, <1>6, <1>7, <1>8
  <2>3. d \in DoubleWord /\ (o.kind = "memory" => d = o.disp)
    <3> USE DEF Displaced
    <3>1. CASE count = 0 BY <1>6, <3>1, ZeroType
    <3>2. CASE count = 1
      <4>1. k + 1 \in 1 .. n BY <1>1, <1>6, <1>7, <3>2
      <4>2. at + 2 + (k + 1) <= MaxFetch /\ at + 2 + (k + 1) = at + 1 + before
        BY <1>3, <1>7, <1>9, <3>2
      <4>3. buffer[at + 2 + (k + 1)] = f.tail[k + 1] /\ buffer[at + 2 + (k + 1)] \in Byte
        BY <4>1, <4>2, ModRMPeek DEF n
      <4>4. Peek(before) = f.tail[k + 1] /\ Peek(before) \in Byte BY <4>2, <4>3 DEF Peek
      <4>5. d = SignExtended(Peek(before)) BY <3>2
      <4> HIDE DEF d
      <4>6. d = SignExtended(f.tail[k + 1]) BY <4>4, <4>5
      <4>7. d \in DoubleWord BY <4>4, <4>5, SignExtendedType
      <4>8. o.kind = "memory" => o.disp = SignExtended(f.tail[k + 1]) BY <1>6, <3>2
      <4> QED BY <4>6, <4>7, <4>8
    <3>3. CASE count = 4
      <4>1. before \in Nat /\ at + before + 4 <= MaxFetch BY <1>3, <1>7, <1>9, <3>3
      <4>2. /\ Take(before, 4) \in DoubleWord
            /\ \A j \in 1 .. 4 : Take(before, 4)[j] = buffer[at + before + j]
        <5>1. at \in Nat /\ before \in Nat /\ 4 \in Nat BY <1>3, <4>1
        <5>2. /\ Take(before, 4) \in [1 .. 4 -> Byte]
              /\ \A j \in 1 .. 4 : Take(before, 4)[j] = buffer[at + before + j]
          BY <4>1, <5>1, Taken
        <5> QED BY <5>2 DEF DoubleWord
      <4>3. \A j \in 1 .. 4 : buffer[at + before + j] = f.tail[k + j]
        <5> SUFFICES ASSUME NEW j \in 1 .. 4 PROVE buffer[at + before + j] = f.tail[k + j]
          OBVIOUS
        <5>1. k + j \in 1 .. n BY <1>1, <1>6, <1>7, <3>3
        <5>2. at + 2 + (k + j) <= MaxFetch /\ at + 2 + (k + j) = at + before + j
          BY <1>3, <1>7, <4>1
        <5>3. buffer[at + 2 + (k + j)] = f.tail[k + j] BY <5>1, <5>2, ModRMPeek DEF n
        <5> QED BY <5>2, <5>3
      <4>4. d = Take(before, 4) BY <3>3
      <4> HIDE DEF d
      <4>5. ASSUME o.kind = "memory" PROVE d = o.disp
        <5>1. o.disp \in DoubleWord BY <1>1, <4>5, OperandFields DEF DoubleWord
        <5>2. \A j \in 1 .. 4 : d[j] = o.disp[j] BY <1>6, <3>3, <4>2, <4>3, <4>4, <4>5
        <5> QED BY <4>2, <4>4, <5>1, <5>2 DEF DoubleWord
      <4> QED BY <4>2, <4>4, <4>5
    <3> QED BY <1>6, <3>1, <3>2, <3>3
  <2> HIDE DEF d
  <2> QED BY <1>1, <1>2, <1>6, <2>1, <2>2, <2>3 DEF ModRMTypes
<1>10. ASSUME before + count <= MaxFetch - at, NEW z \in FixedSizes
       PROVE  LET a == DecodeModRM(p, z)
              IN  /\ Locates(a, instr.rm, BytesOf(z))
                  /\ a.is_memory = (instr.rm.kind = "memory")
                  /\ a \in [location : Locations, is_memory : BOOLEAN]
  <2>1. /\ p.mode = f.mode /\ p.rm = f.rm /\ p.sib = s
        /\ o.kind = "memory" => p.disp = o.disp
    BY <1>9, <1>10
  <2>2. f.mode # 3 /\ f.rm = 4 => p.sib = Fields(f.tail[1])
    BY <1>4, <1>5, <2>1 DEF HasSIB
  <2> HIDE DEF p
  <2> QED BY <1>1, <2>1, <2>2, DecodesTo
<1> QED BY <1>8, <1>9, <1>10

LEMMA ParseModRMStep == ASSUME Inv, ParseModRM PROVE Inv'
<1> DEFINE m      == Fields(Peek(1))
           s      == IF HasSIB(m) THEN Fields(Peek(2)) ELSE NoSIB
           before == IF HasSIB(m) THEN 3 ELSE 2
           count  == DispSize(m, s)
           p      == Parsed(m, s, before, count)
<1>1. /\ phase = "modrm"
      /\ UNCHANGED <<instr, buffer, writeable, at, prefixes, arg, taken, slot, stop>>
      /\ \/ /\ Left < 5 \/ (~(Left < 5) /\ before + count > Left)
            /\ phase' = "done" /\ result' = "DecodingOverrun" /\ modrm' = modrm
         \/ /\ ~(Left < 5) /\ ~(before + count > Left)
            /\ modrm' = p /\ phase' = "select" /\ result' = result
  BY DEF ParseModRM, Fail
<1>2. OpcodeRead /\ instr.rm # NoOperand BY <1>1 DEF Inv, Progress
<1>3. /\ AtOpcode /\ Given /\ at = Skipped /\ at \in 0 .. MaxFetch /\ at < MaxFetch
      /\ \h67 \notin Range(instr.prefixes) /\ Known(instr) /\ ~IsRep
  BY <1>2, OpcodeByte DEF OpcodeRead
<1>4. MaxFetch = 16 /\ Left = MaxFetch - at BY DEF MaxFetch, Left
<1>5. ASSUME ~(Left < 5)
      PROVE  /\ before + count = 1 + ModRMWidth
             /\ before + count <= MaxFetch - at =>
                  /\ p \in ModRMTypes /\ p.size = ModRMWidth /\ p.reg = instr.reg
                  /\ \A z \in FixedSizes :
                       LET a == DecodeModRM(p, z)
                       IN  /\ Locates(a, instr.rm, BytesOf(z))
                           /\ a.is_memory = (instr.rm.kind = "memory")
                           /\ a \in [location : Locations, is_memory : BOOLEAN]
  <2>1. at + 5 <= MaxFetch BY <1>3, <1>4, <1>5
  <2>2. /\ m = Fields(Peek(1)) /\ s = (IF HasSIB(m) THEN Fields(Peek(2)) ELSE NoSIB)
        /\ before = (IF HasSIB(m) THEN 3 ELSE 2) /\ count = DispSize(m, s)
    OBVIOUS
  <2> HIDE DEF m, s, before, count
  <2> QED BY <1>2, <1>3, <2>1, <2>2, Parses
<1> HIDE DEF m, s, before, count, p
<1>6. ModRMWidth \in Nat /\ Total = Skipped + 1 + ModRMWidth + Before(4) /\ Before(4) \in Nat
      /\ Skipped \in Nat
  BY <1>3, WidthType, Layout
<1>7. CASE Left < 5 \/ (~(Left < 5) /\ before + count > Left)
  <2>1. phase' = "done" /\ result' = "DecodingOverrun" /\ modrm' = modrm BY <1>1, <1>7
  <2>2. Outcome = "DecodingOverrun"
    <3>1. CASE Skipped > MaxFetch - 6 BY <1>3, <3>1, Outcomes
    <3>2. CASE Skipped <= MaxFetch - 6
      <4>1. ~(Left < 5) BY <1>3, <1>4, <3>2
      <4>2. Total > MaxFetch + Before(4) BY <1>3, <1>4, <1>5, <1>6, <1>7, <4>1
      <4>3. Short => Before(4) >= 1
        <5>1. Width(1) \in Nat /\ Width(2) \in Nat /\ Width(3) \in Nat BY <1>3, WidthType
        <5>2. Before(4) = Width(1) + Width(2) + Width(3) BY <5>1 DEF Before
        <5>3. Short => Width(1) = 1 \/ Width(2) = 1 \/ Width(3) = 1
          <6>1. Short => \E i \in 1 .. 3 : Width(i) = 1 BY DEF Short
          <6> QED BY <6>1
        <5> QED BY <5>1, <5>2, <5>3
      <4>4. Total > MaxFetch /\ ~(Short /\ Total = MaxFetch + 1)
        BY <1>4, <1>6, <4>2, <4>3
      <4> QED BY <1>3, <3>2, <4>4, Outcomes
    <3> QED BY <1>4, <1>6, <3>1, <3>2
  <2>3. TypeOK'
    <3>1. phase' \in Phases BY <2>1 DEF Phases
    <3> QED BY <1>1, <2>1, <3>1 DEF Inv, TypeOK
  <2> QED BY <1>1, <2>1, <2>2, <2>3, Failing
<1>8. CASE ~(Left < 5) /\ ~(before + count > Left)
  <2>1. modrm' = p /\ phase' = "select" /\ result' = result BY <1>1, <1>8
  <2>2. before + count = 1 + ModRMWidth BY <1>5, <1>8
  <2>3. before + count <= MaxFetch - at /\ at + 1 + ModRMWidth <= MaxFetch
    BY <1>3, <1>4, <1>6, <1>8, <2>2
  <2>4. /\ p \in ModRMTypes /\ p.size = ModRMWidth /\ p.reg = instr.reg
        /\ \A z \in FixedSizes :
             LET a == DecodeModRM(p, z)
             IN  /\ Locates(a, instr.rm, BytesOf(z))
                 /\ a.is_memory = (instr.rm.kind = "memory")
                 /\ a \in [location : Locations, is_memory : BOOLEAN]
    BY <1>5, <1>8, <2>3
  <2>5. TypeOK'
    <3>1. phase' \in Phases BY <2>1 DEF Phases
    <3>2. modrm' \in ModRMTypes BY <2>1, <2>4
    <3> QED BY <1>1, <2>1, <3>1, <3>2 DEF Inv, TypeOK, ModRMTypes
  <2>6. OpcodeRead'
    <3>1. AtOpcode'
      <4>1. Skipped' = Skipped BY <1>1, Stays
      <4>2. instr' = instr /\ prefixes' = prefixes /\ at' = at BY <1>1
      <4> QED BY <1>3, <4>1, <4>2 DEF AtOpcode, PrefixesRead, RepMode
    <3> QED BY <1>1, <1>2, <2>1, <3>1, Stays DEF OpcodeRead
  <2>7. ModRMRead'
    <3>1. instr' = instr /\ at' = at /\ ModRMWidth' = ModRMWidth BY <1>1, Stays
    <3>2. instr'.rm # NoOperand BY <1>2, <3>1
    <3> QED BY <2>1, <2>3, <2>4, <3>1, <3>2 DEF ModRMRead, Locates
  <2>8. Progress' BY <2>1, <2>6, <2>7 DEF Progress
  <2>9. (Length /\ Cost /\ (Done /\ IsRep => RepSlot /\ stop))'
    BY <2>1 DEF Length, Cost, Done, Filled
  <2> QED BY <1>1, <1>3, <2>5, <2>8, <2>9, Stays DEF Inv
<1> QED BY <1>1, <1>7, <1>8

(* The opcode that is selected is the instruction's.                       *)
LEMMA OpcodeIsDefined ==
  ASSUME Inv, AtOpcode, at < MaxFetch, Known(instr), ModRMRead
  PROVE  /\ Opcode = Defined
         /\ Defined.function \in LogicFunctions /\ Defined.gas \in GasLevels
<1>1. Given /\ Key = instr.number BY OpcodeByte
<1>2. modrm.reg = IF HasRM(instr) THEN instr.reg ELSE 0
  BY <1>1, InstructionType DEF ModRMRead
<1>3. Defined = OPCODES[instr.number].opcodes[IF HasRM(instr) THEN instr.reg ELSE 0]
  BY <1>1, InstructionType DEF OpcodeFor
<1>4. Opcode = Defined BY <1>1, <1>2, <1>3 DEF Opcode
<1>5. WellFormed(Defined, HasRM(instr)) BY <1>1, DefinedWellFormed
<1> QED BY <1>4, <1>5 DEF WellFormed

LEMMA SelectStep == ASSUME Inv, Select PROVE Inv'
<1>1. /\ phase = "select"
      /\ slot' = [slot EXCEPT !.function = Opcode.function,
                              !.gas_cost = @ + Costs[Opcode.gas],
                              !.size_override = prefixes.size_override]
      /\ taken' = 1 + modrm.size
      /\ \/ Left < 6 /\ phase' = "done" /\ result' = "DecodingOverrun"
         \/ ~(Left < 6) /\ phase' = "args" /\ result' = result
      /\ UNCHANGED <<instr, buffer, writeable, at, prefixes, modrm, arg, stop>>
  BY DEF Select, TooShort, Fail
<1>2. OpcodeRead /\ ModRMRead BY <1>1 DEF Inv, Progress
<1>3. /\ AtOpcode /\ Given /\ at = Skipped /\ at \in 0 .. MaxFetch /\ at < MaxFetch
      /\ \h67 \notin Range(instr.prefixes) /\ Known(instr) /\ ~IsRep
  BY <1>2, OpcodeByte DEF OpcodeRead
<1>4. MaxFetch = 16 /\ Left = MaxFetch - at BY DEF MaxFetch, Left
<1>5. /\ Opcode = Defined /\ Defined.function \in LogicFunctions /\ Defined.gas \in GasLevels
  BY <1>2, <1>3, OpcodeIsDefined
<1>6. /\ slot \in Slots /\ prefixes.size_override \in BOOLEAN
      /\ slot.gas_cost = IF instr.rm # NoOperand THEN Costs["ModRMSurcharge"] ELSE 0
  BY <1>2 DEF Inv, TypeOK, OpcodeRead
<1>7. Costs[Defined.gas] \in Nat BY <1>5, CostType DEF Charges
<1>8. /\ slot' \in Slots /\ slot'.function = Defined.function
      /\ slot'.gas_cost = slot.gas_cost + Costs[Defined.gas]
  <2>1. slot.gas_cost \in Nat BY <1>6 DEF Slots
  <2>2. slot.gas_cost + Costs[Defined.gas] \in Nat BY <1>7, <2>1
  <2>3. slot' = [slot EXCEPT !.function = Defined.function,
                             !.gas_cost = slot.gas_cost + Costs[Defined.gas],
                             !.size_override = prefixes.size_override]
    BY <1>1, <1>5, <1>6 DEF Slots
  <2> DEFINE g == slot.gas_cost + Costs[Defined.gas]
             fn == Defined.function
  <2>4. g \in Nat /\ fn \in LogicFunctions BY <1>5, <2>2
  <2> HIDE DEF g, fn
  <2>5. slot' = [slot EXCEPT !.function = fn, !.gas_cost = g,
                             !.size_override = prefixes.size_override]
    BY <2>3 DEF g, fn
  <2>6. slot' \in Slots /\ slot'.function = fn /\ slot'.gas_cost = g
    BY <1>6, <2>4, <2>5 DEF Slots
  <2> QED BY <2>6 DEF g, fn
<1>9. /\ ModRMWidth \in Nat /\ taken' = 1 + ModRMWidth /\ taken' \in 0 .. MaxFetch
      /\ at + taken' <= MaxFetch
  <2>1. ModRMWidth \in Nat BY <1>3, WidthType
  <2>2. taken' = 1 + ModRMWidth BY <1>1, <1>2 DEF ModRMRead
  <2>3. at + 1 + ModRMWidth <= MaxFetch BY <1>2 DEF ModRMRead
  <2> QED BY <1>3, <1>4, <2>1, <2>2, <2>3
<1>10. phase' \in Phases /\ result' \in {"Ok", "DecodingOverrun", "ReadBadMemory", "panic"}
  BY <1>1 DEF Phases, Inv, TypeOK
<1>11. TypeOK' BY <1>1, <1>8, <1>9, <1>10 DEF Inv, TypeOK
<1>12. CASE Left < 6 /\ phase' = "done" /\ result' = "DecodingOverrun"
  <2>1. Skipped > MaxFetch - 6 /\ Skipped < MaxFetch BY <1>3, <1>4, <1>12
  <2>2. Outcome = "DecodingOverrun" BY <1>3, <2>1, Outcomes
  <2> QED BY <1>1, <1>11, <1>12, <2>2, Failing
<1>13. CASE ~(Left < 6) /\ phase' = "args" /\ result' = result
  <2>1. DecodingArgs'
    <3>1. /\ Skipped' = Skipped /\ ModRMWidth' = ModRMWidth /\ Known(instr)' /\ ~IsRep'
          /\ Defined' = Defined
      BY <1>1, <1>3, Stays
    <3>2. instr' = instr /\ prefixes' = prefixes /\ at' = at /\ modrm' = modrm
      BY <1>1
    <3>3. AtOpcode' BY <1>3, <3>1, <3>2 DEF AtOpcode, PrefixesRead, RepMode
    <3>4. ModRMRead' BY <1>2, <3>1, <3>2 DEF ModRMRead, Locates
    <3>5. arg' = 1 /\ ~stop' /\ result' = "Ok" BY <1>1, <1>2, <1>13 DEF OpcodeRead
    <3>6. Before(arg)' = 0 BY <3>5 DEF Before
    <3>7. taken' = 1 + ModRMWidth' + Before(arg)' BY <1>9, <3>1, <3>6
    <3>8. at' <= MaxFetch - 6 BY <1>3, <1>4, <1>13, <3>2
    <3>9. at' + taken' <= MaxFetch BY <1>9, <3>2
    <3>10. ArgsRead(arg - 1)' BY <3>5 DEF ArgsRead
    <3>11. slot'.gas_cost = (IF instr'.rm # NoOperand THEN Costs["ModRMSurcharge"] ELSE 0)
                            + Costs[Defined'.gas]
      BY <1>6, <1>8, <3>1, <3>2
    <3> QED BY <1>8, <3>1, <3>3, <3>4, <3>5, <3>7, <3>8, <3>9, <3>10, <3>11 DEF DecodingArgs
  <2>2. Progress' BY <1>13, <2>1 DEF Progress
  <2>3. (Length /\ Cost /\ (Done /\ IsRep => RepSlot /\ stop))'
    BY <1>13 DEF Length, Cost, Done, Filled
  <2> QED BY <1>1, <1>3, <1>11, <2>2, <2>3, Stays DEF Inv
<1> QED BY <1>1, <1>12, <1>13

(* Functions with the same values are the same.                            *)
LEMMA SameFunctions ==
  ASSUME NEW D, NEW S, NEW f \in [D -> S], NEW g \in [D -> S], \A j \in D : f[j] = g[j]
  PROVE  f = g
OBVIOUS

(* The bytes of an immediate, when they have been fetched.                 *)
LEMMA ImmediateTaken ==
  ASSUME Given, at = Skipped, at \in 0 .. MaxFetch, NEW n \in 1 .. 3,
         taken = 1 + ModRMWidth + Before(n), at + taken + Width(n) <= MaxFetch
  PROVE  /\ Take(taken, Width(n)) = ImmediateBytes(instr, n)
         /\ ImmediateBytes(instr, n) \in [1 .. Width(n) -> Byte]
         /\ ImmediateBytes(instr, n) \in Seq(Byte)
<1> DEFINE w == Width(n)
           is == ImmediateBytes(instr, n)
           b == Bytes(instr)
           t == Take(taken, w)
<1>1. /\ w \in Nat /\ Skipped \in Nat /\ ModRMWidth \in Nat /\ Before(n) \in Nat
      /\ Before(n + 1) = Before(n) + w
  BY WidthType
<1>2. Before(4) \in Nat /\ Before(n) + w <= Before(4)
  <2>1. Width(1) \in Nat /\ Width(2) \in Nat /\ Width(3) \in Nat BY WidthType
  <2>2. n = 1 \/ n = 2 \/ n = 3 OBVIOUS
  <2> QED BY <2>1, <2>2 DEF Before
<1>3. /\ Total = Skipped + 1 + ModRMWidth + Before(4)
      /\ \A j \in 1 .. w : b[Skipped + 1 + ModRMWidth + Before(n) + j] = is[j]
      /\ \A k \in 1 .. MaxFetch : buffer[k] = IF k <= Total THEN b[k] ELSE 0
  BY Layout, FetchedBytes
<1>4. is \in Seq(Byte) /\ w = Len(is) BY ImmediateType DEF Width
<1>5. MaxFetch = 16 /\ at \in Nat /\ taken \in Nat BY <1>1 DEF MaxFetch
<1>6. t \in [1 .. w -> Byte] /\ \A j \in 1 .. w : t[j] = buffer[at + taken + j]
  BY <1>1, <1>5, Taken
<1>7. is \in [1 .. w -> Byte]
  <2>1. is \in [1 .. Len(is) -> Byte] BY <1>4, LenProperties
  <2> QED BY <1>4, <2>1
<1> HIDE DEF w, is, b, t
<1>8. \A j \in 1 .. w : buffer[at + taken + j] = is[j]
  <2> SUFFICES ASSUME NEW j \in 1 .. w PROVE buffer[at + taken + j] = is[j]
    OBVIOUS
  <2>1. at + taken + j = Skipped + 1 + ModRMWidth + Before(n) + j BY <1>1
  <2>2. at + taken + j \in 1 .. MaxFetch BY <1>1, <1>5 DEF w
  <2>3. at + taken + j <= Total BY <1>1, <1>2, <1>3
  <2> QED BY <1>3, <2>1, <2>2, <2>3
<1>9. t = is
  <2> DEFINE D == 1 .. w
  <2>1. t \in [D -> Byte] /\ is \in [D -> Byte] BY <1>6, <1>7
  <2>2. \A j \in D : t[j] = is[j] BY <1>6, <1>8
  <2> HIDE DEF D
  <2> QED BY <2>1, <2>2, SameFunctions
<1> QED BY <1>4, <1>7, <1>9 DEF w, is, t

(* While arguments are decoded.                                            *)
LEMMA Decoding ==
  ASSUME Inv, DecodingArgs
  PROVE  /\ AtOpcode /\ Given /\ at = Skipped /\ at \in 0 .. MaxFetch /\ at < MaxFetch
         /\ \h67 \notin Range(instr.prefixes) /\ Known(instr) /\ ~IsRep
         /\ Opcode = Defined /\ WellFormed(Defined, HasRM(instr))
         /\ Peek(0) = instr.number % 256
         /\ \A s : ToFixed(s) = Fixed(s, Override(instr))
         /\ \A n \in 1 .. 3 : Advance(Defined.args[n]) = Width(n)
<1>1. AtOpcode /\ Known(instr) /\ ~IsRep /\ ModRMRead /\ at <= MaxFetch - 6
  BY DEF DecodingArgs
<1>2. /\ Given /\ at = Skipped /\ at \in 0 .. MaxFetch
      /\ \h67 \notin Range(instr.prefixes)
      /\ prefixes.size_override = Override(instr)
      /\ at < MaxFetch => Peek(0) = instr.number % 256
  BY <1>1, OpcodeByte
<1>3. at < MaxFetch BY <1>1, <1>2 DEF MaxFetch
<1>4. Opcode = Defined BY <1>1, <1>3, OpcodeIsDefined
<1>5. \A s : ToFixed(s) = Fixed(s, Override(instr)) BY <1>2 DEF ToFixed, Fixed
<1>6. WellFormed(Defined, HasRM(instr)) BY <1>2, DefinedWellFormed
<1>7. ASSUME NEW n \in 1 .. 3 PROVE Advance(Defined.args[n]) = Width(n)
  <2> DEFINE a == Defined.args[n]
  <2>1. Width(n) = CASE a.source = "ImmediateAddress" -> 4
                     [] a.source \in {"ImmediateValue", "JumpRel"} -> BytesOf(SizeOf(instr, a))
                     [] OTHER -> 0
    BY <1>2, ImmediateType
  <2>2. SizeOf(instr, a) = ToFixed(a.size) BY <1>5 DEF SizeOf
  <2> HIDE DEF a
  <2>3. Width(n) = Advance(a) BY <2>1, <2>2 DEF Advance
  <2> QED BY <2>3 DEF a
<1> QED BY <1>1, <1>2, <1>3, <1>4, <1>5, <1>6, <1>7

(* The argument x is the one that was meant as argument n.                 *)
Meant(x, n) ==
  /\ Locates(x, Intended(n), BytesOf(SizeOf(instr, Defined.args[n])))
  /\ x.is_memory <=>
       Intended(n).kind = "memory" \/ Defined.args[n].source = "HardcodedRegister"
  /\ x \in [location : Locations, is_memory : BOOLEAN]

LEMMA Located ==
  ASSUME NEW n, NEW l \in Locations, NEW b \in BOOLEAN, Denoted(l) = Intended(n),
         DenotedWidth(l) = BytesOf(SizeOf(instr, Defined.args[n])),
         b <=> Intended(n).kind = "memory" \/ Defined.args[n].source = "HardcodedRegister"
  PROVE  Meant(Argument(l, b), n)
<1>1. Argument(l, b).location = l /\ Argument(l, b).is_memory = b
      /\ Argument(l, b) \in [location : Locations, is_memory : BOOLEAN]
  BY DEF Argument
<1> QED BY <1>1 DEF Meant, Locates

(* What an argument is meant to be, by its source.                         *)
LEMMA Intentions ==
  ASSUME NEW n
  PROVE  LET a == Defined.args[n]
         IN  /\ a.source = "None" => Intended(n) = NoOperand
             /\ a.source = "ModRM" => Intended(n) = instr.rm
             /\ a.source = "ModRMReg" => Intended(n) = InRegister(instr.reg)
             /\ a.source = "RegisterSuffix" => Intended(n) = InRegister(instr.number % 8)
             /\ a.source = "HardcodedRegister" => Intended(n) = InRegister(a.value)
             /\ a.source = "Literal" => Intended(n) = Immediate(<<a.value>>)
             /\ a.source = "ImmediateAddress" =>
                  Intended(n) = InMemory(None, None, 1, ImmediateBytes(instr, n))
             /\ a.source \in {"ImmediateValue", "JumpRel"} =>
                  Intended(n) = Immediate(ImmediateBytes(instr, n))
BY DEF Intended

(* And what is decoded from it.                                            *)
LEMMA DecodedBySource ==
  ASSUME NEW a
  PROVE  LET s == ToFixed(a.size)
         IN  /\ a.source = "None" => Decoded(a) = NoArgument
             /\ a.source = "ModRM" => Decoded(a) = DecodeModRM(modrm, s)
             /\ a.source = "ModRMReg" =>
                  Decoded(a) = Argument(RegisterValue(modrm.reg, s), FALSE)
             /\ a.source = "RegisterSuffix" =>
                  Decoded(a) = Argument(RegisterValue(Peek(0) % 8, s), FALSE)
             /\ a.source = "HardcodedRegister" =>
                  Decoded(a) = Argument(RegisterValue(a.value, s), TRUE)
             /\ a.source = "Literal" => Decoded(a) = Argument(ImmediateOf(<<a.value>>), FALSE)
             /\ a.source = "ImmediateAddress" =>
                  Decoded(a) = Argument(Address(Take(taken, 4), s), TRUE)
             /\ a.source \in {"ImmediateValue", "JumpRel"} =>
                  Decoded(a) = Argument(ImmediateOf(Take(taken, BytesOf(s))), FALSE)
BY DEF Decoded, Sourced

LEMMA KindsOf ==
  ASSUME NEW r
  PROVE  /\ NoOperand.kind # "memory" /\ InRegister(r).kind # "memory"
         /\ Immediate(r).kind # "memory" /\ InMemory(None, None, 1, r).kind = "memory"
BY DEF NoOperand, InRegister, Immediate, InMemory

LEMMA ArgumentMeant ==
  ASSUME Inv, DecodingArgs, NEW n \in 1 .. 3, arg = n, at + taken + Width(n) <= MaxFetch
  PROVE  Meant(Decoded(Defined.args[n]), n)
<1> DEFINE a == Defined.args[n]
           z == SizeOf(instr, a)
           x == Decoded(a)
           is == ImmediateBytes(instr, n)
<1>1. /\ AtOpcode /\ Given /\ at = Skipped /\ at \in 0 .. MaxFetch
      /\ Peek(0) = instr.number % 256
      /\ ToFixed(a.size) = z
  BY Decoding DEF SizeOf
<1>2. WellFormed(Defined, HasRM(instr)) /\ ModRMRead BY Decoding DEF DecodingArgs
<1>3. /\ a.source \in ArgSources /\ a.size \in FixedSizes \union {"NativeWord"}
      /\ a.source = "None" <=> a.size = "None"
      /\ a.source = "Literal" => a.size = "Byte"
      /\ a.value \in 0 .. 7
      /\ a.source \in {"ModRM", "ModRMReg"} => instr.rm # NoOperand
  BY <1>1, <1>2, InstructionType DEF WellFormed
<1>4. Override(instr) \in BOOLEAN BY DEF Override
<1>5. /\ z \in FixedSizes /\ BytesOf(z) \in {0, 1, 2, 4}
      /\ BytesOf(z) = 0 <=> a.size = "None"
      /\ BytesOf(z) = 1 <=> a.size = "Byte"
  BY <1>3, <1>4, Sized DEF SizeOf
<1>6. /\ Take(taken, Width(n)) = is /\ is \in [1 .. Width(n) -> Byte] /\ is \in Seq(Byte)
      /\ Width(n) = Len(is)
  <2>1. taken = 1 + ModRMWidth + Before(n) BY DEF DecodingArgs
  <2> QED BY <1>1, <2>1, ImmediateTaken DEF Width
<1>7. /\ a.source = "ImmediateAddress" => Width(n) = 4
      /\ a.source \in {"ImmediateValue", "JumpRel"} => Width(n) = BytesOf(z)
  BY <1>1, ImmediateType
<1>8. instr.number \in 0 .. 511 /\ instr.reg \in 0 .. 7 BY <1>1, NumberType
<1>9. SizeOf(instr, Defined.args[n]) = z /\ Defined.args[n].source = a.source OBVIOUS
<1> HIDE DEF z, a, is
<1>10. CASE a.source = "None"
  <2>1. x = NoArgument /\ Intended(n) = NoOperand
    BY <1>10, DecodedBySource, Intentions DEF a
  <2>2. NoArgument.location \in Locations BY <1>5, ZeroType, LocationType
  <2>3. Meant(Argument(NoArgument.location, FALSE), n)
    BY <1>3, <1>5, <1>9, <1>10, <2>1, <2>2, Denotes, KindsOf, Located
  <2>4. NoArgument = Argument(NoArgument.location, FALSE) BY DEF NoArgument, Argument
  <2> QED BY <2>1, <2>3, <2>4 DEF a
<1>11. CASE a.source = "ModRM"
  <2>1. x = DecodeModRM(modrm, z) /\ Intended(n) = instr.rm
    BY <1>1, <1>11, DecodedBySource, Intentions DEF a
  <2>2. /\ Locates(x, instr.rm, BytesOf(z))
        /\ x.is_memory = (instr.rm.kind = "memory")
        /\ x \in [location : Locations, is_memory : BOOLEAN]
    BY <1>2, <1>3, <1>5, <1>11, <2>1 DEF ModRMRead
  <2> QED BY <1>9, <1>11, <2>1, <2>2 DEF Meant, a
<1>12. CASE a.source = "ModRMReg"
  <2>1. x = Argument(RegisterValue(modrm.reg, z), FALSE) /\ Intended(n) = InRegister(instr.reg)
    BY <1>1, <1>12, DecodedBySource, Intentions DEF a
  <2>2. modrm.reg = instr.reg BY <1>2, <1>3, <1>12 DEF ModRMRead
  <2>3. RegisterValue(instr.reg, z) \in Locations BY <1>5, <1>8, ZeroType, LocationType
  <2> QED BY <1>9, <1>12, <2>1, <2>2, <2>3, Denotes, KindsOf, Located DEF a
<1>13. CASE a.source = "RegisterSuffix"
  <2>1. x = Argument(RegisterValue(Peek(0) % 8, z), FALSE)
        /\ Intended(n) = InRegister(instr.number % 8)
    BY <1>1, <1>13, DecodedBySource, Intentions DEF a
  <2>2. (instr.number % 256) % 8 = instr.number % 8 /\ instr.number % 8 \in 0 .. 7
    BY <1>8
  <2>3. RegisterValue(instr.number % 8, z) \in Locations
    BY <1>5, <2>2, ZeroType, LocationType
  <2> DEFINE r == instr.number % 8
  <2>4. x = Argument(RegisterValue(r, z), FALSE) BY <1>1, <2>1, <2>2
  <2> HIDE DEF r
  <2>5. Meant(Argument(RegisterValue(r, z), FALSE), n)
    BY <1>9, <1>13, <2>1, <2>3, Denotes, KindsOf, Located DEF a, r
  <2> QED BY <2>4, <2>5 DEF a
<1>14. CASE a.source = "HardcodedRegister"
  <2>1. x = Argument(RegisterValue(a.value, z), TRUE) /\ Intended(n) = InRegister(a.value)
    BY <1>1, <1>14, DecodedBySource, Intentions DEF a
  <2>2. RegisterValue(a.value, z) \in Locations BY <1>3, <1>5, ZeroType, LocationType
  <2> QED BY <1>9, <1>14, <2>1, <2>2, Denotes, KindsOf, Located DEF a
<1>15. CASE a.source = "Literal"
  <2>1. x = Argument(ImmediateOf(<<a.value>>), FALSE) /\ Intended(n) = Immediate(<<a.value>>)
    BY <1>1, <1>15, DecodedBySource, Intentions DEF a
  <2>2. a.value \in Byte BY <1>3 DEF Byte
  <2>3. <<a.value>> \in Seq(Byte) /\ Len(<<a.value>>) = BytesOf(z)
    <3>1. BytesOf(z) = 1 BY <1>3, <1>5, <1>15
    <3> QED BY <2>2, <3>1
  <2> DEFINE bs == <<a.value>>
  <2>4. bs \in Seq(Byte) /\ Len(bs) = BytesOf(z) /\ x = Argument(ImmediateOf(bs), FALSE)
        /\ Intended(n) = Immediate(bs)
    BY <2>1, <2>3
  <2> HIDE DEF bs
  <2>5. ImmediateOf(bs) \in Locations BY <1>5, <2>4, ZeroType, LocationType
  <2>6. Meant(Argument(ImmediateOf(bs), FALSE), n)
    BY <1>9, <1>15, <2>4, <2>5, Denotes, KindsOf, Located DEF a
  <2> QED BY <2>4, <2>6 DEF a
<1>16. CASE a.source = "ImmediateAddress"
  <2>1. x = Argument(Address(Take(taken, 4), z), TRUE)
        /\ Intended(n) = InMemory(None, None, 1, is)
    BY <1>1, <1>16, DecodedBySource, Intentions DEF a, is
  <2>2. Width(n) = 4 BY <1>7, <1>16
  <2>3. Take(taken, 4) = is /\ is \in DoubleWord BY <1>6, <2>2 DEF DoubleWord
  <2>4. Address(is, z) \in Locations BY <1>5, <2>3, LocationType
  <2> QED BY <1>9, <2>1, <2>3, <2>4, Denotes, KindsOf, Located DEF a
<1>17. CASE a.source \in {"ImmediateValue", "JumpRel"}
  <2>1. x = Argument(ImmediateOf(Take(taken, BytesOf(z))), FALSE)
        /\ Intended(n) = Immediate(is)
    BY <1>1, <1>17, DecodedBySource, Intentions DEF a, is
  <2>2. Take(taken, BytesOf(z)) = is /\ Len(is) = BytesOf(z) BY <1>6, <1>7, <1>17
  <2>3. ImmediateOf(is) \in Locations BY <1>5, <1>6, ZeroType, LocationType
  <2> QED BY <1>9, <1>17, <2>1, <2>2, <2>3, Denotes, KindsOf, Located DEF a
<1> QED BY <1>3, <1>10, <1>11, <1>12, <1>13, <1>14, <1>15, <1>16, <1>17
     DEF ArgSources, Encoded

(* Only the last immediate can be a single byte.                           *)
LEMMA SingleByte ==
  ASSUME Given, NEW n \in 1 .. 3, Width(n) = 1, NEW m \in n + 1 .. 3
  PROVE  Width(m) = 0
<1> DEFINE a == Defined.args[n]
           b == Defined.args[m]
<1>1. m \in 1 .. 3 OBVIOUS
<1>2. a.source \in {"ImmediateValue", "JumpRel"} /\ a.size = "Byte" BY ImmediateType
<1>3. b.source \notin Encoded BY <1>2, DefinedWellFormed DEF WellFormed, Encoded
<1>4. Width(m) = CASE b.source = "ImmediateAddress" -> 4
                   [] b.source \in {"ImmediateValue", "JumpRel"} -> BytesOf(SizeOf(instr, b))
                   [] OTHER -> 0
  BY <1>1, ImmediateType
<1> HIDE DEF b
<1> QED BY <1>3, <1>4 DEF Encoded

(* When the bytes of argument n end past the buffer, so does the           *)
(* instruction: by one byte, if they were a single one.                    *)
LEMMA Overrun ==
  ASSUME Inv, DecodingArgs, NEW n \in 1 .. 3, arg = n, at + taken + Width(n) > MaxFetch
  PROVE  Outcome = IF Width(n) = 1 THEN "panic" ELSE "DecodingOverrun"
<1>1. /\ Given /\ at = Skipped /\ at \in 0 .. MaxFetch /\ Known(instr) /\ ~IsRep
      /\ \h67 \notin Range(instr.prefixes)
  BY Decoding
<1>2. /\ at <= MaxFetch - 6 /\ at + taken <= MaxFetch
      /\ taken = 1 + ModRMWidth + Before(n)
  BY DEF DecodingArgs
<1>3. MaxFetch = 16 BY DEF MaxFetch
<1>4. /\ Skipped \in Nat /\ ModRMWidth \in Nat /\ Before(n) \in Nat /\ Total \in Nat
      /\ Total = Skipped + 1 + ModRMWidth + Before(4)
  <2>1. n \in 1 .. 4 OBVIOUS
  <2>2. Skipped \in Nat /\ ModRMWidth \in Nat /\ Before(n) \in Nat /\ Total \in Nat
    BY <1>1, <2>1, WidthType
  <2> QED BY <1>1, <2>2, Layout
<1>5. \A k \in 1 .. 3 : Width(k) \in Nat /\ Width(k) \in {0, 1, 2, 4} BY <1>1, ImmediateType
<1>6. Before(4) = Width(1) + Width(2) + Width(3)
      /\ Before(1) = 0 /\ Before(2) = Width(1) /\ Before(3) = Width(1) + Width(2)
  BY <1>5 DEF Before
<1>7. Before(n) + Width(n) <= Before(4)
  <2>1. n = 1 \/ n = 2 \/ n = 3 OBVIOUS
  <2> QED BY <1>5, <1>6, <2>1
<1>8. Total > MaxFetch
  <2>1. Width(n) \in Nat /\ Before(4) \in Nat BY <1>5, <1>6
  <2>2. Total >= at + taken + Width(n) BY <1>1, <1>2, <1>4, <1>7, <2>1
  <2> QED BY <1>1, <1>2, <1>3, <1>4, <2>1, <2>2
<1>9. Skipped <= MaxFetch - 6 /\ Skipped < MaxFetch BY <1>1, <1>2, <1>3
<1>10. Outcome = IF Short /\ Total = MaxFetch + 1 THEN "panic" ELSE "DecodingOverrun"
  BY <1>1, <1>8, <1>9, Outcomes
<1>11. CASE Width(n) = 1
  <2>1. \A m \in n + 1 .. 3 : Width(m) = 0 BY <1>1, <1>11, SingleByte
  <2>2. Short BY <1>11, <2>1 DEF Short
  <2>3. Before(4) = Before(n) + 1
    <3>1. n < 2 => Width(2) = 0 BY <2>1
    <3>2. n < 3 => Width(3) = 0 BY <2>1
    <3> QED BY <1>5, <1>6, <1>11, <3>1, <3>2
  <2>4. Total = MaxFetch + 1 BY <1>1, <1>2, <1>3, <1>4, <1>11, <2>3
  <2> QED BY <1>10, <1>11, <2>2, <2>4
<1>12. CASE Width(n) # 1
  <2>1. SUFFICES ASSUME Short, Total = MaxFetch + 1 PROVE FALSE BY <1>10, <1>12
  <2>2. PICK i \in 1 .. 3 : Width(i) = 1 /\ \A j \in i + 1 .. 3 : Width(j) = 0
    BY <2>1 DEF Short
  <2>3. Width(n) # 0 BY <1>2, <1>3, <1>1, <1>4, <1>5
  <2>4. n < i
    <3>1. n # i BY <1>12, <2>2
    <3>2. i < n => n \in i + 1 .. 3 BY <2>2
    <3>3. ~(i < n) BY <2>2, <2>3, <3>2
    <3> QED BY <2>2, <3>1, <3>3
  <2>5. Width(i) = 0 \/ Width(n) + Width(i) >= 3 BY <1>5, <1>12, <2>2, <2>3
  <2>6. Before(n) + Width(n) + Width(i) <= Before(4)
    <3>1. (n = 1 /\ i = 2) \/ (n = 1 /\ i = 3) \/ (n = 2 /\ i = 3) BY <2>2, <2>4
    <3> QED BY <1>5, <1>6, <3>1
  <2>7. Before(n) + Width(n) + Width(i) >= Before(n) + Width(n) + 1 BY <1>4, <1>5, <2>2
  <2>8. at + taken + Width(n) >= MaxFetch + 1 BY <1>1, <1>2, <1>3, <1>4, <1>5
  <2>9. Total >= at + taken + Width(n) + 1
    <3>1. Width(n) \in Nat /\ Width(i) \in Nat /\ Before(4) \in Nat BY <1>5, <1>6, <2>2
    <3> QED BY <1>1, <1>2, <1>4, <2>6, <2>7, <3>1
  <2> QED BY <1>1, <1>2, <1>3, <1>4, <1>5, <2>1, <2>8, <2>9
<1> QED BY <1>11, <1>12

LEMMA SlotArgument ==
  ASSUME NEW s \in Slots, NEW n \in 1 .. 3,
         NEW x \in [location : Locations, is_memory : BOOLEAN]
  PROVE  LET t == [s EXCEPT !.args[n] = x]
         IN  /\ t \in Slots
             /\ t.function = s.function /\ t.gas_cost = s.gas_cost
             /\ t.args[n] = x
             /\ \A i \in 1 .. 3 : i # n => t.args[i] = s.args[i]
<1> DEFINE A == [location : Locations, is_memory : BOOLEAN]
           F == LogicFunctions \union {"repe", "repne"}
<1>1. Slots = [function : F, gas_cost : Nat, args : [1 .. 3 -> A],
               eip_size : 0 .. MaxFetch, size_override : BOOLEAN, opcode : Byte]
  BY DEF Slots
<1> HIDE DEF A, F
<1>2. x \in A BY DEF A
<1> QED BY <1>1, <1>2

LEMMA DecodeArgStep == ASSUME Inv, DecodeArg PROVE Inv'
<1> DEFINE n == arg
           d == Defined.args[n]
<1>1. /\ phase = "args" /\ n <= 3 /\ n \in 1 .. 3
      /\ UNCHANGED <<instr, buffer, writeable, at, prefixes, modrm, stop>>
  BY DEF DecodeArg, Inv, TypeOK
<1>2. DecodingArgs BY <1>1 DEF Inv, Progress
<1>3. /\ AtOpcode /\ Given /\ at = Skipped /\ at \in 0 .. MaxFetch
      /\ Known(instr) /\ ~IsRep /\ Opcode = Defined /\ Advance(d) = Width(n)
  BY <1>1, <1>2, Decoding
<1>4. /\ taken = 1 + ModRMWidth + Before(n) /\ at + taken <= MaxFetch
      /\ at <= MaxFetch - 6 /\ ~stop /\ result = "Ok" /\ ArgsRead(n - 1)
  BY <1>2 DEF DecodingArgs
<1>5. /\ ModRMWidth \in Nat /\ Width(n) \in Nat /\ Before(n) \in Nat
      /\ Before(n + 1) = Before(n) + Width(n)
  BY <1>1, <1>3, WidthType
<1>6. slot \in Slots /\ taken \in 0 .. MaxFetch /\ MaxFetch = 16 /\ Left = MaxFetch - at
  BY DEF Inv, TypeOK, MaxFetch, Left
<1>7. \/ /\ taken + Width(n) > Left
         /\ slot' = [slot EXCEPT !.args[n] = NoArgument]
         /\ phase' = "done"
         /\ result' = IF Width(n) = 1 THEN "panic" ELSE "DecodingOverrun"
         /\ arg' = arg /\ taken' = taken
      \/ /\ taken + Width(n) <= Left
         /\ slot' = [slot EXCEPT !.args[n] = Decoded(d)]
         /\ taken' = taken + Width(n)
         /\ arg' = n + 1
         /\ phase' = phase /\ result' = result
  <2>1. taken + Width(n) \in Nat /\ Left \in Int BY <1>3, <1>5, <1>6
  <2> QED BY <1>3, <2>1 DEF DecodeArg, Fail
<1>8. CASE /\ taken + Width(n) > Left
           /\ slot' = [slot EXCEPT !.args[n] = NoArgument]
           /\ phase' = "done"
           /\ result' = IF Width(n) = 1 THEN "panic" ELSE "DecodingOverrun"
           /\ arg' = arg /\ taken' = taken
  <2>1. at + taken + Width(n) > MaxFetch BY <1>3, <1>5, <1>6, <1>8
  <2>2. Outcome = result' BY <1>1, <1>2, <1>8, <2>1, Overrun
  <2>3. NoArgument \in [location : Locations, is_memory : BOOLEAN]
    <3>1. "Byte" \in FixedSizes /\ 0 \in 0 .. 7 BY DEF FixedSizes
    <3>2. NoArgument.location \in Locations BY <3>1, ZeroType, LocationType
    <3> QED BY <3>2 DEF NoArgument, Argument
  <2>4. slot' \in Slots BY <1>1, <1>6, <1>8, <2>3, SlotArgument
  <2>5. TypeOK' BY <1>1, <1>8, <2>4 DEF Inv, TypeOK, Phases
  <2> QED BY <1>1, <1>8, <2>2, <2>5, Failing
<1>9. CASE /\ taken + Width(n) <= Left
           /\ slot' = [slot EXCEPT !.args[n] = Decoded(d)]
           /\ taken' = taken + Width(n)
           /\ arg' = n + 1
           /\ phase' = phase /\ result' = result
  <2>1. at + taken + Width(n) <= MaxFetch BY <1>3, <1>5, <1>6, <1>9
  <2>2. Meant(Decoded(d), n) BY <1>1, <1>2, <2>1, ArgumentMeant
  <2>3. /\ slot' \in Slots /\ slot'.function = slot.function
        /\ slot'.gas_cost = slot.gas_cost
        /\ slot'.args[n] = Decoded(d)
        /\ \A i \in 1 .. 3 : i # n => slot'.args[i] = slot.args[i]
    BY <1>1, <1>6, <1>9, <2>2, SlotArgument DEF Meant
  <2>4. taken' \in 0 .. MaxFetch /\ at + taken' <= MaxFetch
        /\ taken' = 1 + ModRMWidth + Before(n + 1)
    BY <1>3, <1>4, <1>5, <1>6, <1>9, <2>1
  <2>5. arg' \in 1 .. 4 BY <1>1, <1>9
  <2>6. TypeOK' BY <1>1, <1>9, <2>3, <2>4, <2>5 DEF Inv, TypeOK
  <2>7. DecodingArgs'
    <3>1. /\ Skipped' = Skipped /\ ModRMWidth' = ModRMWidth /\ Known(instr)' /\ ~IsRep'
          /\ Defined' = Defined /\ (Override(instr))' = Override(instr)
          /\ \A k : Before(k)' = Before(k) /\ Intended(k)' = Intended(k)
      BY <1>1, <1>3, Stays
    <3>2. instr' = instr /\ prefixes' = prefixes /\ at' = at /\ modrm' = modrm
      BY <1>1
    <3>3. AtOpcode' BY <1>3, <3>1, <3>2 DEF AtOpcode, PrefixesRead, RepMode
    <3>4. ModRMRead' BY <1>2, <3>1, <3>2 DEF DecodingArgs, ModRMRead, Locates
    <3>5. ~stop' /\ result' = "Ok" BY <1>1, <1>4, <1>9
    <3>6. Before(arg)' = Before(n + 1) BY <1>9, <3>1 DEF Before, Width
    <3>7. ArgsRead(arg - 1)'
      <4>1. arg' - 1 = n BY <1>1, <1>9
      <4>2. ASSUME NEW i \in 1 .. n
            PROVE  /\ Locates(slot'.args[i], Intended(i), BytesOf(SizeOf(instr, Defined.args[i])))
                   /\ slot'.args[i].is_memory <=>
                        Intended(i).kind = "memory" \/ Defined.args[i].source = "HardcodedRegister"
        <5>1. CASE i = n BY <2>2, <2>3, <5>1 DEF Meant
        <5>2. CASE i # n
          <6>1. i \in 1 .. n - 1 /\ i \in 1 .. 3 BY <1>1, <5>2
          <6> QED BY <1>4, <2>3, <5>2, <6>1 DEF ArgsRead
        <5> QED BY <5>1, <5>2
      <4> QED BY <3>1, <3>2, <4>1, <4>2 DEF ArgsRead, Locates, SizeOf
    <3>8. /\ slot'.function = Defined'.function
          /\ slot'.gas_cost = (IF instr'.rm # NoOperand THEN Costs["ModRMSurcharge"] ELSE 0)
                              + Costs[Defined'.gas]
      BY <1>2, <2>3, <3>1, <3>2 DEF DecodingArgs
    <3>9. taken' = 1 + ModRMWidth' + Before(arg)' BY <2>4, <3>1, <3>6
    <3> QED BY <1>4, <2>4, <3>1, <3>2, <3>3, <3>4, <3>5, <3>7, <3>8, <3>9 DEF DecodingArgs
  <2>8. Progress' BY <1>1, <1>9, <2>7 DEF Progress
  <2>9. (Length /\ Cost /\ (Done /\ IsRep => RepSlot /\ stop))'
    BY <1>1, <1>9 DEF Length, Cost, Done, Filled
  <2> QED BY <1>1, <1>3, <2>6, <2>8, <2>9, Stays DEF Inv
<1> QED BY <1>7, <1>8, <1>9

(* Arguments that pay as memory does.                                      *)
Charged == { i \in 1 .. 3 :
               Intended(i).kind = "memory" \/ Defined.args[i].source = "HardcodedRegister" }

LEMMA ChargedType == Cardinality(Charged) \in Nat
<1>1. IsFiniteSet(1 .. 3)
  <2>1. \A n \in Nat : IsFiniteSet(1 .. n) BY FS_Interval
  <2> QED BY <2>1
<1>2. Charged \subseteq 1 .. 3 BY DEF Charged
<1>3. IsFiniteSet(Charged) BY <1>1, <1>2, FS_Subset
<1> QED BY <1>3, FS_CardinalityType

LEMMA Gases ==
  ASSUME Given
  PROVE  /\ Costs["ModRMSurcharge"] \in Nat /\ Costs["MemoryAccess"] \in Nat
         /\ Costs["ConditionalBranch"] \in Nat /\ Costs["WriteableMemoryExec"] \in Nat
         /\ Costs[Defined.gas] \in Nat
         /\ \A l \in GasLevels : Costs[l] \in Nat
<1>1. Defined.gas \in GasLevels BY DefinedWellFormed DEF WellFormed
<1> QED BY <1>1, CostType DEF Charges

LEMMA FinishStep == ASSUME Inv, Finish PROVE Inv'
<1> DEFINE size == at + taken
           rejected == Defined.jump = "RelativeJump" /\ prefixes.size_override
<1>1. /\ phase = "args" /\ arg = 4
      /\ UNCHANGED <<instr, buffer, writeable, at, prefixes, modrm, arg, taken>>
  BY DEF Finish
<1>2. DecodingArgs BY <1>1 DEF Inv, Progress
<1>3. /\ AtOpcode /\ Given /\ at = Skipped /\ at \in 0 .. MaxFetch
      /\ \h67 \notin Range(instr.prefixes)
      /\ Known(instr) /\ ~IsRep /\ Opcode = Defined
  BY <1>2, Decoding
<1>4. prefixes.size_override = Override(instr) BY <1>3, OpcodeByte
<1>5. /\ at <= MaxFetch - 6 /\ size <= MaxFetch /\ ~stop /\ ArgsRead(3)
      /\ slot.function = Defined.function
      /\ slot.gas_cost = (IF instr.rm # NoOperand THEN Costs["ModRMSurcharge"] ELSE 0)
                         + Costs[Defined.gas]
  BY <1>1, <1>2 DEF DecodingArgs
<1>6. /\ MaxFetch = 16 /\ taken \in 0 .. MaxFetch /\ slot \in Slots /\ writeable \in BOOLEAN
  BY DEF Inv, TypeOK, MaxFetch
<1>7. Total = size /\ Total <= MaxFetch /\ size \in 0 .. MaxFetch
  <2>1. taken = 1 + ModRMWidth + Before(4) BY <1>1, <1>2 DEF DecodingArgs
  <2>2. Skipped \in Nat /\ ModRMWidth \in Nat /\ Before(4) \in Nat BY <1>3, WidthType
  <2>3. Total = Skipped + 1 + ModRMWidth + Before(4) BY <1>3, Layout
  <2> QED BY <1>3, <1>5, <1>6, <2>1, <2>2, <2>3
<1>8. Outcome = IF rejected THEN "ReadBadMemory" ELSE "Ok"
  <2>1. Skipped <= MaxFetch - 6 /\ Skipped < MaxFetch BY <1>3, <1>5, <1>6
  <2> QED BY <1>3, <1>4, <1>7, <2>1, Outcomes
<1>9. \/ /\ rejected
         /\ slot' = [slot EXCEPT !.eip_size = size]
         /\ phase' = "done" /\ result' = "ReadBadMemory" /\ stop' = stop
      \/ /\ ~rejected
         /\ slot' = [slot EXCEPT !.eip_size = size, !.gas_cost = @ + LateGas]
         /\ phase' = "done" /\ result' = "Ok"
         /\ stop' = (writeable \/ Defined.jump \in {"Unpredictable", "UnpredictableNoGas"})
  BY <1>3 DEF Finish, Fail, StopsFilling
<1> HIDE DEF size
<1>10. CASE /\ rejected
            /\ slot' = [slot EXCEPT !.eip_size = size]
            /\ phase' = "done" /\ result' = "ReadBadMemory" /\ stop' = stop
  <2>1. slot' \in Slots BY <1>6, <1>7, <1>10 DEF Slots
  <2>2. TypeOK' BY <1>1, <1>10, <2>1 DEF Inv, TypeOK, Phases
  <2> QED BY <1>1, <1>8, <1>10, <2>2, Failing
<1>11. CASE /\ ~rejected
            /\ slot' = [slot EXCEPT !.eip_size = size, !.gas_cost = @ + LateGas]
            /\ phase' = "done" /\ result' = "Ok"
            /\ stop' = (writeable \/ Defined.jump \in {"Unpredictable", "UnpredictableNoGas"})
  <2> DEFINE late == LateGas
             gas == slot.gas_cost + late
  <2>1. InMemoryArgs = Charged
    BY <1>5 DEF InMemoryArgs, Charged, ArgsRead
  <2>2. LateGas = (IF Defined.jump = "Unpredictable" THEN Costs["ConditionalBranch"] ELSE 0)
                  + Cardinality(Charged) * Costs["MemoryAccess"]
                  + (IF writeable THEN Costs["WriteableMemoryExec"] ELSE 0)
    BY <1>3, <2>1 DEF LateGas, Surcharge
  <2>3. late \in Nat
    <3> DEFINE k == Cardinality(Charged)
               c == Costs["MemoryAccess"]
    <3>1. k \in Nat /\ c \in Nat BY <1>3, ChargedType, Gases
    <3>2. k * c \in Nat BY <3>1
    <3> HIDE DEF k, c
    <3>3. LateGas = (IF Defined.jump = "Unpredictable" THEN Costs["ConditionalBranch"] ELSE 0)
                    + k * c + (IF writeable THEN Costs["WriteableMemoryExec"] ELSE 0)
      BY <2>2 DEF k, c
    <3> DEFINE p == k * c
    <3> HIDE DEF p
    <3>4. p \in Nat /\ LateGas = (IF Defined.jump = "Unpredictable" THEN Costs["ConditionalBranch"]
                                  ELSE 0)
                                 + p + (IF writeable THEN Costs["WriteableMemoryExec"] ELSE 0)
      BY <3>2, <3>3 DEF p
    <3> QED BY <1>3, <3>4, Gases
  <2>4. slot.gas_cost \in Nat BY <1>6 DEF Slots
  <2>5. gas \in Nat BY <2>3, <2>4
  <2>6. slot' = [slot EXCEPT !.eip_size = size, !.gas_cost = gas]
    BY <1>6, <1>11 DEF Slots
  <2> HIDE DEF late, gas
  <2>7. /\ slot' \in Slots /\ slot'.eip_size = size /\ slot'.gas_cost = gas
        /\ slot'.function = slot.function /\ slot'.args = slot.args
    BY <1>6, <1>7, <2>5, <2>6 DEF Slots
  <2>8. TypeOK' BY <1>1, <1>6, <1>11, <2>7 DEF Inv, TypeOK, Phases
  <2>9. /\ IsRep' = IsRep /\ Defined' = Defined /\ Outcome' = Outcome
        /\ Known(instr)' = Known(instr) /\ Total' = Total
        /\ (Override(instr))' = Override(instr) /\ instr' = instr
        /\ \A k : Intended(k)' = Intended(k)
    BY <1>1, Stays
  <2>10. Length' BY <1>3, <1>7, <2>7, <2>9 DEF Length, Total
  <2>11. Cost'
    <3> DEFINE k == Cardinality(Charged)
               c == Costs["MemoryAccess"]
               m == IF instr.rm # NoOperand THEN Costs["ModRMSurcharge"] ELSE 0
               b == IF Defined.jump = "Unpredictable" THEN Costs["ConditionalBranch"] ELSE 0
               w == IF writeable THEN Costs["WriteableMemoryExec"] ELSE 0
               l == Costs[Defined.gas]
    <3>1. k \in Nat /\ c \in Nat /\ m \in Nat /\ b \in Nat /\ w \in Nat /\ l \in Nat
      BY <1>3, ChargedType, Gases
    <3>2. gas = m + l + (b + k * c + w) BY <1>5, <2>2 DEF gas, late
    <3>3. Cost' <=> (Filled' => slot'.gas_cost = l + m + c * k + b + w)
      BY <1>1, <2>9 DEF Cost, Charged
    <3> HIDE DEF k, c, m, b, w, l
    <3>4. k * c = c * k /\ k * c \in Nat BY <3>1
    <3> DEFINE p == k * c
    <3> HIDE DEF p
    <3>5. p \in Nat /\ gas = m + l + (b + p + w) BY <3>2, <3>4 DEF p
    <3>6. Cost' <=> (Filled' => slot'.gas_cost = l + m + p + b + w) BY <3>3, <3>4 DEF p
    <3>7. gas = l + m + p + b + w BY <3>1, <3>5
    <3> QED BY <2>7, <3>6, <3>7
  <2>12. Finished'
    <3>1. ArgsRead(3)' BY <1>5, <2>7, <2>9 DEF ArgsRead, Locates, SizeOf
    <3>2. writeable' = writeable BY <1>1
    <3> QED BY <1>3, <1>5, <1>8, <1>11, <2>7, <2>9, <3>1, <3>2 DEF Finished
  <2>13. Progress' BY <1>11, <2>12 DEF Progress
  <2> QED BY <1>1, <1>3, <2>8, <2>9, <2>10, <2>11, <2>13, Stays DEF Inv
<1> QED BY <1>9, <1>10, <1>11

-----------------------------------------------------------------------------
(* Invariance                                                              *)

LEMMA Initially == ASSUME Init PROVE Inv
<1>1. /\ instr \in Assembled(Instructions) /\ buffer = Fetched
      /\ phase = "prefixes" /\ at = 0 /\ prefixes = NoPrefixes
      /\ modrm = NoModRM /\ arg = 1 /\ taken = 0 /\ stop = FALSE /\ result = "Ok"
  BY DEF Init, Fetched
<1>2. PICK r \in Reused : writeable = r.writeable /\ slot = [r.slot EXCEPT !.gas_cost = 0]
  BY DEF Init
<1>3. Given BY <1>1 DEF Given
<1>4. slot \in Slots /\ slot.gas_cost = 0 /\ writeable \in BOOLEAN
  <2>1. r.slot \in Slots /\ r.writeable \in BOOLEAN BY <1>2, DecodeAssumption
  <2> QED BY <1>2, <2>1 DEF Slots
<1>5. modrm \in [mode : 0 .. 3, reg : 0 .. 7, rm : 0 .. 7, size : 0 .. 6, disp : DoubleWord,
                 sib : [low : 0 .. 7, middle : 0 .. 7, high : 0 .. 3]]
  BY <1>1, NoSIBType, ZeroType DEF NoModRM
<1>6. TypeOK
  <2>1. buffer \in [1 .. MaxFetch -> Byte] BY <1>3, FetchedBytes
  <2>2. prefixes \in [size_override : BOOLEAN, two_bytes : BOOLEAN,
                      rep_mode : {"None", "Repe", "Repne"}]
    BY <1>1 DEF NoPrefixes
  <2>3. at \in 0 .. MaxFetch /\ taken \in 0 .. MaxFetch /\ arg \in 1 .. 4
    BY <1>1 DEF MaxFetch
  <2> QED BY <1>1, <1>4, <1>5, <2>1, <2>2, <2>3 DEF TypeOK, Phases
<1>7. Progress
  <2>1. Untouched /\ ~prefixes.two_bytes BY <1>1, <1>4 DEF Untouched, NoPrefixes
  <2>2. at <= Len(instr.prefixes)
    <3>1. Len(instr.prefixes) \in Nat BY <1>3, PrefixedType
    <3> QED BY <1>1, <3>1
  <2>3. PrefixesRead(at) BY <1>1 DEF PrefixesRead, RepMode, NoPrefixes
  <2> QED BY <1>1, <2>1, <2>2, <2>3 DEF Progress
<1>8. Length /\ Cost /\ (Done /\ IsRep => RepSlot /\ stop)
  BY <1>1 DEF Length, Cost, Done, Filled
<1> QED BY <1>3, <1>6, <1>7, <1>8 DEF Inv

LEMMA Stuttering == ASSUME Inv, UNCHANGED vars PROVE Inv'
<1>1. UNCHANGED <<instr, buffer, writeable, phase, at, prefixes, modrm, arg, taken, slot, stop,
                  result>>
  BY DEF vars
<1>2. TypeOK' BY <1>1 DEF Inv, TypeOK
<1>3. Progress'
  <2>1. Untouched' = Untouched BY <1>1 DEF Untouched
  <2>2. AtOpcode' = AtOpcode
    BY <1>1 DEF AtOpcode, PrefixesRead, RepMode, Skipped
  <2>3. PrefixesRead(at)' = PrefixesRead(at) BY <1>1 DEF PrefixesRead, RepMode
  <2>4. ModRMRead' = ModRMRead BY <1>1 DEF ModRMRead, ModRMWidth, Locates
  <2>5. OpcodeRead' = OpcodeRead BY <1>1, <2>2, Stays DEF OpcodeRead
  <2>6. ArgsRead(arg - 1)' = ArgsRead(arg - 1) /\ ArgsRead(3)' = ArgsRead(3)
    BY <1>1 DEF ArgsRead, Locates, Intended, Defined
  <2>7. DecodingArgs' = DecodingArgs
    <3>1. Before(arg)' = Before(arg) BY <1>1 DEF Before, Width
    <3> QED BY <1>1, <2>2, <2>4, <2>6, <3>1, Stays DEF DecodingArgs
  <2>8. Finished' = Finished BY <1>1, <2>6, Stays DEF Finished
  <2> QED BY <1>1, <2>1, <2>2, <2>3, <2>4, <2>5, <2>7, <2>8 DEF Inv, Progress
<1>4. (Length /\ Cost /\ (Done /\ IsRep => RepSlot /\ stop))'
  BY <1>1 DEF Inv, Length, Cost, Done, IsRep, Filled, RepSlot, Intended, Defined
<1> QED BY <1>1, <1>2, <1>3, <1>4, Stays DEF Inv

(* The inductive invariant holds in every state.                           *)
THEOREM Invariance == Spec => []Inv
<1>1. Init => Inv BY Initially
<1>2. Inv /\ [Next]_vars => Inv'
  <2> SUFFICES ASSUME Inv, [Next]_vars PROVE Inv' OBVIOUS
  <2>1. CASE UNCHANGED vars BY <2>1, Stuttering
  <2>2. CASE GetPrefix BY <2>2, GetPrefixStep
  <2>3. CASE GetTwoByte BY <2>3, GetTwoByteStep
  <2>4. CASE NoMorePrefixes BY <2>4, NoMorePrefixesStep
  <2>5. CASE PrefixPanic BY <2>5, PrefixPanicStep
  <2>6. CASE FillRep BY <2>6, FillRepStep
  <2>7. CASE LookUp BY <2>7, LookUpStep
  <2>8. CASE LookUpPanic BY <2>8, LookUpPanicStep
  <2>9. CASE ParseModRM BY <2>9, ParseModRMStep
  <2>10. CASE Select BY <2>10, SelectStep
  <2>11. CASE DecodeArg BY <2>11, DecodeArgStep
  <2>12. CASE Finish BY <2>12, FinishStep
  <2>13. CASE Return BY <2>13, Stuttering DEF Return
  <2> QED BY <2>1, <2>2, <2>3, <2>4, <2>5, <2>6, <2>7, <2>8, <2>9, <2>10, <2>11, <2>12, <2>13
       DEF Next
<1> QED BY <1>1, <1>2, PTL DEF Spec

(* The decoder's state has its types: the fields of a ModR/M and a SIB     *)
(* byte fit an index, and every argument is one of the locations.          *)
THEOREM Types == Spec => []TypeOK
<1>1. Inv => TypeOK BY DEF Inv
<1> QED BY <1>1, Invariance, PTL

(* eip moves past the whole instruction: what decode_args_with_modrm and   *)
(* ParsedModRM::from_bytes count is what was assembled.                    *)
THEOREM Lengths == Spec => []Length
<1>1. Inv => Length BY DEF Inv
<1> QED BY <1>1, Invariance, PTL

(* fill_pipeline charges for every instruction the sum of what its level,  *)
(* its ModR/M byte, its operands in memory, a branch and writeable code    *)
(* cost, on any gas schedule and whatever the slot held before.            *)
THEOREM Charge == Spec => []Cost
<1>1. Inv => Cost BY DEF Inv
<1> QED BY <1>1, Invariance, PTL

(* Decoding fails where Outcome says it does, and nowhere else: an         *)
(* instruction of up to 16 bytes with its opcode not among the last five   *)
(* is decoded.                                                             *)
THEOREM Refusals == Spec => []Refused
<1>1. Inv => Refused BY DEF Inv, Progress, Finished, Refused
<1> QED BY <1>1, Invariance, PTL

(* Decoding inverts assembling: every argument of every instruction is the *)
(* operand that was meant, in each of its encodings and with its size; and *)
(* a slot of a rep calls the function of the last rep prefix.              *)
THEOREM DecodedOperands == Spec => []Operands
<1>1. Inv => Operands
  <2> SUFFICES ASSUME Inv PROVE Operands OBVIOUS
  <2>1. Done => Finished /\ result = "Ok" BY DEF Inv, Progress, Done
  <2>2. Filled => ArgsRead(3) BY <2>1 DEF Filled, Finished
  <2>3. Done /\ IsRep => RepSlot BY DEF Inv
  <2> QED BY <2>2, <2>3 DEF Operands, ArgsRead, Locates
<1> QED BY <1>1, Invariance, PTL

(* Of the instructions that decode, those that Rejected lists, and no      *)
(* others, have an operand that their logic function refuses: of a wrong   *)
(* size, not a place where it writes or a register where it wants an       *)
(* address, or one that push_stack cannot push.  LogicAssumption, which is *)
(* about the table alone, with what is decoded from it.                    *)
THEOREM Acceptance == Spec => []Accepted
<1>1. Inv => Accepted
  <2> SUFFICES ASSUME Inv, Filled PROVE Suited <=> ~Rejected BY DEF Accepted
  <2>1. Given /\ Finished /\ result = "Ok" /\ ~IsRep BY DEF Inv, Progress, Filled, Done
  <2>2. Known(instr) /\ ArgsRead(3) /\ slot.function = Defined.function BY <2>1 DEF Finished
  <2>3. Suits(Defined) /\ WellFormed(Defined, HasRM(instr)) BY <2>1, <2>2, DefinedWellFormed
  <2> DEFINE o == Override(instr)
  <2>4. o \in BOOLEAN BY DEF Override
  <2>5. SizesFit <=> ~ByteIndex(Defined, o)
    <3> DEFINE ws == [i \in 1 .. 3 |-> DenotedWidth(slot.args[i].location)]
               vs == [i \in 1 .. 3 |-> BytesOf(Fixed(Defined.args[i].size, o))]
    <3>1. \A i \in 1 .. 3 : DenotedWidth(slot.args[i].location)
                             = BytesOf(Fixed(Defined.args[i].size, o))
      BY <2>2 DEF ArgsRead, Locates, SizeOf
    <3>2. ws = vs BY <3>1
    <3>3. Fit(Defined.function, o, vs) <=> ~ByteIndex(Defined, o) BY <2>3, <2>4 DEF Suits
    <3> HIDE DEF ws, vs, o
    <3>4. Fit(slot.function, o, ws) <=> ~ByteIndex(Defined, o) BY <2>2, <3>2, <3>3
    <3> QED BY <3>4 DEF SizesFit, ws, o
  <2> HIDE DEF o
  <2>6. \A i \in 1 .. 3 : Denoted(slot.args[i].location) = Intended(i)
    BY <2>2 DEF ArgsRead, Locates
  <2>7. \A i \in 1 .. 3 : Defined.args[i].source = "ModRM" =>
          /\ Intended(i) = instr.rm
          /\ instr.rm.kind \in {"register", "memory"}
    <3> SUFFICES ASSUME NEW i \in 1 .. 3, Defined.args[i].source = "ModRM"
                 PROVE  Intended(i) = instr.rm /\ instr.rm.kind \in {"register", "memory"}
      OBVIOUS
    <3>1. instr.rm \in RMOperands
      BY <2>1, <2>3, InstructionType DEF WellFormed, Encodable
    <3>2. instr.rm.kind \in {"register", "memory"} BY <3>1, OperandFields
    <3> QED BY <3>2, Intentions
  <2>8. Places
    <3> SUFFICES ASSUME NEW i \in Written(slot.function)
                 PROVE  Denoted(slot.args[i].location).kind \in {"register", "memory"}
      BY DEF Places
    <3>1. i \in 1 .. 3 BY DEF Written
    <3> DEFINE a == Defined.args[i]
    <3>2. a.source \in PlaceSources BY <2>2, <2>3 DEF Suits
    <3>3. \A r : InRegister(r).kind = "register" /\ InMemory(None, None, 1, r).kind = "memory"
      BY DEF InRegister, InMemory
    <3>4. Intended(i).kind \in {"register", "memory"}
      <4>1. CASE a.source = "ModRM" BY <2>7, <3>1, <4>1
      <4>2. CASE a.source = "ModRMReg" BY <3>3, <4>2, Intentions
      <4>3. CASE a.source = "RegisterSuffix" BY <3>3, <4>3, Intentions
      <4>4. CASE a.source = "HardcodedRegister" BY <3>3, <4>4, Intentions
      <4>5. CASE a.source = "ImmediateAddress" BY <3>3, <4>5, Intentions
      <4> QED BY <3>2, <4>1, <4>2, <4>3, <4>4, <4>5 DEF PlaceSources
    <3> QED BY <2>6, <3>1, <3>4
  <2>9. Addressable <=> ~(Defined.function \in {"lea", "cmpxchg8b"} /\ instr.rm.kind = "register")
    <3>1. CASE slot.function \in {"lea", "cmpxchg8b"}
      <4> DEFINE i == IF slot.function = "lea" THEN 2 ELSE 1
      <4>1. Addressed(slot.function) = {i} /\ i \in 1 .. 3 BY <3>1 DEF Addressed
      <4>2. Defined.args[i].source = "ModRM" BY <2>2, <2>3, <4>1 DEF Suits
      <4> HIDE DEF i
      <4>3. Denoted(slot.args[i].location) = instr.rm /\ instr.rm.kind \in {"register", "memory"}
        BY <2>6, <2>7, <4>1, <4>2
      <4>4. Addressable <=> Denoted(slot.args[i].location).kind = "memory"
        BY <4>1 DEF Addressable
      <4> QED BY <2>2, <3>1, <4>3, <4>4
    <3>2. CASE slot.function \notin {"lea", "cmpxchg8b"}
      <4>1. Addressed(slot.function) = {} BY <3>2 DEF Addressed
      <4> QED BY <2>2, <3>2, <4>1 DEF Addressable
    <3> QED BY <3>1, <3>2
  <2>10. Pushable <=> ~(Defined.function \in {"pushf", "enter", "call_abs"} /\ o)
    <3>1. result = Outcome /\ Outcome # "panic" BY <2>1 DEF Finished
    <3>2. ~(Defined.jump = "RelativeJump" /\ o) BY <2>1, <3>1 DEF Outcome, o
    <3>3. Defined.function = "call_rel" => ~o BY <2>3, <3>2 DEF Suits
    <3> QED BY <2>2, <3>3 DEF Pushable, PushesDword, o
  <2> QED BY <2>5, <2>8, <2>9, <2>10 DEF Suited, Rejected, o
<1> QED BY <1>1, Invariance, PTL

(* In read-only memory no slot is filled in the same pass after an         *)
(* instruction that sets eip, unless decoding follows the jump or the      *)
(* instruction is enter, and filling goes on after every other; and where  *)
(* every level but None costs something, no transfer is free, so that no   *)
(* loop runs for ever.                                                     *)
THEOREM Endings ==
  ASSUME \A l \in GasLevels \ {"None"} : Costs[l] > 0
  PROVE  Spec => []Ends
<1>1. Inv => Ends
  <2> SUFFICES ASSUME Inv PROVE Ends OBVIOUS
  <2>1. Given /\ (Done => Finished /\ result = "Ok") BY DEF Inv, Progress, Done
  <2>2. ASSUME Filled
        PROVE  /\ slot.function = Defined.function
               /\ stop = (writeable \/ Defined.jump \in {"Unpredictable", "UnpredictableNoGas"})
               /\ Suits(Defined) /\ WellFormed(Defined, HasRM(instr))
    <3>1. Known(instr) BY <2>1, <2>2 DEF Filled, Finished
    <3> QED BY <2>1, <2>2, <3>1, DefinedWellFormed DEF Filled, Finished
  <2>3. ASSUME Filled
        PROVE  stop <=> \/ writeable
                        \/ /\ slot.function \in Transfers \ DecodedPast
                           /\ Defined.jump # "RelativeJump"
    <3>1. Defined.jump \in Behaviours BY <2>2, <2>3 DEF WellFormed
    <3>2. Defined.function \in Transfers \ DecodedPast <=> Defined.jump # "None"
      BY <2>2, <2>3 DEF Suits
    <3>3. Defined.jump \in {"Unpredictable", "UnpredictableNoGas"}
            <=> Defined.jump # "None" /\ Defined.jump # "RelativeJump"
      BY <3>1 DEF Behaviours
    <3> QED BY <2>2, <2>3, <3>2, <3>3
  <2>4. ASSUME Filled, slot.function \in Transfers \ {"hlt", "op_undefined"}
        PROVE  slot.gas_cost > 0
    <3>1. Defined.gas \in GasLevels \ {"None"} BY <2>2, <2>4 DEF Suits, WellFormed
    <3> DEFINE g == Costs[Defined.gas]
               p == Costs["MemoryAccess"] * Cardinality(Charged)
               m == IF instr.rm # NoOperand THEN Costs["ModRMSurcharge"] ELSE 0
               b == IF Defined.jump = "Unpredictable" THEN Costs["ConditionalBranch"] ELSE 0
               w == IF writeable THEN Costs["WriteableMemoryExec"] ELSE 0
    <3>2. slot.gas_cost = g + m + p + b + w BY <2>4 DEF Inv, Cost, Charged
    <3>3. g \in Nat /\ g > 0 BY <2>1, <3>1, Gases
    <3>4. m \in Nat /\ b \in Nat /\ w \in Nat BY <2>1, Gases
    <3>5. p \in Nat BY <2>1, ChargedType, Gases
    <3> HIDE DEF g, p, m, b, w
    <3> QED BY <3>2, <3>3, <3>4, <3>5
  <2>5. Done /\ IsRep => stop BY DEF Inv
  <2> QED BY <2>3, <2>4, <2>5 DEF Ends
<1> QED BY <1>1, Invariance, PTL

=============================================================================
