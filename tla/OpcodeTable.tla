----------------------------- MODULE OpcodeTable ----------------------------
(***************************************************************************)
(* The opcode table: the definitions that opcodes.rs makes and the table   *)
(* that OpcodeDefiner::into_table enters them into.                        *)
(*                                                                         *)
(* The nine encodings of an arithmetic or logic opcode differ only in the  *)
(* group number and the function, and so do the six of a shift: AluRows    *)
(* and ShiftRows stand for what the source writes out for each of them.    *)
(***************************************************************************)
EXTENDS Integers, Sequences, SequencesExt

NoGroup == -1
TwoByte == 256          \* OP_TWOBYTE
Keys    == 0 .. \h1FE   \* OPCODE_TABLE_SIZE is 0x1FF

(* ArgSource with OpcodeValueSize, as the with_... functions name them.    *)
Arg(source, size) == [source |-> source, size |-> size, value |-> 0]
NoArg   == Arg("None", "None")
rm8     == Arg("ModRM", "Byte")
rm16    == Arg("ModRM", "Word")
rm32    == Arg("ModRM", "Dword")
rmw     == Arg("ModRM", "NativeWord")
reg8    == Arg("ModRMReg", "Byte")
reg32   == Arg("ModRMReg", "Dword")
regw    == Arg("ModRMReg", "NativeWord")
imm8    == Arg("ImmediateValue", "Byte")
imm16   == Arg("ImmediateValue", "Word")
immw    == Arg("ImmediateValue", "NativeWord")
offs8   == Arg("ImmediateAddress", "Byte")
offsw   == Arg("ImmediateAddress", "NativeWord")
suffix8 == Arg("RegisterSuffix", "Byte")
suffixw == Arg("RegisterSuffix", "NativeWord")
suffix32 == Arg("RegisterSuffix", "Dword")
rel8    == Arg("JumpRel", "Byte")
relw    == Arg("JumpRel", "NativeWord")
Literal(v)     == [source |-> "Literal", size |-> "Byte", value |-> v]
Register(r, s) == [source |-> "HardcodedRegister", size |-> s, value |-> r]
AL   == Register(0, "Byte")
CL   == Register(1, "Byte")
EAXw == Register(0, "NativeWord")

(* define_opcode with its defaults, and the other functions of the definer.*)
Op(code, f, args) ==
  [opcode |-> code, len |-> 1, prefix |-> 0, group |-> NoGroup, function |-> f,
   gas |-> "Low", jump |-> "None", args |-> args]

Two(d)     == [d EXCEPT !.prefix = TwoByte]
Of(g, d)   == [d EXCEPT !.group = g]
Times(n, d) == [d EXCEPT !.len = n]
Gas(c, d)  == [d EXCEPT !.gas = c]
Jump(b, d) == [d EXCEPT !.jump = b]

-----------------------------------------------------------------------------
(* The definitions, in the order of the source.                            *)

MoveRows ==
  << Gas("None", Op(\h90, "nop", <<>>)),
     Gas("None", Op(\hF0, "nop", <<>>)),
     Gas("None", Jump("UnpredictableNoGas", Op(\hF4, "hlt", <<>>))) >>
  \o [i \in 1 .. 18 |-> Gas("VeryLow",
      << Op(\hB0, "mov", <<suffix8, imm8>>), Op(\hB8, "mov", <<suffixw, immw>>),
         Op(\h88, "mov", <<rm8, reg8>>),     Op(\h89, "mov", <<rmw, regw>>),
         Op(\h8A, "mov", <<reg8, rm8>>),     Op(\h8B, "mov", <<regw, rmw>>),
         Op(\hA0, "mov", <<AL, offs8>>),     Op(\hA1, "mov", <<EAXw, offsw>>),
         Op(\hA2, "mov", <<offs8, AL>>),     Op(\hA3, "mov", <<offsw, EAXw>>),
         Op(\hC6, "mov", <<rm8, imm8>>),     Op(\hC7, "mov", <<rmw, immw>>),
         Op(\h50, "push", <<suffixw>>),      Op(\h68, "push", <<immw>>),
         Op(\h6A, "push", <<imm8>>),         Of(6, Op(\hFF, "push", <<rmw>>)),
         Op(\h58, "pop", <<suffixw>>),       Of(0, Op(\h8F, "pop", <<rmw>>)) >>[i])]

Unpredictable(d) == Jump("Unpredictable", d)

BranchRows ==
  << Jump("RelativeJump", Op(\hE8, "call_rel", <<relw>>)),
     Of(2, Unpredictable(Op(\hFF, "call_abs", <<rmw>>))),
     Unpredictable(Op(\hC2, "ret", <<imm16>>)),
     Unpredictable(Op(\hC3, "ret", <<>>)),
     Jump("RelativeJump", Op(\hEB, "jmp_rel", <<rel8>>)),
     Of(4, Gas("Moderate", Unpredictable(Op(\hFF, "jmp_abs", <<rmw>>)))),
     Unpredictable(Op(\hE3, "jmp_conditional_ecx_is_zero", <<rel8>>)),
     Unpredictable(Op(\hE9, "jmp_rel", <<relw>>)),
     Times(16, Unpredictable(Op(\h70, "jcc", <<rel8>>))),
     Times(16, Two(Unpredictable(Op(\h80, "jcc", <<relw>>)))) >>

(* The nine encodings of the opcode with number g: f is its name.          *)
AluRows(f, g) ==
  LET byte == f \o "_8bit"
      word == f \o "_native_word"
  IN  << Op(8 * g, byte, <<rm8, reg8>>),     Op(8 * g + 1, word, <<rmw, regw>>),
         Op(8 * g + 2, byte, <<reg8, rm8>>), Op(8 * g + 3, word, <<regw, rmw>>),
         Op(8 * g + 4, byte, <<AL, imm8>>),  Op(8 * g + 5, word, <<EAXw, immw>>),
         Of(g, Op(\h80, byte, <<rm8, imm8>>)), Of(g, Op(\h81, word, <<rmw, immw>>)),
         Of(g, Op(\h83, word, <<rmw, imm8>>)) >>

CarryRows == AluRows("sbb", 3) \o AluRows("adc", 2)
AddRows   == AluRows("add", 0) \o AluRows("sub", 5)

(* The six encodings of a shift or rotation: by an immediate, 1 or cl.     *)
ShiftRows(f, g) ==
  LET Pair(code, count) == << Of(g, Op(code, f \o "_8bit", <<rm8, count>>)),
                              Of(g, Op(code + 1, f \o "_native_word", <<rmw, count>>)) >>
  IN  Pair(\hC0, imm8) \o Pair(\hD0, Literal(1)) \o Pair(\hD2, CL)

ShiftAndExchangeRows ==
  ShiftRows("shl", 4) \o ShiftRows("shr", 5)
  \o << Op(\h86, "xchg", <<rm8, reg8>>), Op(\h87, "xchg", <<rmw, regw>>),
        Op(\h90, "xchg", <<EAXw, suffixw>>) >>

(* The two encodings of an opcode of group g of F6 and F7, or FE and FF.   *)
UnaryRows(code, f, g) == << Of(g, Op(code, f \o "_8bit", <<rm8>>)),
                            Of(g, Op(code + 1, f \o "_native_word", <<rmw>>)) >>

MultiplyRows ==
  UnaryRows(\hF6, "mul", 4) \o UnaryRows(\hF6, "imul1", 5)
  \o << Two(Op(\hAF, "imul2_native_word", <<regw, rmw>>)),
        Op(\h69, "imul3_native_word", <<regw, rmw, immw>>),
        Op(\h6B, "imul3_native_word", <<regw, rmw, imm8>>) >>
  \o UnaryRows(\hF6, "div", 6) \o UnaryRows(\hF6, "idiv", 7)
  \o << Two(Op(\hC7, "cmpxchg8b", <<rm32>>)),
        Two(Op(\hB0, "cmpxchg_8bit", <<rm8, reg8>>)),
        Two(Op(\hB1, "cmpxchg_native_word", <<rmw, regw>>)) >>

CompareRows == AluRows("cmp", 7) \o << Op(\h60, "pusha", <<>>), Op(\h61, "popa", <<>>) >>

LogicRows == AluRows("and", 4) \o AluRows("or", 1) \o AluRows("xor", 6)

CountRows ==
  UnaryRows(\hF6, "not", 2) \o UnaryRows(\hF6, "neg", 3)
  \o << Op(\h48, "decrement_native_word", <<suffixw>>) >> \o UnaryRows(\hFE, "decrement", 1)
  \o << Op(\h40, "increment_native_word", <<suffixw>>) >> \o UnaryRows(\hFE, "increment", 0)

FlagRows ==
  << Op(\h9E, "sahf", <<>>), Op(\hF9, "stc", <<>>), Op(\hF8, "clc", <<>>),
     Op(\hF5, "cmc", <<>>), Op(\hD7, "xlatb", <<>>), Op(\h9F, "lahf", <<>>),
     Op(\h2F, "das", <<>>), Op(\h27, "daa", <<>>) >>

RotateRows     == ShiftRows("ror", 1) \o ShiftRows("rol", 0) \o ShiftRows("rcl", 2)
RightShiftRows == ShiftRows("rcr", 3) \o ShiftRows("sar", 7)

AdjustRows == << Op(\h37, "aaa", <<>>), Op(\h3F, "aas", <<>>),
                 Op(\hD4, "aam", <<imm8>>), Op(\hD5, "aad", <<imm8>>) >>

SystemRows ==
  << Gas("Moderate", Unpredictable(Op(\hCD, "interrupt", <<imm8>>))),
     Gas("Moderate", Unpredictable(Op(\hCC, "interrupt", <<Literal(3)>>))),
     Times(16, Two(Op(\h90, "setcc_8bit", <<rm8>>))),
     Times(16, Two(Op(\h40, "cmovcc_native", <<regw, rmw>>))),
     Op(\h84, "test_8bit", <<rm8, reg8>>), Op(\h85, "test_native_word", <<rmw, regw>>),
     Op(\hA8, "test_8bit", <<AL, imm8>>), Op(\hA9, "test_native_word", <<EAXw, immw>>),
     Of(0, Op(\hF6, "test_8bit", <<rm8, imm8>>)),
     Of(0, Op(\hF7, "test_native_word", <<rmw, immw>>)),
     Op(\h8D, "lea", <<regw, rmw>>),
     Op(\h9C, "pushf", <<>>), Op(\h9D, "popf", <<>>) >>

(* A bit test by a register and, with number g, by an immediate.           *)
BitRows(f, code, g) == << Two(Op(code, f, <<rmw, regw>>)),
                          Two(Of(g, Op(\hBA, f, <<rmw, imm8>>))) >>

BitAndSizeRows ==
  BitRows("bit_test", \hA3, 4) \o BitRows("bit_test_set", \hAB, 5)
  \o BitRows("bit_test_reset", \hB3, 6) \o BitRows("bit_test_complement", \hBB, 7)
  \o << Op(\h98, "cbw_cwde", <<>>), Op(\h99, "cdq_cwd", <<>>),
        Two(Op(\hC8, "bswap", <<suffix32>>)),
        Two(Op(\hBC, "bit_scan_forward", <<rmw, regw>>)),
        Two(Op(\hBD, "bit_scan_reverse", <<rmw, regw>>)),
        Two(Op(\hB6, "movzx_8bit", <<regw, rm8>>)),
        Two(Op(\hB7, "movzx_16bit", <<reg32, rm16>>)),
        Two(Op(\hBE, "movsx_8bit", <<regw, rm8>>)),
        Two(Op(\hBF, "movsx_16bit", <<reg32, rm16>>)) >>

StringRows ==
  << Op(\hA5, "movs_native_word", <<>>), Op(\hA4, "movsb", <<>>),
     Two(Op(\hC0, "xadd_8bit", <<rm8, reg8>>)),
     Two(Op(\hC1, "xadd_native_word", <<rmw, regw>>)),
     Gas("VeryLow", Op(\hFD, "set_direction", <<>>)),
     Gas("VeryLow", Op(\hFC, "clear_direction", <<>>)),
     Op(\hA6, "cmpsb", <<>>), Op(\hA7, "cmps_native_word", <<>>),
     Op(\hAE, "scan_string_byte", <<>>), Op(\hAF, "scan_string_native_word", <<>>),
     Op(\hAA, "store_string_byte", <<>>), Op(\hAB, "store_string_native_word", <<>>),
     Op(\hAC, "load_string_byte", <<>>), Op(\hAD, "load_string_native_word", <<>>),
     Op(\hC9, "leave", <<>>), Op(\hC8, "enter", <<imm16, imm8>>) >>

Definitions ==
  MoveRows \o BranchRows \o CarryRows \o AddRows \o ShiftAndExchangeRows
  \o MultiplyRows \o CompareRows \o LogicRows \o CountRows \o FlagRows
  \o RotateRows \o RightShiftRows \o AdjustRows \o SystemRows
  \o BitAndSizeRows \o StringRows

-----------------------------------------------------------------------------
(* into_table                                                              *)

(* An Opcode: op_undefined unless it is defined.                           *)
Undefined == [function |-> "op_undefined", args |-> <<NoArg, NoArg, NoArg>>,
              gas |-> "None", jump |-> "Unpredictable", defined |-> FALSE]

Sources(d)   == { d.args[i].source : i \in DOMAIN d.args }
HasModRM(d)  == d.group # NoGroup \/ Sources(d) \intersect {"ModRM", "ModRMReg"} # {}

OpcodeOf(d) == [function |-> d.function, gas |-> d.gas, jump |-> d.jump, defined |-> TRUE,
                args |-> SubSeq(d.args \o <<NoArg, NoArg, NoArg>>, 1, 3)]

(* All eight inner opcodes when the reg field is an argument.              *)
Inner(d) == IF ~HasModRM(d) THEN {0}
            ELSE IF d.group = NoGroup THEN 0 .. 7 ELSE {d.group}

Limit(d) == IF "RegisterSuffix" \in Sources(d) THEN 8 ELSE d.len

(* Definition n of ds fills entry k; a later one leaves 0x90 to nop.       *)
Fills(ds, n, k) ==
  /\ k - ds[n].prefix - ds[n].opcode \in 0 .. Limit(ds[n]) - 1
  /\ k = \h90 => \A m \in 1 .. n - 1 : ds[m].opcode # \h90 \/ ds[m].prefix # 0

Fillers(ds, k) == { n \in DOMAIN ds : Fills(ds, n, k) }

(* What into_table does not panic at: an entry without ModR/M or an inner  *)
(* opcode that is defined twice.                                           *)
ASSUME NoConflicts ==
  LET ds == Definitions
  IN  /\ \A d \in Range(ds) : "RegisterSuffix" \in Sources(d) => d.len = 1
      /\ \A k \in Keys : \A m, n \in Fillers(ds, k) :
           m < n => HasModRM(ds[m]) /\ Inner(ds[m]) \intersect Inner(ds[n]) = {}

(* What the definitions fs leave of an entry; the last of them says        *)
(* whether it has a ModR/M byte.                                           *)
Entry(ds, fs) ==
  [has_modrm |-> HasModRM(ds[CHOOSE n \in fs : \A m \in fs : m <= n]),
   opcodes   |-> [i \in UNION { Inner(ds[n]) : n \in fs } |->
                    OpcodeOf(ds[CHOOSE n \in fs : i \in Inner(ds[n])])]
                 @@ [i \in 0 .. 7 |-> Undefined]]

UndefinedEntry == [has_modrm |-> FALSE, opcodes |-> [i \in 0 .. 7 |-> Undefined]]

(* The table when all definitions are in it.                               *)
OPCODES ==
  LET ds == Definitions
  IN  [k \in { k \in Keys : Fillers(ds, k) # {} } |-> Entry(ds, Fillers(ds, k))]
      @@ [k \in Keys |-> UndefinedEntry]

-----------------------------------------------------------------------------
(* What the decoder relies on in an opcode of the table.                   *)

LogicFunctions == {"op_undefined"} \union { d.function : d \in Range(Definitions) }
GasLevels == {"None", "VeryLow", "Low", "Moderate"}
Behaviours == {"None", "RelativeJump", "Unpredictable", "UnpredictableNoGas"}
FixedSizes == {"None", "Byte", "Word", "Dword"}
Encoded == {"ImmediateValue", "ImmediateAddress", "JumpRel"}
ArgSources == Encoded \union {"None", "ModRM", "ModRMReg", "RegisterSuffix", "Literal",
                             "HardcodedRegister"}

(* The argument of a source has a size, and no argument comes from a       *)
(* ModR/M byte that is not there; nothing is encoded behind a single byte. *)
WellFormed(o, has_modrm) ==
  /\ o.function \in LogicFunctions /\ o.gas \in GasLevels /\ o.jump \in Behaviours
  /\ \A n \in 1 .. 3 :
       LET a == o.args[n]
       IN  /\ a.source \in ArgSources /\ a.size \in FixedSizes \union {"NativeWord"}
           /\ a.source = "None" <=> a.size = "None"
           /\ a.source = "Literal" => a.size = "Byte"
           /\ a.value \in 0 .. 7
           /\ a.source \in {"ModRM", "ModRMReg"} => has_modrm
           /\ a.source \in Encoded /\ a.size = "Byte" =>
                \A m \in n + 1 .. 3 : o.args[m].source \notin Encoded

ASSUME TableAssumption ==
  LET table == OPCODES
  IN  /\ DOMAIN table = Keys
      /\ \A k \in Keys : /\ table[k].has_modrm \in BOOLEAN
                         /\ \A r \in 0 .. 7 : WellFormed(table[k].opcodes[r], table[k].has_modrm)

=============================================================================
