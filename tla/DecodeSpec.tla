----------------------------- MODULE DecodeSpec -----------------------------
(***************************************************************************)
(* What decoding promises of the slot it fills: that it holds what the     *)
(* assembler meant, whatever the slot held before, and that the logic      *)
(* function it names can work on it.                                       *)
(***************************************************************************)
EXTENDS Decode

Sizes == {"Byte", "Word", "Dword"}
Phases == {"prefixes", "lookup", "modrm", "select", "args", "done"}

(* Type invariant of the decoder's state.                                  *)
TypeOK ==
  /\ buffer \in [1 .. MaxFetch -> Byte]
  /\ writeable \in BOOLEAN /\ stop \in BOOLEAN
  /\ phase \in Phases /\ at \in 0 .. MaxFetch /\ arg \in 1 .. 4 /\ taken \in 0 .. MaxFetch
  /\ prefixes \in [size_override : BOOLEAN, two_bytes : BOOLEAN,
                   rep_mode : {"None", "Repe", "Repne"}]
  /\ modrm \in [mode : 0 .. 3, reg : 0 .. 7, rm : 0 .. 7, size : 0 .. 6, disp : DoubleWord,
                sib : [low : 0 .. 7, middle : 0 .. 7, high : 0 .. 3]]
  /\ slot \in Slots
  /\ result \in {"Ok", "DecodingOverrun", "ReadBadMemory", "panic"}

-----------------------------------------------------------------------------
(* The instruction that was assembled.                                     *)

Done   == phase = "done" /\ result = "Ok"
IsRep  == { \hF2, \hF3 } \intersect Range(instr.prefixes) # {}
Filled == Done /\ ~IsRep
Defined == instr.opcode

(* The operand that argument i is meant to be.                             *)
Intended(i) ==
  LET a == Defined.args[i]
  IN  CASE a.source = "None"              -> NoOperand
        [] a.source = "ModRM"             -> instr.rm
        [] a.source = "ModRMReg"          -> InRegister(instr.reg)
        [] a.source = "RegisterSuffix"    -> InRegister(instr.number % 8)
        [] a.source = "HardcodedRegister" -> InRegister(a.value)
        [] a.source = "Literal"           -> Immediate(<<a.value>>)
        [] a.source = "ImmediateAddress"  ->
             InMemory(None, None, 1, ImmediateBytes(instr, i))
        [] OTHER -> Immediate(ImmediateBytes(instr, i))

(* The operand that a decoded location denotes, and its size.              *)
Denoted(l) ==
  CASE l.kind = "None"            -> NoOperand
    [] l.kind = "RegisterValue"   -> InRegister(l.reg)
    [] l.kind = "Immediate"       -> Immediate(l.bytes)
    [] l.kind = "Address"         -> InMemory(None, None, 1, l.addr)
    [] l.kind = "RegisterAddress" -> InMemory(l.reg, None, 1, Zero)
    [] l.kind = "ModRMAddress"    -> InMemory(l.reg, None, 1, l.offset)
    [] l.kind = "SIBAddress"      ->
         InMemory(l.base, l.index, IF l.index = None THEN 1 ELSE l.scale, l.offset)

DenotedWidth(l) == CASE l.kind = "None" -> 0
                     [] l.kind = "Immediate" -> Len(l.bytes)
                     [] OTHER -> BytesOf(l.size)

-----------------------------------------------------------------------------
(* A slot with a rep prefix calls the function of the last one, for the    *)
(* byte after the prefixes.                                                *)
RepSlot ==
  LET ps == instr.prefixes
  IN  /\ \E j \in DOMAIN ps :
           /\ ps[j] \in {\hF2, \hF3}
           /\ \A k \in j + 1 .. Len(ps) : ps[k] \notin {\hF2, \hF3}
           /\ slot.function = IF ps[j] = \hF3 THEN "repe" ELSE "repne"
      /\ slot.opcode = instr.number % 256
      /\ slot.size_override = Override(instr)

(* Every argument is the operand that was meant, with its size, in order:  *)
(* for each of the encodings of an address, and whatever the arguments of  *)
(* the slot were before.  Of a rep, which does not look at its arguments,  *)
(* the opcode it repeats is.                                               *)
Operands ==
  /\ Filled => \A i \in 1 .. 3 :
       LET l == slot.args[i].location
       IN  /\ Denoted(l) = Intended(i)
           /\ DenotedWidth(l) = BytesOf(SizeOf(instr, Defined.args[i]))
  /\ Done /\ IsRep => RepSlot

(* eip advances past the instruction, its prefixes included, and the next  *)
(* one starts where this one ends; past a rep and one byte, whatever       *)
(* opcode that is.                                                         *)
Length ==
  Done => slot.eip_size =
    IF IsRep THEN Len(Prefixed(instr)) + 1 ELSE Len(Bytes(instr))

(* What is charged: the opcode's level, and a surcharge for a ModR/M byte, *)
(* for each operand in memory, for a jump that nobody foresees and for     *)
(* code in writeable memory.  A register that the opcode implies pays as   *)
(* memory does: the charge of mov al, [x] is that of two accesses.         *)
Cost ==
  Filled => slot.gas_cost =
    Costs[Defined.gas]
    + (IF instr.rm # NoOperand THEN Costs["ModRMSurcharge"] ELSE 0)
    + Costs["MemoryAccess"] * Cardinality({ i \in 1 .. 3 :
         Intended(i).kind = "memory" \/ Defined.args[i].source = "HardcodedRegister" })
    + (IF Defined.jump = "Unpredictable" THEN Costs["ConditionalBranch"] ELSE 0)
    + (IF writeable THEN Costs["WriteableMemoryExec"] ELSE 0)

(* When decoding does not fill the slot.  An instruction has up to 16      *)
(* bytes, and its opcode at least six of them to its right, itself         *)
(* included, however short it is; the one that ends with a byte past the   *)
(* sixteenth panics, and a longer operand past it is reported.             *)
Outcome ==
  LET total   == Len(Bytes(instr))
      skipped == Len(Prefixed(instr))
      short   == \E i \in 1 .. 3 : /\ Len(ImmediateBytes(instr, i)) = 1
                                   /\ \A j \in i + 1 .. 3 : ImmediateBytes(instr, j) = <<>>
  IN  IF \h67 \in Range(instr.prefixes) \/ skipped >= MaxFetch THEN "panic"
      ELSE IF IsRep THEN "Ok"
      ELSE IF ~Known(instr) THEN "panic"
      ELSE IF skipped > MaxFetch - 6 THEN "DecodingOverrun"
      ELSE IF total > MaxFetch
      THEN IF short /\ total = MaxFetch + 1 THEN "panic" ELSE "DecodingOverrun"
      ELSE IF Defined.jump = "RelativeJump" /\ Override(instr) THEN "ReadBadMemory" ELSE "Ok"

Refused == phase = "done" => result = Outcome

-----------------------------------------------------------------------------
(* What the logic functions ask of their arguments.                        *)

Shifts  == {"shl", "shr", "sar", "rol", "ror", "rcl", "rcr"}
Binary  == Shifts \union {"add", "sub", "adc", "sbb", "and", "or", "xor", "cmp", "test", "xadd"}
Unary   == {"not", "neg", "increment", "decrement"}
Multiplies == {"mul", "div", "idiv", "imul1"}
BitTests == {"bit_test", "bit_test_set", "bit_test_reset", "bit_test_complement"}
Scans    == {"bit_scan_forward", "bit_scan_reverse"}

Named(fs, suffix) == { f \o suffix : f \in fs }

(* The widths that each argument may have, where w is the native word: the *)
(* uN_exact, uN_zx and uN_sx of the logic function and the conversion that *)
(* set_arg makes.                                                          *)
Demands(f, w) ==
  LET upto == { k \in {1, 2, 4} : k <= w }
      from == { k \in {2, 4} : k >= w }
  IN  IF f = "bit_test_reset" /\ w = 4 THEN <<{4}, {4}>> ELSE
      CASE f \in Named(Binary, "_8bit")               -> <<{1}, {1}>>
        [] f \in Named(Binary, "_native_word") \union BitTests -> <<{w}, upto>>
        [] f \in Named(Unary, "_8bit") \union {"setcc_8bit"} -> <<{1}>>
        [] f \in Named(Unary, "_native_word")         -> <<{w}>>
        [] f \in Named(Multiplies, "_8bit")           -> <<{1, 2}>>
        [] f = "imul1_native_word"                    -> <<upto>>
        [] f \in Named(Multiplies \ {"imul1"}, "_native_word") -> <<{1, 2, 4}>>
        [] f = "imul2_native_word"                    -> <<{w}, upto>>
        [] f = "imul3_native_word"                    -> <<from, {1, 2, 4}, {1, 2, 4}>>
        [] f \in Scans                                -> <<{w}, from>>
        [] f = "cmpxchg_8bit"                         -> <<{1}, {1}>>
        [] f = "cmpxchg_native_word"                  -> <<{w}, {w}>>
        [] f = "bswap"                                -> <<{4}>>
        [] f = "push"                                 -> <<upto>>
        [] f = "pop"                                  -> <<from>>
        [] f = "lea"                                  -> <<from>>
        [] f = "enter"                                -> <<{2}, {1}>>
        [] f = "ret"                                  -> <<{0, 1, 2}>>
        [] f \in {"interrupt", "aam", "aad"}          -> <<{1}>>
        [] f \in {"jmp_rel", "jmp_abs", "call_rel", "call_abs", "jcc",
                  "jmp_conditional_ecx_is_zero"}      -> <<{1, 2, 4}, {0}>>
        [] f = "movzx_8bit" \/ f = "movsx_8bit"       -> <<from, {1}>>
        [] f = "movzx_16bit" \/ f = "movsx_16bit"     -> <<{4}, {1, 2}>>
        [] OTHER                                      -> <<>>

Moves == {"mov", "xchg", "cmovcc_native"}

(* Arguments of the widths ws fit the function f.                          *)
Fit(f, override, ws) ==
  LET d == Demands(f, IF override THEN 2 ELSE 4)
  IN  /\ \A i \in DOMAIN d : ws[i] \in d[i]
      /\ f \in Moves => ws[1] = ws[2]

SizesFit == Fit(slot.function, Override(instr),
                [i \in 1 .. 3 |-> DenotedWidth(slot.args[i].location)])

(* An argument that the logic function writes to is a place.               *)
Written(f) ==
  IF f \in {"xchg"} \union Named({"xadd"}, "_8bit") \union Named({"xadd"}, "_native_word")
  THEN {1, 2}
  ELSE IF f \in Scans THEN {2}
  ELSE IF f \in Moves \union Named((Binary \ {"cmp", "test"}) \union Unary, "_8bit")
                \union Named((Binary \ {"cmp", "test"}) \union Unary, "_native_word")
                \union (BitTests \ {"bit_test"})
                \union {"bswap", "pop", "lea", "setcc_8bit", "cmpxchg_8bit", "cmpxchg_native_word",
                        "imul2_native_word", "imul3_native_word", "movzx_8bit", "movzx_16bit",
                        "movsx_8bit", "movsx_16bit"}
  THEN {1} ELSE {}

Places == \A i \in Written(slot.function) :
            Denoted(slot.args[i].location).kind \in {"register", "memory"}

(* The arguments whose address get_arg_lea asks for, which a register has  *)
(* not.                                                                    *)
Addressed(f) == CASE f = "lea" -> {2} [] f = "cmpxchg8b" -> {1} [] OTHER -> {}

Addressable == \A i \in Addressed(slot.function) :
                 Denoted(slot.args[i].location).kind = "memory"

(* What gives push_stack a double word, which it refuses to push as a word.*)
PushesDword == {"pushf", "enter", "call_rel", "call_abs"}

Pushable == Override(instr) => slot.function \notin PushesDword

(* The logic function can work on its operands.                            *)
Suited == SizesFit /\ Places /\ Addressable /\ Pushable

(* The bit test whose index is a byte that the logic function refuses.     *)
ByteIndex(o, override) ==
  o.function = "bit_test_reset" /\ o.args[2].source = "ImmediateValue" /\ ~override

(* The instructions that decode and fail in whatever state they run: btr   *)
(* r/m32, imm8, whose logic function wants the whole of an index that the  *)
(* other bit tests extend; lea and cmpxchg8b of a register; and pushf,     *)
(* enter and call r/m with a size prefix. A relative call with one is not  *)
(* decoded at all.                                                         *)
Rejected ==
  \/ ByteIndex(Defined, Override(instr))
  \/ Defined.function \in {"lea", "cmpxchg8b"} /\ instr.rm.kind = "register"
  \/ Defined.function \in {"pushf", "enter", "call_abs"} /\ Override(instr)

(* The sizes that the table declares are sizes that the logic function     *)
(* takes, with and without a size prefix, moves have operands of one size, *)
(* what is written to is a place, what is addressed is memory and what is  *)
(* pushed has the operand size, of each instruction that decodes but the   *)
(* rejected ones: these can only fail when they run, and no operand of the *)
(* others is one that its logic function refuses.                          *)
Accepted == Filled => (Suited <=> ~Rejected)

(* What sets eip other than by the size of the instruction, or ends the    *)
(* execution: the slots after it would be of the wrong place.              *)
Transfers == {"jmp_rel", "jmp_abs", "jcc", "jmp_conditional_ecx_is_zero", "call_rel",
              "call_abs", "ret", "interrupt", "hlt", "op_undefined", "enter"}

(* What the table does not declare as a transfer although it is one: enter *)
(* adds 3 to eip while it runs, and slots are decoded right behind it.     *)
DecodedPast == {"enter"}

(* In read-only memory filling stops at a transfer that is neither decoded *)
(* past nor followed, and nowhere else; it stops at a rep, which is run by *)
(* its own slot; and every transfer that may go back costs gas.            *)
Ends ==
  /\ Filled =>
       (stop <=> \/ writeable
                \/ /\ slot.function \in Transfers \ DecodedPast
                   /\ Defined.jump # "RelativeJump")
  /\ Filled /\ slot.function \in Transfers \ {"hlt", "op_undefined"} => slot.gas_cost > 0
  /\ Done /\ IsRep => stop

-----------------------------------------------------------------------------
(* What the last two rest on in the opcode table.                          *)

PlaceSources == {"ModRM", "ModRMReg", "RegisterSuffix", "HardcodedRegister", "ImmediateAddress"}

Suits(o) ==
  /\ \A override \in BOOLEAN :
       Fit(o.function, override, [i \in 1 .. 3 |-> BytesOf(Fixed(o.args[i].size, override))])
         <=> ~ByteIndex(o, override)
  /\ \A i \in Written(o.function) : o.args[i].source \in PlaceSources
  /\ \A i \in Addressed(o.function) : o.args[i].source = "ModRM"
  /\ o.function = "call_rel" => o.jump = "RelativeJump"
  /\ o.function \in Transfers \ DecodedPast <=> o.jump # "None"
  /\ o.function \in Transfers \ {"hlt", "op_undefined"} => o.gas # "None"

ASSUME LogicAssumption ==
  LET table == OPCODES
  IN  \A k \in Keys : \A r \in 0 .. 7 : Suits(table[k].opcodes[r])

=============================================================================
