----------------------------- MODULE MCOperands -----------------------------
(***************************************************************************)
(* A small instance of Operands: bytes of three bits, so 4096 addresses,   *)
(* of which the upper half is writeable.  The opcode table says with what  *)
(* kinds of operands each logic function is called.                        *)
(***************************************************************************)
EXTENDS Operands

Table == INSTANCE OpcodeTable

MCFlagBits == [carry |-> 0, zero |-> 2, overflow |-> 3]

(* A read-only section, and two writeable ones side by side.               *)
MCSections == {512 .. 519, 2048 .. 2056, 2057 .. 2060}

-----------------------------------------------------------------------------
(* Operands                                                                *)

Value(r, s)  == [kind |-> "RegisterValue", reg |-> r, size |-> s]
Literal(n, s) == [kind |-> "Immediate", n |-> n, size |-> s]
Address(a, s) == [kind |-> "Address", addr |-> a, size |-> s]

(* al, ah and bl; ax and bx, eax and ebx.                                  *)
RegisterValues(s) == { Value(r, s) : r \in IF s = "Byte" THEN {0, 3, 4} ELSE {0, 3} }

(* At ebx, across the two writeable sections, in read-only memory, and     *)
(* what wraps around.                                                      *)
Memories(s) ==
  { [kind |-> "RegisterAddress", reg |-> 3, size |-> s],
    Address(2054, s),
    [kind |-> "ModRMAddress", reg |-> 6, offset |-> 4094, size |-> s],
    [kind |-> "SIBAddress", base |-> 3, index |-> 1, scale |-> 4, offset |-> 1,
     size |-> s] }

Immediates(s) == { Literal(n, s) : n \in {5, Mask(s)} }

Locations(a, s) ==
  CASE a.source = "ModRM"          -> RegisterValues(s) \union Memories(s)
    [] a.source \in {"ModRMReg", "RegisterSuffix"} -> RegisterValues(s)
    [] a.source = "HardcodedRegister" -> {Value(a.value, s)}
    [] a.source = "ImmediateValue" -> Immediates(s)
    [] a.source = "ImmediateAddress" -> {Address(2054, s), Address(515, s)}

-----------------------------------------------------------------------------
(* Instructions                                                            *)

Functions ==
  {"mov", "xchg", "movzx_8bit", "movzx_16bit", "movsx_8bit", "movsx_16bit", "lea",
   "bswap", "bit_scan_forward", "bit_scan_reverse", "cbw_cwde", "cdq_cwd", "xlatb",
   "setcc_8bit", "cmovcc_native", "lahf", "sahf", "stc", "clc", "cmc", "cmpxchg8b"}
    \union BitTests

SizeUnder(override, s) ==
  IF s # "NativeWord" THEN s ELSE IF override THEN "Word" ELSE "Dword"

Conditions == { [flag |-> "zero", is |-> TRUE], [flag |-> "carry", is |-> FALSE] }

Encoded(d) ==
  LET L(override, k) == Locations(d.args[k], SizeUnder(override, d.args[k].size))
      Args(override) ==
        CASE Len(d.args) = 0 -> { <<>> }
          [] Len(d.args) = 1 -> { <<x>> : x \in L(override, 1) }
          [] Len(d.args) = 2 -> { <<x, y>> : x \in L(override, 1), y \in L(override, 2) }
  IN  UNION { [function : {d.function}, size_override : {override}, args : Args(override),
               cc : Conditions] : override \in BOOLEAN }

(* Instructions that do not look at a condition have one all the same.     *)
Conditional == {"setcc_8bit", "cmovcc_native"}

MCInstrs ==
  { i \in UNION { Encoded(d) : d \in { d \in Table!Range(Table!Definitions) :
                                          d.function \in Functions } } :
    /\ i.cc = [flag |-> "zero", is |-> TRUE] \/ i.function \in Conditional
    /\ i.size_override =>
         i.args = <<>> \/ \E k \in DOMAIN i.args : i.args[k].size = "Word" }

-----------------------------------------------------------------------------

(* ebx points to the first writeable section, esi wraps into its neighbour *)
(* or into read-only memory.  In one start edx:eax is what ebx points to.  *)
Memory == [a \in Mapped |-> (5 * a + 3) % 8]
Start(rs, b) ==
  [regs |-> [r \in 0 .. 7 |-> rs[r + 1]], mem |-> Memory,
   flags |-> [x \in DOMAIN MCFlagBits |-> b]]

Stored(a) == SumSet({ Memory[c] * Bytes(c - a) : c \in a .. a + 3 })

MCStarts ==
  { Start(<<3041, 1, 40, 2048, 9, 8, 2059, 7>>, FALSE),
    Start(<<Stored(2049), 2, Stored(2053), 2049, 9, 8, 516, 7>>, TRUE) }

=============================================================================
