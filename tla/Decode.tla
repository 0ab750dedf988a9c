------------------------------- MODULE Decode -------------------------------
(***************************************************************************)
(* Decoding one pipeline slot: get_prefixes, the lookup in the opcode      *)
(* table, ParsedModRM::from_bytes, ModRM::decode and                       *)
(* decode_args_with_modrm, as fill_pipeline calls them on the 16 bytes     *)
(* that it has fetched.  The slot is one that a cycle before may have      *)
(* used: clear_pipeline resets only the first one.                         *)
(***************************************************************************)
EXTENDS Encoding, FiniteSets

CONSTANTS
  Costs,         \* the gas schedule
  Instructions,  \* what is assembled
  Reused         \* what a slot may hold before it is filled

VARIABLES
  instr,         \* history: the instruction that the bytes encode
  buffer,        \* the 16 bytes fetched
  writeable,     \* eip is in writeable memory
  phase,         \* "prefixes", "lookup", "modrm", "select", "args" or "done"
  at,            \* prefix_size
  prefixes,      \* PrefixesActivated
  modrm,         \* ParsedModRM
  arg,           \* argument being decoded
  taken,         \* bytes decoded from the opcode on
  slot,          \* the Pipeline
  stop,          \* stop_filling
  result         \* "Ok", an error, or "panic"

vars == <<instr, buffer, writeable, phase, at, prefixes, modrm, arg, taken, slot, stop, result>>

MaxFetch == 16

(* What is left of the buffer once the prefixes are skipped, and its bytes.*)
Left    == MaxFetch - at
Peek(i) == buffer[at + 1 + i]
Take(i, count) == SubSeq(buffer, at + 1 + i, at + i + count)

Fail(r) == phase' = "done" /\ result' = r

-----------------------------------------------------------------------------
(* get_prefixes                                                            *)

NoPrefixes == [size_override |-> FALSE, two_bytes |-> FALSE, rep_mode |-> "None"]

(* Prefixes that get_prefixes goes on after; the last rep prefix wins.     *)
Activate(b) == CASE b = \h66 -> [prefixes EXCEPT !.size_override = TRUE]
                 [] b = \hF2 -> [prefixes EXCEPT !.rep_mode = "Repne"]
                 [] b = \hF3 -> [prefixes EXCEPT !.rep_mode = "Repe"]

GetPrefix ==
  /\ phase = "prefixes" /\ Left > 0
  /\ Peek(0) \in {\h66, \hF2, \hF3}
  /\ prefixes' = Activate(Peek(0))
  /\ at' = at + 1
  /\ UNCHANGED <<instr, buffer, writeable, phase, modrm, arg, taken, slot, stop, result>>

GetTwoByte ==
  /\ phase = "prefixes" /\ Left > 0
  /\ Peek(0) = \h0F
  /\ prefixes' = [prefixes EXCEPT !.two_bytes = TRUE]
  /\ at' = at + 1
  /\ phase' = "lookup"
  /\ UNCHANGED <<instr, buffer, writeable, modrm, arg, taken, slot, stop, result>>

NoMorePrefixes ==
  /\ phase = "prefixes" /\ Left > 0
  /\ Peek(0) \notin {\h66, \hF2, \hF3, \h0F, \h67}
  /\ phase' = "lookup"
  /\ UNCHANGED <<instr, buffer, writeable, at, prefixes, modrm, arg, taken, slot, stop, result>>

(* unimplemented!, or buffer[0] of an empty buffer.                        *)
PrefixPanic ==
  /\ phase = "prefixes"
  /\ Left > 0 => Peek(0) = \h67
  /\ Fail("panic")
  /\ UNCHANGED <<instr, buffer, writeable, at, prefixes, modrm, arg, taken, slot, stop>>

-----------------------------------------------------------------------------
(* The slot of a rep prefix, and the lookup of an opcode.                  *)

Key == Peek(0) + (IF prefixes.two_bytes THEN 256 ELSE 0)

(* The surcharge of code in writeable memory, which stops filling.         *)
Surcharge == IF writeable THEN Costs["WriteableMemoryExec"] ELSE 0

FillRep ==
  /\ phase = "lookup" /\ Left > 0
  /\ prefixes.rep_mode # "None"
  /\ slot' = [slot EXCEPT !.size_override = prefixes.size_override,
                          !.gas_cost = Costs["Moderate"] + Surcharge,
                          !.eip_size = at + 1,
                          !.opcode = Peek(0),
                          !.function = IF prefixes.rep_mode = "Repe" THEN "repe" ELSE "repne"]
  /\ stop' = TRUE
  /\ phase' = "done" /\ result' = "Ok"
  /\ UNCHANGED <<instr, buffer, writeable, at, prefixes, modrm, arg, taken>>

LookUp ==
  /\ phase = "lookup" /\ Left > 0
  /\ prefixes.rep_mode = "None"
  /\ Key \in DOMAIN OPCODES
  /\ IF OPCODES[Key].has_modrm
     THEN /\ slot' = [slot EXCEPT !.opcode = Peek(0), !.gas_cost = Costs["ModRMSurcharge"]]
          /\ phase' = "modrm"
     ELSE /\ slot' = [slot EXCEPT !.opcode = Peek(0)]
          /\ phase' = "select"
  /\ UNCHANGED <<instr, buffer, writeable, at, prefixes, modrm, arg, taken, stop, result>>

(* buffer[0] of an empty buffer, or an index past the table.               *)
LookUpPanic ==
  /\ phase = "lookup"
  /\ Left > 0 => prefixes.rep_mode = "None" /\ Key \notin DOMAIN OPCODES
  /\ Fail("panic")
  /\ UNCHANGED <<instr, buffer, writeable, at, prefixes, modrm, arg, taken, slot, stop>>

-----------------------------------------------------------------------------
(* ParsedModRM::from_bytes                                                 *)

(* Mutant: the lowest field is masked with four bits.                      *)
Fields_WideMask(b) == [low |-> b % 16, middle |-> (b \div 8) % 8, high |-> b \div 64]

(* ModRM::parse, and SIB::parse.                                           *)
Fields(b) == [low |-> b % 8, middle |-> (b \div 8) % 8, high |-> b \div 64]

NoSIB   == Fields(0)
NoModRM == [mode |-> 0, reg |-> 0, rm |-> 0, sib |-> NoSIB, disp |-> Zero, size |-> 0]

HasSIB(m) == m.high # 3 /\ m.low = 4

(* Mutant: a SIB byte without a base brings no displacement.               *)
DispSize_IgnoreSIB(m, s) ==
  CASE (m.high = 0 /\ m.low = 5) \/ m.high = 2 -> 4
    [] m.high = 1 -> 1
    [] OTHER -> 0

(* Bytes of displacement for a ModR/M and a SIB byte.                      *)
DispSize(m, s) ==
  CASE (m.high = 0 /\ 5 \in {m.low, s.low}) \/ m.high = 2 -> 4
    [] m.high = 1 -> 1
    [] OTHER -> 0

Parsed(m, s, before, count) ==
  [mode |-> m.high, reg |-> m.middle, rm |-> m.low, sib |-> s, size |-> before - 1 + count,
   disp |-> CASE count = 0 -> Zero
              [] count = 1 -> SignExtended(Peek(before))
              [] count = 4 -> Take(before, 4)]

ParseModRM ==
  /\ phase = "modrm"
  /\ IF Left < 5 THEN Fail("DecodingOverrun") /\ modrm' = modrm
     ELSE LET m      == Fields(Peek(1))
              s      == IF HasSIB(m) THEN Fields(Peek(2)) ELSE NoSIB
              before == IF HasSIB(m) THEN 3 ELSE 2
              count  == DispSize(m, s)
          IN  IF before + count > Left THEN Fail("DecodingOverrun") /\ modrm' = modrm
              ELSE /\ modrm' = Parsed(m, s, before, count)
                   /\ phase' = "select" /\ result' = result
  /\ UNCHANGED <<instr, buffer, writeable, at, prefixes, arg, taken, slot, stop>>

-----------------------------------------------------------------------------
(* The opcode of a group, and its function and gas.                        *)

Opcode == OPCODES[Key].opcodes[modrm.reg]

(* Mutant: the opcode byte is not counted.                                 *)
TooShort_OpcodeByte == Left < 5

(* decode_args_with_modrm wants six bytes, however many it will decode.    *)
TooShort == Left < 6

Select ==
  /\ phase = "select"
  /\ slot' = [slot EXCEPT !.function = Opcode.function,
                          !.gas_cost = @ + Costs[Opcode.gas],
                          !.size_override = prefixes.size_override]
  /\ taken' = 1 + modrm.size
  /\ IF TooShort THEN Fail("DecodingOverrun") ELSE phase' = "args" /\ result' = result
  /\ UNCHANGED <<instr, buffer, writeable, at, prefixes, modrm, arg, stop>>

-----------------------------------------------------------------------------
(* decode_args_with_modrm                                                  *)

(* Mutant: the native word is always a double word.                        *)
ToFixed_NoOverride(s) == IF s = "NativeWord" THEN "Dword" ELSE s

(* OpcodeValueSize::to_fixed                                               *)
ToFixed(s) == IF s # "NativeWord" THEN s
              ELSE IF prefixes.size_override THEN "Word" ELSE "Dword"

Argument(location, is_memory) == [location |-> location, is_memory |-> is_memory]
NoArgument == Argument([kind |-> "None"], FALSE)

RegisterValue(r, s)   == [kind |-> "RegisterValue", reg |-> r, size |-> s]
RegisterAddress(r, s) == [kind |-> "RegisterAddress", reg |-> r, size |-> s]
Address(bs, s)        == [kind |-> "Address", addr |-> bs, size |-> s]
ImmediateOf(bs)       == [kind |-> "Immediate", bytes |-> bs]
ModRMAddress(r, d, s) == [kind |-> "ModRMAddress", reg |-> r, offset |-> d, size |-> s]
(* Mutant: base number 5 is no base in every mode.                         *)
SIBAddress_NoEBP(m, s) ==
  [kind |-> "SIBAddress", offset |-> m.disp, size |-> s, scale |-> 2 ^ m.sib.high,
   base  |-> IF m.sib.low # 5 THEN m.sib.low ELSE None,
   index |-> IF m.sib.middle = 4 THEN None ELSE m.sib.middle]

SIBAddress(m, s) ==
  [kind |-> "SIBAddress", offset |-> m.disp, size |-> s, scale |-> 2 ^ m.sib.high,
   base  |-> IF m.sib.low # 5 THEN m.sib.low ELSE IF m.mode = 0 THEN None ELSE EBP,
   index |-> IF m.sib.middle = 4 THEN None ELSE m.sib.middle]

(* ModRM::decode                                                           *)
DecodeModRM(m, s) ==
  CASE m.mode = 3              -> Argument(RegisterValue(m.rm, s), FALSE)
    [] m.mode = 0 /\ m.rm = 5  -> Argument(Address(m.disp, s), TRUE)
    [] m.mode = 0 /\ m.rm \notin {4, 5} -> Argument(RegisterAddress(m.rm, s), TRUE)
    [] m.mode \in {1, 2} /\ m.rm # 4    -> Argument(ModRMAddress(m.rm, m.disp, s), TRUE)
    [] OTHER                   -> Argument(SIBAddress(m, s), TRUE)

(* The bytes that an argument takes from the buffer.                       *)
Advance(a) == CASE a.source = "ImmediateAddress" -> 4
                [] a.source \in {"ImmediateValue", "JumpRel"} -> BytesOf(ToFixed(a.size))
                [] OTHER -> 0

(* The argument that the source a stands for, when it is not None.         *)
Sourced(a) ==
  LET s == ToFixed(a.size)
  IN  CASE a.source = "ModRM"             -> DecodeModRM(modrm, s)
        [] a.source = "ModRMReg"          -> Argument(RegisterValue(modrm.reg, s), FALSE)
        [] a.source = "ImmediateAddress"  -> Argument(Address(Take(taken, 4), s), TRUE)
        [] a.source \in {"ImmediateValue", "JumpRel"} ->
             Argument(ImmediateOf(Take(taken, BytesOf(s))), FALSE)
        [] a.source = "RegisterSuffix"    -> Argument(RegisterValue(Peek(0) % 8, s), FALSE)
        [] a.source = "Literal"           -> Argument(ImmediateOf(<<a.value>>), FALSE)
        [] a.source = "HardcodedRegister" -> Argument(RegisterValue(a.value, s), TRUE)

(* Mutant: an argument that the opcode has not is left as it was.          *)
Decoded_KeepUnused(a) == IF a.source = "None" THEN slot.args[arg] ELSE Sourced(a)

Decoded(a) == IF a.source = "None" THEN NoArgument ELSE Sourced(a)

(* bytes[0] of an empty buffer panics where u16_from_bytes and             *)
(* u32_from_bytes report an overrun.                                       *)
DecodeArg ==
  /\ phase = "args" /\ arg <= 3
  /\ LET a == Opcode.args[arg]
     IN  IF taken + Advance(a) > Left
         THEN /\ slot' = [slot EXCEPT !.args[arg] = NoArgument]
              /\ Fail(IF Advance(a) = 1 THEN "panic" ELSE "DecodingOverrun")
              /\ UNCHANGED <<arg, taken>>
         ELSE /\ slot' = [slot EXCEPT !.args[arg] = Decoded(a)]
              /\ taken' = taken + Advance(a)
              /\ arg' = arg + 1
              /\ UNCHANGED <<phase, result>>
  /\ UNCHANGED <<instr, buffer, writeable, at, prefixes, modrm, stop>>

-----------------------------------------------------------------------------
(* The rest of the slot, by pipeline behaviour.                            *)

InMemoryArgs == { i \in 1 .. 3 : slot.args[i].is_memory }

(* Gas that depends on the behaviour and the arguments.                    *)
LateGas == (IF Opcode.jump = "Unpredictable" THEN Costs["ConditionalBranch"] ELSE 0)
           + Cardinality(InMemoryArgs) * Costs["MemoryAccess"] + Surcharge

(* Mutant: only an opcode that charges no gas ends the pipeline.           *)
StopsFilling_NoGasOnly == writeable \/ Opcode.jump = "UnpredictableNoGas"

(* stop_filling                                                            *)
StopsFilling == writeable \/ Opcode.jump \in {"Unpredictable", "UnpredictableNoGas"}

Finish ==
  /\ phase = "args" /\ arg = 4
  /\ IF Opcode.jump = "RelativeJump" /\ prefixes.size_override
     THEN /\ slot' = [slot EXCEPT !.eip_size = at + taken]
          /\ Fail("ReadBadMemory")
          /\ stop' = stop
     ELSE /\ slot' = [slot EXCEPT !.eip_size = at + taken, !.gas_cost = @ + LateGas]
          /\ phase' = "done" /\ result' = "Ok"
          /\ stop' = StopsFilling
  /\ UNCHANGED <<instr, buffer, writeable, at, prefixes, modrm, arg, taken>>

-----------------------------------------------------------------------------
(* What a slot and its arguments may hold.                                 *)

Scales     == { 2 ^ log : log \in 0 .. 3 }
DoubleWord == [1 .. 4 -> Byte]

Locations ==
  [kind : {"None"}]
  \union [kind : {"Immediate"}, bytes : Seq(Byte)]
  \union [kind : {"Address"}, addr : DoubleWord, size : FixedSizes]
  \union [kind : {"RegisterValue", "RegisterAddress"}, reg : 0 .. 7, size : FixedSizes]
  \union [kind : {"ModRMAddress"}, reg : 0 .. 7, offset : DoubleWord, size : FixedSizes]
  \union [kind : {"SIBAddress"}, offset : DoubleWord, size : FixedSizes, scale : Scales,
          base : {None} \union 0 .. 7, index : {None} \union 0 .. 7]

Slots ==
  [function : LogicFunctions \union {"repe", "repne"}, gas_cost : Nat,
   args : [1 .. 3 -> [location : Locations, is_memory : BOOLEAN]],
   eip_size : 0 .. MaxFetch, size_override : BOOLEAN, opcode : Byte]

Charges == GasLevels \union {"ModRMSurcharge", "MemoryAccess", "ConditionalBranch",
                            "WriteableMemoryExec"}

ASSUME DecodeAssumption ==
  /\ \A c \in Charges : Costs[c] \in Nat
  /\ \A i \in Instructions : Encodable(i)
  /\ \A r \in Reused : r.slot \in Slots /\ r.writeable \in BOOLEAN

-----------------------------------------------------------------------------
(* fill_pipeline clears the gas of the slot, and nothing else of it.       *)
Init ==
  /\ instr \in Assembled(Instructions)
  /\ buffer = SubSeq(Bytes(instr) \o [i \in 1 .. MaxFetch |-> 0], 1, MaxFetch)
  /\ \E r \in Reused : /\ writeable = r.writeable
                       /\ slot = [r.slot EXCEPT !.gas_cost = 0]
  /\ phase = "prefixes" /\ at = 0 /\ prefixes = NoPrefixes
  /\ modrm = NoModRM /\ arg = 1 /\ taken = 0
  /\ stop = FALSE /\ result = "Ok"

(* fill_pipeline goes on to the next slot, or returns the error.           *)
Return == phase = "done" /\ UNCHANGED vars

Next == \/ GetPrefix \/ GetTwoByte \/ NoMorePrefixes \/ PrefixPanic
        \/ FillRep \/ LookUp \/ LookUpPanic
        \/ ParseModRM \/ Select \/ DecodeArg \/ Finish
        \/ Return

Spec == Init /\ [][Next]_vars

=============================================================================
