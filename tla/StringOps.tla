------------------------------ MODULE StringOps -----------------------------
(***************************************************************************)
(* String opcodes and the count of their repetitions.  One element of      *)
(* movs, stos, lods, cmps and scas, a byte or a native word of two or four *)
(* bytes in the code, is `unit' bytes here.  Of the flags only zero, which *)
(* the conditional repetitions depend on, and direction are kept.          *)
(*                                                                         *)
(* Memory is a set of sections; an access lies in one of them or fails     *)
(* (memory.rs).  The three errors for memory that is not there are one     *)
(* here, BadMemory.                                                        *)
(***************************************************************************)
EXTENDS Integers

CONSTANTS
  Space,            \* number of addresses and of register values (2^32)
  WriteableMemory,  \* addresses from here on are writeable
  Sections,         \* the mapped sections, sets of addresses
  Byte,             \* values of a byte
  WordSize,         \* bytes in a native word
  Half              \* number of values of a 16-bit register (2^16)

VARIABLES
  op,     \* the string opcode
  unit,   \* bytes in one of its elements
  mem,    \* memory
  esi,    \* source index
  edi,    \* destination index
  acc,    \* the bytes of the accumulator, lowest first
  zero,   \* the zero flag
  direction,      \* the direction flag
  prefix,         \* "repe" or "repne"
  size_override,  \* the operand size prefix: the count is in cx
  code,           \* where the bytes of the repeated instruction are
  ecx             \* the count

Address == 0 .. Space - 1
Mapped == UNION Sections

ASSUME StringAssumption ==
  /\ Space \in Nat \ {0}
  /\ WriteableMemory \in Address \ {0}
  /\ Sections \subseteq SUBSET Address
  /\ WordSize \in Nat \ {0}
  /\ Half \in Nat \ {0}

opVars == <<op, unit, direction, prefix, size_override, code>>
dataVars == <<mem, esi, edi, acc, zero>>

Loads    == {"movs", "lods", "cmps"}     \* read [esi]
Compares == {"cmps", "scas"}             \* read [edi] and set the flags
Stores   == {"movs", "stos"}             \* write [edi]
StringOpcodes == Loads \union Compares \union Stores

-----------------------------------------------------------------------------

Wrap(x) == x % Space

Accumulator == [0 .. WordSize - 1 -> Byte]

(* The bytes of the element at address a, and whether one access gets them *)
Cells(a) == a .. a + unit - 1
Accessible(a) == \E s \in Sections : Cells(a) \subseteq s

Load(a) == [i \in 0 .. unit - 1 |-> mem[a + i]]
Store(a, v) ==
  [c \in Mapped |-> IF c \in Cells(a) THEN v[c - a] ELSE mem[c]]

AccLow == [i \in 0 .. unit - 1 |-> acc[i]]

(* Where an index register points after one element.                       *)
Stride == IF direction THEN -unit ELSE unit
Next1(a) == Wrap(a + Stride)

(* What stops an element before it has changed anything: the source is     *)
(* read before the destination, and the read-only half is refused before   *)
(* the section is looked up.                                               *)
BadRead == \/ op \in Loads /\ ~Accessible(esi)
           \/ op \in Compares /\ ~Accessible(edi)
ReadOnlyWrite == ~BadRead /\ op \in Stores /\ edi < WriteableMemory
BadWrite == ~BadRead /\ op \in Stores /\ edi >= WriteableMemory
              /\ ~Accessible(edi)

Faults == BadRead \/ ReadOnlyWrite \/ BadWrite
FaultKind == IF ReadOnlyWrite THEN "WroteReadOnlyMemory" ELSE "BadMemory"

-----------------------------------------------------------------------------
(* The logic functions, when nothing stops them.                           *)

(* Mutant: only the destination is advanced.                               *)
Movs_SourceStays ==
  /\ op = "movs" /\ ~Faults
  /\ mem' = Store(edi, Load(esi))
  /\ edi' = Next1(edi)
  /\ UNCHANGED <<esi, acc, zero>>

Movs ==
  /\ op = "movs" /\ ~Faults
  /\ mem' = Store(edi, Load(esi))
  /\ esi' = Next1(esi)
  /\ edi' = Next1(edi)
  /\ UNCHANGED <<acc, zero>>

Stos ==
  /\ op = "stos" /\ ~Faults
  /\ mem' = Store(edi, AccLow)
  /\ edi' = Next1(edi)
  /\ UNCHANGED <<esi, acc, zero>>

Lods ==
  /\ op = "lods" /\ ~Faults
  /\ acc' = [i \in 0 .. WordSize - 1 |-> IF i < unit THEN mem[esi + i] ELSE acc[i]]
  /\ esi' = Next1(esi)
  /\ UNCHANGED <<mem, edi, zero>>

Cmps ==
  /\ op = "cmps" /\ ~Faults
  /\ zero' = (Load(esi) = Load(edi))
  /\ esi' = Next1(esi)
  /\ edi' = Next1(edi)
  /\ UNCHANGED <<mem, acc>>

Scas ==
  /\ op = "scas" /\ ~Faults
  /\ zero' = (AccLow = Load(edi))
  /\ edi' = Next1(edi)
  /\ UNCHANGED <<mem, esi, acc>>

Element == Movs \/ Stos \/ Lods \/ Cmps \/ Scas

-----------------------------------------------------------------------------
(* The count of a repetition                                               *)

Low(c) == c % Half
Count == IF size_override THEN Low(ecx) ELSE ecx

(* Mutant: the upper half of ecx is lost.                                  *)
Decremented_Truncated ==
  IF size_override THEN Low(ecx) - 1 ELSE ecx - 1

Decremented ==
  IF size_override THEN (ecx - Low(ecx)) + (Low(ecx) - 1) ELSE ecx - 1

(* repne is rejected for opcodes that set no flags.                        *)
Valid == prefix = "repe" \/ op \in Compares

(* Mutant: repne goes on while the flag is set, like repe.                 *)
EndsWith_SameForBoth(z) == op \in Compares /\ ~z

(* The repetition ends after an element that left the zero flag at z.      *)
EndsWith(z) == op \in Compares /\ z = (prefix = "repne")

OpTypeOK ==
  /\ op \in StringOpcodes
  /\ unit \in 1 .. WordSize
  /\ direction \in BOOLEAN
  /\ prefix \in {"repe", "repne"}
  /\ size_override \in BOOLEAN
  /\ code \subseteq Mapped

DataTypeOK ==
  /\ mem \in [Mapped -> Byte]
  /\ esi \in Address
  /\ edi \in Address
  /\ acc \in Accumulator
  /\ zero \in BOOLEAN
  /\ ecx \in Address

=============================================================================
