# A specification of qx86

qx86 executes a subset of 32-bit x86 inside a blockchain node: a program runs
in memory that its host provides, pays gas for every instruction, and must do
exactly the same on every node. `src/src/vm.rs` says of the length of the
pipeline that it "does not affect the actual behavior or results of the VM".
This directory specifies the machine in TLA+, checks small instances with TLC,
and proves with TLAPS what can be proved for every instance.

## The system

Single-threaded. The host builds a `VM`, maps memory, loads a program, sets
`eip` and `gas_remaining`, and calls `execute()`. What is hard about the code
comes from the order in which one loop decodes, charges, executes and modifies
the memory it decodes from, from what an instruction that fails or runs out of
gas half-way leaves behind, and from flags that one opcode leaves for another.

| Component | State | Operations | Interacts with |
|---|---|---|---|
| `vm.rs`: `execute`, `cycle` | `eip`, `gas_remaining`, `error_eip`, what `execute` returned | charge a slot, run its logic function, advance `eip`; stop on `hlt`, an error or the end of the gas | fills the pipeline, calls logic functions through it |
| `pipeline.rs` | the slots; the locals `eip`, `running_gas`, `stop_filling`, `writeable` of `fill_pipeline` | clear, then decode up to `PIPELINE_SIZE` instructions ahead | reads code memory, the opcode table, the gas schedule |
| `opcodes.rs` | the constant table | `into_table` enters 250 definitions, several into one entry | read by `fill_pipeline`; names the logic functions and the sizes they get |
| `decoding.rs`, `get_prefixes` | a slot that may have been used before | prefixes, ModR/M, SIB, immediates to `OpArgument`s | called by `fill_pipeline` on 16 bytes |
| `ops.rs`: control flow | `eip`, the stack | jumps, calls, `ret`, `enter`, `int`, `hlt` | changes `eip` under `cycle` |
| `ops.rs`: `rep` and strings | `ecx`, `esi`, `edi`, memory, the zero flag | an element at a time, under `repe` and `repne` | charges gas itself, is interrupted and resumed |
| `ops.rs`, `flags.rs`, `bitmanip.rs`: data | registers, flags | arithmetic, logic, shifts, rotations, multiplication, division, decimal adjustment | `get_arg` / `set_arg`; the flags link one opcode to the next |
| `memory.rs` | sections of up to 64 KiB | `add_memory`, sized reads and writes | read-only below `0x80000000` for the program, not for the host |
| `structs.rs`, `get_arg`, `set_arg` | registers, memory | sized values and their conversions; argument locations read and written | every logic function, on what was decoded |
| `Hypervisor` | the host's | `interrupt(vm, num)` | gets the whole `VM` in the middle of a cycle |

What makes each of them correct:

* **pipeline and cycle**: prefetching is invisible. An instruction runs at the
  `eip` it was decoded from, with the gas the decoder predicted, and is what
  memory holds at that moment; nothing is decoded past the end of the gas; one
  slot at a time in writeable memory; an error names its instruction; out of
  gas leaves the machine where it can be resumed; every call returns.
* **rep**: each element is executed once, however often gas runs out; the
  registers tell which.
* **memory**: a read returns the last write; a failed write changes nothing;
  sections do not overlap; a program never changes read-only memory.
* **stack opcodes**: what is taken off is what was put on; a failing access
  destroys nothing.
* **data**: programs that do with several opcodes what takes more than one
  (long numbers, comparisons, decimal numbers) come to the right result.
* **decoding**: the size, the cost and the operands the decoder reports are
  those of the instruction, for every encoding of it and whatever the slot held
  before; the operands are such that the logic function can work on them.
* **operands**: an instruction changes the bytes its operands name and no
  others, or fails and changes none.

## Modules

| Module | Models | Proved or checked by |
|---|---|---|
| `Vm` | the machine, the gas of a slot and the logic functions, one representative for each way an opcode can behave towards the dispatcher | |
| `Isa` | what the machine promises: one instruction at a time | `PipelineIsa` |
| `Pipeline` | `execute`, `cycle` and `fill_pipeline`, a slot at a time | `MCPipeline` |
| `PipelineInv` | the inductive invariants (`Inductive`) and the conditions on programs | `PipelineProofs` |
| `PipelineIsa` | the refinement of `Isa` by `Pipeline` | `PipelineProofs` |
| `StringOps` | the string opcodes and the count register | |
| `RepSpec` | a repetition that gas cannot interrupt | `Rep` |
| `Rep` | `repe` and `repne`, an iteration at a time, interrupted and resumed | `MCRep`, `RepProofs` (with `Mathematics`) |
| `FlatMemory` | one array of bytes with holes | `Memory` |
| `Memory` | `MemorySystem` and the VM's accessors, a map of sections | itself, `MemoryProofs` |
| `StackSpec` | a stack as a sequence of half words | `Stack` |
| `Stack` | the stack opcodes as chains of pushes, pops and assignments | `MCStack`, `StackProofs` (with `Mathematics`) |
| `Alu` | each integer opcode as a function of operands and flags | `ArithmeticProofs` (with `Mathematics`) |
| `Arithmetic` | short programs of those opcodes | `MCArithmetic`, `ArithmeticProofs` |
| `OpcodeTable` | every definition of `opcodes.rs`, and `into_table` | `MCDecode`, `MCOperands` |
| `Encoding` | the instruction format from the assembler's side | |
| `Decode` | `get_prefixes`, `ParsedModRM`, `ModRM::decode`, `decode_args_with_modrm` and their use in `fill_pipeline` | |
| `DecodeSpec` | what decoding promises: what `Encoding` encoded is what the slot holds | `MCDecode`, `DecodeProofs` |
| `DecodeInv` | the inductive invariant of the decoder | `DecodeProofs` |
| `OperandSpec` | registers and memory as one set of byte-sized cells, and instructions that copy between places | `Operands` |
| `Mathematics` | nothing of the code: what the proofs need of numbers, folds, sums over sets and positional numbers | itself |
| `Operands` | sized values, `get_arg`, `set_arg`, `get_arg_lea`, and the logic functions that move and look at bits | `MCOperands`, `OperandsProofs` (with `Mathematics`) |

### Pipeline: state and actions

`mem`, `eip`, `gas`, `error_eip`, `result` are the VM's fields and what
`execute()` returned ("Ok" while it runs); `ecx` stands for the registers,
because conditional jumps, register-indirect jumps and repetitions depend on
one. `slots` is the pipeline, `n` the index of the loop that fills or executes
it; `at`, `running_gas`, `stop_filling` and `writeable` are the locals of
`fill_pipeline`. `plan` is a history variable: the address and the running gas
each slot was decoded at.

| Code | Actions |
|---|---|
| `fill_pipeline`, prologue and `clear_pipeline` (`pipeline.rs:90-112`) | `BeginCycle` |
| one turn of the fill loop, by the `PipelineBehavior` of the opcode | `FillPadding`, `FillStraight`, `FillRelativeJump`, `FillUnpredictable`, `FillRep`, `FillError` |
| one turn of the loop of `cycle` (`vm.rs:432-454`) | `ExecOutOfGas` and an `Exec...` action for each class of logic functions |
| the host, after `OutOfGas` | `Resume` |

Memory maps each fetchable address to the instruction its bytes decode to;
what matters of an opcode is its size, cost, behaviour and what it does to
`eip`, `ecx`, `mem` and `gas`. Three repetitions stand for all of them: one that
loads (`rep_lods`), one that stores (`rep_stos`) and one in front of an opcode that
is no string opcode (`rep_mov`). Nothing else runs between two elements, so a
repetition is one step here, which executes `k` elements, pays for each (`Repeated`)
and ends, runs out of gas or fails at the next one; `rep_stos` leaves those `k`
elements in memory. It runs downwards, so that `edi` is `Block + ecx` and needs no
register of its own, and stores bytes that decode to `Filler`. `Rep` has the same
loop an iteration at a time, for every string opcode. `Loaded` is the set of addresses whose 16 bytes
are mapped, which is what a fetch requires. One error, `ReadMemory`, stands for
all that fetching and decoding can return. `int` calls a hypervisor that fails
or writes one cell of memory, read-only or not, and returns; the library has no
implementation of that trait. `Enter` has the push of `ebp` only (`Stack` has
the others), and the jumps of 16-bit code are there as the decoding error that
they are (`jmp_rel16`).

### Rep: state and actions

One action per iteration and opcode (`RepMovs`, `RepStos`, `RepLods`,
`RepCmps`, `RepScas`), per way out (`CountIsZero`, `OutOfGas`, `ElementFails`,
`RepneRejects`) and for the slot's charge (`ChargeSlot`, `CannotPaySlot`), which
comes again after `Resume`. The registers are numbers, bytes have two values;
of the flags only zero and direction matter. `start` and `began` are history.
`code` is where the bytes of the instruction lie. When the host resumes,
`execute()` decodes what is at `eip`: while `code` is `Intact` that is the same
repetition (`Resume`), and once its own elements have overwritten it, it is another
instruction, with which this repetition ends (`ResumeReplaced`, result
"Replaced"). Until then the slot in use is the one that was decoded before.

### Memory: state and actions

`map` is the hash map of sections. A call is two steps, the request that decides
and changes (`AddMemory`, `ReadMemory`, `WriteMemory`, `CopyIntoMemory`) and
`Return`, so that requests and their answers are visible to `FlatMemory`. New
sections hold at least one byte.

### Stack: state and actions

One action per opcode. A logic function is a fold of `PushStack` and `PopStack`
over a machine, and the first failing access ends it, with what was done before
left done; `Execute` is what `cycle` makes of that machine. The unit is the half
word of 16 bits, because an operand has one or two; `esp` counts them, and
misaligned stacks of single bytes are left out. The abstract stack is what lies
between `esp` and the highest address it has had.

### Arithmetic: state and actions

One action per opcode, which takes its operands from registers or an immediate,
applies the function of `Alu` and writes back what the code writes back. The
opcodes come in three sizes of separate code; where these differ, `Alu` decides
by the size. Operands in memory are left to `Operands`. A program runs in a
build with or without `overflow-checks` (`given.checked`): shifts are where the
two differ, since `count - 1` and counts beyond the width overflow in Rust; the
other opcodes are those of a release build. The code that a program's name
stands for is in `Arithmetic` (`SumCode` to `AadCode`, `Listed`), because the
properties are about these programs and the proofs argue about their steps;
`MCArithmetic` chooses their operands. Logic and bits are those of sets:
`BitsOf` takes a number apart, `FromBits` is the number with those bits.

### Decode: state and actions

One action per step of the decoder: a prefix, the lookup, the ModR/M byte with
its tail, the choice of a group's opcode, an argument, the rest of the slot; and
one for each place where it panics. `buffer` is what was fetched, `at` the
prefix bytes, `taken` the bytes from the opcode on, `slot` the `Pipeline` being
filled, which at the start is one of `Reused`: only the first slot of a cycle is
reset. `OpcodeTable` has the definitions in the order of the source, because
into_table lets later ones overwrite what earlier ones said of an entry. Where
`into_table` would panic is an assumption about the definitions that TLC
evaluates. A value of several bytes is the sequence of its bytes. `instr`, the
instruction that was assembled, is history, and `DecodeSpec` compares the slot
with it. `Encodable` says what an assembler can be asked for; `Slots` and
`Locations` are the types of what a slot may hold beforehand and of what the
decoder puts into it.

### Operands: state and actions

`regs` are numbers, which masks and shifts take apart as the code does; `mem` is
bytes. An instruction is a logic function, an operand size and argument
locations as `Decode` produces them; its action is the whole logic function,
conversions and failures included, as a chain of `Set` and register writes on a
machine that the first error ends. `OperandSpec` sees the same state as bytes at
places and says with sequences of places what is copied where. A condition is a
flag and its value; the sixteen of them are in `Alu`.

## Runs

| Run | Instance | Shows |
|---|---|---|
| `pipeline_rom` | every read-only program of three instructions out of thirteen kinds that keeps the decoder in mapped read-only memory, and may jump into a writeable loop; pipeline of 3; gas 0, 4, 7 or 11; `ecx` 0, 2 or 5; one resume; a `rep stos` whose block meets the border of writeable memory | the pipelined machine is the one-instruction machine; the inductive invariant of the proofs, of which the types are a part; errors and the end of the gas are where they should be; `execute()` returns |
| `pipeline_ram` | every program of three instructions in writeable memory, self-modifying stores, a `rep stos` that overwrites the program, `enter`, `rep mov` and 16-bit jumps included | the same refinement where decoding ahead would not be safe, and one slot at a time |
| `rep` | every string opcode, prefix, direction and width, full and half counts, blocks that overlap, meet the end of a section, read-only memory and the top of the address space; gas that ends between any two elements; two resumes; the instruction itself in read-only memory or inside the block that is written; 417,597 states | unless the instruction overwrites itself, interruption cannot be noticed; registers, blocks, searches and gas are what the count says, also where it does |
| `memory` | eight addresses, two sections of one, three or four bytes, accesses of one and two bytes | the map of sections is one flat memory |
| `stack` | four instructions out of twenty-nine in both operand sizes, on a stack with room for one frame and one at the end of its section | what is taken off is what was put on, also after failures |
| `arithmetic` | programs of one to four opcodes, on every operand of two bits (bytes) and three bits (words, dwords); shifts by any count up to twice the width and one more, in both builds; 399,872 states | results and flags are right together, and exactly where they are not |
| `decimal` | real bytes: every pair of packed numbers and of digits | the adjusted operations are decimal |
| `decode` | every entry of the table under no prefix and a size prefix with four operands; one opcode with every encoding of every address; runs of prefixes up to the length of the buffer; two states of the slot | the slot holds what was assembled, and costs what it should; exactly which instructions are refused, which decode although their logic function always fails, and which end the filling |
| `operands` | two instructions out of those that the table gives the logic functions, on registers and on memory that straddles sections, wraps around or is read-only | every instruction does what it should to all of its bytes, or nothing |
| `prefetch_error`, `writeable_crossing`, `memory_overlap` | small instances | see Findings |

**Why the bounds are enough.** In a pipeline of three slots there is a first, a
middle and a last one, and programs of three instructions fill it exactly, jump
back into it, or leave it; the proofs hold for every size. The gas values end
on a slot's cost, one below it, at zero, and inside a repetition. A repetition
of up to seven elements over eight addresses overlaps itself, wraps and meets
both section borders. Two sections are one border, with its end, its last byte
and a hole behind it. Four registers are enough for `popa` to restore them in
the wrong order, skip `esp` wrongly or fail on any of them, and four
instructions for a frame to be made, filled, left and returned from. In
arithmetic the boundaries are carry, sign and overflow, which two and three
bits have all of, the adjust flag being about two of them; words and dwords have
the same width there, the size only selects the code. Decoding has real bytes,
and no bound on them but which operands are tried with which opcodes: all
addresses with one opcode, because the ModR/M byte is decoded before the
opcode is known, and four with every other. In `operands` a byte has three bits,
so that registers of four bytes address a memory that TLC can hold, and the
eight bytes of `cmpxchg8b` fit a number; two instructions are enough for one to
read what the other wrote through another view of the same register.

**Deadlock** is not checked where the program may end (`execute()` has returned
and the host does not resume, `MaxSteps` is reached, the program is executed);
`memory` never stops and is checked.

**Fairness.** `Pipeline` and `Rep` assume weak fairness of one step of the loop
they are in: one thread executes it and nothing else runs. The host's resuming
is not fair. `Terminates` says that gas bounds execution: a loop contains an
instruction that costs something.

**The other bounds** are `MaxResumes` (how often the host resumes) and
`MaxSteps` (of `Stack`); both are in guards.

## What is proved

TLAPS checks these for every value of the constants that satisfies the named
assumptions, which TLC evaluates on the runs' constants. Most say what the
constants are: `SpaceAssumption`, `CodeAssumption`, `InitAssumption`,
`PipelineAssumption`, `StoreAssumption` (what `rep_stos` stores, and where, is an
instruction and an integer); `StringAssumption` (with writeable memory not starting at
address 0, `memory.rs:9`), `GasAssumption`, `StartAssumption`;
`MemoryAssumption`; `StackAssumption` (the flags' bits fit a register and bit 1 is
not one of them); `OperandsAssumption`; `DecodeAssumption`; `WidthAssumption`
(a byte has at least two bits and is no wider than a word or a dword, and the
adjust flag is about the lower part of one). The others say more:

* `GapAssumption`: no read-only instruction reaches the first writeable address,
  because a fetch needs 16 bytes of one section and sections lie at multiples of
  64 KiB.
* `InstrsAssumption`: what arguments the opcode table gives the logic functions
  of `Operands`, their kinds and how their sizes go together, the index of a bit
  test that is a byte being an immediate among them; the run `operands`,
  whose instructions are made from `OpcodeTable`, evaluates it. That of `Stack`
  is about sizes and kinds, too, and says that the room an `enter` may ask for is
  below the first writeable address, because it is a word (`ops.rs:75`).
* `StartsAssumption`: a program starts with registers, memory and flags that fit.
* `TopUnmapped`, a hypothesis of the refinement of `StackSpec` and no assumption:
  the last unit of the address space is not mapped. The code lets a host map the
  section at `0xFFFF0000`; a push with `esp` near 0 then wraps and succeeds at
  the far end of memory, and what is there is no stack that began above. The
  sections of the run `stack` satisfy it.
* `TableAssumption`, `LogicAssumption`: facts about the opcode table, which is a
  closed expression: its entries are well-formed (an immediate byte is the last
  immediate, operands in ModR/M need a ModR/M byte), give each logic function the sizes and
  kinds it accepts, but for the byte index of `btr` (`ByteIndex`), and declare every
  opcode that sets `eip` or ends execution as a jump, but for `enter` (`DecodedPast`). TLC evaluates both on the whole table.
* `ProgramAssumption`: the programs of `Arithmetic` are what their names say, with
  operands of their size; those with a decimal adjustment are of real bytes (8
  bits, with a nibble of 4) and start with decimal digits (`Prepared`).
* `IndexAssumption`: a bit index that is sign-extended from a word to a double word
  is the same modulo the bits of a word (0xFFFF0000 is a multiple of 16); the width
  of a byte is a constant, and not all of them have this.
* `PowerAssumption`: `2 ^ 0 = 1` and `2 ^ (k + 1) = 2 * 2 ^ k` as far as shifts, the
  flags' bits and eight bytes go, which the provers do not know of `^`.

**The pipeline.** `Spec => []Inv` (`PlanInvariant`) is the heart. `TypeOK` and
the properties are not inductive: that a slot runs with the gas the decoder
predicted depends on all slots before it. `PlanInv` describes the slots of a
cycle as a chain: each follows the one before in address and gas (`ChainInv`),
that one could be paid and left gas, and goes straight on or by a relative
jump; its arguments are those of the instruction (`SlotInv`); only padding
follows the last (`PaddingInv`); `FillInv` says where filling stands, `ExecInv`
where execution does. `GasBound`, `Prediction` and `ErrorAddress` follow from
it: nothing is decoded past the end of the gas; every instruction runs at the
`eip` and with the gas that `fill_pipeline` computed; `error_eip` is the address
the failing instruction was decoded from. The last two need `NoEnter`.
`OutOfGas`: when gas runs out none is left, `eip` is where execution resumes, and
the machine is as far as was paid: an instruction that is not a string repetition
has changed nothing, and a repetition has executed the elements that it has counted
off `ecx`, gas having lasted to the last of them and no further; a `rep stos` has
stored these elements and no other byte.

**Prefetching.** `CodeInvariant` (with `PlanInvariant`: `InductiveInvariant`)
adds that a decoded slot that has not run is what decoding memory now would give
(`FreshInv`): a read-only slot cannot be written by a program, a hypervisor ends
the pipeline, and writeable memory runs one slot at a time as long as the
program does not lead the decoder into it (`Contained`). `Freshness` (which also
needs `NoEnter`) and `OneSlot` follow under that condition, and not without it: the
run `writeable_crossing` violates `OneSlot` with a program that is not `Contained`.
`Refinement`: under `Transparent` (no `enter`, `Contained`, whatever the decoder follows is mapped, no `rep` in front of an
opcode with arguments) the pipelined machine implements `Isa`. Those conditions
are not technical: without each of them the code departs from `Isa` (Findings,
Deviations).

**Repetitions.** `Registers`, `Gas` and `Search` are invariants with
`TypeCorrect`; the stride of `esi` and `edi` modulo the address space needs the
lemmas of `Mathematics`. `Refinement`: every iteration is a step of
`RepSpec`, and what gas does is not visible there, as long as the bytes of the
instruction are `Intact` when the host resumes. One that overwrote itself before gas
ran out has done a part of the whole, and what is decoded next is something else
(`ResumeReplaced`): there the end of the gas can be noticed. `Block` says what a repetition
has written at any moment: the block that its registers speak of and nothing
else. It follows from `ElementsWritten`, the same element by element, which is
inductive because writeable memory does not start at 0: a repetition that runs
over the top of the address space meets read-only memory and stops, so that no
element overwrites an earlier one (`WhereNext`), while the source of a `movs` may
wrap around. `MovesInOrder` is the programmer's rule: upwards to a lower
address, or downwards to a higher one, nothing is overwritten that has yet to be
read.

**Memory.** `TypeCorrect`, then under `SizesFit` (no section is larger than the
limit that `add_memory` documents) `Disjoint` and `Refinement`: the map of
sections implements `FlatMemory`, with the union of the sections as its array.

**The stack.** `TypeCorrect`, then `Refinement`: under `TopUnmapped` the stack
opcodes implement `StackSpec`. The abstract stack is what memory holds between
`esp` and `base`, the highest address that `esp` has had; the proof is about this
sequence. `Intact` says when two memories agree on it, `Grew` and `Shrank` how it
changes when `esp` moves. `PushWorks` and `PopWorks` are about one access, and
`PushaWorks`, `EnterWorks`, `RetWorks` and the others about the chains of them that
an opcode is: a chain that fails has left the stack a tail of what it was, or the
other way round (`Failure`), because a push that wraps below 0 comes to where
nothing is mapped. `call` and `ret` move `eip` by less than they should, because
`cycle` adds the size of the instruction, and `BackAgain` is that the wrapped sum
comes out right. `pushf` and `popf` need that a sum of powers of two has
the bits it was made from (`StoredIs`, from `Positional`).

**Operands.** `TypeCorrect`: registers and bytes keep their widths, and no error is
one of `TooBigSizeExpectation` and `WroteUnwriteableArgument`: the sizes in the
table are such that no logic function stores a value too big for its place. That
a byte or a half word written into a register leaves the rest of it where it
was is `Splice`; a number read from memory has the bytes that are there
(`GetMemIs`, `Positional`), a bit set or reset changes that bit (`BitChanged`).
`Atomicity`: an instruction that fails has changed neither
registers nor memory. Each access writes or fails (`SetKeeps`, `SetMemKeeps`),
and writing a register cannot fail (`SetRegSucceeds`); most functions write
once. The argument is about those that do more: bit tests and `cmpxchg8b` set a
flag first, which stays, and `xchg` writes twice, where the second
operand is a register and what is written to it has its size (`XchgKeeps`).
With the operands of `xchg` the other way round it would not hold.

`Refinement`: every instruction implements `OperandSpec`, whatever its operands
are, those that overlap each other, the registers of their own address or the ends
of memory included. The proof sees a machine in the middle of a logic function as
the promise does, as a byte at every place (`View`). `Puts` says that from one
machine to another the bytes at some places, and no others, became given ones, and
`Correct` that a machine is what the promise says of an instruction; `CorrectStep`
is that a step to a correct machine is a step of the promise.

* An accessor is a fact about places: what `get_arg` returns is the number whose
  bytes are at the operand's places, if they are accessible, and an error otherwise
  (`GetReads`); `set_arg` puts the bytes of a number there or fails and writes
  nothing (`SetPuts`). Under it are the registers as rows of four bytes
  (`RegisterPuts`, `SplicedBytes`) and memory within a section (`MemoryAccess`).
* Numbers and bytes: `Digits` are the bytes of a number, and a number is the sum of
  its bytes (`NumberIs`, for the address of an operand). What the logic functions do
  with numbers is then what the promise does with bytes: an extension adds bytes of
  zeros or of ones (`ZerosIs`, `OnesAbove`, `SignIs`), `bswap` reverses them
  (`Reversed`), a conversion that truncates cuts them off (`DigitsCut`).
* Bits: the bits of a number are those of its bytes (`BitsAre`), and a byte is
  nothing but its bits (`SameByte`); so a bit test changes one of them (`OneBit`)
  and `lahf` makes a byte from flags (`PackedIs`).
* Order: `xchg` writes twice, and its second write spoils nothing of its first one,
  because operands of one size have all of their places in common or none
  (`PutsTwice`, `PlacesMeet`);
  `cmpxchg8b` sets a flag, then stores eight bytes or loads two registers
  (`EightBytes`, `LoadsPair`).

Each logic function then has a lemma that its machine is `Correct` (`MovCorrect`
to `Cmpxchg8bCorrect`), and `StepImplements` joins them.

**Decoding.** `Invariance`: `DecodeInv!Inv` is inductive. `Progress` says for
each phase of the decoder how many bytes of the instruction it has read and that
they are the right ones: the prefixes up to here (`RepMode`: the last rep among
them counts), the opcode with its entry of the table, the ModR/M byte with SIB
and displacement (`ModRMRead`), the immediates of the arguments so far
(`Before`). What the decoder makes of a ModR/M byte is compared with what the
assembler meant by it in `DecodesTo`, mode by mode of the encoding.
`Outcome` collects what stops it. The properties follow: `DecodedOperands` (the
slot's arguments are the operands that were meant), `Lengths` (decoding stays
within the bytes of the instruction and takes all of them), `Charge`, `Refusals`,
`Acceptance` and `Endings` (both with `LogicAssumption`). `Acceptance` says which
instructions decode although nothing but failure can come of them: the three kinds
of `Rejected`, and no others. `Endings` says behind which instructions the pipeline
goes on being filled: behind those that are no `Transfers`, and behind `enter`, which
is one all the same (`DecodedPast`). It assumes that the levels of the gas schedule other than None cost something: with a schedule that
charges nothing for jumps a loop would run for ever.

**Arithmetic.** But for `Decimals` the theorems hold for every width of a byte, a
word and a dword, those of the program (8, 16 and 32) among them. `Types`: no opcode's result leaves
its register; with `GivenInv`, what a program started with, this is `TypeInv`,
which the others add to. `Comparisons`, `LongNumbers`, `Exchanges`, `Products`,
`Counts`, `Carries` and `Decimals` each have an invariant per program: what is left to do
(`todo` is the code, its tail, the tail of that) determines what registers and
carry hold. A step is then a fact about one opcode (`AddIs`, `SubIs`, `MulIs`,
`ShlIs`, `RclTurns`...) and the end a fact about numbers of two words
(`LongSum`, `LongLeft`...) or of decimal digits (`SumToDigits`). Those rest on `Mathematics`: remainders of sums
and multiples, a number split at a power of two (`Nested`, `TwoWords`), a ring
of bits turned (`TurnRing`). That a set of bits is a number's, and only one's
(`Exists`, `Unique`), is by induction on its width; the induction theorems of the
library cannot be instantiated, but the least counterexample can be had from the
well-foundedness of the naturals, which speaks of sets (`Least`, `Induction`).

The library's theorems about folds and sums take operators as parameters and cannot
be instantiated either. `Mathematics` proves instead that a fold over a finite set
is the value of a function defined by recursion over its subsets, whichever element
comes first (`FoldExists`, `FoldUnique`, `SumExists`), and that a set of amounts, one
for each digit, adds up to the number with these digits (`Positional`).

**Only model-checked**: liveness (`Terminates`) and ENABLED, which the prover does
not do; and the programs outside of `Transparent` in `pipeline_ram`.

## Findings

Each is a run that TLC finds violated.

| Run | Code | Contradicts |
|---|---|---|
| `prefetch_error` | `vm.rs:430`: an error of decoding ahead ends `cycle()` before the instructions in front of it have run | `vm.rs:528`, `PIPELINE_SIZE` does not affect results |
| `writeable_crossing` | `pipeline.rs:105`: whether memory is writeable is decided once per cycle, at its first `eip` | `pipeline.rs:184`, one slot at a time in writeable space; `vm.rs:56`, a surcharge for every opcode there |
| `memory_overlap` | `memory.rs:33`: `add_memory` does not look at `size` | `memory.rs:32`, the maximum size is 0x10000; `vm.rs:167`, conflicts are errors |

### Deviations

From i686 and from comments in the code. The modules have these as the code has
them, and the properties leave out, or state exactly, the operands they concern.

| Code | What it does | Where stated |
|---|---|---|
| `ops.rs:76` | `enter` adds 3 to `eip`, which the cycle advances by the whole instruction anyway; slots are decoded right behind it | `NoEnter`, `DecodedPast` |
| `ops.rs:105` | a nesting `enter` computes `esp` from before its nested pushes, which end up in the room of the locals | `StackSpec` `Enter` |
| `pipeline.rs:94` | `clear_pipeline` clears the first slot, as often as there are slots | `BeginCycle`; `Transparent` on `rep` |
| `vm.rs:430` | an error of `fill_pipeline` does not set `error_eip` (`vm.rs:22`) | `ErrorLocated` speaks of execution |
| `ops.rs:402`, `vm.rs:218` | `call`, `pushf` and `enter` with an operand size prefix push a Dword, which is refused after `esp` has moved | `StackSpec` `Failure`, `Rejected` |
| `ops.rs:412` | a call through memory reads its operand again after its push | `StackSpec` `Call` |
| `ops.rs:389` | a 16-bit `ret` masks its target before the size of `ret` is added back | `StackSpec` `Ret` |
| `ops.rs:1306`, `1334` | `adc` and `sbb` make two additions and lose the carry of the first | `LongArithmetic` |
| `ops.rs:1649` | `test` writes its result, except for bytes | `ExecTest` |
| `ops.rs:1133` | counts of shifts are not reduced: zero overflows in `count - 1`, and so do counts of the width and more; what comes of it depends on the build | `ShiftCounts` |
| `ops.rs:1307` | `adc` and `sbb` read a source that is their destination after the carry is in it | `SelfAdc` |
| `ops.rs:1106`, `1107` | 16-bit `shl` takes its carry from bit 12, and zero from the untruncated result | `LongShift`, `CarryRight` |
| `ops.rs:809` | `rcl` and `rcr` of bytes and words take the count modulo 8 and 16, for rings of 9 and 17 bits | `Rotation`, `whole_turn` |
| `ops.rs:520` | 8- and 16-bit `idiv` zero-extend the divisor and check for an unsigned quotient | `Extends` |
| `ops.rs:549` | 32-bit `idiv` extends the sign of `eax` over `edx`; the smallest dividend by -1 panics | `Extends`, `SignedArithmetic` |
| `ops.rs:615` | 8-bit `imul` zero-extends `al` | `SignedArithmetic` |
| `ops.rs:659` | `imul` sets carry and overflow for every negative product | `ProductFits` |
| `ops.rs:217` | `cwde` takes 0x8000 to be positive | `SignOfWord` |
| `ops.rs:169` | `sahf` sets the flags above its byte to zero | `FlagsAfter` |
| `ops.rs:245` | a bit test in memory takes its index modulo the operand's width | `Selected` |
| `ops.rs:274` | `bit_test_reset` wants a Dword index: `btr r/m32, imm8` always fails | `ByteIndex`, `Rejected` |
| `vm.rs:301`, `ops.rs:1587` | `lea` and `cmpxchg8b` of a register decode, and always fail | `Rejected` |
| `ops.rs:1966` | a repetition that overwrites its own bytes ends as planned while gas lasts; resumed after `OutOfGas` it is another instruction | `ResumeReplaced` |
| `vm.rs:306`, `321` | `set_arg` documents an error for values that are too large, and truncates them for ModR/M and SIB addresses | `Converted` |
| `decoding.rs:209` | six bytes are demanded of what is left of the 16, even for `nop` | `Outcome` |
| `decoding.rs:273` | a register that the opcode implies is charged as memory | `Cost` |
| `pipeline.rs:40` | the address size prefix is `unimplemented!()`; sixteen prefixes, an opcode of two bytes 0F FF and a byte immediate past the buffer panic as well | `Outcome` |
| `opcodes.rs:73`, `529` | `jmp rel` with a hard coded target is unpredictable, and not followed | `OpcodeTable` |
| `opcodes.rs:80`, `1378` | `int` is said to be unpredictable without the surcharge, and pays it | `OpcodeTable`, `Cost` |
| `opcodes.rs:470` | `push imm8` does not extend the sign | `Demands` |

## Not modelled

* **`test_16bit`, `test_32bit`, `convert_size_sx`**: nothing calls them.
* **`add_memory` of size 0**, which panics with the empty section in the map
  (`memory.rs:46`), and in general what a panic leaves behind: a host that
  catches one cannot go on with the VM.
* **Stacks that are not aligned to half words.**
* **The hypervisor** beyond one call that fails or writes a cell: the trait has
  no implementation in the library.
* **16-bit jumps** past the point where the pipeline refuses them.
* **The gas schedule's numbers**: a constant of the modules, in `decode` such
  that no two sums of surcharges are the same.
* **The tests' assembler and the benchmarks**: nothing of the machine.

## Plan

Done: the pipeline with its refinement and proofs, repetitions with theirs,
memory with its, the stack with its refinement, arithmetic with all shift counts
and its proofs for every width, the opcode table, decoding with the proof that it
inverts assembling, operands with the proofs of their types, that failures are
atomic and of their refinement.

Left: composition: the representatives of `Vm` as an abstraction of what `Decode`
gives, so that `Straight`, `RelativeJump` and the sizes come from the table; and
`Isa` over bytes instead of instructions at addresses.
