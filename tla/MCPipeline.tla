------------------------------ MODULE MCPipeline ----------------------------
(***************************************************************************)
(* Small instances of Pipeline.  Read-only code at 0 .. 2, writeable code  *)
(* at 5 .. 7; instructions of one and two bytes.                           *)
(***************************************************************************)
EXTENDS PipelineIsa

I(f, size, rel, to, value) ==
  [function |-> f, size |-> size, rel |-> rel, to |-> to, value |-> value]

MCCode ==
  [nop    |-> I("nop", 1, 0, 0, "nop"),
   inc    |-> I("increment", 1, 0, 0, "nop"),
   back   |-> I("jmp_rel", 2, -3, 0, "nop"),
   ahead  |-> I("jmp_rel", 2, -1, 0, "nop"),
   toram  |-> I("jmp_rel", 2, 3, 0, "nop"),
   jmp16  |-> I("jmp_rel16", 2, -3, 0, "nop"),
   jcxz   |-> I("jcxz", 2, -3, 0, "nop"),
   jabs   |-> I("jmp_abs", 2, 0, 0, "nop"),
   hlt    |-> I("hlt", 1, 0, 0, "nop"),
   ud     |-> I("op_undefined", 1, 0, 0, "nop"),
   int    |-> I("interrupt", 1, 0, 1, "hlt"),
   movram |-> I("mov", 2, 0, 6, "inc"),
   movrom |-> I("mov", 1, 0, 1, "hlt"),
   enter  |-> I("enter", 2, 0, 7, "hlt"),
   rep    |-> I("rep_lods", 1, 0, 0, "nop"),
   repst  |-> I("rep_stos", 1, 0, 0, "nop"),
   repmov |-> I("rep_mov", 1, 0, 0, "nop")]

MCInstrs == DOMAIN MCCode

(* Without the instructions that decoding ahead is unsafe for.             *)
MCSafeInstrs == MCInstrs \ {"enter", "toram", "jmp16", "repmov"}
MCSafeCode == [i \in MCSafeInstrs |-> MCCode[i]]

MCLoaded == {0, 1, 2, 5, 6, 7}

MCCosts ==
  [None |-> 0, VeryLow |-> 1, Low |-> 2, Moderate |-> 3,
   ConditionalBranch |-> 2, MemoryAccess |-> 1, WriteableMemoryExec |-> 4,
   ModRMSurcharge |-> 1]

Rom(p) == [a \in {0, 1, 2} |-> p[a + 1]]
Memory(rom, ram) ==
  [a \in MCLoaded |-> IF a < 3 THEN rom[a + 1] ELSE ram[a - 4]]

(* Read-only programs over every kind of instruction that never make the   *)
(* decoder follow them into writeable or undecodable memory; jmp ecx may   *)
(* still enter the writeable loop.                                         *)
RomAlphabet == {"nop", "inc", "back", "ahead", "jcxz", "jabs", "hlt", "ud",
                "int", "movram", "movrom", "rep", "repst"}

AllRoms == RomAlphabet \X RomAlphabet \X RomAlphabet

MCRomPrograms ==
  { m \in { Memory(rom, <<"inc", "back", "hlt">>) : rom \in AllRoms } :
      StaysReadOnly(m) /\ NoPrefetchError(m) }

(* Programs in writeable memory, most of which modify themselves.          *)
RamAlphabet == {"inc", "back", "ahead", "jcxz", "jabs", "hlt", "movram",
                "movrom", "rep", "repst", "repmov", "enter", "jmp16"}

MCRamPrograms ==
  { Memory(<<"inc", "inc", "hlt">>, ram) :
      ram \in RamAlphabet \X RamAlphabet \X RamAlphabet }

(* Straight-line code that is stopped before it leaves the section.        *)
MCPrefetchPrograms == { Memory(<<"movrom", "movram", "hlt">>, <<"hlt", "hlt", "hlt">>),
                        Memory(<<"inc", "movram", "hlt">>, <<"hlt", "hlt", "hlt">>) }

(* A read-only jump into writeable memory that modifies itself.            *)
MCCrossingPrograms == { Memory(<<"inc", "toram", "hlt">>, <<"movram", "hlt", "hlt">>),
                        Memory(<<"toram", "hlt", "hlt">>, <<"movram", "hlt", "hlt">>) }

=============================================================================
