-------------------------------- MODULE MCRep -------------------------------
(***************************************************************************)
(* A small instance of Rep: read-only memory at 0 .. 3, writeable memory   *)
(* at 4 .. 7, the top of the address space; words of two bytes; registers  *)
(* of three bits whose lower halves have two.                              *)
(***************************************************************************)
EXTENDS Rep, TLC

MCSections == {0 .. 3, 4 .. 7}

MCContents == { [a \in 0 .. 7 |-> IF a \in s THEN 1 ELSE 0] :
                  s \in {{1, 4}, {1, 2, 5, 6, 7}, {0, 3, 4, 7}} }

AllStarts ==
  [op : StringOpcodes, unit : {1, 2}, direction : BOOLEAN,
   prefix : {"repe", "repne"}, size_override : BOOLEAN,
   code : {{0, 1}, {6, 7}}, mem : MCContents,
   esi : {0, 1, 2, 5, 6}, edi : {3, 4, 5, 6}, acc : {(0 :> 1) @@ (1 :> 0)},
   zero : BOOLEAN, ecx : {0, 2, 3, 4, 7}]

(* Registers that the opcode does not look at have one value, and an       *)
(* instruction that stores nothing is in read-only memory.                 *)
MCStarts ==
  { s \in AllStarts :
      /\ s.op \notin Stores => s.code = {0, 1}
      /\ s.op \notin Loads => s.esi = 1
      /\ s.op = "lods" => s.edi = 4
      /\ s.op \notin Compares => ~s.zero }

=============================================================================
