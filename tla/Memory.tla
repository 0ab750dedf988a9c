-------------------------------- MODULE Memory ------------------------------
(***************************************************************************)
(* MemorySystem and the VM's accessors for it: sections found through the  *)
(* upper bits of an address, accesses of one to eight bytes within one of  *)
(* them, a lower half that programs cannot write and the host can.         *)
(***************************************************************************)
EXTENDS Integers

CONSTANTS
  Space,            \* number of addresses (2^32)
  SectionSize,      \* bytes between two section borders (0x10000)
  WriteableMemory,  \* addresses from here on are writeable (0x80000000)
  Byte,             \* values of a byte
  Zero, First,      \* what new memory holds, First in its first byte (10)
  NewSizes,         \* sizes of the memory a host adds
  Widths            \* widths of accesses

VARIABLES
  map,   \* sections by their addresses
  call   \* the call in progress: its request and what it returns

vars == <<map, call>>

Address == 0 .. Space - 1

ASSUME MemoryAssumption ==
  /\ Space \in Nat
  /\ SectionSize \in Nat \ {0}
  /\ WriteableMemory \in Address
  /\ Zero \in Byte /\ First \in Byte
  /\ NewSizes \subseteq Nat \ {0}
  /\ Widths \subseteq Nat \ {0}

(* The documented limit of add_memory, which it leaves to the host.        *)
SizesFit == \A n \in NewSizes : n <= SectionSize

Requests ==
  [op : {"add"}, at : Address, size : NewSizes] \union
  [op : {"read"}, at : Address, size : Widths] \union
  UNION { [op : {"write", "copy"}, at : Address, size : {n},
           bytes : [0 .. n - 1 -> Byte]] : n \in Widths }

-----------------------------------------------------------------------------

Offset(a) == a % SectionSize
Base(a) == a - Offset(a)

(* section_exists                                                          *)
Loaded(a) == Base(a) \in DOMAIN map

(* get_sized_memory and get_mut_sized_memory: from the address to the end  *)
(* of its section there are enough bytes.                                  *)
Fits(q) == Loaded(q.at) /\ Offset(q.at) + q.size <= map[Base(q.at)].size

(* The error of an access that does not fit; `bad' is its kind.            *)
Error(q, bad) == IF Loaded(q.at) THEN bad ELSE "ReadUnloadedMemory"

None == [status |-> "None"]
Calling(q, op) == call = None /\ q.op = op

Succeed(q, bytes) == call' = [status |-> "Ok", request |-> q, bytes |-> bytes]
Fail(q, error) == call' = [status |-> error, request |-> q]
Refuse(q, error) == Fail(q, error) /\ UNCHANGED map

NewSection(n) ==
  [size |-> n, bytes |-> [o \in 0 .. n - 1 |-> IF o = 0 THEN First ELSE Zero]]

With(q) ==
  [b \in DOMAIN map \union {q.at} |->
     IF b = q.at THEN NewSection(q.size) ELSE map[b]]

Stored(q) ==
  [map EXCEPT ![Base(q.at)].bytes =
     [o \in 0 .. map[Base(q.at)].size - 1 |->
        IF o - Offset(q.at) \in 0 .. q.size - 1
        THEN q.bytes[o - Offset(q.at)] ELSE @[o]]]

-----------------------------------------------------------------------------

(* Mutant: any address will do.                                            *)
AddMemory_Unaligned(q) ==
  /\ Calling(q, "add")
  /\ \/ q.at \in DOMAIN map /\ Refuse(q, "ConflictingMemoryAddition")
     \/ q.at \notin DOMAIN map /\ map' = With(q) /\ Succeed(q, <<>>)

(* Mutant: the section's bytes are the ones it was asked to make room for. *)
AddMemory_Short(q) ==
  /\ Calling(q, "add")
  /\ \/ Offset(q.at) # 0 /\ Refuse(q, "UnalignedMemoryAddition")
     \/ /\ Offset(q.at) = 0 /\ q.at \in DOMAIN map
        /\ Refuse(q, "ConflictingMemoryAddition")
     \/ /\ Offset(q.at) = 0 /\ q.at \notin DOMAIN map
        /\ map' = [With(q) EXCEPT ![q.at].bytes = [o \in {0} |-> First]]
        /\ Succeed(q, <<>>)

AddMemory(q) ==
  /\ Calling(q, "add")
  /\ \/ Offset(q.at) # 0 /\ Refuse(q, "UnalignedMemoryAddition")
     \/ /\ Offset(q.at) = 0 /\ q.at \in DOMAIN map
        /\ Refuse(q, "ConflictingMemoryAddition")
     \/ /\ Offset(q.at) = 0 /\ q.at \notin DOMAIN map
        /\ map' = With(q)
        /\ Succeed(q, <<>>)

(* VM::get_mem and copy_from_memory.                                       *)
ReadMemory(q) ==
  /\ Calling(q, "read")
  /\ \/ /\ Fits(q)
        /\ Succeed(q, [i \in 0 .. q.size - 1 |->
                         map[Base(q.at)].bytes[Offset(q.at) + i]])
        /\ UNCHANGED map
     \/ ~Fits(q) /\ Refuse(q, Error(q, "ReadBadMemory"))

(* Mutant: what fits is written before the end of the section is noticed.  *)
WriteMemory_Partial(q) ==
  /\ Calling(q, "write")
  /\ \/ q.at < WriteableMemory /\ Refuse(q, "WroteReadOnlyMemory")
     \/ /\ q.at >= WriteableMemory /\ Loaded(q.at)
        /\ map' = Stored(q)
        /\ IF Fits(q) THEN Succeed(q, <<>>) ELSE Fail(q, "WroteBadMemory")
     \/ q.at >= WriteableMemory /\ ~Loaded(q.at)
        /\ Refuse(q, Error(q, "WroteBadMemory"))

(* VM::set_mem, the program's writes.                                      *)
WriteMemory(q) ==
  /\ Calling(q, "write")
  /\ \/ q.at < WriteableMemory /\ Refuse(q, "WroteReadOnlyMemory")
     \/ /\ q.at >= WriteableMemory /\ Fits(q)
        /\ map' = Stored(q)
        /\ Succeed(q, <<>>)
     \/ /\ q.at >= WriteableMemory /\ ~Fits(q)
        /\ Refuse(q, Error(q, "WroteBadMemory"))

(* VM::copy_into_memory, the host's writes.                                *)
CopyIntoMemory(q) ==
  /\ Calling(q, "copy")
  /\ \/ /\ Fits(q)
        /\ map' = Stored(q)
        /\ Succeed(q, <<>>)
     \/ ~Fits(q) /\ Refuse(q, Error(q, "WroteBadMemory"))

Return == call # None /\ call' = None /\ UNCHANGED map

Next ==
  \/ Return
  \/ \E q \in Requests :
       AddMemory(q) \/ ReadMemory(q) \/ WriteMemory(q) \/ CopyIntoMemory(q)

Init ==
  /\ map = [b \in {} |-> NewSection(1)]
  /\ call = None

Spec == Init /\ [][Next]_vars

-----------------------------------------------------------------------------
(* Properties                                                              *)

(* Sections start at section borders, and hold as many bytes as they were  *)
(* asked to.                                                               *)
SectionType ==
  UNION { [size : {n}, bytes : [0 .. n - 1 -> Byte]] : n \in NewSizes }

TypeOK ==
  /\ DOMAIN map \subseteq { a \in Address : Offset(a) = 0 }
  /\ map \in [DOMAIN map -> SectionType]

(* No address is in two sections: "memory added conflicts with existing    *)
(* memory" is an error (VMError::ConflictingMemoryAddition).               *)
Extent(b) == b .. b + map[b].size - 1

NoOverlap ==
  \A b, c \in DOMAIN map : b # c => Extent(b) \cap Extent(c) = {}

(* The sections are one flat memory: a read returns what was last written  *)
(* to each of its bytes, a request that fails changes nothing, one that    *)
(* succeeds changes no byte but its own, and no program changes the        *)
(* read-only half.                                                         *)
Ram == [c \in UNION { Extent(b) : b \in DOMAIN map } |->
          map[Base(c)].bytes[Offset(c)]]

Flat == INSTANCE FlatMemory WITH ram <- Ram
ImplementsFlat == Flat!Spec

=============================================================================
