----------------------------- MODULE MemoryProofs ---------------------------
(***************************************************************************)
(* Theorems about Memory, for every address space, section size and        *)
(* contents.                                                               *)
(***************************************************************************)
EXTENDS Memory, Mathematics

(* An address is its section's and its offset.                             *)
LEMMA Split ==
  ASSUME NEW a \in Int
  PROVE  /\ Offset(a) \in 0 .. SectionSize - 1
         /\ Offset(a) \in Int /\ Base(a) \in Int /\ a = Base(a) + Offset(a)
         /\ a \div SectionSize \in Int
         /\ Base(a) = SectionSize * (a \div SectionSize)
<1>1. /\ Offset(a) \in 0 .. SectionSize - 1
      /\ a \div SectionSize \in Int
      /\ a = SectionSize * (a \div SectionSize) + Offset(a)
  BY DivMod, MemoryAssumption DEF Offset
<1>2. SectionSize * (a \div SectionSize) \in Int
  BY <1>1, MemoryAssumption
<1>3. Offset(a) \in Int BY <1>1, MemoryAssumption
<1> QED BY <1>1, <1>2, <1>3, MemoryAssumption DEF Base

(* The addresses that a section at a border has within SectionSize.        *)
LEMMA Join ==
  ASSUME NEW b \in Int, Offset(b) = 0, NEW o \in 0 .. SectionSize - 1
  PROVE  Base(b + o) = b /\ Offset(b + o) = o
<1> DEFINE q == b \div SectionSize
<1>1. q \in Int /\ b = SectionSize * q + 0
  BY DivMod, MemoryAssumption DEF Offset
<1> HIDE DEF q
<1>2. b = SectionSize * q BY <1>1, MemoryAssumption
<1>3. (SectionSize * q + o) % SectionSize = o
  BY <1>1, RemainderOfSum, MemoryAssumption
<1>4. Offset(b + o) = o BY <1>2, <1>3 DEF Offset
<1>5. o \in Int BY MemoryAssumption
<1> QED BY <1>4, <1>5 DEF Base

(* The base of an address is at a border.                                  *)
LEMMA BaseAligned ==
  ASSUME NEW a \in Int
  PROVE  Offset(Base(a)) = 0
<1>1. /\ a \div SectionSize \in Int
      /\ Base(a) = SectionSize * (a \div SectionSize)
  BY Split
<1> QED BY <1>1, Multiple, MemoryAssumption DEF Offset

(* Addresses in one section have one base.                                 *)
LEMMA SameSection ==
  ASSUME NEW a \in Int, NEW c \in Int
  PROVE  Base(c) = Base(a) <=> c \div SectionSize = a \div SectionSize
<1>1. /\ a \div SectionSize \in Int /\ c \div SectionSize \in Int
      /\ Base(a) = SectionSize * (a \div SectionSize)
      /\ Base(c) = SectionSize * (c \div SectionSize)
  BY Split
<1>2. /\ (SectionSize * (a \div SectionSize)) \div SectionSize
            = a \div SectionSize
      /\ (SectionSize * (c \div SectionSize)) \div SectionSize
            = c \div SectionSize
  BY <1>1, Multiple, MemoryAssumption
<1> QED BY <1>1, <1>2

-----------------------------------------------------------------------------

(* What is known of a section.                                             *)
LEMMA SectionFacts ==
  ASSUME TypeOK, NEW b \in DOMAIN map
  PROVE  /\ b \in Nat /\ Offset(b) = 0
         /\ map[b].size \in NewSizes /\ map[b].size \in Nat \ {0}
         /\ map[b].bytes \in [0 .. map[b].size - 1 -> Byte]
         /\ map[b] = [size |-> map[b].size, bytes |-> map[b].bytes]
<1>1. b \in Nat /\ Offset(b) = 0 /\ map[b] \in SectionType
  BY DEF TypeOK, Address
<1>2. PICK n \in NewSizes :
        map[b] \in [size : {n}, bytes : [0 .. n - 1 -> Byte]]
  BY <1>1 DEF SectionType
<1> QED BY <1>1, <1>2, MemoryAssumption

(* What is known of a request.                                             *)
LEMMA RequestFacts ==
  ASSUME NEW q \in Requests
  PROVE  /\ q.at \in Address /\ q.at \in Nat /\ q.size \in Nat \ {0}
         /\ q.op = "add" => q.size \in NewSizes
         /\ q.op \in {"write", "copy"} =>
              q.bytes \in [0 .. q.size - 1 -> Byte]
<1> USE MemoryAssumption
<1>4. \A a \in Address : a \in Nat BY DEF Address
<1>1. CASE q \in [op : {"add"}, at : Address, size : NewSizes]
  <2>1. q.at \in Address /\ q.size \in NewSizes /\ q.op = "add" BY <1>1
  <2> QED BY <1>4, <2>1
<1>2. CASE q \in [op : {"read"}, at : Address, size : Widths]
  <2>1. q.at \in Address /\ q.size \in Widths /\ q.op = "read" BY <1>2
  <2> QED BY <1>4, <2>1
<1>3. CASE \E n \in Widths :
             q \in [op : {"write", "copy"}, at : Address, size : {n},
                   bytes : [0 .. n - 1 -> Byte]]
  <2>1. /\ q.at \in Address /\ q.size \in Widths
        /\ q.op \in {"write", "copy"}
        /\ q.bytes \in [0 .. q.size - 1 -> Byte]
    BY <1>3
  <2> QED BY <1>4, <2>1
<1> QED BY <1>1, <1>2, <1>3 DEF Requests

(* A new section and a written one are sections.                           *)
LEMMA NewSectionType ==
  ASSUME NEW n \in NewSizes
  PROVE  NewSection(n) \in SectionType
<1>1. [o \in 0 .. n - 1 |-> IF o = 0 THEN First ELSE Zero]
        \in [0 .. n - 1 -> Byte]
  BY MemoryAssumption
<1> QED BY <1>1 DEF NewSection, SectionType

(* What With does to the sections.                                         *)
LEMMA WithFacts ==
  ASSUME TypeOK, NEW q \in Requests, q.op = "add", q.at \notin DOMAIN map
  PROVE  /\ DOMAIN With(q) = DOMAIN map \union {q.at}
         /\ With(q) \in [DOMAIN map \union {q.at} -> SectionType]
         /\ With(q)[q.at] = NewSection(q.size)
         /\ \A b \in DOMAIN map : With(q)[b] = map[b]
<1>1. NewSection(q.size) \in SectionType BY RequestFacts, NewSectionType
<1>2. map \in [DOMAIN map -> SectionType] BY DEF TypeOK
<1> QED BY <1>1, <1>2 DEF With

(* What Stored does to the sections.                                       *)
LEMMA StoredFacts ==
  ASSUME TypeOK, NEW q \in Requests, q.op \in {"write", "copy"}, Fits(q)
  PROVE  /\ DOMAIN Stored(q) = DOMAIN map
         /\ Stored(q) \in [DOMAIN map -> SectionType]
         /\ \A b \in DOMAIN map :
              /\ Stored(q)[b].size = map[b].size
              /\ \A o \in 0 .. map[b].size - 1 :
                   Stored(q)[b].bytes[o] =
                     IF b = Base(q.at) /\ o - Offset(q.at) \in 0 .. q.size - 1
                     THEN q.bytes[o - Offset(q.at)]
                     ELSE map[b].bytes[o]
<1> DEFINE s == Base(q.at)
           new == [o \in 0 .. map[s].size - 1 |->
                     IF o - Offset(q.at) \in 0 .. q.size - 1
                     THEN q.bytes[o - Offset(q.at)] ELSE map[s].bytes[o]]
<1>1. s \in DOMAIN map BY DEF Fits, Loaded
<1>2. Stored(q) = [map EXCEPT ![s] = [size |-> map[s].size, bytes |-> new]]
  <2>1. map[s] = [size |-> map[s].size, bytes |-> map[s].bytes]
    BY <1>1, SectionFacts
  <2> HIDE DEF new, s
  <2>2. [map[s] EXCEPT !.bytes = new] = [size |-> map[s].size, bytes |-> new]
    BY <2>1
  <2>3. Stored(q) = [map EXCEPT ![s] = [map[s] EXCEPT !.bytes = new]]
    BY DEF Stored, new, s
  <2> QED BY <2>2, <2>3
<1>3. new \in [0 .. map[s].size - 1 -> Byte]
  BY <1>1, SectionFacts, RequestFacts
<1>4. [size |-> map[s].size, bytes |-> new] \in SectionType
  <2>1. map[s].size \in NewSizes BY <1>1, SectionFacts
  <2> HIDE DEF new, s
  <2> QED BY <1>3, <2>1 DEF SectionType
<1> HIDE DEF new
<1>5. /\ DOMAIN Stored(q) = DOMAIN map
      /\ Stored(q) \in [DOMAIN map -> SectionType]
  BY <1>1, <1>2, <1>4 DEF TypeOK
<1>6. ASSUME NEW b \in DOMAIN map
      PROVE  /\ Stored(q)[b].size = map[b].size
             /\ \A o \in 0 .. map[b].size - 1 :
                  Stored(q)[b].bytes[o] =
                    IF b = s /\ o - Offset(q.at) \in 0 .. q.size - 1
                    THEN q.bytes[o - Offset(q.at)]
                    ELSE map[b].bytes[o]
  <2>1. CASE b = s
    <3>1. Stored(q)[b] = [size |-> map[s].size, bytes |-> new]
      BY <1>1, <1>2, <2>1 DEF TypeOK
    <3> QED BY <2>1, <3>1 DEF new
  <2>2. CASE b # s BY <1>1, <1>2, <2>2 DEF TypeOK
  <2> QED BY <2>1, <2>2
<1> QED BY <1>5, <1>6

-----------------------------------------------------------------------------
(* The flat memory that sections of permitted sizes are                    *)

Present(c) == Loaded(c) /\ Offset(c) < map[Base(c)].size

RamIs ==
  /\ DOMAIN Ram \subseteq Int
  /\ \A c \in Int : c \in DOMAIN Ram <=> Present(c)
  /\ \A c \in DOMAIN Ram : Ram[c] = map[Base(c)].bytes[Offset(c)]
  /\ Ram = [c \in DOMAIN Ram |-> Ram[c]]

LEMMA RamFacts ==
  SizesFit /\ TypeOK => RamIs
<1> SUFFICES ASSUME SizesFit, TypeOK PROVE RamIs
  OBVIOUS
<1>1. DOMAIN Ram = UNION { Extent(b) : b \in DOMAIN map }
  BY DEF Ram
<1>2. ASSUME NEW b \in DOMAIN map
      PROVE  /\ b \in Nat /\ Offset(b) = 0
             /\ map[b].size \in Nat /\ map[b].size <= SectionSize
  BY SectionFacts DEF SizesFit
<1>3. DOMAIN Ram \subseteq Int
  BY <1>1, <1>2 DEF Extent
<1>4. ASSUME NEW c \in Int, NEW b \in DOMAIN map, c \in Extent(b)
      PROVE  Base(c) = b /\ Offset(c) < map[b].size
  <2> DEFINE o == c - b
  <2>1. o \in 0 .. map[b].size - 1 /\ o \in 0 .. SectionSize - 1
    BY <1>2, <1>4, MemoryAssumption DEF Extent
  <2>2. c = b + o BY <1>2
  <2> HIDE DEF o
  <2>3. Base(c) = b /\ Offset(c) = o
    BY <1>2, <2>1, <2>2, Join
  <2> QED BY <1>2, <2>1, <2>3
<1>5. ASSUME NEW c \in Int, Present(c)
      PROVE  c \in Extent(Base(c))
  BY <1>2, <1>5, Split DEF Present, Loaded, Extent
<1>6. \A c \in Int : c \in DOMAIN Ram <=> Present(c)
  BY <1>1, <1>4, <1>5 DEF Present, Loaded
<1> QED BY <1>3, <1>6 DEF Ram, RamIs

(* An access fits into a section exactly when all of its bytes are there   *)
(* and in one section.                                                     *)
LEMMA FitsIffAvailable ==
  ASSUME SizesFit, TypeOK, NEW q \in Requests
  PROVE  Fits(q) <=> Flat!Available(q)
<1>1. q.at \in Nat /\ q.size \in Nat \ {0} BY RequestFacts
<1>2. ASSUME Loaded(q.at)
      PROVE  /\ map[Base(q.at)].size \in Nat
             /\ map[Base(q.at)].size <= SectionSize
             /\ Offset(Base(q.at)) = 0
  BY <1>2, SectionFacts DEF SizesFit, Loaded
<1>3. ASSUME Fits(q), NEW c \in Flat!Cells(q)
      PROVE  c \in DOMAIN Ram /\ Flat!Section(c) = Flat!Section(q.at)
  <2> DEFINE o == Offset(q.at) + (c - q.at)
  <2>1. /\ Loaded(q.at) /\ c \in Int
        /\ o \in 0 .. map[Base(q.at)].size - 1
        /\ o \in 0 .. SectionSize - 1
        /\ c = Base(q.at) + o
        /\ Base(q.at) \in Int
    <3>1. /\ Offset(q.at) \in 0 .. SectionSize - 1
          /\ Base(q.at) \in Int /\ q.at = Base(q.at) + Offset(q.at)
      BY <1>1, Split
    <3>2. Loaded(q.at) /\ Offset(q.at) + q.size <= map[Base(q.at)].size
      BY <1>3 DEF Fits
    <3>3. c \in Int /\ q.at <= c /\ c <= q.at + q.size - 1
      BY <1>1 DEF Flat!Cells
    <3> QED BY <1>1, <1>2, <3>1, <3>2, <3>3, MemoryAssumption
  <2> HIDE DEF o
  <2>2. Base(c) = Base(q.at) /\ Offset(c) = o
    BY <1>2, <2>1, Join
  <2>3. Present(c) BY <1>2, <2>1, <2>2 DEF Present, Loaded
  <2> QED
    BY <1>1, <2>1, <2>2, <2>3, RamFacts, SameSection DEF RamIs, Flat!Section
<1>4. ASSUME Flat!Available(q) PROVE Fits(q)
  <2> DEFINE last == q.at + (q.size - 1)
  <2>1. /\ last \in Flat!Cells(q) /\ last \in Int /\ q.at \in Int
    BY <1>1 DEF Flat!Cells
  <2>2. last \in DOMAIN Ram /\ Flat!Section(last) = Flat!Section(q.at)
    BY <1>4, <2>1 DEF Flat!Available
  <2>3. Present(last) /\ Base(last) = Base(q.at)
    BY <1>1, <2>1, <2>2, RamFacts, SameSection DEF RamIs, Flat!Section
  <2>4. Offset(last) = Offset(q.at) + (q.size - 1)
    <3>1. /\ last = Base(last) + Offset(last) /\ q.at = Base(q.at) + Offset(q.at)
          /\ Base(last) \in Int /\ Offset(last) \in Int
          /\ Offset(q.at) \in Int
      <4> HIDE DEF last
      <4> QED BY <2>1, Split
    <3> QED BY <1>1, <2>3, <3>1
  <2>5. Loaded(q.at) BY <2>3 DEF Present, Loaded
  <2>6. Offset(q.at) \in Int BY <2>1, Split
  <2> QED BY <1>1, <1>2, <2>3, <2>4, <2>5, <2>6 DEF Fits, Present
<1> QED BY <1>3, <1>4 DEF Flat!Available

-----------------------------------------------------------------------------

(* Sections lie at section borders and hold the bytes they were asked to:  *)
(* what every access's bounds check, made against the section's size,      *)
(* relies on.                                                              *)
THEOREM TypeCorrect == Spec => []TypeOK
<1>1. Init => TypeOK
  BY DEF Init, TypeOK
<1>2. TypeOK /\ [Next]_vars => TypeOK'
  <2> SUFFICES ASSUME TypeOK, [Next]_vars PROVE TypeOK'
    OBVIOUS
  <2>1. CASE UNCHANGED map
    BY <2>1 DEF TypeOK, SectionType, Offset
  <2>2. ASSUME NEW q \in Requests, AddMemory(q) PROVE TypeOK'
    <3>1. CASE Offset(q.at) = 0 /\ q.at \notin DOMAIN map /\ map' = With(q)
      <4>1. q.op = "add" BY <2>2 DEF AddMemory, Calling
      <4>2. /\ DOMAIN map' = DOMAIN map \union {q.at}
            /\ map' \in [DOMAIN map \union {q.at} -> SectionType]
        BY <3>1, <4>1, WithFacts
      <4>3. q.at \in Address BY RequestFacts
      <4> QED BY <3>1, <4>2, <4>3 DEF TypeOK, SectionType, Offset
    <3> QED BY <2>1, <2>2, <3>1 DEF AddMemory, Refuse
  <2>3. ASSUME NEW q \in Requests, WriteMemory(q) \/ CopyIntoMemory(q)
        PROVE  TypeOK'
    <3>1. CASE Fits(q) /\ map' = Stored(q)
      <4>1. q.op \in {"write", "copy"}
        BY <2>3 DEF WriteMemory, CopyIntoMemory, Calling
      <4>2. DOMAIN map' = DOMAIN map /\ map' \in [DOMAIN map -> SectionType]
        BY <3>1, <4>1, StoredFacts
      <4> QED BY <4>2 DEF TypeOK, SectionType, Offset
    <3> QED BY <2>1, <2>3, <3>1 DEF WriteMemory, CopyIntoMemory, Refuse
  <2> QED
    BY <2>1, <2>2, <2>3 DEF Next, vars, Return, ReadMemory, Refuse
<1> QED BY <1>1, <1>2, PTL DEF Spec

(* Of sections no larger than the limit that add_memory documents, no two  *)
(* have an address in common.                                              *)
THEOREM Disjoint ==
  ASSUME SizesFit
  PROVE  Spec => []NoOverlap
<1>1. TypeOK => NoOverlap
  <2> SUFFICES ASSUME TypeOK, NEW b \in DOMAIN map, NEW c \in DOMAIN map,
                      NEW a \in Extent(b), a \in Extent(c)
               PROVE  b = c
    BY DEF NoOverlap
  <2>1. ASSUME NEW d \in DOMAIN map, a \in Extent(d)
        PROVE  Base(a) = d
    <3> DEFINE o == a - d
    <3>1. /\ d \in Nat /\ Offset(d) = 0
          /\ map[d].size \in Nat /\ map[d].size <= SectionSize
      BY SectionFacts DEF SizesFit
    <3>2. o \in 0 .. SectionSize - 1 /\ a = d + o
      BY <2>1, <3>1, MemoryAssumption DEF Extent
    <3> HIDE DEF o
    <3> QED BY <3>1, <3>2, Join
  <2> QED BY <2>1
<1> QED BY <1>1, TypeCorrect, PTL

-----------------------------------------------------------------------------
(* The sections implement the flat memory                                  *)

(* A section added is memory where there was none.                         *)
LEMMA Added ==
  ASSUME SizesFit, TypeOK, NEW q \in Requests, q.op = "add",
         Offset(q.at) = 0, q.at \notin DOMAIN map,
         NEW c \in Int
  PROVE  /\ c \in Flat!Cells(q) <=>
              Base(c) = q.at /\ Offset(c) < q.size
         /\ c \in Flat!Cells(q) => c \notin DOMAIN Ram
<1>1. /\ q.at \in Int /\ q.size \in Nat \ {0} /\ q.size <= SectionSize
  BY RequestFacts DEF SizesFit
<1>2. ASSUME c \in Flat!Cells(q) PROVE Base(c) = q.at /\ Offset(c) < q.size
  <2> DEFINE o == c - q.at
  <2>1. o \in 0 .. q.size - 1 /\ o \in 0 .. SectionSize - 1 /\ c = q.at + o
    BY <1>1, <1>2, MemoryAssumption DEF Flat!Cells
  <2> HIDE DEF o
  <2>2. Base(c) = q.at /\ Offset(c) = o BY <1>1, <2>1, Join
  <2> QED BY <1>1, <2>1, <2>2
<1>3. ASSUME Base(c) = q.at, Offset(c) < q.size PROVE c \in Flat!Cells(q)
  <2>1. Offset(c) \in 0 .. SectionSize - 1 /\ c = Base(c) + Offset(c)
    BY Split
  <2> QED BY <1>1, <1>3, <2>1, MemoryAssumption DEF Flat!Cells
<1>4. ASSUME Base(c) = q.at PROVE c \notin DOMAIN Ram
  BY <1>4, RamFacts DEF RamIs, Present, Loaded
<1> QED BY <1>2, <1>3, <1>4

(* The bytes of an access that fits are those of one section.              *)
LEMMA Accessed ==
  ASSUME TypeOK, NEW q \in Requests, Fits(q),
         SizesFit, NEW c \in Int
  PROVE  c \in Flat!Cells(q) <=>
           Base(c) = Base(q.at) /\ Offset(c) - Offset(q.at) \in 0 .. q.size - 1
<1>1. q.at \in Int /\ q.size \in Nat \ {0} BY RequestFacts
<1>2. /\ Offset(q.at) \in 0 .. SectionSize - 1 /\ Base(q.at) \in Int
      /\ q.at = Base(q.at) + Offset(q.at)
      /\ Offset(c) \in 0 .. SectionSize - 1 /\ Base(c) \in Int
      /\ c = Base(c) + Offset(c)
  BY <1>1, Split
<1>3. ASSUME c \in Flat!Cells(q) PROVE Base(c) = Base(q.at)
  <2>1. c \in DOMAIN Ram /\ Flat!Section(c) = Flat!Section(q.at)
    BY <1>3, FitsIffAvailable DEF Flat!Available
  <2> QED BY <1>1, <2>1, SameSection DEF Flat!Section
<1> QED BY <1>1, <1>2, <1>3, MemoryAssumption DEF Flat!Cells

LEMMA RamAdded ==
  ASSUME SizesFit, TypeOK, TypeOK', NEW q \in Requests, q.op = "add",
         Offset(q.at) = 0, q.at \notin DOMAIN map, map' = With(q)
  PROVE  Ram' = [c \in DOMAIN Ram \union Flat!Cells(q) |->
                   IF c \in DOMAIN Ram THEN Ram[c]
                   ELSE IF c = q.at THEN First ELSE Zero]
<1> DEFINE D == DOMAIN Ram \union Flat!Cells(q)
           G(c) == IF c \in DOMAIN Ram THEN Ram[c]
                   ELSE IF c = q.at THEN First ELSE Zero
<1>1. /\ q.at \in Int /\ q.size \in Nat \ {0} BY RequestFacts
<1>2. D \subseteq Int BY <1>1, RamFacts DEF RamIs, Flat!Cells
<1>3. /\ DOMAIN map' = DOMAIN map \union {q.at}
      /\ map'[q.at] = NewSection(q.size)
      /\ \A b \in DOMAIN map : map'[b] = map[b]
  BY WithFacts
<1>4. /\ DOMAIN Ram' \subseteq Int
      /\ \A c \in Int : c \in DOMAIN Ram' <=> Present(c)'
      /\ \A c \in DOMAIN Ram' : Ram'[c] = map'[Base(c)].bytes[Offset(c)]
      /\ Ram' = [c \in DOMAIN Ram' |-> Ram'[c]]
  <2>1. RamIs' BY RamFacts, PTL
  <2> QED BY <2>1 DEF RamIs, Base, Offset
<1>5. ASSUME NEW c \in Int
      PROVE  c \in DOMAIN Ram' <=> c \in D
  <2>1. c \in DOMAIN Ram' <=> Base(c) \in DOMAIN map'
                              /\ Offset(c) < map'[Base(c)].size
    BY <1>4 DEF Present, Loaded, Base, Offset
  <2>2. c \in DOMAIN Ram <=> Base(c) \in DOMAIN map
                             /\ Offset(c) < map[Base(c)].size
    BY RamFacts DEF RamIs, Present, Loaded
  <2>3. c \in Flat!Cells(q) <=> Base(c) = q.at /\ Offset(c) < q.size
    BY Added
  <2>4. map'[q.at].size = q.size BY <1>3 DEF NewSection
  <2> QED BY <1>3, <2>1, <2>2, <2>3, <2>4
<1>6. ASSUME NEW c \in D
      PROVE  Ram'[c] = G(c)
  <2>1. c \in Int /\ c \in DOMAIN Ram' BY <1>2, <1>5
  <2>2. CASE c \in DOMAIN Ram
    <3>1. Ram[c] = map[Base(c)].bytes[Offset(c)] /\ Base(c) \in DOMAIN map
      BY <2>1, <2>2, RamFacts DEF RamIs, Present, Loaded
    <3> QED BY <1>3, <1>4, <2>1, <2>2, <3>1
  <2>3. CASE c \notin DOMAIN Ram
    <3>1. Base(c) = q.at /\ Offset(c) < q.size BY <2>1, <2>3, Added
    <3>2. Offset(c) \in 0 .. q.size - 1 /\ c = Base(c) + Offset(c)
      <4>1. Offset(c) \in 0 .. SectionSize - 1 /\ c = Base(c) + Offset(c)
        BY <2>1, Split
      <4> QED BY <1>1, <3>1, <4>1, MemoryAssumption
    <3>3. map'[q.at].bytes[Offset(c)]
            = IF Offset(c) = 0 THEN First ELSE Zero
      BY <1>3, <3>2 DEF NewSection
    <3>4. Offset(c) = 0 <=> c = q.at BY <1>1, <3>1, <3>2
    <3> QED BY <1>4, <2>1, <2>3, <3>1, <3>3, <3>4
  <2> QED BY <2>2, <2>3
<1>7. DOMAIN Ram' = D BY <1>2, <1>4, <1>5
<1> HIDE DEF D, G
<1>8. Ram' = [c \in D |-> G(c)] BY <1>4, <1>6, <1>7
<1> QED BY <1>8 DEF D, G

(* An access that writes its section's bytes writes those of the memory.   *)
LEMMA RamStored ==
  ASSUME SizesFit, TypeOK, TypeOK', NEW q \in Requests,
         q.op \in {"write", "copy"}, Fits(q), map' = Stored(q)
  PROVE  Ram' = [c \in DOMAIN Ram |->
                   IF c \in Flat!Cells(q) THEN q.bytes[c - q.at] ELSE Ram[c]]
<1> DEFINE G(c) == IF c \in Flat!Cells(q) THEN q.bytes[c - q.at] ELSE Ram[c]
<1>1. DOMAIN Ram \subseteq Int BY RamFacts DEF RamIs
<1>2. /\ DOMAIN map' = DOMAIN map
      /\ \A b \in DOMAIN map :
           /\ map'[b].size = map[b].size
           /\ \A o \in 0 .. map[b].size - 1 :
                map'[b].bytes[o] =
                  IF b = Base(q.at) /\ o - Offset(q.at) \in 0 .. q.size - 1
                  THEN q.bytes[o - Offset(q.at)]
                  ELSE map[b].bytes[o]
  BY StoredFacts
<1>3. /\ DOMAIN Ram' \subseteq Int
      /\ \A c \in Int : c \in DOMAIN Ram' <=> Present(c)'
      /\ \A c \in DOMAIN Ram' : Ram'[c] = map'[Base(c)].bytes[Offset(c)]
      /\ Ram' = [c \in DOMAIN Ram' |-> Ram'[c]]
  <2>1. RamIs' BY RamFacts, PTL
  <2> QED BY <2>1 DEF RamIs, Base, Offset
<1>4. ASSUME NEW c \in Int
      PROVE  c \in DOMAIN Ram' <=> c \in DOMAIN Ram
  <2>1. c \in DOMAIN Ram' <=> Base(c) \in DOMAIN map'
                              /\ Offset(c) < map'[Base(c)].size
    BY <1>3 DEF Present, Loaded, Base, Offset
  <2>2. c \in DOMAIN Ram <=> Base(c) \in DOMAIN map
                             /\ Offset(c) < map[Base(c)].size
    BY RamFacts DEF RamIs, Present, Loaded
  <2> QED BY <1>2, <2>1, <2>2
<1>5. ASSUME NEW c \in DOMAIN Ram
      PROVE  Ram'[c] = G(c)
  <2>1. /\ c \in Int /\ Base(c) \in DOMAIN map
        /\ Offset(c) < map[Base(c)].size
        /\ Ram[c] = map[Base(c)].bytes[Offset(c)]
    BY <1>1, RamFacts DEF RamIs, Present, Loaded
  <2>2. map[Base(c)].size \in Nat BY <2>1, SectionFacts
  <2>3. /\ Offset(c) \in 0 .. SectionSize - 1
        /\ Base(c) \in Int /\ c = Base(c) + Offset(c)
    BY <2>1, Split
  <2>4. Offset(c) \in 0 .. map[Base(c)].size - 1
    BY <2>1, <2>2, <2>3, MemoryAssumption
  <2>5. Ram'[c] = IF /\ Base(c) = Base(q.at)
                     /\ Offset(c) - Offset(q.at) \in 0 .. q.size - 1
                  THEN q.bytes[Offset(c) - Offset(q.at)] ELSE Ram[c]
    BY <1>2, <1>3, <1>4, <2>1, <2>4
  <2>6. c \in Flat!Cells(q) <=>
          /\ Base(c) = Base(q.at)
          /\ Offset(c) - Offset(q.at) \in 0 .. q.size - 1
    BY <2>1, Accessed
  <2>7. Base(c) = Base(q.at) => Offset(c) - Offset(q.at) = c - q.at
    <3>1. q.at \in Int BY RequestFacts
    <3>2. /\ Offset(q.at) \in Int /\ Base(q.at) \in Int
          /\ q.at = Base(q.at) + Offset(q.at)
          /\ Offset(c) \in Int
      BY <2>1, <3>1, Split
    <3> QED BY <2>1, <2>3, <3>1, <3>2
  <2> QED BY <2>5, <2>6, <2>7
<1>6. DOMAIN Ram' = DOMAIN Ram BY <1>1, <1>3, <1>4
<1> HIDE DEF G
<1>7. Ram' = [c \in DOMAIN Ram |-> G(c)] BY <1>3, <1>5, <1>6
<1> QED BY <1>7 DEF G

(* Where sections are no larger than the documented limit, the memory      *)
(* system's map of sections implements one array of bytes: whole accesses  *)
(* or none, refused exactly when a byte is missing, the access crosses a   *)
(* section border, or a program writes below WRITEABLE_MEMORY.             *)
THEOREM Refinement ==
  ASSUME SizesFit
  PROVE  Spec => ImplementsFlat
<1>1. Init => Flat!Init
  BY DEF Init, Flat!Init, Ram, None, Flat!None
<1>2. TypeOK /\ TypeOK' /\ [Next]_vars => [Flat!Next]_(Flat!flatVars)
  <2> SUFFICES ASSUME TypeOK, TypeOK', [Next]_vars
               PROVE  [Flat!Next]_(Flat!flatVars)
    OBVIOUS
  <2>1. map' = map => Ram' = Ram
    BY DEF Ram, Extent, Base, Offset
  <2>2. CASE UNCHANGED vars
    BY <2>1, <2>2 DEF vars, Flat!flatVars
  <2>3. CASE Return
    BY <2>1, <2>3 DEF Return, Flat!Next, Flat!Return, None, Flat!None
  <2>4. ASSUME NEW q \in Requests, NEW e, e # "Ok", e # "None",
               Refuse(q, e)
        PROVE  Flat!Refuse(q) /\ call' # Flat!None /\ call'.request = q
    BY <2>1, <2>4 DEF Refuse, Fail, Flat!Refuse, Flat!None
  <2>5. ASSUME NEW q \in Requests, NEW bytes, Succeed(q, bytes)
        PROVE  /\ Flat!Answer(q, bytes)
               /\ call' # Flat!None /\ call'.request = q
    BY <2>5 DEF Succeed, Flat!Answer, Flat!None
  <2>6. ASSUME NEW q \in Requests, NEW op, Calling(q, op)
        PROVE  call = Flat!None /\ q.op = op
    BY <2>6 DEF Calling, None, Flat!None
  <2>7. ASSUME NEW q \in Requests,
               NEW bad \in {"ReadBadMemory", "WroteBadMemory"},
               Refuse(q, Error(q, bad))
        PROVE  Flat!Refuse(q) /\ call' # Flat!None /\ call'.request = q
    <3>1. Error(q, bad) # "Ok" /\ Error(q, bad) # "None"
      BY DEF Error
    <3> QED BY <2>4, <2>7, <3>1
  <2>8. ASSUME NEW q \in Requests, AddMemory(q) PROVE Flat!Serve(q)
    <3>1. call = Flat!None /\ q.op = "add" BY <2>6, <2>8 DEF AddMemory
    <3>2. CASE Offset(q.at) # 0 /\ Refuse(q, "UnalignedMemoryAddition")
      BY <2>4, <3>1, <3>2 DEF Flat!Serve, Flat!Add, Flat!Refuse, Offset
    <3>3. CASE /\ Offset(q.at) = 0 /\ q.at \in DOMAIN map
               /\ Refuse(q, "ConflictingMemoryAddition")
      <4>1. q.at \in Int /\ q.size \in Nat \ {0} BY RequestFacts
      <4>2. q.at \in Flat!Cells(q) BY <4>1 DEF Flat!Cells
      <4>3. Base(q.at) = q.at BY <3>3, <4>1 DEF Base
      <4>4. q.at \in DOMAIN Ram
        BY <3>3, <4>1, <4>3, RamFacts, SectionFacts
           DEF RamIs, Present, Loaded
      <4>5. Flat!Cells(q) \cap DOMAIN Ram # {} BY <4>2, <4>4
      <4> QED BY <2>4, <3>1, <3>3, <4>5 DEF Flat!Serve, Flat!Add
    <3>4. CASE /\ Offset(q.at) = 0 /\ q.at \notin DOMAIN map
               /\ map' = With(q) /\ Succeed(q, <<>>)
      <4>1. q.at \in Int /\ q.size \in Nat \ {0} BY RequestFacts
      <4>2. \A c \in Flat!Cells(q) : c \in Int BY <4>1 DEF Flat!Cells
      <4>3. Flat!Cells(q) \cap DOMAIN Ram = {}
        BY <3>1, <3>4, <4>2, Added
      <4> QED
        BY <2>5, <3>1, <3>4, <4>3, RamAdded
           DEF Flat!Serve, Flat!Add, Offset
    <3> QED BY <2>8, <3>2, <3>3, <3>4 DEF AddMemory
  <2>9. ASSUME NEW q \in Requests, ReadMemory(q) PROVE Flat!Serve(q)
    <3>1. call = Flat!None /\ q.op = "read" BY <2>6, <2>9 DEF ReadMemory
    <3>2. CASE ~Fits(q) /\ Refuse(q, Error(q, "ReadBadMemory"))
      BY <2>7, <3>1, <3>2, FitsIffAvailable DEF Flat!Serve, Flat!Read
    <3>3. CASE /\ Fits(q) /\ UNCHANGED map
               /\ Succeed(q, [i \in 0 .. q.size - 1 |->
                               map[Base(q.at)].bytes[Offset(q.at) + i]])
      <4>1. ASSUME NEW i \in 0 .. q.size - 1
            PROVE  map[Base(q.at)].bytes[Offset(q.at) + i] = Ram[q.at + i]
        <5> DEFINE c == q.at + i
        <5>1. q.at \in Int /\ q.size \in Nat \ {0} BY RequestFacts
        <5>2. c \in Flat!Cells(q) /\ c \in Int /\ i = c - q.at
          BY <5>1 DEF Flat!Cells
        <5> HIDE DEF c
        <5>3. c \in DOMAIN Ram /\ Base(c) = Base(q.at)
          BY <3>3, <5>1, <5>2, FitsIffAvailable, SameSection
             DEF Flat!Available, Flat!Section
        <5>4. /\ q.at = Base(q.at) + Offset(q.at)
              /\ c = Base(c) + Offset(c)
              /\ Offset(q.at) \in Int /\ Offset(c) \in Int
              /\ Base(q.at) \in Int
          BY <5>1, <5>2, Split
        <5>5. Offset(c) = Offset(q.at) + i BY <5>1, <5>2, <5>3, <5>4
        <5>6. Ram[c] = map[Base(q.at)].bytes[Offset(q.at) + i]
          BY <5>3, <5>5, RamFacts DEF RamIs
        <5> QED BY <5>6 DEF c
      <4>2. Succeed(q, [i \in 0 .. q.size - 1 |-> Ram[q.at + i]])
        BY <3>3, <4>1 DEF Succeed
      <4> QED
        BY <2>1, <2>5, <3>1, <3>3, <4>2, FitsIffAvailable
           DEF Flat!Serve, Flat!Read
    <3> QED BY <2>9, <3>2, <3>3 DEF ReadMemory
  <2>10. ASSUME NEW q \in Requests, q.op \in {"write", "copy"},
                Fits(q), map' = Stored(q), Succeed(q, <<>>)
         PROVE  Flat!Overwrite(q)
    BY <2>5, <2>10, RamStored DEF Flat!Overwrite
  <2>11. ASSUME NEW q \in Requests, WriteMemory(q) PROVE Flat!Serve(q)
    <3>1. call = Flat!None /\ q.op = "write" BY <2>6, <2>11 DEF WriteMemory
    <3>2. q.at \in Int /\ WriteableMemory \in Int
      BY RequestFacts, MemoryAssumption DEF Address
    <3>3. CASE q.at < WriteableMemory /\ Refuse(q, "WroteReadOnlyMemory")
      BY <2>4, <3>1, <3>2, <3>3 DEF Flat!Serve, Flat!Write
    <3>4. CASE ~Fits(q) /\ Refuse(q, Error(q, "WroteBadMemory"))
      BY <2>7, <3>1, <3>4, FitsIffAvailable DEF Flat!Serve, Flat!Write
    <3>5. CASE /\ q.at >= WriteableMemory /\ Fits(q)
               /\ map' = Stored(q) /\ Succeed(q, <<>>)
      BY <2>5, <2>10, <3>1, <3>5, FitsIffAvailable
         DEF Flat!Serve, Flat!Write
    <3> QED BY <2>11, <3>3, <3>4, <3>5 DEF WriteMemory
  <2>12. ASSUME NEW q \in Requests, CopyIntoMemory(q) PROVE Flat!Serve(q)
    <3>1. call = Flat!None /\ q.op = "copy"
      BY <2>6, <2>12 DEF CopyIntoMemory
    <3>2. CASE ~Fits(q) /\ Refuse(q, Error(q, "WroteBadMemory"))
      BY <2>7, <3>1, <3>2, FitsIffAvailable DEF Flat!Serve, Flat!Copy
    <3>3. CASE Fits(q) /\ map' = Stored(q) /\ Succeed(q, <<>>)
      BY <2>5, <2>10, <3>1, <3>3, FitsIffAvailable DEF Flat!Serve, Flat!Copy
    <3> QED BY <2>12, <3>2, <3>3 DEF CopyIntoMemory
  <2> QED
    BY <2>2, <2>3, <2>8, <2>9, <2>11, <2>12 DEF Next, Flat!Next
<1> QED
  BY <1>1, <1>2, TypeCorrect, PTL DEF Spec, ImplementsFlat, Flat!Spec

=============================================================================
