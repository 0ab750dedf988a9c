----------------------------- MODULE FlatMemory -----------------------------
(***************************************************************************)
(* What the memory system promises: one array of bytes with holes.  An     *)
(* access reads or writes all of its bytes or none; it succeeds exactly    *)
(* when they are there and belong to one section; a program writes only to *)
(* the upper part; and memory is added at section borders where there is   *)
(* none yet.                                                               *)
(***************************************************************************)
EXTENDS Integers

CONSTANTS
  SectionSize,      \* bytes between two section borders (0x10000)
  WriteableMemory,  \* addresses from here on are writeable (0x80000000)
  Zero, First,      \* new memory: zeros, but for its first byte
  Requests          \* what may be asked of the memory system

VARIABLES
  ram,   \* the bytes that are there
  call   \* the call in progress: a request, its outcome, the bytes read

flatVars == <<ram, call>>

None == [status |-> "None"]

Cells(q) == q.at .. q.at + q.size - 1
Section(a) == a \div SectionSize

Available(q) ==
  /\ Cells(q) \subseteq DOMAIN ram
  /\ \A c \in Cells(q) : Section(c) = Section(q.at)

(* The request succeeds with these bytes, or is refused.                   *)
Answer(q, bytes) == call' = [status |-> "Ok", request |-> q, bytes |-> bytes]

Refuse(q) == call'.status # "Ok" /\ UNCHANGED ram

Add(q) ==
  IF /\ q.at % SectionSize = 0
     /\ Cells(q) \cap DOMAIN ram = {}
  THEN /\ ram' = [c \in DOMAIN ram \union Cells(q) |->
                    IF c \in DOMAIN ram THEN ram[c]
                    ELSE IF c = q.at THEN First ELSE Zero]
       /\ Answer(q, <<>>)
  ELSE Refuse(q)

Read(q) ==
  IF Available(q)
  THEN UNCHANGED ram /\ Answer(q, [i \in 0 .. q.size - 1 |-> ram[q.at + i]])
  ELSE Refuse(q)

Overwrite(q) ==
  /\ ram' = [c \in DOMAIN ram |->
               IF c \in Cells(q) THEN q.bytes[c - q.at] ELSE ram[c]]
  /\ Answer(q, <<>>)

Write(q) == IF Available(q) /\ q.at >= WriteableMemory THEN Overwrite(q)
            ELSE Refuse(q)

Copy(q) == IF Available(q) THEN Overwrite(q) ELSE Refuse(q)

Serve(q) ==
  /\ call = None /\ call' # None /\ call'.request = q
  /\ \/ q.op = "add"   /\ Add(q)
     \/ q.op = "read"  /\ Read(q)
     \/ q.op = "write" /\ Write(q)
     \/ q.op = "copy"  /\ Copy(q)

Return == call # None /\ call' = None /\ UNCHANGED ram

Next == Return \/ \E q \in Requests : Serve(q)

Init == DOMAIN ram = {} /\ call = None

Spec == Init /\ [][Next]_flatVars

=============================================================================
