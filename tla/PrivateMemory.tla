--------------------------- MODULE PrivateMemory ---------------------------
(***************************************************************************)
(* What fork() promises: every process has a memory of its own, which a    *)
(* child starts with a copy of and which only the stores of its own        *)
(* program change.                                                         *)
(***************************************************************************)
CONSTANTS Procs, Data, Values, NoImage, NoStore

VARIABLES
  image,  \* the contents of the data pages of each process
  store   \* the store to a data page that each process is executing

Init == \E p \in Procs, mem \in [Data -> Values] :
          /\ image = [q \in Procs |-> IF q = p THEN mem ELSE NoImage]
          /\ store = [q \in Procs |-> NoStore]

Issue(p, va, v) == /\ image[p] # NoImage
                   /\ store[p] = NoStore
                   /\ store' = [store EXCEPT ![p] = <<va, v>>]
                   /\ UNCHANGED image

Complete(p) == /\ store[p] # NoStore
               /\ image' = [image EXCEPT ![p][store[p][1]] = store[p][2]]
               /\ store' = [store EXCEPT ![p] = NoStore]

Fork(p, c) == /\ image[p] # NoImage
              /\ store[p] = NoStore
              /\ image[c] = NoImage
              /\ image' = [image EXCEPT ![c] = image[p]]
              /\ UNCHANGED store

Exit(p) == /\ image' = [image EXCEPT ![p] = NoImage]
           /\ store' = [store EXCEPT ![p] = NoStore]

Next == \E p \in Procs :
          \/ \E va \in Data, v \in Values : Issue(p, va, v)
          \/ Complete(p)
          \/ \E c \in Procs : Fork(p, c)
          \/ Exit(p)

Spec == Init /\ [][Next]_<<image, store>>
=============================================================================
