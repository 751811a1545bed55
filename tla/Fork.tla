-------------------------------- MODULE Fork --------------------------------
(***************************************************************************)
(* Copy-on-write fork() and its predecessor fork_v0() (lib/fork.c), the    *)
(* page-fault handler they install (lib/pgfault.c, lib/pfentry.S) and the  *)
(* kernel's upcall (page_fault_handler() in kern/trap.c), over page tables *)
(* and the translation caches of the CPUs (tlb_invalidate() in             *)
(* kern/pmap.c).                                                           *)
(*                                                                         *)
(* A step is a memory access, a page fault or one system call; processes   *)
(* interleave in any order.  A process has one thread of execution.        *)
(***************************************************************************)
EXTENDS Naturals, FiniteSets

CONSTANTS
  Procs,       \* slots for processes
  First,       \* the process that exists from the start
  Pages,       \* physical pages of user memory
  NData,       \* number of data pages in an address space
  Values,      \* contents of a page, 0 for a page of zeroes
  NULL,
  BadWrites    \* programs that have called fork() write to read-only pages

(* The address space, in the order in which fork() goes through it. *)
UTEMP  == 0
PFTEMP == 1
Data   == 2 .. NData + 1
Stack  == NData + 2
XStack == NData + 3
VAs    == 0 .. XStack

(* The write, the pgfault() and the fork() a process may be executing. *)
Writes     == [va : Data \cup {Stack}, value : Values, faults : Nat]
FaultSteps == {"alloc", "copy", "map", "unmap"}
ForkSteps  == {"handler", "set_upcall", "exofork", "duppage", "own", "xstack",
               "child_upcall", "start",
               "exofork_v0", "dup_or_share", "dup_map", "dup_copy", "dup_unmap"}
Forks      == [step : ForkSteps, child : Procs \cup {NULL}, va : VAs]

ASSUME ForkAssumption ==
  /\ First \in Procs
  /\ NData \in Nat \ {0}
  /\ Cardinality(Pages) >= NData + 1
  /\ 0 \in Values
  /\ NULL \notin Procs \cup Pages \cup FaultSteps \cup Writes \cup Forks
  /\ NULL \notin [Data -> Values] \cup (Data \X Values)
  /\ BadWrites \in BOOLEAN

VARIABLES
  status,   \* FREE, EMBRYO (between sys_exofork() and its start), LIVE, PANIC
  pt,       \* page tables: a page and the bits PTE_W and PTE_COW
  tlb,      \* the translations cached for each process
  content,  \* of each physical page
  upcall,   \* env_pgfault_upcall is set
  handler,  \* the process's _pgfault_handler is set
  instr,    \* the write the process is executing
  fault,    \* the pgfault() it is executing: the address and the next call
  forking   \* the fork() it is executing: the child and where it is

vars == <<status, pt, tlb, content, upcall, handler, instr, fault, forking>>

NoPage == [page |-> NULL, perm |-> {}]
Empty  == [va \in VAs |-> NoPage]

UsedIn(table) == {table[p][va].page : p \in Procs, va \in VAs} \ {NULL}
FreePages     == Pages \ UsedIn(pt)

(* A program loaded by load_icode(), some of whose pages it has mapped     *)
(* read-only.                                                              *)
Init ==
  \E load \in [Data \cup {Stack} -> Pages], readonly \in SUBSET Data :
    /\ \A a, b \in DOMAIN load : load[a] = load[b] => a = b
    /\ status = [p \in Procs |-> IF p = First THEN "LIVE" ELSE "FREE"]
    /\ pt = [p \in Procs |->
               IF p # First THEN Empty
               ELSE [va \in VAs |->
                       IF va \notin DOMAIN load THEN NoPage
                       ELSE [page |-> load[va],
                             perm |-> IF va \in readonly THEN {} ELSE {"W"}]]]
    /\ tlb = [p \in Procs |-> Empty]
    /\ content = [g \in Pages |-> 0]
    /\ upcall = [p \in Procs |-> FALSE]
    /\ handler = [p \in Procs |-> FALSE]
    /\ instr = [p \in Procs |-> NULL]
    /\ fault = [p \in Procs |-> NULL]
    /\ forking = [p \in Procs |-> NULL]

-----------------------------------------------------------------------------
(***************************************************************************)
(* The system calls, as functions of page tables and caches.               *)
(***************************************************************************)

(* page_insert() or page_remove() at va of q by process p, whose CPU       *)
(* forgets the translation if the page directory is the one it has loaded. *)
InvalidateNothing(p, q, va) == tlb
Invalidate(p, q, va) ==
  IF p = q THEN [tlb EXCEPT ![q][va] = NoPage] ELSE tlb

(* The page at va loses a mapping; what is in a page that is free does not *)
(* matter, page_alloc() clears it.                                         *)
SetPte(p, q, va, pte) ==
  /\ pt' = [pt EXCEPT ![q][va] = pte]
  /\ tlb' = Invalidate(p, q, va)
  /\ content' = [g \in Pages |-> IF g \in UsedIn(pt') THEN content[g] ELSE 0]

(* sys_page_alloc() for which there is memory, any page of it. *)
PageAlloc(p, q, va, perm) ==
  \E g \in FreePages : SetPte(p, q, va, [page |-> g, perm |-> perm])

(* sys_page_map(): write access only if the source has it. *)
PageMap(p, src, srcva, dst, dstva, perm) ==
  /\ pt[src][srcva] # NoPage
  /\ "W" \in perm => "W" \in pt[src][srcva].perm
  /\ SetPte(p, dst, dstva, [page |-> pt[src][srcva].page, perm |-> perm])

(* Processes that run, but are not in the middle of a write or a fault.    *)
Running(p)   == status[p] = "LIVE"
Executing(p) == Running(p) /\ instr[p] = NULL

(* env_destroy() and env_free(): exit(), panic(), or the kernel's decision.*)
Destroy(p) ==
  /\ status' = [status EXCEPT ![p] = "FREE"]
  /\ pt' = [pt EXCEPT ![p] = Empty]
  /\ tlb' = [tlb EXCEPT ![p] = Empty]
  /\ upcall' = [upcall EXCEPT ![p] = FALSE]
  /\ handler' = [handler EXCEPT ![p] = FALSE]
  /\ instr' = [instr EXCEPT ![p] = NULL]
  /\ fault' = [fault EXCEPT ![p] = NULL]
  /\ forking' = [forking EXCEPT ![p] = NULL]
  /\ content' = [g \in Pages |-> IF g \in UsedIn(pt') THEN content[g] ELSE 0]

Exit(p) == Executing(p) /\ forking[p] = NULL /\ Destroy(p)

(* panic(): int3 takes the process to the kernel monitor, which none of    *)
(* its commands leaves and which keeps the big kernel lock.  From then on  *)
(* nobody gets into the kernel.                                            *)
Panic(p) ==
  /\ status' = [status EXCEPT ![p] = "PANIC"]
  /\ UNCHANGED <<pt, tlb, content, upcall, handler, instr, fault, forking>>

InMonitor == \E p \in Procs : status[p] = "PANIC"

-----------------------------------------------------------------------------
(***************************************************************************)
(* Memory accesses.  A program writes its data and its stack; in the       *)
(* middle of fork() only the stack, whenever it calls something.           *)
(***************************************************************************)
Issue(p, va, v) ==
  /\ Executing(p)
  /\ pt[p][va] # NoPage
  /\ forking[p] # NULL => va = Stack
  /\ va = Stack => v = 0
  /\ \/ pt[p][va].perm # {}
     \/ ~upcall[p]
     \/ BadWrites
  /\ instr' = [instr EXCEPT ![p] = [va |-> va, value |-> v, faults |-> 0]]
  /\ UNCHANGED <<status, pt, tlb, content, upcall, handler, fault, forking>>

(* The translation the CPU uses, from its cache if it is there. *)
Translation(p, va) == IF tlb[p][va] # NoPage THEN tlb[p][va] ELSE pt[p][va]

Store(p) ==
  /\ Running(p) /\ instr[p] # NULL /\ fault[p] = NULL
  /\ LET t == Translation(p, instr[p].va)
     IN  /\ "W" \in t.perm
         /\ content' = [content EXCEPT ![t.page] = instr[p].value]
         /\ tlb' = [tlb EXCEPT ![p][instr[p].va] = t]
  /\ instr' = [instr EXCEPT ![p] = NULL]
  /\ UNCHANGED <<status, pt, upcall, handler, fault, forking>>

(* A load only fills the cache. *)
Load(p, va) ==
  /\ Executing(p)
  /\ pt[p][va] # NoPage
  /\ tlb[p][va] = NoPage
  /\ tlb' = [tlb EXCEPT ![p][va] = pt[p][va]]
  /\ UNCHANGED <<status, pt, content, upcall, handler, instr, fault, forking>>

Faulting(p) ==
  /\ Running(p) /\ instr[p] # NULL /\ fault[p] = NULL
  /\ "W" \notin Translation(p, instr[p].va).perm

(* page_fault_handler(): onto the exception stack, which must be there and *)
(* writable, and to the upcall.                                            *)
Upcall(p) ==
  /\ Faulting(p)
  /\ upcall[p]
  /\ "W" \in pt[p][XStack].perm
  /\ fault' = [fault EXCEPT ![p] = "alloc"]
  /\ instr' = [instr EXCEPT ![p].faults = @ + 1]
  /\ UNCHANGED <<status, pt, tlb, content, upcall, handler, forking>>

(* No upcall: the environment is destroyed. *)
FatalFault(p) ==
  /\ Faulting(p)
  /\ ~upcall[p] \/ "W" \notin pt[p][XStack].perm
  /\ Destroy(p)

Handling(p, step) == Running(p) /\ fault[p] = step

(* pgfault(): its test of the error code is (err & FEC_WR) & !(...), which *)
(* is 0 whatever the page is.  It panics when there is no page.            *)
HandlerAlloc(p) ==
  /\ Handling(p, "alloc")
  /\ PageAlloc(p, p, PFTEMP, {"W"})
  /\ fault' = [fault EXCEPT ![p] = "copy"]
  /\ UNCHANGED <<status, upcall, handler, instr, forking>>

HandlerPanic(p) ==
  /\ Handling(p, "alloc")
  /\ FreePages = {}
  /\ Panic(p)

HandlerCopy(p) ==
  /\ Handling(p, "copy")
  /\ content' = [content EXCEPT ![pt[p][PFTEMP].page] =
                   content[Translation(p, instr[p].va).page]]
  /\ fault' = [fault EXCEPT ![p] = "map"]
  /\ UNCHANGED <<status, pt, tlb, upcall, handler, instr, forking>>

HandlerMapCow(p) ==
  /\ Handling(p, "map")
  /\ PageMap(p, p, PFTEMP, p, instr[p].va, {"COW"})
  /\ fault' = [fault EXCEPT ![p] = "unmap"]
  /\ UNCHANGED <<status, upcall, handler, instr, forking>>

HandlerMap(p) ==
  /\ Handling(p, "map")
  /\ PageMap(p, p, PFTEMP, p, instr[p].va, {"W"})
  /\ fault' = [fault EXCEPT ![p] = "unmap"]
  /\ UNCHANGED <<status, upcall, handler, instr, forking>>

(* ... and _pgfault_upcall returns to the instruction that faulted.        *)
HandlerUnmap(p) ==
  /\ Handling(p, "unmap")
  /\ SetPte(p, p, PFTEMP, NoPage)
  /\ fault' = [fault EXCEPT ![p] = NULL]
  /\ UNCHANGED <<status, upcall, handler, instr, forking>>

-----------------------------------------------------------------------------
(***************************************************************************)
(* fork().  forking[p] is the next call it makes.                          *)
(***************************************************************************)
At(p, step) == Executing(p) /\ forking[p] # NULL /\ forking[p].step = step

To(p, step, child, va) ==
  forking' = [forking EXCEPT ![p] = [step |-> step, child |-> child, va |-> va]]

CallFork(p) ==
  /\ Executing(p) /\ forking[p] = NULL
  /\ To(p, "handler", NULL, 0)
  /\ UNCHANGED <<status, pt, tlb, content, upcall, handler, instr, fault>>

CallForkV0(p) ==
  /\ Executing(p) /\ forking[p] = NULL
  /\ To(p, "exofork_v0", NULL, 0)
  /\ UNCHANGED <<status, pt, tlb, content, upcall, handler, instr, fault>>

(* set_pgfault_handler(), the first time: an exception stack, ...          *)
HandlerStack(p) ==
  /\ At(p, "handler") /\ ~handler[p]
  /\ PageAlloc(p, p, XStack, {"W"})
  /\ To(p, "set_upcall", NULL, 0)
  /\ UNCHANGED <<status, upcall, handler, instr, fault>>

(* ... then the upcall and _pgfault_handler.                               *)
SetUpcall(p) ==
  /\ At(p, "set_upcall")
  /\ upcall' = [upcall EXCEPT ![p] = TRUE]
  /\ handler' = [handler EXCEPT ![p] = TRUE]
  /\ To(p, "exofork", NULL, 0)
  /\ UNCHANGED <<status, pt, tlb, content, instr, fault>>

(* It was set before, or there is no page for the exception stack, which   *)
(* fork() is not told of.                                                  *)
NoHandlerStack(p) ==
  /\ At(p, "handler")
  /\ handler[p] \/ FreePages = {}
  /\ To(p, "exofork", NULL, 0)
  /\ UNCHANGED <<status, pt, tlb, content, upcall, handler, instr, fault>>

Exofork(p, c) ==
  \E v0 \in BOOLEAN :
    /\ At(p, IF v0 THEN "exofork_v0" ELSE "exofork")
    /\ status[c] = "FREE"
    /\ status' = [status EXCEPT ![c] = "EMBRYO"]
    /\ To(p, IF v0 THEN "dup_or_share" ELSE "duppage", c, 0)
    /\ UNCHANGED <<pt, tlb, content, upcall, handler, instr, fault>>

(* panic() when a call of fork() fails: the child stays an embryo.         *)
ForkPanics(p) ==
  /\ \/ \E step \in {"exofork", "exofork_v0"} :
          At(p, step) /\ \A c \in Procs : status[c] # "FREE"
     \/ At(p, "xstack") /\ FreePages = {}
     \/ /\ At(p, "dup_or_share") /\ FreePages = {}
        /\ "W" \in pt[p][forking[p].va].perm
  /\ Panic(p)

(* The next page of the loop. *)
NextVa(p, this, after) ==
  LET va == forking[p].va
  IN  IF va = XStack THEN To(p, after, forking[p].child, va)
                     ELSE To(p, this, forking[p].child, va + 1)

(* fork() leaves the exception stack out. *)
LeavesOutNothing(va) == FALSE
LeavesOut(va) == va = XStack

SkipPage(p) ==
  /\ At(p, "duppage")
  /\ LeavesOut(forking[p].va) \/ pt[p][forking[p].va] = NoPage
  /\ NextVa(p, "duppage", "xstack")
  /\ UNCHANGED <<status, pt, tlb, content, upcall, handler, instr, fault>>

(* duppage(): a page that is writable or copy-on-write becomes             *)
(* copy-on-write in the child and then, in another call, in the parent.    *)
DuppageOwnFirst(p, step) == IF step = "own" THEN forking[p].child ELSE p
DuppageTarget(p, step)   == IF step = "own" THEN p ELSE forking[p].child

Duppage(p) ==
  LET va == forking[p].va
  IN  /\ At(p, "duppage")
      /\ ~LeavesOut(va) /\ pt[p][va].perm # {}
      /\ PageMap(p, p, va, DuppageTarget(p, "duppage"), va, {"COW"})
      /\ To(p, "own", forking[p].child, va)
      /\ UNCHANGED <<status, upcall, handler, instr, fault>>

DuppageOwn(p) ==
  /\ At(p, "own")
  /\ PageMap(p, p, forking[p].va, DuppageTarget(p, "own"), forking[p].va, {"COW"})
  /\ NextVa(p, "duppage", "xstack")
  /\ UNCHANGED <<status, upcall, handler, instr, fault>>

DuppageReadOnly(p) ==
  LET va == forking[p].va
  IN  /\ At(p, "duppage")
      /\ ~LeavesOut(va) /\ pt[p][va] # NoPage /\ pt[p][va].perm = {}
      /\ PageMap(p, p, va, forking[p].child, va, {})
      /\ NextVa(p, "duppage", "xstack")
      /\ UNCHANGED <<status, upcall, handler, instr, fault>>

ChildStack(p) ==
  /\ At(p, "xstack")
  /\ PageAlloc(p, forking[p].child, XStack, {"W"})
  /\ To(p, "child_upcall", forking[p].child, 0)
  /\ UNCHANGED <<status, upcall, handler, instr, fault>>

ChildUpcall(p) ==
  /\ At(p, "child_upcall")
  /\ upcall[p]
  /\ upcall' = [upcall EXCEPT ![forking[p].child] = TRUE]
  /\ To(p, "start", forking[p].child, 0)
  /\ UNCHANGED <<status, pt, tlb, content, handler, instr, fault>>

(* Without an upcall of its own the parent passes 0, at which the child    *)
(* has no page: user_mem_assert() destroys the child, and then             *)
(* sys_env_set_status() fails and the parent panics.                       *)
NoUpcallForChild(p) ==
  LET child == forking[p].child
  IN  /\ At(p, "child_upcall")
      /\ ~upcall[p]
      /\ status' = [status EXCEPT ![p] = "PANIC", ![child] = "FREE"]
      /\ pt' = [pt EXCEPT ![child] = Empty]
      /\ content' = [g \in Pages |-> IF g \in UsedIn(pt') THEN content[g] ELSE 0]
      /\ forking' = [forking EXCEPT ![p] = NULL]
      /\ UNCHANGED <<tlb, upcall, handler, instr, fault>>

(* sys_env_set_status(): the child runs, with the parent's global          *)
(* variables, _pgfault_handler among them.                                 *)
StartChild(p) ==
  /\ At(p, "start")
  /\ status' = [status EXCEPT ![forking[p].child] = "LIVE"]
  /\ handler' = [handler EXCEPT ![forking[p].child] = handler[p]]
  /\ forking' = [forking EXCEPT ![p] = NULL]
  /\ UNCHANGED <<pt, tlb, content, upcall, instr, fault>>

-----------------------------------------------------------------------------
(***************************************************************************)
(* fork_v0(): a page with write permission is copied through UTEMP, any    *)
(* other one is shared read-only.                                          *)
(***************************************************************************)
ShareOrSkip(p) ==
  LET va    == forking[p].va
      child == forking[p].child
  IN  /\ At(p, "dup_or_share")
      /\ "W" \notin pt[p][va].perm
      /\ \/ pt[p][va] = NoPage /\ UNCHANGED <<pt, tlb, content>>
         \/ PageMap(p, p, va, child, va, {})
      /\ NextVa(p, "dup_or_share", "start")
      /\ UNCHANGED <<status, upcall, handler, instr, fault>>

DupAlloc(p) ==
  /\ At(p, "dup_or_share")
  /\ "W" \in pt[p][forking[p].va].perm
  /\ PageAlloc(p, forking[p].child, forking[p].va, {"W"})
  /\ To(p, "dup_map", forking[p].child, forking[p].va)
  /\ UNCHANGED <<status, upcall, handler, instr, fault>>

DupMap(p) ==
  /\ At(p, "dup_map")
  /\ PageMap(p, forking[p].child, forking[p].va, p, UTEMP, {"W"})
  /\ To(p, "dup_copy", forking[p].child, forking[p].va)
  /\ UNCHANGED <<status, upcall, handler, instr, fault>>

DupCopy(p) ==
  /\ At(p, "dup_copy")
  /\ content' = [content EXCEPT ![pt[p][UTEMP].page] =
                   content[Translation(p, forking[p].va).page]]
  /\ To(p, "dup_unmap", forking[p].child, forking[p].va)
  /\ UNCHANGED <<status, pt, tlb, upcall, handler, instr, fault>>

DupUnmap(p) ==
  /\ At(p, "dup_unmap")
  /\ SetPte(p, p, UTEMP, NoPage)
  /\ NextVa(p, "dup_or_share", "start")
  /\ UNCHANGED <<status, upcall, handler, instr, fault>>

(* sys_cputs() of a string at va: user_mem_assert() wants it writable.     *)
Cputs(p, va) ==
  /\ Executing(p) /\ forking[p] = NULL
  /\ "W" \notin pt[p][va].perm
  /\ Destroy(p)

-----------------------------------------------------------------------------

(* The accesses that need nothing of the kernel. *)
UserStep(p) ==
  \/ Store(p)
  \/ HandlerCopy(p)
  \/ SkipPage(p)
  \/ DupCopy(p)
  \/ CallFork(p) \/ CallForkV0(p)
  \/ \E va \in Data \cup {Stack}, v \in Values : Issue(p, va, v)
  \/ \E va \in Data : Load(p, va)

(* System calls and traps. *)
FaultStep(p) ==
  \/ Upcall(p) \/ FatalFault(p)
  \/ HandlerAlloc(p) \/ HandlerPanic(p) \/ HandlerMap(p) \/ HandlerUnmap(p)

ForkStep(p) ==
  \/ HandlerStack(p) \/ SetUpcall(p) \/ NoHandlerStack(p)
  \/ \E c \in Procs : Exofork(p, c)
  \/ ForkPanics(p) \/ Duppage(p) \/ DuppageOwn(p) \/ DuppageReadOnly(p)
  \/ ChildStack(p) \/ ChildUpcall(p) \/ NoUpcallForChild(p) \/ StartChild(p)
  \/ ShareOrSkip(p) \/ DupAlloc(p) \/ DupMap(p) \/ DupUnmap(p)

Next ==
  \E p \in Procs :
    \/ UserStep(p)
    \/ /\ ~InMonitor
       /\ \/ FaultStep(p) \/ ForkStep(p) \/ Exit(p)
          \/ \E va \in Data : Cputs(p, va)

Spec == Init /\ [][Next]_vars

-----------------------------------------------------------------------------
(***************************************************************************)
(* Properties.                                                             *)
(***************************************************************************)

(* No page that two processes have mapped can be written by either, except *)
(* in the two places where fork() itself needs it for a moment: between    *)
(* the calls of duppage(), and in UTEMP.                                   *)
NoWritableSharing ==
  \A p, q \in Procs, va, vb \in VAs :
    /\ p # q
    /\ pt[p][va].page = pt[q][vb].page
    /\ "W" \in pt[p][va].perm
    => \/ \E r \in {p, q} :
            forking[r] # NULL /\ forking[r].step = "own" /\ forking[r].va = va
       \/ UTEMP \in {va, vb}

(* The exception stack of a process with an upcall is there, writable, and *)
(* nobody else's: the kernel can always push the fault that copies a page. *)
ExceptionStackPrivate ==
  \A p \in Procs :
    status[p] = "LIVE" /\ upcall[p] =>
      /\ pt[p][XStack].perm = {"W"}
      /\ \A q \in Procs, va \in VAs :
           pt[q][va].page = pt[p][XStack].page => q = p /\ va = XStack

(* A write faults once at most: the page pgfault() leaves behind can be    *)
(* written, whatever the other process has done meanwhile, so that the     *)
(* instruction never goes back to the handler for ever.                    *)
OneFaultPerWrite ==
  \A p \in Procs : instr[p] # NULL => instr[p].faults <= 1

(* The child starts with the parent's memory, and from then on each has    *)
(* its own, as if fork() had copied it all in one step: also when its CPU  *)
(* has translations cached that fork() and pgfault() change.               *)
Memory(p) == IF status[p] = "LIVE"
             THEN [va \in Data |-> content[Translation(p, va).page]]
             ELSE NULL

StoreToData(p) ==
  IF status[p] = "LIVE" /\ instr[p] # NULL /\ instr[p].va \in Data
  THEN <<instr[p].va, instr[p].value>> ELSE NULL

Copy == INSTANCE PrivateMemory WITH
          image <- [p \in Procs |-> Memory(p)], NoImage <- NULL,
          store <- [p \in Procs |-> StoreToData(p)], NoStore <- NULL

ForkCopies == Copy!Spec

(* pgfault() copies copy-on-write pages only: a fault never makes a page   *)
(* writable that the process has mapped read-only.                         *)
ReadOnlyKept ==
  [][\A p \in Procs, va \in Data :
       pt[p][va].page # NULL /\ pt[p][va].perm = {} =>
         "W" \notin pt'[p][va].perm]_vars
=============================================================================
