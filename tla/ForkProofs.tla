----------------------------- MODULE ForkProofs -----------------------------
(***************************************************************************)
(* Proofs about Fork, for any number of processes, physical pages, data    *)
(* pages and values.                                                       *)
(***************************************************************************)
EXTENDS Fork, TLAPS

Perms   == {{}, {"W"}, {"COW"}}
Entries == [page : Pages, perm : Perms] \cup {NoPage}

Types ==
  /\ status \in [Procs -> {"FREE", "EMBRYO", "LIVE", "PANIC"}]
  /\ pt \in [Procs -> [VAs -> Entries]]
  /\ tlb \in [Procs -> [VAs -> Entries]]
  /\ content \in [Pages -> Values]
  /\ upcall \in [Procs -> BOOLEAN]
  /\ handler \in [Procs -> BOOLEAN]
  /\ instr \in [Procs -> Writes \cup {NULL}]
  /\ fault \in [Procs -> FaultSteps \cup {NULL}]
  /\ forking \in [Procs -> Forks \cup {NULL}]

(***************************************************************************)
(* Where the processes are.                                                *)
(***************************************************************************)
ParentSteps == {"handler", "set_upcall", "exofork", "exofork_v0"}
CopySteps   == {"dup_map", "dup_copy", "dup_unmap"}

(* p is in one of these steps of fork() or fork_v0(). *)
In(p, steps) == forking[p] # NULL /\ forking[p].step \in steps

(* An environment that does not run yet, or not any more, executes nothing *)
(* and has no translation cached.                                          *)
Idle(p) ==
  /\ instr[p] = NULL /\ fault[p] = NULL /\ forking[p] = NULL
  /\ tlb[p] = Empty
  /\ status[p] = "FREE" => pt[p] = Empty /\ ~upcall[p]

(* The child of a fork() is an embryo.  In the middle of fork() a program  *)
(* writes to its stack only.                                               *)
Control(p) ==
  /\ status[p] \in {"FREE", "EMBRYO"} => Idle(p)
  /\ forking[p] # NULL =>
       /\ IF forking[p].step \in ParentSteps THEN forking[p].child = NULL
          ELSE forking[p].child \in Procs /\ status[forking[p].child] = "EMBRYO"
       /\ forking[p].step = "own" => forking[p].va \in Data \cup {Stack}
       /\ forking[p].step \notin ParentSteps \cup {"start"} => ~upcall[forking[p].child]
       /\ instr[p] # NULL => instr[p].va = Stack

(* No CPU has a translation cached that the page table does not have. *)
Coherent(p) == \A va \in VAs : tlb[p][va] \in {NoPage, pt[p][va]}

(***************************************************************************)
(* What is mapped.                                                         *)
(***************************************************************************)
Writable(p, va) == pt[p][va].perm = {"W"}

(* The write a process is executing, and the pgfault() in it. *)
WriteMapped(p) ==
  /\ fault[p] # NULL => instr[p] # NULL
  /\ instr[p] # NULL =>
       /\ pt[p][instr[p].va] # NoPage
       /\ instr[p].faults <= 1
       /\ fault[p] # NULL => instr[p].faults = 1
       /\ fault[p] \in {"alloc", "copy", "map"} => ~Writable(p, instr[p].va)
       /\ fault[p] = "unmap" => /\ Writable(p, instr[p].va)
                                /\ pt[p][instr[p].va].page = pt[p][PFTEMP].page
       /\ fault[p] = NULL /\ instr[p].faults = 1 => Writable(p, instr[p].va)

(* The temporary addresses are mapped as long as they are in use, ... *)
TempMapped(p) ==
  /\ IF fault[p] \in {"copy", "map", "unmap"}
     THEN Writable(p, PFTEMP) ELSE pt[p][PFTEMP] = NoPage
  /\ IF In(p, {"dup_copy", "dup_unmap"})
     THEN /\ Writable(p, UTEMP)
          /\ pt[p][UTEMP].page = pt[forking[p].child][forking[p].va].page
     ELSE pt[p][UTEMP] = NoPage

(* ... and so are the page that fork_v0() copies and the one it copies to. *)
CopyMapped(p) ==
  In(p, CopySteps) =>
    /\ Writable(p, forking[p].va)
    /\ Writable(forking[p].child, forking[p].va)
    /\ forking[p].va \in Data \cup {Stack, XStack}

(* The kernel can push a fault for whoever has an upcall. *)
XStackMapped(p) ==
  /\ upcall[p] => Writable(p, XStack)
  /\ In(p, {"child_upcall"}) => Writable(forking[p].child, XStack)
  /\ In(p, {"set_upcall"}) => Writable(p, XStack)

DataMapped(p) ==
  status[p] \in {"LIVE", "PANIC"} => \A va \in Data : pt[p][va] # NoPage

ProcInv(p) ==
  /\ Control(p) /\ Coherent(p)
  /\ WriteMapped(p) /\ TempMapped(p) /\ CopyMapped(p) /\ XStackMapped(p)
  /\ DataMapped(p)

(* An embryo has one parent. *)
OneParent ==
  \A p, q \in Procs :
    /\ forking[p] # NULL /\ forking[q] # NULL
    /\ forking[p].child # NULL /\ forking[p].child = forking[q].child
    => p = q

(***************************************************************************)
(* Who shares a page that can be written: nobody, but between the calls of *)
(* duppage(), of pgfault() and of dup_or_share().                          *)
(***************************************************************************)
ThroughUtemp(p, q, vb) ==
  In(p, {"dup_copy", "dup_unmap"}) /\ q = forking[p].child /\ vb = forking[p].va

SharedBy(p, va, q, vb) ==
  \/ /\ In(p, {"own"})
     /\ va = forking[p].va /\ q = forking[p].child /\ vb = va
  \/ /\ p = q /\ fault[p] = "unmap"
     /\ \/ va = PFTEMP /\ vb = instr[p].va
        \/ vb = PFTEMP /\ va = instr[p].va
  \/ va = UTEMP /\ ThroughUtemp(p, q, vb)
  \/ vb = UTEMP /\ ThroughUtemp(q, p, va)

Private ==
  \A p, q \in Procs, va, vb \in VAs :
    /\ Writable(p, va) /\ pt[p][va].page = pt[q][vb].page
    /\ <<p, va>> # <<q, vb>>
    => SharedBy(p, va, q, vb)

(***************************************************************************)
(* What is in the pages.                                                   *)
(***************************************************************************)
SameContent(p, va, q, vb) == content[pt[p][va].page] = content[pt[q][vb].page]

(* pgfault() is about to put the copy in the place of the original. *)
FaultCopied(p) == fault[p] = "map" => SameContent(p, PFTEMP, p, instr[p].va)

(* The pages fork() and fork_v0() are done with. *)
Done(p, va) ==
  \/ In(p, {"xstack", "child_upcall", "start"})
  \/ va < forking[p].va
  \/ va = forking[p].va /\ In(p, {"own", "dup_unmap"})

ForkCopied(p) ==
  \A va \in Data :
    forking[p] # NULL /\ forking[p].child # NULL /\ Done(p, va) =>
      /\ pt[forking[p].child][va] # NoPage
      /\ SameContent(p, va, forking[p].child, va)

ForkInv ==
  /\ Types /\ OneParent /\ Private
  /\ \A p \in Procs : ProcInv(p) /\ FaultCopied(p) /\ ForkCopied(p)

-----------------------------------------------------------------------------
(***************************************************************************)
(* The address space, page table entries and system calls.                 *)
(***************************************************************************)
LEMMA Addresses ==
  /\ UTEMP \in VAs /\ PFTEMP \in VAs /\ Stack \in VAs /\ XStack \in VAs
  /\ Data \subseteq VAs /\ VAs \subseteq Nat
  /\ \A va \in Data \cup {Stack} : va \notin {UTEMP, PFTEMP, XStack}
  /\ Stack \notin Data /\ XStack \notin {UTEMP, PFTEMP} /\ UTEMP # PFTEMP
  /\ \A va \in VAs : va # XStack => va + 1 \in VAs
  /\ \A va \in Data : va < XStack
  /\ \A va \in VAs : va \in Data \/ va \in {UTEMP, PFTEMP, Stack, XStack}
BY ForkAssumption DEF UTEMP, PFTEMP, Data, Stack, XStack, VAs

LEMMA EntryFacts ==
  /\ NoPage \in Entries /\ NoPage.page = NULL /\ NoPage.perm = {}
  /\ \A e \in Entries :
       /\ e.perm \in Perms
       /\ e # NoPage <=> e.page \in Pages
       /\ e = NoPage <=> e.page = NULL
       /\ "W" \in e.perm <=> e.perm = {"W"}
       /\ e.perm = {"W"} => e.page \in Pages
  /\ \A g \in Pages, perm \in Perms :
       /\ [page |-> g, perm |-> perm] \in Entries
       /\ [page |-> g, perm |-> perm].page = g
       /\ [page |-> g, perm |-> perm].perm = perm
<1>1. NULL \notin Pages
  BY ForkAssumption
<1>2. NoPage.page = NULL /\ NoPage.perm = {}
  BY DEF NoPage
<1>3. \A e \in [page : Pages, perm : Perms] : e.perm \in Perms /\ e.page \in Pages
  OBVIOUS
<1>4. \A perm \in Perms : "W" \in perm <=> perm = {"W"}
  BY DEF Perms
<1>5. {} \in Perms /\ {} # {"W"}
  BY DEF Perms
<1> QED BY <1>1, <1>2, <1>3, <1>4, <1>5 DEF Entries

LEMMA KnownPerms == {} \in Perms /\ {"W"} \in Perms /\ {"COW"} \in Perms
BY DEF Perms

LEMMA MappedEntry ==
  ASSUME Types, NEW p \in Procs, NEW va \in VAs
  PROVE  /\ pt[p][va] \in Entries
         /\ pt[p][va] # NoPage <=> pt[p][va].page \in Pages
         /\ "W" \in pt[p][va].perm <=> Writable(p, va)
         /\ Writable(p, va) => pt[p][va] # NoPage /\ pt[p][va].page \in Pages
<1>1. pt[p][va] \in Entries
  BY DEF Types
<1> QED BY <1>1, EntryFacts DEF Writable

LEMMA TranslationRight ==
  ASSUME Types, NEW p \in Procs, Coherent(p), NEW va \in VAs
  PROVE  Translation(p, va) = pt[p][va]
BY DEF Coherent, Translation

LEMMA EmptyTable == Empty \in [VAs -> Entries] /\ \A va \in VAs : Empty[va] = NoPage
BY EntryFacts DEF Empty

LEMMA NotNull ==
  /\ \A w \in Writes : w # NULL
  /\ \A f \in Forks : f # NULL
  /\ \A s \in FaultSteps : s # NULL
  /\ \A p \in Procs : p # NULL
BY ForkAssumption

(* What a call that changes one entry of a page table leaves alone. *)
LEMMA SetPteEffect ==
  ASSUME Types, NEW p \in Procs, NEW q \in Procs, NEW va \in VAs,
         NEW pte \in Entries, SetPte(p, q, va, pte)
  PROVE  /\ pt' \in [Procs -> [VAs -> Entries]]
         /\ tlb' \in [Procs -> [VAs -> Entries]]
         /\ content' \in [Pages -> Values]
         /\ pt'[q][va] = pte
         /\ \A r \in Procs, w \in VAs : <<r, w>> # <<q, va>> => pt'[r][w] = pt[r][w]
         /\ \A r \in Procs : r # q => pt'[r] = pt[r]
         /\ \A r \in Procs : r # p => tlb'[r] = tlb[r]
         /\ \A r \in Procs, w \in VAs : tlb'[r][w] \in {NoPage, tlb[r][w]}
         /\ p = q => tlb'[q][va] = NoPage
         /\ p # q => tlb' = tlb
         /\ \A r \in Procs, w \in VAs : pt'[r][w].page \in Pages =>
              content'[pt'[r][w].page] = content[pt'[r][w].page]
<1>1. /\ pt' \in [Procs -> [VAs -> Entries]]
      /\ pt'[q][va] = pte
      /\ \A r \in Procs, w \in VAs : <<r, w>> # <<q, va>> => pt'[r][w] = pt[r][w]
      /\ \A r \in Procs : r # q => pt'[r] = pt[r]
  BY DEF SetPte, Types
<1>2. /\ tlb' \in [Procs -> [VAs -> Entries]]
      /\ \A r \in Procs : r # p => tlb'[r] = tlb[r]
      /\ \A r \in Procs, w \in VAs : tlb'[r][w] \in {NoPage, tlb[r][w]}
      /\ p = q => tlb'[q][va] = NoPage
      /\ p # q => tlb' = tlb
  <2>1. CASE p = q
    <3>1. tlb' = [tlb EXCEPT ![q][va] = NoPage]
      BY <2>1 DEF SetPte, Invalidate
    <3>2. NoPage \in Entries
      BY EntryFacts
    <3> HIDE DEF NoPage
    <3> QED BY <2>1, <3>1, <3>2 DEF Types
  <2>2. CASE p # q
    BY <2>2 DEF SetPte, Invalidate, Types
  <2> QED BY <2>1, <2>2
<1>3. content' \in [Pages -> Values]
  BY ForkAssumption DEF SetPte, Types
<1>4. ASSUME NEW r \in Procs, NEW w \in VAs, pt'[r][w].page \in Pages
      PROVE  content'[pt'[r][w].page] = content[pt'[r][w].page]
  <2>1. pt'[r][w].page \in UsedIn(pt')
    BY <1>4, ForkAssumption DEF UsedIn
  <2> QED BY <1>4, <2>1 DEF SetPte
<1> QED BY <1>1, <1>2, <1>3, <1>4

LEMMA PageAllocEffect ==
  ASSUME Types, NEW p \in Procs, NEW q \in Procs, NEW va \in VAs,
         NEW perm \in Perms, PageAlloc(p, q, va, perm)
  PROVE  \E pte \in Entries :
           /\ SetPte(p, q, va, pte)
           /\ pte.perm = perm /\ pte.page \in Pages /\ pte # NoPage
           /\ \A r \in Procs, w \in VAs : pt[r][w].page # pte.page
<1>1. PICK g \in FreePages : SetPte(p, q, va, [page |-> g, perm |-> perm])
  BY DEF PageAlloc
<1> DEFINE pte == [page |-> g, perm |-> perm]
<1>2. g \in Pages /\ g \notin UsedIn(pt) /\ g # NULL
  BY ForkAssumption DEF FreePages
<1>3. pte \in Entries /\ pte.perm = perm /\ pte.page = g
  BY <1>2, EntryFacts
<1>4. \A r \in Procs, w \in VAs : pt[r][w].page # g
  BY <1>2 DEF UsedIn
<1> QED BY <1>1, <1>2, <1>3, <1>4, EntryFacts

LEMMA PageMapEffect ==
  ASSUME Types, NEW p \in Procs, NEW src \in Procs, NEW srcva \in VAs,
         NEW dst \in Procs, NEW dstva \in VAs, NEW perm \in Perms,
         PageMap(p, src, srcva, dst, dstva, perm)
  PROVE  /\ perm = {"W"} => Writable(src, srcva)
         /\ pt[src][srcva] # NoPage
         /\ \E pte \in Entries :
              /\ SetPte(p, dst, dstva, pte)
              /\ pte.perm = perm /\ pte.page = pt[src][srcva].page
              /\ pte.page \in Pages /\ pte # NoPage
<1>1. pt[src][srcva].page \in Pages /\ pt[src][srcva] # NoPage
  BY MappedEntry DEF PageMap
<1>2. perm = {"W"} => Writable(src, srcva)
  BY MappedEntry DEF PageMap
<1> DEFINE pte == [page |-> pt[src][srcva].page, perm |-> perm]
<1>3. pte \in Entries /\ pte.perm = perm /\ pte.page = pt[src][srcva].page
  BY <1>1, EntryFacts
<1>4. SetPte(p, dst, dstva, pte)
  BY DEF PageMap
<1> QED BY <1>1, <1>2, <1>3, <1>4, EntryFacts

-----------------------------------------------------------------------------
(***************************************************************************)
(* What the invariant says of a process in the middle of something.        *)
(***************************************************************************)
LEMMA WriteFacts ==
  ASSUME Types, NEW p \in Procs, instr[p] # NULL
  PROVE  /\ instr[p] \in Writes /\ instr[p].va \in Data \cup {Stack}
         /\ instr[p].va \in VAs /\ instr[p].va \notin {UTEMP, PFTEMP, XStack}
         /\ instr[p].value \in Values /\ instr[p].faults \in Nat
<1>1. instr[p] \in Writes
  BY DEF Types
<1>2. instr[p].va \in Data \cup {Stack} /\ instr[p].value \in Values
      /\ instr[p].faults \in Nat
  BY <1>1 DEF Writes
<1> QED BY <1>1, <1>2, Addresses

LEMMA ForkFacts ==
  ASSUME ForkInv, NEW p \in Procs, forking[p] # NULL
  PROVE  /\ forking[p] \in Forks /\ forking[p].step \in ForkSteps
         /\ forking[p].va \in VAs /\ forking[p].child \in Procs \cup {NULL}
         /\ status[p] \in {"LIVE", "PANIC"}
         /\ forking[p].step \notin ParentSteps =>
              /\ forking[p].child \in Procs
              /\ status[forking[p].child] = "EMBRYO"
              /\ forking[p].child # p
              /\ Idle(forking[p].child)
<1>1. forking[p] \in Forks
  BY DEF ForkInv, Types
<1>2. /\ forking[p].step \in ForkSteps /\ forking[p].va \in VAs
      /\ forking[p].child \in Procs \cup {NULL}
  BY <1>1 DEF Forks
<1>3. status[p] \in {"FREE", "EMBRYO", "LIVE", "PANIC"}
  BY DEF ForkInv, Types
<1>4. status[p] \in {"LIVE", "PANIC"}
  BY <1>3 DEF ForkInv, ProcInv, Control, Idle
<1>5. ASSUME forking[p].step \notin ParentSteps
      PROVE  /\ forking[p].child \in Procs
             /\ status[forking[p].child] = "EMBRYO"
  BY <1>5 DEF ForkInv, ProcInv, Control
<1>6. \A q \in Procs : status[q] = "EMBRYO" => Idle(q)
  BY DEF ForkInv, ProcInv, Control
<1> QED BY <1>1, <1>2, <1>4, <1>5, <1>6

(* A process that executes no write has no fault, and nothing at PFTEMP. *)
LEMMA ExecutingFacts ==
  ASSUME ForkInv, NEW p \in Procs, Executing(p)
  PROVE  /\ status[p] = "LIVE" /\ instr[p] = NULL /\ fault[p] = NULL
         /\ pt[p][PFTEMP] = NoPage
<1>1. status[p] = "LIVE" /\ instr[p] = NULL
  BY DEF Executing, Running
<1>2. fault[p] = NULL
  BY <1>1 DEF ForkInv, ProcInv, WriteMapped
<1>3. fault[p] \notin {"copy", "map", "unmap"}
  BY <1>2, NotNull DEF FaultSteps
<1> QED BY <1>1, <1>2, <1>3 DEF ForkInv, ProcInv, TempMapped

LEMMA AtFacts ==
  ASSUME ForkInv, NEW p \in Procs, NEW step, At(p, step)
  PROVE  /\ status[p] = "LIVE" /\ instr[p] = NULL /\ fault[p] = NULL
         /\ pt[p][PFTEMP] = NoPage
         /\ forking[p] # NULL /\ forking[p].step = step
         /\ step \notin {"dup_copy", "dup_unmap"} => pt[p][UTEMP] = NoPage
<1>1. Executing(p) /\ forking[p] # NULL /\ forking[p].step = step
  BY DEF At
<1>2. step \notin {"dup_copy", "dup_unmap"} => pt[p][UTEMP] = NoPage
  BY <1>1 DEF ForkInv, ProcInv, TempMapped, In
<1> QED BY <1>1, <1>2, ExecutingFacts

LEMMA ToEffect ==
  ASSUME Types, NEW p \in Procs, NEW step \in ForkSteps,
         NEW child \in Procs \cup {NULL}, NEW va \in VAs, To(p, step, child, va)
  PROVE  /\ forking' \in [Procs -> Forks \cup {NULL}]
         /\ forking'[p] # NULL /\ forking'[p].step = step
         /\ forking'[p].child = child /\ forking'[p].va = va
         /\ \A r \in Procs : r # p => forking'[r] = forking[r]
<1> DEFINE f == [step |-> step, child |-> child, va |-> va]
<1>1. f \in Forks /\ f.step = step /\ f.child = child /\ f.va = va
  BY DEF Forks
<1>2. f # NULL
  BY <1>1, NotNull
<1>3. forking' = [forking EXCEPT ![p] = f]
  BY DEF To
<1> HIDE DEF f
<1> QED BY <1>1, <1>2, <1>3 DEF Types

LEMMA NextVaEffect ==
  ASSUME ForkInv, NEW p \in Procs, forking[p] # NULL, NEW this \in ForkSteps,
         NEW after \in ForkSteps, NextVa(p, this, after)
  PROVE  /\ forking' \in [Procs -> Forks \cup {NULL}]
         /\ forking'[p] # NULL /\ forking'[p].child = forking[p].child
         /\ forking'[p].va \in VAs
         /\ forking[p].va = XStack =>
              forking'[p].step = after /\ forking'[p].va = forking[p].va
         /\ forking[p].va # XStack =>
              forking'[p].step = this /\ forking'[p].va = forking[p].va + 1
         /\ \A r \in Procs : r # p => forking'[r] = forking[r]
<1>1. forking[p].va \in VAs /\ forking[p].child \in Procs \cup {NULL} /\ Types
  BY ForkFacts DEF ForkInv
<1>2. CASE forking[p].va = XStack
  <2>1. To(p, after, forking[p].child, forking[p].va)
    BY <1>2 DEF NextVa
  <2> QED BY <1>1, <1>2, <2>1, ToEffect
<1>3. CASE forking[p].va # XStack
  <2>1. To(p, this, forking[p].child, forking[p].va + 1)
    BY <1>3 DEF NextVa
  <2>2. forking[p].va + 1 \in VAs
    BY <1>1, <1>3, Addresses
  <2> QED BY <1>1, <1>3, <2>1, <2>2, ToEffect
<1> QED BY <1>2, <1>3

-----------------------------------------------------------------------------
(***************************************************************************)
(* What a step leaves alone.                                               *)
(***************************************************************************)

(* A step of p, whose child is c or that has none, changes nothing of what *)
(* any other process executes.                                             *)
StepOf(p, c) ==
  /\ Types'
  /\ \A r \in Procs : r # p =>
       /\ instr'[r] = instr[r] /\ fault'[r] = fault[r]
       /\ forking'[r] = forking[r] /\ tlb'[r] = tlb[r]
  /\ \A r \in Procs : r \notin {p, c} =>
       /\ pt'[r] = pt[r] /\ upcall'[r] = upcall[r] /\ status'[r] = status[r]
  /\ \A r \in Procs : r # p /\ forking[r] # NULL => forking[r].child \notin {p, c}
  /\ forking'[p] # NULL => forking'[p].child \in {NULL, c}

LEMMA Untouched ==
  ASSUME ForkInv, Types', NEW r \in Procs,
         instr'[r] = instr[r], fault'[r] = fault[r], forking'[r] = forking[r],
         tlb'[r] = tlb[r], pt'[r] = pt[r], upcall'[r] = upcall[r],
         status'[r] = status[r],
         forking[r] # NULL /\ forking[r].child # NULL =>
           /\ pt'[forking[r].child] = pt[forking[r].child]
           /\ upcall'[forking[r].child] = upcall[forking[r].child]
           /\ status'[forking[r].child] = status[forking[r].child]
  PROVE  ProcInv(r)'
<1>1. ProcInv(r)
  BY DEF ForkInv
<1>2. forking[r] # NULL => \/ forking[r].step \in ParentSteps
                           \/ forking[r].child # NULL
  BY <1>1, NotNull DEF ProcInv, Control
<1>3. \A steps : steps \cap ParentSteps = {} /\ In(r, steps) => forking[r].child # NULL
  BY <1>2 DEF In
<1>4. Control(r)'
  BY <1>1, <1>2 DEF ProcInv, Control, Idle, CopySteps, ParentSteps
<1>5. Coherent(r)' /\ WriteMapped(r)' /\ DataMapped(r)'
  BY <1>1 DEF ProcInv, Coherent, WriteMapped, DataMapped, Writable
<1>6. TempMapped(r)' /\ CopyMapped(r)' /\ XStackMapped(r)'
  BY <1>1, <1>2
     DEF ProcInv, TempMapped, CopyMapped, XStackMapped, Writable, In, CopySteps,
         ParentSteps
<1> QED BY <1>4, <1>5, <1>6 DEF ProcInv

LEMMA OthersUntouched ==
  ASSUME ForkInv, NEW p \in Procs, NEW c \in Procs, StepOf(p, c)
  PROVE  \A r \in Procs : r \notin {p, c} => ProcInv(r)'
<1> SUFFICES ASSUME NEW r \in Procs, r \notin {p, c} PROVE ProcInv(r)'
  OBVIOUS
<1>1. forking[r] # NULL /\ forking[r].child # NULL =>
        forking[r].child \in Procs /\ forking[r].child \notin {p, c}
  BY ForkFacts DEF StepOf
<1> QED BY <1>1, Untouched DEF StepOf

LEMMA OneParentKept ==
  ASSUME ForkInv, NEW p \in Procs, NEW c \in Procs, StepOf(p, c)
  PROVE  OneParent'
BY DEF ForkInv, OneParent, StepOf

(* A child that is not started yet. *)
LEMMA EmbryoKept ==
  ASSUME NEW c \in Procs, Types', status'[c] = "EMBRYO", Idle(c)',
         pt'[c][PFTEMP] = NoPage, pt'[c][UTEMP] = NoPage,
         upcall'[c] => Writable(c, XStack)'
  PROVE  ProcInv(c)'
<1>1. fault'[c] = NULL /\ instr'[c] = NULL /\ forking'[c] = NULL
      /\ tlb'[c] = Empty
  BY DEF Idle
<1>2. fault'[c] \notin FaultSteps
  BY <1>1, NotNull
<1>3. Coherent(c)'
  BY <1>1, EmptyTable DEF Coherent
<1>4. Control(c)' /\ WriteMapped(c)' /\ TempMapped(c)' /\ CopyMapped(c)'
  BY <1>1, <1>2 DEF Control, WriteMapped, TempMapped, CopyMapped, In, FaultSteps
<1>5. XStackMapped(c)' /\ DataMapped(c)'
  BY <1>1 DEF XStackMapped, DataMapped, In
<1> QED BY <1>3, <1>4, <1>5 DEF ProcInv

(* No step but those of the sharing process itself ends its sharing. *)
LEMMA SharingKept ==
  ASSUME NEW p \in Procs, NEW c \in Procs, StepOf(p, c),
         NEW a \in Procs, NEW b \in Procs, NEW va \in VAs, NEW vb \in VAs,
         SharedBy(a, va, b, vb), a # p, b # p
  PROVE  SharedBy(a, va, b, vb)'
BY DEF StepOf, SharedBy, ThroughUtemp, In

LEMMA PrivateSame ==
  ASSUME Private, pt' = pt,
         \A a, b \in Procs, va, vb \in VAs :
           SharedBy(a, va, b, vb) => SharedBy(a, va, b, vb)'
  PROVE  Private'
BY DEF Private, Writable

LEMMA PrivatePte ==
  ASSUME Types, Private, NEW p \in Procs, NEW q \in Procs, NEW va \in VAs,
         NEW pte \in Entries, SetPte(p, q, va, pte),
         \A a, b \in Procs, x, y \in VAs :
           /\ SharedBy(a, x, b, y)
           /\ <<a, x>> # <<q, va>> /\ <<b, y>> # <<q, va>>
           /\ <<a, x>> # <<b, y>>
           /\ Writable(a, x) /\ pt[a][x].page = pt[b][y].page
           => SharedBy(a, x, b, y)',
         \A b \in Procs, y \in VAs :
           /\ <<b, y>> # <<q, va>> /\ pt[b][y].page = pte.page
           => /\ pte.perm = {"W"} => SharedBy(q, va, b, y)'
              /\ Writable(b, y)  => SharedBy(b, y, q, va)'
  PROVE  Private'
<1> SUFFICES ASSUME NEW a \in Procs, NEW b \in Procs, NEW x \in VAs, NEW y \in VAs,
                    Writable(a, x)', pt'[a][x].page = pt'[b][y].page,
                    <<a, x>> # <<b, y>>
             PROVE  SharedBy(a, x, b, y)'
  BY DEF Private
<1>1. /\ pt'[q][va] = pte
      /\ \A r \in Procs, w \in VAs : <<r, w>> # <<q, va>> => pt'[r][w] = pt[r][w]
  BY SetPteEffect
<1>2. CASE <<a, x>> = <<q, va>>
  BY <1>1, <1>2 DEF Writable
<1>3. CASE <<b, y>> = <<q, va>>
  BY <1>1, <1>3 DEF Writable
<1>4. CASE <<a, x>> # <<q, va>> /\ <<b, y>> # <<q, va>>
  BY <1>1, <1>4 DEF Writable, Private
<1> QED BY <1>2, <1>3, <1>4

(* What the pages mapped by the processes that take no part in the step    *)
(* hold is as before.                                                      *)
ContentKept(r) ==
  \A w \in VAs : pt[r][w].page \in Pages =>
                   content'[pt[r][w].page] = content[pt[r][w].page]

LEMMA CopiesKept ==
  ASSUME ForkInv, NEW r \in Procs,
         instr'[r] = instr[r], fault'[r] = fault[r], forking'[r] = forking[r],
         pt'[r] = pt[r], ContentKept(r),
         forking[r] # NULL /\ forking[r].child # NULL =>
           /\ pt'[forking[r].child] = pt[forking[r].child]
           /\ ContentKept(forking[r].child)
  PROVE  FaultCopied(r)' /\ ForkCopied(r)'
<1>1. Types /\ ProcInv(r) /\ FaultCopied(r) /\ ForkCopied(r)
  BY DEF ForkInv
<1>2. FaultCopied(r)'
  <2> SUFFICES ASSUME fault[r] = "map" PROVE SameContent(r, PFTEMP, r, instr[r].va)'
    BY DEF FaultCopied
  <2>1. instr[r] # NULL
    BY <1>1, NotNull DEF ProcInv, WriteMapped, FaultSteps
  <2>2. pt[r][PFTEMP].page \in Pages
    BY <1>1, MappedEntry, Addresses DEF ProcInv, TempMapped
  <2>3. instr[r].va \in VAs
    BY <1>1, <2>1, WriteFacts
  <2>4. pt[r][instr[r].va].page \in Pages
    BY <1>1, <2>1, <2>3, MappedEntry DEF ProcInv, WriteMapped
  <2>5. SameContent(r, PFTEMP, r, instr[r].va)
    BY <1>1 DEF FaultCopied
  <2> QED BY <2>2, <2>3, <2>4, <2>5, Addresses DEF SameContent, ContentKept
<1>3. ForkCopied(r)'
  <2> SUFFICES ASSUME NEW va \in Data, forking[r] # NULL, forking[r].child # NULL,
                      Done(r, va)
               PROVE  /\ pt[forking[r].child][va] # NoPage
                      /\ SameContent(r, va, forking[r].child, va)'
    BY DEF ForkCopied, Done, In
  <2> DEFINE c == forking[r].child
  <2>1. c \in Procs /\ status[r] \in {"LIVE", "PANIC"} /\ va \in VAs
    BY ForkFacts, Addresses
  <2>2. pt[c][va] # NoPage /\ SameContent(r, va, c, va)
    BY <1>1 DEF ForkCopied
  <2>3. pt[c][va].page \in Pages
    BY <1>1, <2>1, <2>2, MappedEntry
  <2>4. pt[r][va].page \in Pages
    BY <1>1, <2>1, MappedEntry DEF ProcInv, DataMapped
  <2> QED BY <2>1, <2>2, <2>3, <2>4 DEF SameContent, ContentKept
<1> QED BY <1>2, <1>3

(* It is enough to look at the process that steps and at its child. *)
LEMMA Assemble ==
  ASSUME ForkInv, NEW p \in Procs, NEW c \in Procs, StepOf(p, c), Private',
         ProcInv(p)', FaultCopied(p)', ForkCopied(p)',
         c # p => /\ ProcInv(c)' /\ fault'[c] = NULL /\ forking'[c] = NULL,
         \A r \in Procs : r \notin {p, c} => ContentKept(r)
  PROVE  ForkInv'
<1>1. \A r \in Procs : ProcInv(r)'
  BY OthersUntouched
<1>2. ASSUME NEW r \in Procs PROVE FaultCopied(r)' /\ ForkCopied(r)'
  <2>1. CASE r = p
    BY <2>1
  <2>2. CASE r = c /\ c # p
    <3>1. NULL # "map"
      BY NotNull DEF FaultSteps
    <3> QED BY <2>2, <3>1 DEF FaultCopied, ForkCopied
  <2>3. CASE r \notin {p, c}
    <3>1. forking[r] # NULL /\ forking[r].child # NULL =>
            forking[r].child \in Procs /\ forking[r].child \notin {p, c}
      BY <2>3, ForkFacts DEF StepOf
    <3> QED BY <2>3, <3>1, CopiesKept DEF StepOf
  <2> QED BY <2>1, <2>2, <2>3
<1> QED BY <1>1, <1>2, OneParentKept DEF ForkInv, StepOf

(* The child of p, if it has one. *)
ChildOf(p) == IF forking[p] # NULL /\ forking[p].child # NULL
              THEN forking[p].child ELSE p

LEMMA ChildFacts ==
  ASSUME ForkInv, NEW p \in Procs, status[p] = "LIVE"
  PROVE  /\ ChildOf(p) \in Procs
         /\ \A r \in Procs : r # p /\ forking[r] # NULL =>
              forking[r].child \notin {p, ChildOf(p)}
         /\ ChildOf(p) # p => /\ status[ChildOf(p)] = "EMBRYO" /\ Idle(ChildOf(p))
                              /\ forking[p] # NULL
                              /\ forking[p].child = ChildOf(p)
         /\ forking[p] # NULL => forking[p].child \in {NULL, ChildOf(p)}
<1>1. \A r \in Procs : forking[r] # NULL /\ forking[r].child # NULL =>
        /\ forking[r].child \in Procs /\ status[forking[r].child] = "EMBRYO"
        /\ Idle(forking[r].child)
  <2> SUFFICES ASSUME NEW r \in Procs, forking[r] # NULL, forking[r].child # NULL
               PROVE  forking[r].step \notin ParentSteps
    BY ForkFacts
  <2> QED BY DEF ForkInv, ProcInv, Control
<1> QED BY <1>1, NotNull DEF ChildOf, ForkInv, OneParent

-----------------------------------------------------------------------------
(***************************************************************************)
(* The steps that leave page tables and memory alone.                      *)
(***************************************************************************)
LEMMA QuietStep ==
  ASSUME ForkInv, NEW p \in Procs, NEW c \in Procs, StepOf(p, c),
         pt' = pt, content' = content,
         ProcInv(p)', FaultCopied(p)', ForkCopied(p)',
         c # p => /\ ProcInv(c)' /\ fault'[c] = NULL /\ forking'[c] = NULL,
         fault[p] = "unmap" => fault'[p] = "unmap" /\ instr'[p].va = instr[p].va,
         In(p, {"own", "dup_copy", "dup_unmap"}) => forking'[p] = forking[p]
  PROVE  ForkInv'
<1>1. ASSUME NEW a \in Procs, NEW b \in Procs, NEW va \in VAs, NEW vb \in VAs,
             SharedBy(a, va, b, vb)
      PROVE  SharedBy(a, va, b, vb)'
  BY <1>1 DEF StepOf, SharedBy, ThroughUtemp, In
<1>2. Private'
  BY <1>1, PrivateSame DEF ForkInv
<1>3. \A r \in Procs : ContentKept(r)
  BY DEF ContentKept
<1> QED BY <1>2, <1>3, Assemble

(* ... and what nobody but p sees. *)
OnlyOf(p) ==
  /\ Types' /\ pt' = pt /\ content' = content
  /\ \A r \in Procs : r # p =>
       /\ instr'[r] = instr[r] /\ fault'[r] = fault[r]
       /\ forking'[r] = forking[r] /\ tlb'[r] = tlb[r]
       /\ upcall'[r] = upcall[r] /\ status'[r] = status[r]

LEMMA OwnStep ==
  ASSUME ForkInv, NEW p \in Procs, status[p] = "LIVE", OnlyOf(p),
         forking'[p] # NULL => forking'[p].child \in {NULL, ChildOf(p)},
         ProcInv(p)', FaultCopied(p)', ForkCopied(p)',
         fault[p] = "unmap" => fault'[p] = "unmap" /\ instr'[p].va = instr[p].va,
         In(p, {"own", "dup_copy", "dup_unmap"}) => forking'[p] = forking[p]
  PROVE  ForkInv'
<1>1. PICK c \in Procs : c = ChildOf(p)
  BY ChildFacts
<1>2. StepOf(p, c)
  BY <1>1, ChildFacts DEF StepOf, OnlyOf
<1>3. c # p => Idle(c) /\ ProcInv(c)
  BY <1>1, ChildFacts DEF ForkInv
<1>4. c # p => ProcInv(c)' /\ fault'[c] = NULL /\ forking'[c] = NULL
  BY <1>3, Untouched DEF Idle, OnlyOf
<1> QED BY <1>2, <1>4, QuietStep DEF OnlyOf

(* The write of a program, ... *)
LEMMA IssueStep ==
  ASSUME ForkInv, NEW p \in Procs, NEW va \in Data \cup {Stack}, NEW v \in Values,
         Issue(p, va, v)
  PROVE  ForkInv'
<1> DEFINE w == [va |-> va, value |-> v, faults |-> 0]
<1>1. /\ status[p] = "LIVE" /\ instr[p] = NULL /\ fault[p] = NULL
      /\ pt[p][PFTEMP] = NoPage
  BY ExecutingFacts DEF Issue
<1>2. w \in Writes /\ w.va = va /\ w.faults = 0 /\ w # NULL
  BY NotNull DEF Writes
<1>3. /\ instr' = [instr EXCEPT ![p] = w]
      /\ UNCHANGED <<status, pt, tlb, content, upcall, handler, fault, forking>>
      /\ pt[p][va] # NoPage /\ (forking[p] # NULL => va = Stack)
  BY DEF Issue
<1> HIDE DEF w
<1>4. instr'[p] = w /\ \A r \in Procs : r # p => instr'[r] = instr[r]
  BY <1>3 DEF ForkInv, Types
<1>5. OnlyOf(p)
  BY <1>2, <1>3, <1>4 DEF ForkInv, Types, OnlyOf
<1>6. fault[p] \notin FaultSteps /\ ProcInv(p)
  BY <1>1, NotNull DEF ForkInv
<1>7. ProcInv(p)'
  <2>1. Control(p)' /\ Coherent(p)' /\ DataMapped(p)'
    BY <1>1, <1>2, <1>3, <1>4, <1>6 DEF ProcInv, Control, Coherent, DataMapped
  <2>2. TempMapped(p)' /\ CopyMapped(p)' /\ XStackMapped(p)'
    BY <1>3, <1>6 DEF ProcInv, TempMapped, CopyMapped, XStackMapped, Writable, In
  <2>3. WriteMapped(p)'
    BY <1>1, <1>2, <1>3, <1>4, <1>6 DEF WriteMapped, Writable, FaultSteps
  <2> QED BY <2>1, <2>2, <2>3 DEF ProcInv
<1>8. FaultCopied(p)' /\ ForkCopied(p)'
  BY <1>3, <1>6 DEF FaultCopied, ForkCopied, ForkInv, Done, In, SameContent, FaultSteps
<1>9. forking'[p] # NULL => forking'[p].child \in {NULL, ChildOf(p)}
  BY <1>1, <1>3, ChildFacts
<1> QED BY <1>1, <1>3, <1>5, <1>6, <1>7, <1>8, <1>9, OwnStep DEF FaultSteps

(* ... and the first fault it takes. *)
LEMMA UpcallStep ==
  ASSUME ForkInv, NEW p \in Procs, Upcall(p)
  PROVE  ForkInv'
<1> DEFINE w == [instr[p] EXCEPT !.faults = @ + 1]
<1>t. Types /\ ProcInv(p)
  BY DEF ForkInv
<1>1. /\ status[p] = "LIVE" /\ instr[p] # NULL /\ fault[p] = NULL
      /\ "W" \notin Translation(p, instr[p].va).perm
  BY DEF Upcall, Faulting, Running
<1>2. instr[p] \in Writes /\ instr[p].va \in VAs /\ instr[p].faults \in Nat
  BY <1>t, <1>1, WriteFacts
<1>3. ~Writable(p, instr[p].va)
  BY <1>t, <1>1, <1>2, TranslationRight, MappedEntry DEF ProcInv
<1>4. instr[p].faults = 0
  BY <1>t, <1>1, <1>2, <1>3 DEF ProcInv, WriteMapped
<1>5. w \in Writes /\ w.va = instr[p].va /\ w.faults = 1 /\ w # NULL
  BY <1>2, <1>4, NotNull DEF Writes
<1>6. /\ instr' = [instr EXCEPT ![p] = w]
      /\ fault' = [fault EXCEPT ![p] = "alloc"]
      /\ UNCHANGED <<status, pt, tlb, content, upcall, handler, forking>>
  BY <1>t DEF Upcall, Types
<1> HIDE DEF w
<1>7. /\ instr'[p] = w /\ fault'[p] = "alloc"
      /\ \A r \in Procs : r # p => instr'[r] = instr[r] /\ fault'[r] = fault[r]
  BY <1>t, <1>6 DEF Types
<1>8. OnlyOf(p)
  BY <1>t, <1>5, <1>6, <1>7 DEF Types, OnlyOf, FaultSteps
<1>9. ProcInv(p)'
  <2>1. Control(p)' /\ Coherent(p)' /\ DataMapped(p)'
    BY <1>1, <1>t, <1>5, <1>6, <1>7 DEF ProcInv, Control, Coherent, DataMapped
  <2>2. CopyMapped(p)' /\ XStackMapped(p)'
    BY <1>t, <1>6 DEF ProcInv, CopyMapped, XStackMapped, Writable, In
  <2>3. fault[p] \notin FaultSteps
    BY <1>1, NotNull
  <2>4. TempMapped(p)'
    BY <1>t, <1>6, <1>7, <2>3 DEF ProcInv, TempMapped, Writable, In, FaultSteps
  <2>5. "alloc" # NULL
    BY NotNull DEF FaultSteps
  <2>6. WriteMapped(p)'
    BY <1>t, <1>1, <1>3, <1>5, <1>6, <1>7, <2>5 DEF ProcInv, WriteMapped, Writable
  <2> QED BY <2>1, <2>2, <2>4, <2>6 DEF ProcInv
<1>10. FaultCopied(p)' /\ ForkCopied(p)'
  BY <1>6, <1>7 DEF FaultCopied, ForkCopied, ForkInv, Done, In, SameContent
<1>11. forking'[p] # NULL => forking'[p].child \in {NULL, ChildOf(p)}
  BY <1>1, <1>6, ChildFacts
<1>12. fault[p] # "unmap"
  BY <1>1, NotNull DEF FaultSteps
<1> QED BY <1>1, <1>6, <1>8, <1>9, <1>10, <1>11, <1>12, OwnStep

(* A panic, wherever it happens. *)
LEMMA PanicStep ==
  ASSUME ForkInv, NEW p \in Procs, status[p] = "LIVE", Panic(p)
  PROVE  ForkInv'
<1>t. Types /\ ProcInv(p)
  BY DEF ForkInv
<1>1. /\ status' = [status EXCEPT ![p] = "PANIC"]
      /\ UNCHANGED <<pt, tlb, content, upcall, handler, instr, fault, forking>>
  BY DEF Panic
<1>2. status'[p] = "PANIC" /\ \A r \in Procs : r # p => status'[r] = status[r]
  BY <1>t, <1>1 DEF Types
<1>3. OnlyOf(p)
  BY <1>t, <1>1, <1>2 DEF Types, OnlyOf
<1>4. ProcInv(p)'
  <2>1. forking[p] # NULL /\ forking[p].step \notin ParentSteps =>
          status'[forking[p].child] = "EMBRYO"
    BY <1>2, ForkFacts
  <2>2. Control(p)' /\ DataMapped(p)'
    BY <1>t, <1>1, <1>2, <2>1 DEF ProcInv, Control, DataMapped
  <2>3. Coherent(p)' /\ WriteMapped(p)' /\ TempMapped(p)' /\ CopyMapped(p)'
        /\ XStackMapped(p)'
    BY <1>t, <1>1 DEF ProcInv, Coherent, WriteMapped, TempMapped, CopyMapped,
                      XStackMapped, Writable, In
  <2> QED BY <2>2, <2>3 DEF ProcInv
<1>5. FaultCopied(p)' /\ ForkCopied(p)'
  BY <1>1 DEF FaultCopied, ForkCopied, ForkInv, Done, In, SameContent
<1>6. forking'[p] # NULL => forking'[p].child \in {NULL, ChildOf(p)}
  BY <1>1, ChildFacts
<1> QED BY <1>1, <1>3, <1>4, <1>5, <1>6, OwnStep

(* The steps of fork() before there is a child. *)
LEMMA ParentStep ==
  ASSUME ForkInv, NEW p \in Procs, Executing(p),
         forking[p] = NULL \/ forking[p].step \in ParentSteps,
         UNCHANGED <<status, pt, tlb, content, instr, fault>>,
         handler' \in [Procs -> BOOLEAN],
         NEW step \in ParentSteps \ {"set_upcall"}, To(p, step, NULL, 0),
         \/ upcall' = upcall
         \/ upcall' = [upcall EXCEPT ![p] = TRUE] /\ Writable(p, XStack)
  PROVE  ForkInv'
<1>t. Types /\ ProcInv(p)
  BY DEF ForkInv
<1>1. status[p] = "LIVE" /\ instr[p] = NULL /\ fault[p] = NULL
  BY ExecutingFacts
<1>2. 0 \in VAs /\ step \in ForkSteps
  BY Addresses DEF UTEMP, ParentSteps, ForkSteps
<1>3. /\ forking' \in [Procs -> Forks \cup {NULL}]
      /\ forking'[p] # NULL /\ forking'[p].step = step
      /\ forking'[p].child = NULL
      /\ \A r \in Procs : r # p => forking'[r] = forking[r]
  BY <1>t, <1>2, ToEffect
<1>4. /\ upcall' \in [Procs -> BOOLEAN]
      /\ \A r \in Procs : r # p => upcall'[r] = upcall[r]
      /\ upcall'[p] => Writable(p, XStack)
  BY <1>t DEF Types, ProcInv, XStackMapped
<1>5. OnlyOf(p)
  BY <1>t, <1>3, <1>4 DEF Types, OnlyOf
<1>6. ProcInv(p)'
  <2>1. Control(p)' /\ Coherent(p)' /\ DataMapped(p)'
    BY <1>1, <1>t, <1>3 DEF ProcInv, Control, Coherent, DataMapped, ParentSteps,
                            CopySteps
  <2>2. ~In(p, {"dup_copy", "dup_unmap"}) /\ ~In(p, {"dup_copy", "dup_unmap"})'
    BY <1>3 DEF In, ParentSteps
  <2>3. TempMapped(p)'
    BY <1>t, <2>2 DEF ProcInv, TempMapped, Writable
  <2>4. CopyMapped(p)' /\ XStackMapped(p)'
    BY <1>3, <1>4 DEF CopyMapped, XStackMapped, Writable, In, ParentSteps, CopySteps
  <2>5. WriteMapped(p)'
    BY <1>1 DEF WriteMapped
  <2> QED BY <2>1, <2>3, <2>4, <2>5 DEF ProcInv
<1>7. FaultCopied(p)' /\ ForkCopied(p)'
  BY <1>3 DEF FaultCopied, ForkCopied, ForkInv, SameContent
<1>8. ~In(p, {"own", "dup_copy", "dup_unmap"})
  BY DEF In, ParentSteps
<1> QED BY <1>1, <1>3, <1>5, <1>6, <1>7, <1>8, OwnStep

LEMMA ParentStepsKeep ==
  ASSUME ForkInv, NEW p \in Procs,
         CallFork(p) \/ CallForkV0(p) \/ NoHandlerStack(p) \/ SetUpcall(p)
  PROVE  ForkInv'
<1>t. Types /\ ProcInv(p)
  BY DEF ForkInv
<1> USE DEF ParentSteps
<1>1. CASE CallFork(p)
  <2>1. handler' \in [Procs -> BOOLEAN]
    BY <1>t, <1>1 DEF Types, CallFork
  <2> QED BY <1>1, <2>1, ParentStep DEF CallFork
<1>2. CASE CallForkV0(p)
  <2>1. handler' \in [Procs -> BOOLEAN]
    BY <1>t, <1>2 DEF Types, CallForkV0
  <2> QED BY <1>2, <2>1, ParentStep DEF CallForkV0
<1>3. CASE NoHandlerStack(p)
  <2>1. handler' \in [Procs -> BOOLEAN]
    BY <1>t, <1>3 DEF Types, NoHandlerStack
  <2> QED BY <1>3, <2>1, ParentStep DEF NoHandlerStack, At
<1>4. CASE SetUpcall(p)
  <2>1. handler' \in [Procs -> BOOLEAN]
    BY <1>t, <1>4 DEF Types, SetUpcall
  <2>2. Writable(p, XStack)
    BY <1>t, <1>4 DEF ProcInv, XStackMapped, In, SetUpcall, At
  <2> QED BY <1>4, <2>1, <2>2, ParentStep DEF SetUpcall, At
<1> QED BY <1>1, <1>2, <1>3, <1>4

(* The loop of fork() passes over what is not mapped. *)
LEMMA SkipPageStep ==
  ASSUME ForkInv, NEW p \in Procs, SkipPage(p)
  PROVE  ForkInv'
<1>t. Types /\ ProcInv(p)
  BY DEF ForkInv
<1>1. /\ status[p] = "LIVE" /\ instr[p] = NULL /\ fault[p] = NULL
      /\ forking[p] # NULL /\ forking[p].step = "duppage"
  BY AtFacts DEF SkipPage
<1>2. UNCHANGED <<status, pt, tlb, content, upcall, handler, instr, fault>>
  BY DEF SkipPage
<1>3. /\ forking' \in [Procs -> Forks \cup {NULL}]
      /\ forking'[p] # NULL /\ forking'[p].child = forking[p].child
      /\ forking[p].va = XStack => forking'[p].step = "xstack"
      /\ forking[p].va # XStack =>
           forking'[p].step = "duppage" /\ forking'[p].va = forking[p].va + 1
      /\ \A r \in Procs : r # p => forking'[r] = forking[r]
  BY <1>1, NextVaEffect DEF SkipPage, ForkSteps
<1>4. OnlyOf(p)
  BY <1>t, <1>2, <1>3 DEF Types, OnlyOf
<1>5. forking[p].va \in VAs
  BY <1>1, ForkFacts
<1>6. ProcInv(p)'
  <2>1. Control(p)' /\ Coherent(p)' /\ DataMapped(p)' /\ WriteMapped(p)'
    BY <1>1, <1>t, <1>2, <1>3
       DEF ProcInv, Control, Coherent, DataMapped, WriteMapped, ParentSteps,
           CopySteps, Writable
  <2>2. ~In(p, {"dup_copy", "dup_unmap"}) /\ ~In(p, {"dup_copy", "dup_unmap"})'
    BY <1>1, <1>3 DEF In
  <2>3. TempMapped(p)'
    BY <1>t, <1>2, <2>2 DEF ProcInv, TempMapped, Writable
  <2>4. CopyMapped(p)' /\ XStackMapped(p)'
    BY <1>t, <1>2, <1>3 DEF ProcInv, CopyMapped, XStackMapped, Writable, In, CopySteps
  <2> QED BY <2>1, <2>3, <2>4 DEF ProcInv
<1>7. FaultCopied(p)' /\ ForkCopied(p)'
  <2>1. fault[p] # "map" /\ ForkCopied(p)
    BY <1>1, NotNull DEF FaultSteps, ForkInv
  <2>2. \A va \in Data : va # forking[p].va
    BY <1>t, <1>1, Addresses DEF SkipPage, LeavesOut, ProcInv, DataMapped
  <2>3. ASSUME NEW va \in Data, Done(p, va)' PROVE Done(p, va)
    <3>1. va \in Nat /\ forking[p].va \in Nat /\ va < XStack
      BY <1>5, Addresses
    <3> QED BY <1>1, <1>3, <2>2, <2>3, <3>1 DEF Done, In
  <2> QED BY <1>1, <1>2, <1>3, <2>1, <2>3 DEF FaultCopied, ForkCopied, SameContent
<1>8. forking'[p] # NULL => forking'[p].child \in {NULL, ChildOf(p)}
  BY <1>1, <1>3, ChildFacts
<1>9. ~In(p, {"own", "dup_copy", "dup_unmap"}) /\ fault[p] # "unmap"
  BY <1>1, NotNull DEF In, FaultSteps
<1> QED BY <1>1, <1>4, <1>6, <1>7, <1>8, <1>9, OwnStep

(* sys_exofork(): an environment with nothing mapped. *)
LEMMA ExoforkStep ==
  ASSUME ForkInv, NEW p \in Procs, NEW c \in Procs, Exofork(p, c)
  PROVE  ForkInv'
<1>t. Types /\ ProcInv(p) /\ ProcInv(c)
  BY DEF ForkInv
<1>1. PICK v0 \in BOOLEAN :
        /\ At(p, IF v0 THEN "exofork_v0" ELSE "exofork")
        /\ status[c] = "FREE"
        /\ status' = [status EXCEPT ![c] = "EMBRYO"]
        /\ To(p, IF v0 THEN "dup_or_share" ELSE "duppage", c, 0)
        /\ UNCHANGED <<pt, tlb, content, upcall, handler, instr, fault>>
  BY DEF Exofork
<1>2. /\ status[p] = "LIVE" /\ instr[p] = NULL /\ fault[p] = NULL
      /\ forking[p] # NULL /\ forking[p].step \in {"exofork", "exofork_v0"}
  BY <1>1, AtFacts
<1>3. 0 \in VAs
  BY Addresses DEF UTEMP
<1>4. /\ forking' \in [Procs -> Forks \cup {NULL}]
      /\ forking'[p] # NULL /\ forking'[p].child = c /\ forking'[p].va = 0
      /\ forking'[p].step \in {"dup_or_share", "duppage"}
      /\ \A r \in Procs : r # p => forking'[r] = forking[r]
  <2> DEFINE step == IF v0 THEN "dup_or_share" ELSE "duppage"
  <2>1. step \in ForkSteps /\ step \in {"dup_or_share", "duppage"}
    BY DEF ForkSteps
  <2>2. To(p, step, c, 0)
    BY <1>1
  <2> HIDE DEF step
  <2> QED BY <1>t, <1>3, <2>1, <2>2, ToEffect
<1>5. status'[c] = "EMBRYO" /\ \A r \in Procs : r # c => status'[r] = status[r]
  BY <1>t, <1>1 DEF Types
<1>6. Types'
  BY <1>t, <1>1, <1>4 DEF Types
<1>7. /\ pt[c] = Empty /\ ~upcall[c] /\ instr[c] = NULL /\ fault[c] = NULL
      /\ forking[c] = NULL /\ tlb[c] = Empty /\ c # p
  BY <1>t, <1>1, <1>2 DEF ProcInv, Control, Idle
<1>8. StepOf(p, c)
  <2>1. \A r \in Procs : forking[r] # NULL /\ forking[r].child # NULL =>
          status[forking[r].child] = "EMBRYO"
    BY ForkFacts DEF ForkInv, ProcInv, Control
  <2> QED BY <1>1, <1>2, <1>4, <1>5, <1>6, <2>1, NotNull DEF StepOf
<1>9. ProcInv(c)' /\ fault'[c] = NULL /\ forking'[c] = NULL
  <2>1. Idle(c)'
    BY <1>1, <1>4, <1>5, <1>7 DEF Idle
  <2>2. pt'[c][PFTEMP] = NoPage /\ pt'[c][UTEMP] = NoPage
    BY <1>1, <1>7, EmptyTable, Addresses
  <2> QED BY <1>1, <1>4, <1>5, <1>6, <1>7, <2>1, <2>2, EmbryoKept
<1>10. ProcInv(p)'
  <2>1. Control(p)' /\ Coherent(p)' /\ DataMapped(p)' /\ WriteMapped(p)'
    BY <1>2, <1>t, <1>1, <1>4, <1>5, <1>7
       DEF ProcInv, Control, Coherent, DataMapped, WriteMapped, ParentSteps,
           CopySteps, Writable
  <2>2. ~In(p, {"dup_copy", "dup_unmap"}) /\ ~In(p, {"dup_copy", "dup_unmap"})'
    BY <1>2, <1>4 DEF In
  <2>3. TempMapped(p)'
    BY <1>t, <1>1, <2>2 DEF ProcInv, TempMapped, Writable
  <2>4. CopyMapped(p)' /\ XStackMapped(p)'
    BY <1>t, <1>1, <1>4 DEF ProcInv, CopyMapped, XStackMapped, Writable, In, CopySteps
  <2> QED BY <2>1, <2>3, <2>4 DEF ProcInv
<1>11. FaultCopied(p)' /\ ForkCopied(p)'
  <2>1. fault[p] # "map"
    BY <1>2, NotNull DEF FaultSteps
  <2>2. \A va \in Data : ~Done(p, va)'
    BY <1>4, Addresses DEF Done, In, UTEMP, Data
  <2> QED BY <1>1, <2>1, <2>2 DEF FaultCopied, ForkCopied
<1>12. ~In(p, {"own", "dup_copy", "dup_unmap"}) /\ fault[p] # "unmap"
  BY <1>2, NotNull DEF In, FaultSteps
<1> QED BY <1>1, <1>8, <1>9, <1>10, <1>11, <1>12, QuietStep

(* The child is given its upcall, ... *)
LEMMA ChildUpcallStep ==
  ASSUME ForkInv, NEW p \in Procs, ChildUpcall(p)
  PROVE  ForkInv'
<1>t. Types /\ ProcInv(p)
  BY DEF ForkInv
<1>1. /\ status[p] = "LIVE" /\ instr[p] = NULL /\ fault[p] = NULL
      /\ forking[p] # NULL /\ forking[p].step = "child_upcall"
  BY AtFacts DEF ChildUpcall
<1>2. PICK c \in Procs : c = forking[p].child
  BY <1>1, ForkFacts DEF ParentSteps
<1>3. /\ upcall' = [upcall EXCEPT ![c] = TRUE]
      /\ UNCHANGED <<status, pt, tlb, content, handler, instr, fault>>
      /\ To(p, "start", c, 0)
  BY <1>2 DEF ChildUpcall
<1>4. /\ forking' \in [Procs -> Forks \cup {NULL}]
      /\ forking'[p] # NULL /\ forking'[p].child = c /\ forking'[p].step = "start"
      /\ \A r \in Procs : r # p => forking'[r] = forking[r]
  BY <1>t, <1>3, ToEffect, Addresses DEF UTEMP, ForkSteps
<1>5. Types'
  BY <1>t, <1>3, <1>4 DEF Types
<1>6. /\ upcall'[c] = TRUE /\ \A r \in Procs : r # c => upcall'[r] = upcall[r]
      /\ c # p /\ status[c] = "EMBRYO" /\ Idle(c) /\ c = ChildOf(p)
  BY <1>t, <1>1, <1>2, <1>3, ForkFacts, NotNull DEF Types, ParentSteps, ChildOf
<1>7. StepOf(p, c)
  BY <1>1, <1>3, <1>4, <1>5, <1>6, ChildFacts DEF StepOf
<1>8. ProcInv(c)' /\ fault'[c] = NULL /\ forking'[c] = NULL
  <2>1. Idle(c)' /\ fault[c] = NULL
    BY <1>3, <1>4, <1>6 DEF Idle
  <2>2. ProcInv(c) /\ fault[c] \notin FaultSteps
    BY <1>6, NotNull DEF ForkInv, Idle
  <2>3. pt[c][PFTEMP] = NoPage /\ pt[c][UTEMP] = NoPage
    BY <1>6, <2>2 DEF ProcInv, TempMapped, In, Idle, FaultSteps
  <2>4. Writable(c, XStack)'
    BY <1>t, <1>1, <1>2, <1>3 DEF ProcInv, XStackMapped, In, Writable
  <2> QED BY <1>3, <1>4, <1>5, <1>6, <2>1, <2>3, <2>4, EmbryoKept DEF Idle
<1>9. ProcInv(p)'
  <2>1. Control(p)' /\ Coherent(p)' /\ DataMapped(p)' /\ WriteMapped(p)'
    BY <1>1, <1>t, <1>3, <1>4, <1>6
       DEF ProcInv, Control, Coherent, DataMapped, WriteMapped, ParentSteps,
           CopySteps, Writable
  <2>2. ~In(p, {"dup_copy", "dup_unmap"}) /\ ~In(p, {"dup_copy", "dup_unmap"})'
    BY <1>1, <1>4 DEF In
  <2>3. TempMapped(p)'
    BY <1>t, <1>3, <2>2 DEF ProcInv, TempMapped, Writable
  <2>4. CopyMapped(p)' /\ XStackMapped(p)'
    BY <1>t, <1>3, <1>4, <1>6
       DEF ProcInv, CopyMapped, XStackMapped, Writable, In, CopySteps
  <2> QED BY <2>1, <2>3, <2>4 DEF ProcInv
<1>10. FaultCopied(p)' /\ ForkCopied(p)'
  <2>1. fault[p] # "map" /\ ForkCopied(p)
    BY <1>1, NotNull DEF FaultSteps, ForkInv
  <2>2. \A va \in Data : Done(p, va)
    BY <1>1 DEF Done, In
  <2> QED BY <1>1, <1>2, <1>3, <1>4, <2>1, <2>2, NotNull
          DEF FaultCopied, ForkCopied, SameContent
<1>11. ~In(p, {"own", "dup_copy", "dup_unmap"}) /\ fault[p] # "unmap"
  BY <1>1, NotNull DEF In, FaultSteps
<1> QED BY <1>3, <1>7, <1>8, <1>9, <1>10, <1>11, QuietStep

(* ... and runs. *)
LEMMA StartChildStep ==
  ASSUME ForkInv, NEW p \in Procs, StartChild(p)
  PROVE  ForkInv'
<1>t. Types /\ ProcInv(p)
  BY DEF ForkInv
<1>1. /\ status[p] = "LIVE" /\ instr[p] = NULL /\ fault[p] = NULL
      /\ forking[p] # NULL /\ forking[p].step = "start"
  BY AtFacts DEF StartChild
<1>2. PICK c \in Procs : c = forking[p].child
  BY <1>1, ForkFacts DEF ParentSteps
<1>3. /\ status' = [status EXCEPT ![c] = "LIVE"]
      /\ handler' = [handler EXCEPT ![c] = handler[p]]
      /\ forking' = [forking EXCEPT ![p] = NULL]
      /\ UNCHANGED <<pt, tlb, content, upcall, instr, fault>>
  BY <1>2 DEF StartChild
<1>4. /\ status'[c] = "LIVE" /\ \A r \in Procs : r # c => status'[r] = status[r]
      /\ forking'[p] = NULL /\ \A r \in Procs : r # p => forking'[r] = forking[r]
      /\ c # p /\ status[c] = "EMBRYO" /\ Idle(c) /\ c = ChildOf(p)
  BY <1>t, <1>1, <1>2, <1>3, ForkFacts, NotNull DEF Types, ParentSteps, ChildOf
<1>5. Types'
  BY <1>t, <1>3 DEF Types
<1>6. StepOf(p, c)
  BY <1>1, <1>3, <1>4, <1>5, ChildFacts DEF StepOf
<1>7. ProcInv(c)' /\ fault'[c] = NULL /\ forking'[c] = NULL
  <2>1. instr[c] = NULL /\ fault[c] = NULL /\ forking[c] = NULL /\ ProcInv(c)
    BY <1>4 DEF Idle, ForkInv
  <2>2. \A va \in Data : pt[c][va] # NoPage
    BY <1>1, <1>2, NotNull DEF ForkInv, ForkCopied, Done, In
  <2>3. Control(c)' /\ Coherent(c)' /\ WriteMapped(c)' /\ DataMapped(c)'
    BY <1>3, <1>4, <2>1, <2>2
       DEF ProcInv, Control, Coherent, WriteMapped, DataMapped
  <2>4. TempMapped(c)' /\ CopyMapped(c)' /\ XStackMapped(c)'
    BY <1>3, <1>4, <2>1
       DEF ProcInv, TempMapped, CopyMapped, XStackMapped, Writable, In
  <2> QED BY <1>3, <1>4, <2>1, <2>3, <2>4 DEF ProcInv
<1>8. ProcInv(p)'
  <2>1. Control(p)' /\ Coherent(p)' /\ DataMapped(p)' /\ WriteMapped(p)'
    BY <1>1, <1>t, <1>3, <1>4
       DEF ProcInv, Control, Coherent, DataMapped, WriteMapped, Writable
  <2>2. TempMapped(p)' /\ CopyMapped(p)' /\ XStackMapped(p)'
    BY <1>t, <1>1, <1>3, <1>4
       DEF ProcInv, TempMapped, CopyMapped, XStackMapped, Writable, In
  <2> QED BY <2>1, <2>2 DEF ProcInv
<1>9. FaultCopied(p)' /\ ForkCopied(p)'
  <2>1. fault[p] # "map"
    BY <1>1, NotNull DEF FaultSteps
  <2> QED BY <1>3, <1>4, <2>1 DEF FaultCopied, ForkCopied
<1>10. ~In(p, {"own", "dup_copy", "dup_unmap"}) /\ fault[p] # "unmap"
  BY <1>1, NotNull DEF In, FaultSteps
<1> QED BY <1>3, <1>6, <1>7, <1>8, <1>9, <1>10, QuietStep

-----------------------------------------------------------------------------
(***************************************************************************)
(* Accesses to memory.                                                     *)
(***************************************************************************)

(* The only other mapping of a page that a running process can write. *)
LEMMA Sharers ==
  ASSUME ForkInv, NEW p \in Procs, status[p] = "LIVE", fault[p] # "unmap",
         NEW w \in VAs, Writable(p, w), NEW r \in Procs, NEW x \in VAs,
         pt[r][x].page = pt[p][w].page, <<r, x>> # <<p, w>>
  PROVE  /\ r = ChildOf(p) /\ r # p /\ x = forking[p].va
         /\ \/ In(p, {"own"}) /\ w = x
            \/ In(p, {"dup_copy", "dup_unmap"}) /\ w = UTEMP
<1>1. SharedBy(p, w, r, x)
  BY DEF ForkInv, Private
<1>2. forking[r] # NULL => forking[r].step \in ParentSteps \/ forking[r].child # p
  BY ForkFacts
<1>3. ~ThroughUtemp(r, p, w)
  BY <1>2 DEF ThroughUtemp, In, ParentSteps
<1>4. In(p, {"own", "dup_copy", "dup_unmap"}) =>
        forking[p].child \in Procs /\ forking[p].child # p
  BY ForkFacts DEF In, ParentSteps
<1> QED BY <1>1, <1>3, <1>4, NotNull DEF SharedBy, ThroughUtemp, ChildOf, In

LEMMA LoadStep ==
  ASSUME ForkInv, NEW p \in Procs, NEW va \in Data, Load(p, va)
  PROVE  ForkInv'
<1>t. Types /\ ProcInv(p) /\ va \in VAs
  BY Addresses DEF ForkInv
<1>1. status[p] = "LIVE" /\ fault[p] = NULL
  BY ExecutingFacts DEF Load
<1>2. /\ tlb' = [tlb EXCEPT ![p][va] = pt[p][va]]
      /\ UNCHANGED <<status, pt, content, upcall, handler, instr, fault, forking>>
  BY DEF Load
<1>3. /\ tlb' \in [Procs -> [VAs -> Entries]]
      /\ \A r \in Procs : r # p => tlb'[r] = tlb[r]
      /\ \A w \in VAs : tlb'[p][w] \in {tlb[p][w], pt[p][w]}
  BY <1>t, <1>2 DEF Types
<1>4. OnlyOf(p)
  BY <1>t, <1>2, <1>3 DEF Types, OnlyOf
<1>5. ProcInv(p)'
  <2>1. Coherent(p)'
    BY <1>t, <1>2, <1>3 DEF ProcInv, Coherent
  <2>2. Control(p)' /\ DataMapped(p)'
    BY <1>t, <1>1, <1>2 DEF ProcInv, Control, DataMapped
  <2>3. WriteMapped(p)' /\ TempMapped(p)' /\ CopyMapped(p)' /\ XStackMapped(p)'
    BY <1>t, <1>2
       DEF ProcInv, WriteMapped, TempMapped, CopyMapped, XStackMapped, Writable, In
  <2> QED BY <2>1, <2>2, <2>3 DEF ProcInv
<1>6. FaultCopied(p)' /\ ForkCopied(p)'
  BY <1>2 DEF FaultCopied, ForkCopied, ForkInv, Done, In, SameContent
<1>7. forking'[p] # NULL => forking'[p].child \in {NULL, ChildOf(p)}
  BY <1>1, <1>2, ChildFacts
<1> QED BY <1>1, <1>2, <1>4, <1>5, <1>6, <1>7, OwnStep

(* A step of p that stores to a page it can write. *)
LEMMA StoringStep ==
  ASSUME ForkInv, NEW p \in Procs, status[p] = "LIVE", fault[p] # "unmap",
         NEW w \in VAs, Writable(p, w), NEW v \in Values,
         content' = [content EXCEPT ![pt[p][w].page] = v],
         UNCHANGED <<status, pt, upcall>>, Types',
         \A r \in Procs : r # p =>
           /\ instr'[r] = instr[r] /\ fault'[r] = fault[r]
           /\ forking'[r] = forking[r] /\ tlb'[r] = tlb[r],
         fault'[p] # "unmap",
         forking'[p] # NULL => forking'[p].child \in {NULL, ChildOf(p)},
         In(p, {"own"}) => forking'[p] = forking[p],
         In(p, {"dup_copy", "dup_unmap"}) =>
           /\ In(p, {"dup_copy", "dup_unmap"})'
           /\ forking'[p].va = forking[p].va /\ forking'[p].child = forking[p].child,
         ProcInv(p)', FaultCopied(p)', ForkCopied(p)'
  PROVE  ForkInv'
<1>t. Types
  BY DEF ForkInv
<1>1. PICK c \in Procs : c = ChildOf(p)
  BY ChildFacts
<1>2. StepOf(p, c)
  BY <1>1, ChildFacts DEF StepOf
<1>3. c # p => ProcInv(c)' /\ fault'[c] = NULL /\ forking'[c] = NULL
  <2> SUFFICES ASSUME c # p PROVE ProcInv(c)' /\ fault'[c] = NULL /\ forking'[c] = NULL
    OBVIOUS
  <2>1. Idle(c) /\ forking[c] = NULL /\ fault[c] = NULL
    BY <1>1, ChildFacts DEF Idle
  <2> QED BY <2>1, Untouched
<1>4. ASSUME NEW r \in Procs, r \notin {p, c} PROVE ContentKept(r)
  <2>1. \A x \in VAs : pt[r][x].page # pt[p][w].page
    BY <1>1, <1>4, Sharers
  <2> QED BY <1>t, <2>1 DEF ContentKept, Types
<1>5. Private'
  <2>1. ASSUME NEW a \in Procs, NEW b \in Procs, NEW x \in VAs, NEW y \in VAs,
               SharedBy(a, x, b, y)
        PROVE  SharedBy(a, x, b, y)'
    BY <2>1 DEF SharedBy, ThroughUtemp, In
  <2> QED BY <2>1, PrivateSame DEF ForkInv
<1> QED BY <1>2, <1>3, <1>4, <1>5, Assemble

LEMMA StoreStep ==
  ASSUME ForkInv, NEW p \in Procs, Store(p)
  PROVE  ForkInv'
<1>t. Types /\ ProcInv(p)
  BY DEF ForkInv
<1>1. status[p] = "LIVE" /\ instr[p] # NULL /\ fault[p] = NULL
  BY DEF Store, Running
<1>2. PICK w \in VAs, v \in Values : w = instr[p].va /\ v = instr[p].value
  BY <1>t, <1>1, WriteFacts
<1>3. Translation(p, w) = pt[p][w]
  BY <1>t, TranslationRight DEF ProcInv
<1>4. /\ Writable(p, w)
      /\ content' = [content EXCEPT ![pt[p][w].page] = v]
      /\ tlb' = [tlb EXCEPT ![p][w] = pt[p][w]]
      /\ instr' = [instr EXCEPT ![p] = NULL]
      /\ UNCHANGED <<status, pt, upcall, handler, fault, forking>>
  BY <1>t, <1>2, <1>3, MappedEntry DEF Store
<1>5. /\ tlb' \in [Procs -> [VAs -> Entries]]
      /\ \A r \in Procs : r # p => tlb'[r] = tlb[r]
      /\ \A x \in VAs : tlb'[p][x] \in {tlb[p][x], pt[p][x]}
  BY <1>t, <1>4 DEF Types
<1>6. instr'[p] = NULL /\ \A r \in Procs : r # p => instr'[r] = instr[r]
  BY <1>t, <1>4 DEF Types
<1>7. Types'
  BY <1>t, <1>4, <1>5 DEF Types
<1>8. ProcInv(p)'
  <2>1. Coherent(p)'
    BY <1>t, <1>4, <1>5 DEF ProcInv, Coherent
  <2>2. Control(p)' /\ DataMapped(p)' /\ WriteMapped(p)'
    BY <1>t, <1>1, <1>4, <1>6 DEF ProcInv, Control, DataMapped, WriteMapped
  <2>3. TempMapped(p)' /\ CopyMapped(p)' /\ XStackMapped(p)'
    BY <1>t, <1>4 DEF ProcInv, TempMapped, CopyMapped, XStackMapped, Writable, In
  <2> QED BY <2>1, <2>2, <2>3 DEF ProcInv
<1>9. fault[p] # "unmap" /\ fault[p] # "map"
  BY <1>1, NotNull DEF FaultSteps
<1>10. ForkCopied(p)'
  <2> SUFFICES ASSUME NEW va \in Data, forking[p] # NULL, forking[p].child # NULL,
                      Done(p, va)
               PROVE  /\ pt[forking[p].child][va] # NoPage
                      /\ SameContent(p, va, forking[p].child, va)'
    BY <1>4 DEF ForkCopied, Done, In
  <2>1. PICK c \in Procs : c = forking[p].child /\ c # p
    BY ForkFacts, NotNull DEF ForkInv, ProcInv, Control
  <2>2. pt[c][va] # NoPage /\ SameContent(p, va, c, va) /\ va \in VAs
    BY <2>1, Addresses DEF ForkInv, ForkCopied
  <2>3. w = Stack /\ w # va
    BY <1>t, <1>1, <1>2, Addresses DEF ProcInv, Control
  <2>4. pt[p][va].page # pt[p][w].page /\ pt[c][va].page # pt[p][w].page
    BY <1>1, <1>4, <1>9, <2>1, <2>2, <2>3, Sharers, Addresses
  <2>5. pt[p][va].page \in Pages /\ pt[c][va].page \in Pages
    BY <1>t, <1>1, <2>2, MappedEntry DEF ProcInv, DataMapped
  <2> QED BY <1>t, <1>4, <2>1, <2>2, <2>4, <2>5 DEF SameContent, Types
<1>11. forking[p] # NULL => forking[p].child \in {NULL, ChildOf(p)}
  BY <1>1, ChildFacts
<1>12. FaultCopied(p)'
  BY <1>4, <1>9 DEF FaultCopied
<1> QED BY <1>1, <1>4, <1>5, <1>6, <1>7, <1>8, <1>9, <1>10, <1>11, <1>12, StoringStep
        DEF In

(* What fork() has copied stays copied when p stores to a page it has      *)
(* mapped elsewhere.                                                       *)
LEMMA CopiesNotStored ==
  ASSUME ForkInv, NEW p \in Procs, status[p] = "LIVE", NEW g, NEW v,
         content' = [content EXCEPT ![g] = v], pt' = pt,
         NEW va \in Data, forking[p] # NULL, NEW c \in Procs, c = forking[p].child,
         pt[c][va] # NoPage, SameContent(p, va, c, va),
         pt[p][va].page # g, pt[c][va].page # g
  PROVE  SameContent(p, va, c, va)'
<1>1. Types /\ ProcInv(p) /\ va \in VAs
  BY Addresses DEF ForkInv
<1>2. pt[p][va].page \in Pages /\ pt[c][va].page \in Pages
  BY <1>1, MappedEntry DEF ProcInv, DataMapped
<1> QED BY <1>1, <1>2 DEF SameContent, Types

(* pgfault() copies the page. *)
LEMMA HandlerCopyStep ==
  ASSUME ForkInv, NEW p \in Procs, HandlerCopy(p)
  PROVE  ForkInv'
<1>t. Types /\ ProcInv(p)
  BY DEF ForkInv
<1>1. status[p] = "LIVE" /\ fault[p] = "copy"
  BY DEF HandlerCopy, Handling, Running
<1>2. instr[p] # NULL /\ NULL # "copy" /\ NULL # "map"
  BY <1>t, <1>1, NotNull DEF ProcInv, WriteMapped, FaultSteps
<1>3. PICK w \in VAs : w = instr[p].va /\ w # PFTEMP
  BY <1>t, <1>2, WriteFacts
<1>4. Translation(p, w) = pt[p][w] /\ pt[p][w].page \in Pages
  BY <1>t, <1>2, <1>3, TranslationRight, MappedEntry DEF ProcInv, WriteMapped
<1>5. PICK v \in Values : v = content[pt[p][w].page]
  BY <1>t, <1>4 DEF Types
<1>6. /\ content' = [content EXCEPT ![pt[p][PFTEMP].page] = v]
      /\ fault' = [fault EXCEPT ![p] = "map"]
      /\ UNCHANGED <<status, pt, tlb, upcall, handler, instr, forking>>
  BY <1>3, <1>4, <1>5 DEF HandlerCopy
<1>7. fault'[p] = "map" /\ \A r \in Procs : r # p => fault'[r] = fault[r]
  BY <1>t, <1>6 DEF Types
<1>8. Writable(p, PFTEMP) /\ PFTEMP \in VAs /\ pt[p][PFTEMP].page \in Pages
  BY <1>t, <1>1, MappedEntry, Addresses DEF ProcInv, TempMapped
<1>9. Types'
  BY <1>t, <1>6 DEF Types, FaultSteps
<1>10. \A r \in Procs, x \in VAs :
         <<r, x>> # <<p, PFTEMP>> => pt[r][x].page # pt[p][PFTEMP].page
  <2>1. In(p, {"own"}) => forking[p].va # PFTEMP
    BY <1>t, Addresses DEF ProcInv, Control, In
  <2> QED BY <1>1, <1>8, <2>1, Sharers, Addresses
<1>11. ProcInv(p)'
  <2>1. Control(p)' /\ Coherent(p)' /\ DataMapped(p)'
    BY <1>t, <1>1, <1>6 DEF ProcInv, Control, Coherent, DataMapped
  <2>2. CopyMapped(p)' /\ XStackMapped(p)'
    BY <1>t, <1>6 DEF ProcInv, CopyMapped, XStackMapped, Writable, In
  <2>3. TempMapped(p)'
    BY <1>t, <1>1, <1>6, <1>7, <1>8 DEF ProcInv, TempMapped, Writable, In
  <2>4. WriteMapped(p)'
    BY <1>t, <1>1, <1>2, <1>6, <1>7 DEF ProcInv, WriteMapped, Writable
  <2> QED BY <2>1, <2>2, <2>3, <2>4 DEF ProcInv
<1>12. FaultCopied(p)'
  <2>1. content'[pt[p][PFTEMP].page] = v
    BY <1>t, <1>6, <1>8 DEF Types
  <2>2. content'[pt[p][w].page] = v
    BY <1>t, <1>3, <1>4, <1>5, <1>6, <1>10 DEF Types
  <2> QED BY <1>3, <1>6, <2>1, <2>2 DEF FaultCopied, SameContent
<1>13. ForkCopied(p)'
  <2> SUFFICES ASSUME NEW va \in Data, forking[p] # NULL, forking[p].child # NULL,
                      Done(p, va)
               PROVE  /\ pt[forking[p].child][va] # NoPage
                      /\ SameContent(p, va, forking[p].child, va)'
    BY <1>6 DEF ForkCopied, Done, In
  <2>1. PICK c \in Procs : c = forking[p].child
    BY ForkFacts
  <2>2. pt[c][va] # NoPage /\ SameContent(p, va, c, va) /\ va \in VAs /\ va # PFTEMP
    BY <2>1, Addresses DEF ForkInv, ForkCopied
  <2>3. SameContent(p, va, c, va)'
    BY <1>1, <1>6, <1>10, <2>1, <2>2, CopiesNotStored
  <2>4. forking'[p] = forking[p]
    BY <1>6
  <2> QED BY <2>1, <2>2, <2>3, <2>4 DEF SameContent
<1>14. forking[p] # NULL => forking[p].child \in {NULL, ChildOf(p)}
  BY <1>1, ChildFacts
<1> QED BY <1>1, <1>6, <1>7, <1>8, <1>9, <1>11, <1>12, <1>13, <1>14, StoringStep DEF In

(* fork_v0() copies a page. *)
LEMMA DupCopyStep ==
  ASSUME ForkInv, NEW p \in Procs, DupCopy(p)
  PROVE  ForkInv'
<1>t. Types /\ ProcInv(p)
  BY DEF ForkInv
<1>1. /\ status[p] = "LIVE" /\ instr[p] = NULL /\ fault[p] = NULL
      /\ forking[p] # NULL /\ forking[p].step = "dup_copy"
  BY AtFacts DEF DupCopy
<1>2. PICK c \in Procs, w \in VAs :
        /\ c = forking[p].child /\ w = forking[p].va /\ c # p /\ c = ChildOf(p)
        /\ status[c] = "EMBRYO"
  BY <1>1, ForkFacts, NotNull DEF ParentSteps, ChildOf
<1>3. /\ Writable(p, UTEMP) /\ pt[p][UTEMP].page = pt[c][w].page
      /\ Writable(p, w) /\ Writable(c, w) /\ w \in Data \cup {Stack, XStack}
  BY <1>t, <1>1, <1>2 DEF ProcInv, TempMapped, CopyMapped, In, CopySteps
<1>4. /\ UTEMP \in VAs /\ w # UTEMP /\ pt[p][UTEMP].page \in Pages
      /\ pt[p][w].page \in Pages
  BY <1>t, <1>3, MappedEntry, Addresses
<1>5. Translation(p, w) = pt[p][w]
  BY <1>t, TranslationRight DEF ProcInv
<1>6. PICK v \in Values : v = content[pt[p][w].page]
  BY <1>t, <1>4 DEF Types
<1>7. /\ content' = [content EXCEPT ![pt[p][UTEMP].page] = v]
      /\ To(p, "dup_unmap", c, w)
      /\ UNCHANGED <<status, pt, tlb, upcall, handler, instr, fault>>
  BY <1>2, <1>5, <1>6 DEF DupCopy
<1>8. /\ forking' \in [Procs -> Forks \cup {NULL}]
      /\ forking'[p] # NULL /\ forking'[p].step = "dup_unmap"
      /\ forking'[p].child = c /\ forking'[p].va = w
      /\ \A r \in Procs : r # p => forking'[r] = forking[r]
  BY <1>t, <1>7, ToEffect DEF ForkSteps
<1>9. Types'
  BY <1>t, <1>7, <1>8 DEF Types
<1>10. \A r \in Procs, x \in VAs :
         <<r, x>> \notin {<<p, UTEMP>>, <<c, w>>} => pt[r][x].page # pt[p][UTEMP].page
  <2>1. fault[p] # "unmap"
    BY <1>1, NotNull DEF FaultSteps
  <2> QED BY <1>1, <1>2, <1>3, <1>4, <2>1, Sharers
<1>11. ProcInv(p)'
  <2>1. Control(p)' /\ Coherent(p)' /\ DataMapped(p)' /\ WriteMapped(p)'
    BY <1>1, <1>2, <1>t, <1>7, <1>8
       DEF ProcInv, Control, Coherent, DataMapped, WriteMapped, ParentSteps,
           CopySteps, Writable
  <2>2. TempMapped(p)'
    BY <1>t, <1>1, <1>2, <1>3, <1>7, <1>8 DEF ProcInv, TempMapped, Writable, In
  <2>3. CopyMapped(p)' /\ XStackMapped(p)'
    BY <1>t, <1>2, <1>3, <1>7, <1>8
       DEF ProcInv, CopyMapped, XStackMapped, Writable, In, CopySteps
  <2> QED BY <2>1, <2>2, <2>3 DEF ProcInv
<1>12. fault[p] # "map" /\ fault[p] # "unmap"
  BY <1>1, NotNull DEF FaultSteps
<1>13. ForkCopied(p)'
  <2> SUFFICES ASSUME NEW va \in Data, Done(p, va)'
               PROVE  pt[c][va] # NoPage /\ SameContent(p, va, c, va)'
    BY <1>7, <1>8 DEF ForkCopied, SameContent
  <2>1. va \in VAs /\ va # UTEMP
    BY Addresses
  <2>2. CASE va = w
    <3>1. content'[pt[c][w].page] = v
      BY <1>t, <1>3, <1>4, <1>7 DEF Types
    <3>2. pt[p][w].page # pt[p][UTEMP].page
      BY <1>2, <1>4, <1>10
    <3>3. content'[pt[p][w].page] = v
      BY <1>t, <1>4, <1>6, <1>7, <3>2 DEF Types
    <3>4. pt[c][w] # NoPage
      BY <1>t, <1>3, MappedEntry
    <3> QED BY <1>7, <2>2, <3>1, <3>3, <3>4 DEF SameContent
  <2>3. CASE va # w
    <3>1. Done(p, va)
      BY <1>1, <1>2, <1>8, <2>3 DEF Done, In
    <3>2. pt[c][va] # NoPage /\ SameContent(p, va, c, va)
      BY <1>1, <1>2, <3>1, NotNull DEF ForkInv, ForkCopied
    <3>3. pt[p][va].page # pt[p][UTEMP].page /\ pt[c][va].page # pt[p][UTEMP].page
      BY <1>2, <1>10, <2>1, <2>3
    <3> QED BY <1>1, <1>2, <1>7, <3>2, <3>3, CopiesNotStored
  <2> QED BY <2>2, <2>3
<1>14. FaultCopied(p)'
  BY <1>7, <1>12 DEF FaultCopied
<1>15. /\ In(p, {"dup_copy", "dup_unmap"})' /\ ~In(p, {"own"})
       /\ forking'[p].va = forking[p].va /\ forking'[p].child = forking[p].child
  BY <1>1, <1>2, <1>8 DEF In
<1> QED BY <1>1, <1>2, <1>3, <1>4, <1>7, <1>8, <1>9, <1>11, <1>12, <1>13, <1>14, <1>15,
           StoringStep

-----------------------------------------------------------------------------
(***************************************************************************)
(* The system calls on page tables.                                        *)
(***************************************************************************)

(* The frame of a call of p at va of q, where q is p or its child. *)
PteStep(p, q, va, pte) ==
  /\ status[p] = "LIVE" /\ q \in {p, ChildOf(p)}
  /\ SetPte(p, q, va, pte)
  /\ UNCHANGED <<status, upcall, handler>>
  /\ instr' = instr
  /\ fault' \in [Procs -> FaultSteps \cup {NULL}]
  /\ forking' \in [Procs -> Forks \cup {NULL}]
  /\ \A r \in Procs : r # p => fault'[r] = fault[r] /\ forking'[r] = forking[r]
  /\ forking'[p] # NULL => forking'[p].child \in {NULL, ChildOf(p)}

LEMMA PteStepFrame ==
  ASSUME ForkInv, NEW p \in Procs, NEW q \in Procs, NEW va \in VAs,
         NEW pte \in Entries, PteStep(p, q, va, pte),
         NEW c \in Procs, c = ChildOf(p)
  PROVE  StepOf(p, c)
<1>t. Types
  BY DEF ForkInv
<1>1. /\ pt' \in [Procs -> [VAs -> Entries]]
      /\ tlb' \in [Procs -> [VAs -> Entries]]
      /\ content' \in [Pages -> Values]
      /\ \A r \in Procs : r # q => pt'[r] = pt[r]
      /\ \A r \in Procs : r # p => tlb'[r] = tlb[r]
  BY <1>t, SetPteEffect DEF PteStep
<1>2. Types'
  BY <1>t, <1>1 DEF Types, PteStep
<1> QED BY <1>1, <1>2, ChildFacts DEF StepOf, PteStep

(* No translation is left in a cache that the call has changed. *)
LEMMA StillCoherent ==
  ASSUME ForkInv, NEW p \in Procs, NEW q \in Procs, NEW va \in VAs,
         NEW pte \in Entries, PteStep(p, q, va, pte)
  PROVE  Coherent(p)'
<1>t. Types /\ Coherent(p)
  BY DEF ForkInv, ProcInv
<1>1. /\ pt'[q][va] = pte
      /\ \A r \in Procs, w \in VAs : <<r, w>> # <<q, va>> => pt'[r][w] = pt[r][w]
      /\ \A r \in Procs, w \in VAs : tlb'[r][w] \in {NoPage, tlb[r][w]}
      /\ p = q => tlb'[q][va] = NoPage
  BY <1>t, SetPteEffect DEF PteStep
<1> QED BY <1>t, <1>1 DEF Coherent

(* The child while its page table is filled in. *)
LEMMA ChildFilled ==
  ASSUME ForkInv, NEW p \in Procs, NEW q \in Procs, NEW va \in VAs,
         NEW pte \in Entries, PteStep(p, q, va, pte),
         NEW c \in Procs, c = ChildOf(p), c # p,
         q = c => /\ va \notin {UTEMP, PFTEMP}
                  /\ va = XStack /\ upcall[c] => pte.perm = {"W"}
  PROVE  ProcInv(c)' /\ fault'[c] = NULL /\ forking'[c] = NULL
<1>t. Types /\ ProcInv(c) /\ Types'
  BY PteStepFrame DEF ForkInv, StepOf
<1>1. status[c] = "EMBRYO" /\ Idle(c)
  BY ChildFacts DEF PteStep
<1>2. fault[c] \notin FaultSteps
  BY <1>1, NotNull DEF Idle
<1>3. /\ pt[c][PFTEMP] = NoPage /\ pt[c][UTEMP] = NoPage
      /\ upcall[c] => Writable(c, XStack)
  BY <1>t, <1>1, <1>2 DEF ProcInv, TempMapped, XStackMapped, In, Idle, FaultSteps
<1>4. /\ pt'[q][va] = pte
      /\ \A r \in Procs, w \in VAs : <<r, w>> # <<q, va>> => pt'[r][w] = pt[r][w]
      /\ tlb'[c] = tlb[c]
  BY <1>t, SetPteEffect DEF PteStep
<1>5. Idle(c)'
  BY <1>1, <1>4 DEF Idle, PteStep
<1>6. pt'[c][PFTEMP] = NoPage /\ pt'[c][UTEMP] = NoPage
  BY <1>3, <1>4, Addresses
<1>7. upcall'[c] => Writable(c, XStack)'
  BY <1>3, <1>4, Addresses DEF Writable, PteStep
<1> QED BY <1>t, <1>1, <1>5, <1>6, <1>7, EmbryoKept DEF Idle, PteStep

(* What remains to be shown is about p, and about who shares the page. *)
LEMMA PteStepInv ==
  ASSUME ForkInv, NEW p \in Procs, NEW q \in Procs, NEW va \in VAs,
         NEW pte \in Entries, PteStep(p, q, va, pte),
         NEW c \in Procs, c = ChildOf(p),
         c # p => ProcInv(c)' /\ fault'[c] = NULL /\ forking'[c] = NULL,
         Control(p)', WriteMapped(p)', TempMapped(p)', CopyMapped(p)',
         XStackMapped(p)', DataMapped(p)', Private', FaultCopied(p)', ForkCopied(p)'
  PROVE  ForkInv'
<1>t. Types
  BY DEF ForkInv
<1>1. StepOf(p, c) /\ Coherent(p)'
  BY PteStepFrame, StillCoherent
<1>2. ASSUME NEW r \in Procs, r \notin {p, c} PROVE ContentKept(r)
  <2>1. /\ \A x \in VAs : pt'[r][x].page \in Pages =>
             content'[pt'[r][x].page] = content[pt'[r][x].page]
        /\ pt'[r] = pt[r]
    BY <1>t, <1>2, SetPteEffect DEF PteStep
  <2> QED BY <2>1 DEF ContentKept
<1> QED BY <1>1, <1>2, Assemble DEF ProcInv

(* An entry without write permission, for a page nobody else can write. *)
LEMMA PrivateUnwritable ==
  ASSUME ForkInv, NEW p \in Procs, NEW q \in Procs, NEW va \in VAs,
         NEW pte \in Entries, SetPte(p, q, va, pte), pte.perm # {"W"},
         \A a, b \in Procs, x, y \in VAs :
           /\ SharedBy(a, x, b, y)
           /\ <<a, x>> # <<q, va>> /\ <<b, y>> # <<q, va>>
           => SharedBy(a, x, b, y)',
         \A b \in Procs, y \in VAs :
           <<b, y>> # <<q, va>> /\ pt[b][y].page = pte.page => ~Writable(b, y)
  PROVE  Private'
<1>1. Types /\ Private
  BY DEF ForkInv
<1> QED BY <1>1, PrivatePte

(* What fork() is done with is not touched by a call at another address. *)
LEMMA CopiesStay ==
  ASSUME ForkInv, NEW p \in Procs, NEW q \in Procs, NEW w \in VAs,
         NEW pte \in Entries, PteStep(p, q, w, pte),
         NEW va \in Data, forking[p] # NULL, NEW c \in Procs, c = forking[p].child,
         pt[c][va] # NoPage, SameContent(p, va, c, va),
         w # va \/ (q = p /\ pte.page = pt[p][va].page /\ c # p)
  PROVE  pt'[c][va] # NoPage /\ SameContent(p, va, c, va)'
<1>t. Types /\ ProcInv(p) /\ va \in VAs
  BY Addresses DEF ForkInv
<1>1. pt[p][va].page \in Pages /\ pt[c][va].page \in Pages
  BY <1>t, MappedEntry DEF ProcInv, DataMapped, PteStep
<1>2. /\ pt'[q][w] = pte
      /\ \A r \in Procs, x \in VAs : <<r, x>> # <<q, w>> => pt'[r][x] = pt[r][x]
      /\ \A r \in Procs, x \in VAs : pt'[r][x].page \in Pages =>
           content'[pt'[r][x].page] = content[pt'[r][x].page]
  BY <1>t, SetPteEffect DEF PteStep
<1>3. pt'[p][va].page = pt[p][va].page /\ pt'[c][va] = pt[c][va]
  BY <1>t, <1>2
<1>4. content'[pt'[p][va].page] = content[pt[p][va].page]
  BY <1>t, <1>1, <1>2, <1>3
<1>5. content'[pt'[c][va].page] = content[pt[c][va].page]
  BY <1>t, <1>1, <1>2, <1>3
<1> QED BY <1>3, <1>4, <1>5 DEF SameContent

(* What a running process sees at an address nobody else writes. *)
LEMMA NoOtherWriter ==
  ASSUME ForkInv, NEW p \in Procs, status[p] = "LIVE", fault[p] # "unmap",
         NEW x \in VAs, x # UTEMP, NEW b \in Procs, NEW y \in VAs,
         pt[b][y].page = pt[p][x].page, <<b, y>> # <<p, x>>
  PROVE  ~Writable(b, y)
<1> SUFFICES ASSUME Writable(b, y) PROVE FALSE
  OBVIOUS
<1>1. SharedBy(b, y, p, x)
  BY DEF ForkInv, Private
<1>2. In(b, {"own", "dup_copy", "dup_unmap"}) => forking[b].child # p
  BY ForkFacts DEF In, ParentSteps
<1> QED BY <1>1, <1>2 DEF SharedBy, ThroughUtemp, In

(* The rest of what fork() is doing, when pgfault() copies its stack. *)
LEMMA ForkCopiedKept ==
  ASSUME ForkInv, NEW p \in Procs, NEW w \in VAs, NEW pte \in Entries,
         PteStep(p, p, w, pte), forking[p] # NULL => w \notin Data,
         forking' = forking
  PROVE  ForkCopied(p)'
<1> SUFFICES ASSUME NEW va \in Data, forking[p] # NULL, forking[p].child # NULL,
                    Done(p, va)
             PROVE  (pt[forking[p].child][va] # NoPage
                     /\ SameContent(p, va, forking[p].child, va))'
  BY DEF ForkCopied, Done, In
<1>1. PICK d \in Procs : d = forking[p].child
  BY ForkFacts
<1>2. pt[d][va] # NoPage /\ SameContent(p, va, d, va)
  BY <1>1 DEF ForkInv, ForkCopied
<1>3. pt'[d][va] # NoPage /\ SameContent(p, va, d, va)'
  BY <1>1, <1>2, CopiesStay
<1>4. forking'[p].child = d
  BY <1>1
<1> QED BY <1>3, <1>4 DEF SameContent

LEMMA HandlerAllocStep ==
  ASSUME ForkInv, NEW p \in Procs, HandlerAlloc(p)
  PROVE  ForkInv'
<1>t. Types /\ ProcInv(p) /\ PFTEMP \in VAs
  BY Addresses DEF ForkInv
<1>1. status[p] = "LIVE" /\ fault[p] = "alloc" /\ NULL # "alloc" /\ NULL # "copy"
  BY NotNull DEF HandlerAlloc, Handling, Running, FaultSteps
<1>2. PICK pte \in Entries :
        /\ SetPte(p, p, PFTEMP, pte) /\ pte.perm = {"W"} /\ pte # NoPage
        /\ \A r \in Procs, w \in VAs : pt[r][w].page # pte.page
  BY <1>t, PageAllocEffect DEF HandlerAlloc, Perms
<1>3. /\ fault' = [fault EXCEPT ![p] = "copy"]
      /\ UNCHANGED <<status, upcall, handler, instr, forking>>
  BY DEF HandlerAlloc
<1>4. /\ fault' \in [Procs -> FaultSteps \cup {NULL}] /\ fault'[p] = "copy"
      /\ \A r \in Procs : r # p => fault'[r] = fault[r]
  BY <1>t, <1>3 DEF Types, FaultSteps
<1>5. PteStep(p, p, PFTEMP, pte)
  BY <1>t, <1>1, <1>2, <1>3, <1>4, ChildFacts DEF PteStep, Types
<1>6. PICK c \in Procs : c = ChildOf(p)
  BY <1>1, ChildFacts
<1>7. c # p => ProcInv(c)' /\ fault'[c] = NULL /\ forking'[c] = NULL
  BY <1>5, <1>6, <1>t, ChildFilled
<1>8. /\ pt'[p][PFTEMP] = pte
      /\ \A r \in Procs, w \in VAs : <<r, w>> # <<p, PFTEMP>> => pt'[r][w] = pt[r][w]
      /\ \A r \in Procs : r # p => pt'[r] = pt[r]
  BY <1>t, <1>2, SetPteEffect
<1>9. instr[p] # NULL /\ instr[p].va \in VAs /\ instr[p].va # PFTEMP
  BY <1>t, <1>1, WriteFacts DEF ProcInv, WriteMapped
<1>10. /\ \A va \in Data : va \in VAs /\ va # PFTEMP
       /\ UTEMP \in VAs /\ XStack \in VAs /\ PFTEMP \notin {UTEMP, XStack}
  BY Addresses
<1>11. Control(p)' /\ DataMapped(p)'
  BY <1>t, <1>1, <1>3, <1>8, <1>10 DEF ProcInv, Control, DataMapped
<1>12. WriteMapped(p)'
  BY <1>t, <1>1, <1>3, <1>4, <1>8, <1>9 DEF ProcInv, WriteMapped, Writable
<1>13. TempMapped(p)' /\ CopyMapped(p)' /\ XStackMapped(p)'
  <2>1. In(p, CopySteps \cup {"child_upcall"}) =>
          forking[p].child \in Procs /\ forking[p].child # p
    BY ForkFacts DEF In, ParentSteps, CopySteps
  <2>2. In(p, CopySteps) => forking[p].va \in VAs /\ forking[p].va # PFTEMP
    BY <1>t, <1>10, Addresses DEF ProcInv, CopyMapped
  <2>3. TempMapped(p)'
    BY <1>t, <1>2, <1>3, <1>4, <1>8, <1>10, <2>1, <2>2
       DEF ProcInv, TempMapped, Writable, In, CopySteps
  <2>4. CopyMapped(p)'
    BY <1>t, <1>3, <1>8, <2>1, <2>2 DEF ProcInv, CopyMapped, Writable, In
  <2>5. XStackMapped(p)'
    BY <1>t, <1>3, <1>8, <1>10, <2>1 DEF ProcInv, XStackMapped, Writable, In
  <2> QED BY <2>3, <2>4, <2>5
<1>14. Private'
  <2>1. \A a, b \in Procs, x, y \in VAs :
          SharedBy(a, x, b, y) => SharedBy(a, x, b, y)'
    BY <1>1, <1>3, <1>4 DEF SharedBy, ThroughUtemp, In
  <2> QED BY <1>t, <1>2, <2>1, PrivatePte DEF ForkInv
<1>15. FaultCopied(p)'
  BY <1>4 DEF FaultCopied
<1>16. ForkCopied(p)'
  BY <1>t, <1>3, <1>5, <1>10, ForkCopiedKept
<1> QED BY <1>t, <1>5, <1>6, <1>7, <1>11, <1>12, <1>13, <1>14, <1>15, <1>16, PteStepInv

(* pgfault() puts the copy in the place of the original. *)
LEMMA HandlerMapStep ==
  ASSUME ForkInv, NEW p \in Procs, HandlerMap(p)
  PROVE  ForkInv'
<1>t. Types /\ ProcInv(p) /\ PFTEMP \in VAs
  BY Addresses DEF ForkInv
<1>1. status[p] = "LIVE" /\ fault[p] = "map" /\ NULL # "map" /\ NULL # "unmap"
  BY NotNull DEF HandlerMap, Handling, Running, FaultSteps
<1>2. instr[p] # NULL
  BY <1>t, <1>1 DEF ProcInv, WriteMapped
<1>w. PICK w \in VAs : /\ w = instr[p].va /\ w \in Data \cup {Stack}
                       /\ w \notin {UTEMP, PFTEMP, XStack}
  BY <1>t, <1>2, WriteFacts
<1>3. PICK pte \in Entries :
        /\ SetPte(p, p, w, pte) /\ pte.perm = {"W"} /\ pte # NoPage
        /\ pte.page = pt[p][PFTEMP].page
  <2>1. PageMap(p, p, PFTEMP, p, w, {"W"}) /\ {"W"} \in Perms
    BY <1>w DEF HandlerMap, Perms
  <2> QED BY <1>t, <2>1, PageMapEffect
<1>4. /\ fault' = [fault EXCEPT ![p] = "unmap"]
      /\ UNCHANGED <<status, upcall, handler, instr, forking>>
  BY DEF HandlerMap
<1>5. /\ fault' \in [Procs -> FaultSteps \cup {NULL}] /\ fault'[p] = "unmap"
      /\ \A r \in Procs : r # p => fault'[r] = fault[r]
  BY <1>t, <1>4 DEF Types, FaultSteps
<1>6. PteStep(p, p, w, pte)
  BY <1>t, <1>1, <1>3, <1>4, <1>5, ChildFacts DEF PteStep, Types
<1>7. PICK c \in Procs : c = ChildOf(p)
  BY <1>1, ChildFacts
<1>8. c # p => ProcInv(c)' /\ fault'[c] = NULL /\ forking'[c] = NULL
  BY <1>6, <1>7, ChildFilled
<1>9. /\ pt'[p][w] = pte
      /\ \A r \in Procs, x \in VAs : <<r, x>> # <<p, w>> => pt'[r][x] = pt[r][x]
      /\ \A r \in Procs : r # p => pt'[r] = pt[r]
  BY <1>t, <1>3, SetPteEffect
<1>10. (\A va \in Data : va \in VAs) /\ UTEMP \in VAs /\ XStack \in VAs
  BY Addresses
<1>11. Writable(p, PFTEMP)
  BY <1>t, <1>1 DEF ProcInv, TempMapped
<1>12. Control(p)' /\ DataMapped(p)'
  BY <1>t, <1>1, <1>3, <1>4, <1>9, <1>10 DEF ProcInv, Control, DataMapped
<1>13. WriteMapped(p)'
  BY <1>t, <1>1, <1>w, <1>2, <1>3, <1>4, <1>5, <1>9 DEF ProcInv, WriteMapped, Writable
<1>14. TempMapped(p)' /\ CopyMapped(p)' /\ XStackMapped(p)'
  <2>1. In(p, CopySteps \cup {"child_upcall"}) =>
          forking[p].child \in Procs /\ forking[p].child # p
    BY ForkFacts DEF In, ParentSteps, CopySteps
  <2>2. In(p, CopySteps) => forking[p].va \in VAs
    BY ForkFacts DEF In
  <2>3. TempMapped(p)'
    BY <1>t, <1>w, <1>1, <1>4, <1>5, <1>9, <1>10, <2>1
       DEF ProcInv, TempMapped, Writable, In, CopySteps
  <2>4. CopyMapped(p)'
    BY <1>t, <1>3, <1>4, <1>9, <2>1, <2>2 DEF ProcInv, CopyMapped, Writable, In
  <2>5. XStackMapped(p)'
    BY <1>t, <1>w, <1>4, <1>9, <1>10, <2>1 DEF ProcInv, XStackMapped, Writable, In
  <2> QED BY <2>3, <2>4, <2>5
<1>15. Private'
  <2>1. \A a, b \in Procs, x, y \in VAs :
          SharedBy(a, x, b, y) => SharedBy(a, x, b, y)'
    BY <1>1, <1>4, <1>5 DEF SharedBy, ThroughUtemp, In
  <2>2. ASSUME NEW b \in Procs, NEW y \in VAs, pt[b][y].page = pte.page
        PROVE  b = p /\ y = PFTEMP
    <3>1. In(p, {"own"}) => forking[p].va # PFTEMP
      BY <1>t, Addresses DEF ProcInv, Control, In
    <3> QED BY <1>t, <1>1, <1>3, <1>11, <2>2, <3>1, Sharers, Addresses
  <2>3. SharedBy(p, w, p, PFTEMP)' /\ SharedBy(p, PFTEMP, p, w)'
    BY <1>w, <1>4, <1>5 DEF SharedBy
  <2> QED BY <1>t, <1>3, <2>1, <2>2, <2>3, PrivatePte DEF ForkInv
<1>16. FaultCopied(p)'
  BY <1>5 DEF FaultCopied
<1>17. ForkCopied(p)'
  <2>1. forking[p] # NULL => w \notin Data
    BY <1>t, <1>w, <1>2, Addresses DEF ProcInv, Control
  <2> QED BY <1>4, <1>6, <2>1, ForkCopiedKept
<1> QED BY <1>6, <1>7, <1>8, <1>12, <1>13, <1>14, <1>15, <1>16, <1>17, PteStepInv

LEMMA HandlerUnmapStep ==
  ASSUME ForkInv, NEW p \in Procs, HandlerUnmap(p)
  PROVE  ForkInv'
<1>t. Types /\ ProcInv(p) /\ PFTEMP \in VAs /\ NoPage \in Entries
  BY Addresses, EntryFacts DEF ForkInv
<1>1. status[p] = "LIVE" /\ fault[p] = "unmap" /\ NULL \notin FaultSteps
  BY NotNull DEF HandlerUnmap, Handling, Running
<1>2. /\ instr[p] # NULL /\ instr[p].va \in VAs
      /\ instr[p].va \notin {UTEMP, PFTEMP, XStack}
  BY <1>t, <1>1, WriteFacts DEF ProcInv, WriteMapped, FaultSteps
<1>3. /\ SetPte(p, p, PFTEMP, NoPage)
      /\ fault' = [fault EXCEPT ![p] = NULL]
      /\ UNCHANGED <<status, upcall, handler, instr, forking>>
  BY DEF HandlerUnmap
<1>5. /\ fault' \in [Procs -> FaultSteps \cup {NULL}] /\ fault'[p] = NULL
      /\ \A r \in Procs : r # p => fault'[r] = fault[r]
  BY <1>t, <1>3 DEF Types
<1>6. PteStep(p, p, PFTEMP, NoPage)
  BY <1>t, <1>1, <1>3, <1>5, ChildFacts DEF PteStep, Types
<1>7. PICK c \in Procs : c = ChildOf(p)
  BY <1>1, ChildFacts
<1>8. c # p => ProcInv(c)' /\ fault'[c] = NULL /\ forking'[c] = NULL
  BY <1>t, <1>6, <1>7, ChildFilled
<1>9. /\ pt'[p][PFTEMP] = NoPage
      /\ \A r \in Procs, x \in VAs : <<r, x>> # <<p, PFTEMP>> => pt'[r][x] = pt[r][x]
      /\ \A r \in Procs : r # p => pt'[r] = pt[r]
  BY <1>t, <1>3, SetPteEffect
<1>10. /\ \A va \in Data : va \in VAs /\ va # PFTEMP
       /\ UTEMP \in VAs /\ XStack \in VAs /\ PFTEMP \notin {UTEMP, XStack}
  BY Addresses
<1>12. Control(p)' /\ DataMapped(p)'
  BY <1>t, <1>1, <1>3, <1>9, <1>10 DEF ProcInv, Control, DataMapped
<1>13. WriteMapped(p)'
  BY <1>t, <1>1, <1>2, <1>3, <1>5, <1>9
     DEF ProcInv, WriteMapped, Writable, FaultSteps
<1>14. TempMapped(p)' /\ CopyMapped(p)' /\ XStackMapped(p)'
  <2>1. In(p, CopySteps \cup {"child_upcall"}) =>
          forking[p].child \in Procs /\ forking[p].child # p
    BY ForkFacts DEF In, ParentSteps, CopySteps
  <2>2. In(p, CopySteps) => forking[p].va \in VAs /\ forking[p].va # PFTEMP
    BY <1>t, <1>10, Addresses DEF ProcInv, CopyMapped
  <2>3. TempMapped(p)'
    BY <1>t, <1>1, <1>3, <1>5, <1>9, <1>10, <2>1
       DEF ProcInv, TempMapped, Writable, In, CopySteps, FaultSteps
  <2>4. CopyMapped(p)'
    BY <1>t, <1>3, <1>9, <2>1, <2>2 DEF ProcInv, CopyMapped, Writable, In
  <2>5. XStackMapped(p)'
    BY <1>t, <1>3, <1>9, <1>10, <2>1 DEF ProcInv, XStackMapped, Writable, In
  <2> QED BY <2>3, <2>4, <2>5
<1>15. Private'
  <2>1. \A a, b \in Procs, x, y \in VAs :
          /\ SharedBy(a, x, b, y)
          /\ <<a, x>> # <<p, PFTEMP>> /\ <<b, y>> # <<p, PFTEMP>>
          => SharedBy(a, x, b, y)'
    BY <1>1, <1>3, <1>5 DEF SharedBy, ThroughUtemp, In
  <2>2. ASSUME NEW b \in Procs, NEW y \in VAs, pt[b][y].page = NoPage.page
        PROVE  ~Writable(b, y)
    BY <1>t, <2>2, MappedEntry, EntryFacts
  <2>3. NoPage.perm # {"W"}
    BY EntryFacts
  <2> QED BY <1>t, <1>3, <2>1, <2>2, <2>3, PrivatePte DEF ForkInv
<1>16. FaultCopied(p)'
  BY <1>1, <1>5 DEF FaultCopied, FaultSteps
<1>17. ForkCopied(p)'
  BY <1>t, <1>3, <1>6, <1>10, ForkCopiedKept
<1> QED BY <1>t, <1>6, <1>7, <1>8, <1>12, <1>13, <1>14, <1>15, <1>16, <1>17, PteStepInv

(***************************************************************************)
(* The calls of fork() and fork_v0().                                      *)
(***************************************************************************)
LEMMA ForkPteInv ==
  ASSUME ForkInv, NEW p \in Procs, NEW q \in Procs, NEW va \in VAs,
         NEW pte \in Entries, PteStep(p, q, va, pte),
         instr[p] = NULL, fault[p] = NULL, fault' = fault, pt[p][PFTEMP] = NoPage,
         va # PFTEMP, q = p /\ va \in Data => pte # NoPage,
         q # p => va # UTEMP /\ (va = XStack /\ upcall[q] => pte.perm = {"W"}),
         Control(p)',
         IF In(p, {"dup_copy", "dup_unmap"})'
         THEN (/\ Writable(p, UTEMP)
               /\ pt[p][UTEMP].page = pt[forking[p].child][forking[p].va].page)'
         ELSE pt'[p][UTEMP] = NoPage,
         CopyMapped(p)', XStackMapped(p)', Private', ForkCopied(p)'
  PROVE  ForkInv'
<1>t. Types /\ ProcInv(p)
  BY DEF ForkInv
<1>1. PICK c \in Procs : c = ChildOf(p) /\ (q # p => q = c)
  BY ChildFacts DEF PteStep
<1>2. c # p => ProcInv(c)' /\ fault'[c] = NULL /\ forking'[c] = NULL
  BY <1>1, ChildFilled DEF PteStep
<1>3. /\ pt'[q][va] = pte
      /\ \A r \in Procs, x \in VAs : <<r, x>> # <<q, va>> => pt'[r][x] = pt[r][x]
  BY <1>t, SetPteEffect DEF PteStep
<1>4. WriteMapped(p)'
  BY DEF WriteMapped, PteStep
<1>5. fault'[p] \notin FaultSteps /\ pt'[p][PFTEMP] = NoPage
  BY <1>3, NotNull, Addresses
<1>6. TempMapped(p)' /\ FaultCopied(p)'
  BY <1>5 DEF TempMapped, FaultCopied, FaultSteps
<1>7. DataMapped(p)'
  BY <1>t, <1>3, Addresses DEF ProcInv, DataMapped, PteStep
<1> QED BY <1>1, <1>2, <1>4, <1>6, <1>7, PteStepInv

(* A page is allocated for the exception stack. *)
LEMMA HandlerStackStep ==
  ASSUME ForkInv, NEW p \in Procs, HandlerStack(p)
  PROVE  ForkInv'
<1>t. Types /\ ProcInv(p) /\ XStack \in VAs /\ XStack \notin {UTEMP, PFTEMP}
      /\ UTEMP \in VAs /\ 0 \in VAs
  BY Addresses DEF ForkInv, UTEMP
<1>1. /\ status[p] = "LIVE" /\ instr[p] = NULL /\ fault[p] = NULL
      /\ pt[p][PFTEMP] = NoPage /\ pt[p][UTEMP] = NoPage
      /\ forking[p] # NULL /\ forking[p].step = "handler"
  BY AtFacts DEF HandlerStack
<1>2. PICK pte \in Entries :
        /\ SetPte(p, p, XStack, pte) /\ pte.perm = {"W"} /\ pte # NoPage
        /\ \A r \in Procs, w \in VAs : pt[r][w].page # pte.page
  BY <1>t, PageAllocEffect, KnownPerms DEF HandlerStack
<1>3. To(p, "set_upcall", NULL, 0) /\ UNCHANGED <<status, upcall, handler, instr, fault>>
  BY DEF HandlerStack
<1>4. /\ forking' \in [Procs -> Forks \cup {NULL}]
      /\ forking'[p] # NULL /\ forking'[p].step = "set_upcall"
      /\ forking'[p].child = NULL
      /\ \A r \in Procs : r # p => forking'[r] = forking[r]
  BY <1>t, <1>3, ToEffect DEF ForkSteps
<1>5. PteStep(p, p, XStack, pte)
  BY <1>t, <1>1, <1>2, <1>3, <1>4 DEF PteStep, Types
<1>6. /\ pt'[p][XStack] = pte
      /\ \A r \in Procs, x \in VAs : <<r, x>> # <<p, XStack>> => pt'[r][x] = pt[r][x]
  BY <1>t, <1>2, SetPteEffect
<1>7. Control(p)'
  BY <1>1, <1>3, <1>4 DEF Control, ParentSteps
<1>8. ~In(p, {"dup_copy", "dup_unmap"})' /\ pt'[p][UTEMP] = NoPage
  BY <1>t, <1>1, <1>4, <1>6 DEF In
<1>9. CopyMapped(p)' /\ XStackMapped(p)'
  BY <1>2, <1>4, <1>6 DEF CopyMapped, XStackMapped, Writable, In, CopySteps
<1>10. Private'
  <2>1. \A a, b \in Procs, x, y \in VAs :
          SharedBy(a, x, b, y) => SharedBy(a, x, b, y)'
    BY <1>1, <1>3, <1>4 DEF SharedBy, ThroughUtemp, In
  <2> QED BY <1>t, <1>2, <2>1, PrivatePte DEF ForkInv
<1>11. ForkCopied(p)'
  BY <1>4 DEF ForkCopied
<1>12. XStack \notin Data
  BY Addresses
<1> QED BY <1>t, <1>1, <1>3, <1>5, <1>7, <1>8, <1>9, <1>10, <1>11, <1>12, ForkPteInv

(* What a step of fork() with a child knows. *)
LEMMA ChildAt ==
  ASSUME ForkInv, NEW p \in Procs, NEW step \in ForkSteps \ ParentSteps, At(p, step)
  PROVE  /\ forking[p].child \in Procs /\ forking[p].child # p
         /\ forking[p].child = ChildOf(p) /\ forking[p].child # NULL
         /\ status[forking[p].child] = "EMBRYO" /\ Idle(forking[p].child)
         /\ forking[p].va \in VAs
BY ForkFacts, NotNull DEF At, ChildOf

(* The page that duppage() shares. *)
LEMMA DuppageStep ==
  ASSUME ForkInv, NEW p \in Procs, Duppage(p)
  PROVE  ForkInv'
<1>t. Types /\ ProcInv(p)
  BY DEF ForkInv
<1>1. /\ status[p] = "LIVE" /\ instr[p] = NULL /\ fault[p] = NULL
      /\ pt[p][PFTEMP] = NoPage /\ pt[p][UTEMP] = NoPage
      /\ forking[p] # NULL /\ forking[p].step = "duppage"
  BY AtFacts DEF Duppage
<1>2. PICK c \in Procs, va \in VAs :
        /\ c = forking[p].child /\ va = forking[p].va /\ c # p /\ c = ChildOf(p)
        /\ status[c] = "EMBRYO"
  BY ChildAt DEF Duppage, ForkSteps, ParentSteps
<1>3. /\ va # XStack /\ pt[p][va].perm # {}
      /\ PageMap(p, p, va, c, va, {"COW"})
      /\ To(p, "own", c, va)
      /\ UNCHANGED <<status, upcall, handler, instr, fault>>
  BY <1>2 DEF Duppage, LeavesOut, DuppageTarget
<1>4. PICK pte \in Entries :
        /\ SetPte(p, c, va, pte) /\ pte.perm = {"COW"} /\ pte # NoPage
        /\ pte.page = pt[p][va].page /\ pte.page \in Pages
  BY <1>t, <1>3, PageMapEffect, KnownPerms
<1>5. va \in Data \cup {Stack} /\ va \notin {UTEMP, PFTEMP} /\ UTEMP \in VAs
      /\ va \in Nat
  BY <1>1, <1>3, EntryFacts, Addresses
<1>6. /\ forking' \in [Procs -> Forks \cup {NULL}]
      /\ forking'[p] # NULL /\ forking'[p].step = "own"
      /\ forking'[p].child = c /\ forking'[p].va = va
      /\ \A r \in Procs : r # p => forking'[r] = forking[r]
  BY <1>t, <1>3, ToEffect DEF ForkSteps
<1>7. PteStep(p, c, va, pte)
  BY <1>t, <1>1, <1>2, <1>3, <1>4, <1>6 DEF PteStep, Types
<1>8. /\ pt'[c][va] = pte
      /\ \A r \in Procs, x \in VAs : <<r, x>> # <<c, va>> => pt'[r][x] = pt[r][x]
      /\ \A r \in Procs, x \in VAs : pt'[r][x].page \in Pages =>
           content'[pt'[r][x].page] = content[pt'[r][x].page]
  BY <1>t, <1>4, SetPteEffect
<1>9. Control(p)'
  BY <1>t, <1>1, <1>2, <1>3, <1>5, <1>6 DEF ProcInv, Control, ParentSteps
<1>10. ~In(p, {"dup_copy", "dup_unmap"})' /\ pt'[p][UTEMP] = NoPage
  BY <1>1, <1>2, <1>5, <1>6, <1>8 DEF In
<1>11. CopyMapped(p)' /\ XStackMapped(p)'
  BY <1>t, <1>2, <1>3, <1>6, <1>8, Addresses
     DEF ProcInv, CopyMapped, XStackMapped, Writable, In, CopySteps
<1>12. fault[p] # "unmap"
  BY <1>1, NotNull DEF FaultSteps
<1>13. Private'
  <2>1. \A a, b \in Procs, x, y \in VAs :
          SharedBy(a, x, b, y) => SharedBy(a, x, b, y)'
    BY <1>1, <1>3, <1>6 DEF SharedBy, ThroughUtemp, In
  <2>2. SharedBy(p, va, c, va)' /\ pte.perm # {"W"}
    BY <1>4, <1>6 DEF SharedBy, In
  <2>3. \A b \in Procs, y \in VAs :
          <<b, y>> # <<p, va>> /\ pt[b][y].page = pte.page => ~Writable(b, y)
    BY <1>1, <1>4, <1>5, <1>12, NoOtherWriter
  <2>4. ASSUME NEW b \in Procs, NEW y \in VAs, pt[b][y].page = pte.page, Writable(b, y)
        PROVE  SharedBy(b, y, c, va)'
    BY <2>2, <2>3, <2>4
  <2> QED BY <1>t, <1>4, <2>1, <2>2, <2>4, PrivatePte DEF ForkInv
<1>14. ForkCopied(p)'
  <2> SUFFICES ASSUME NEW vb \in Data, Done(p, vb)'
               PROVE  (pt[c][vb] # NoPage /\ SameContent(p, vb, c, vb))'
    BY <1>6 DEF ForkCopied, SameContent
  <2>1. CASE vb = va
    BY <1>2, <1>4, <1>8, <2>1 DEF SameContent
  <2>2. CASE vb # va
    <3>1. Done(p, vb)
      BY <1>1, <1>2, <1>6, <2>2 DEF Done, In
    <3>2. pt[c][vb] # NoPage /\ SameContent(p, vb, c, vb)
      BY <1>1, <1>2, <3>1, NotNull DEF ForkInv, ForkCopied
    <3> QED BY <1>1, <1>2, <1>7, <2>2, <3>2, CopiesStay
  <2> QED BY <2>1, <2>2
<1> QED BY <1>1, <1>2, <1>3, <1>5, <1>7, <1>9, <1>10, <1>11, <1>13, <1>14, ForkPteInv

(* When the loop goes on, it is done with one page more. *)
LEMMA DoneNext ==
  ASSUME ForkInv, NEW p \in Procs, forking[p] # NULL,
         NEW this \in {"duppage", "dup_or_share"}, NEW after \in {"xstack", "start"},
         NextVa(p, this, after), NEW vb \in Data, Done(p, vb)'
  PROVE  vb = forking[p].va \/ Done(p, vb)
<1>1. this \in ForkSteps /\ after \in ForkSteps
  BY DEF ForkSteps
<1>2. /\ forking[p].va = XStack =>
           forking'[p].step = after /\ forking'[p].va = forking[p].va
      /\ forking[p].va # XStack =>
           forking'[p].step = this /\ forking'[p].va = forking[p].va + 1
  BY <1>1, NextVaEffect
<1>3. vb \in Nat /\ forking[p].va \in Nat /\ vb < XStack
  BY ForkFacts, Addresses
<1> QED BY <1>2, <1>3 DEF Done, In

(* The other half of duppage(). *)
LEMMA DuppageOwnStep ==
  ASSUME ForkInv, NEW p \in Procs, DuppageOwn(p)
  PROVE  ForkInv'
<1>t. Types /\ ProcInv(p)
  BY DEF ForkInv
<1>1. /\ status[p] = "LIVE" /\ instr[p] = NULL /\ fault[p] = NULL
      /\ pt[p][PFTEMP] = NoPage /\ pt[p][UTEMP] = NoPage
      /\ forking[p] # NULL /\ forking[p].step = "own"
  BY AtFacts DEF DuppageOwn
<1>2. PICK c \in Procs, va \in VAs :
        /\ c = forking[p].child /\ va = forking[p].va /\ c # p /\ c = ChildOf(p)
        /\ status[c] = "EMBRYO"
  BY ChildAt DEF DuppageOwn, ForkSteps, ParentSteps
<1>3. /\ PageMap(p, p, va, p, va, {"COW"})
      /\ NextVa(p, "duppage", "xstack")
      /\ UNCHANGED <<status, upcall, handler, instr, fault>>
  BY <1>2 DEF DuppageOwn, DuppageTarget
<1>4. PICK pte \in Entries :
        /\ SetPte(p, p, va, pte) /\ pte.perm = {"COW"} /\ pte # NoPage
        /\ pte.page = pt[p][va].page /\ pte.page \in Pages
  BY <1>t, <1>3, PageMapEffect, KnownPerms
<1>5. /\ va \in Data \cup {Stack} /\ va \notin {UTEMP, PFTEMP, XStack}
      /\ UTEMP \in VAs /\ XStack \in VAs
  BY <1>t, <1>1, <1>2, Addresses DEF ProcInv, Control
<1>6. /\ forking' \in [Procs -> Forks \cup {NULL}]
      /\ forking'[p] # NULL /\ forking'[p].step = "duppage"
      /\ forking'[p].child = c
      /\ \A r \in Procs : r # p => forking'[r] = forking[r]
  BY <1>1, <1>2, <1>3, <1>5, NextVaEffect DEF ForkSteps
<1>7. PteStep(p, p, va, pte)
  BY <1>t, <1>1, <1>2, <1>3, <1>4, <1>6 DEF PteStep, Types
<1>8. /\ pt'[p][va] = pte
      /\ \A r \in Procs, x \in VAs : <<r, x>> # <<p, va>> => pt'[r][x] = pt[r][x]
  BY <1>t, <1>4, SetPteEffect
<1>9. Control(p)'
  BY <1>t, <1>1, <1>2, <1>3, <1>6 DEF ProcInv, Control, ParentSteps
<1>10. ~In(p, {"dup_copy", "dup_unmap"})' /\ pt'[p][UTEMP] = NoPage
  BY <1>1, <1>5, <1>6, <1>8 DEF In
<1>11. CopyMapped(p)' /\ XStackMapped(p)'
  BY <1>t, <1>3, <1>5, <1>6, <1>8
     DEF ProcInv, CopyMapped, XStackMapped, Writable, In, CopySteps
<1>12. fault[p] # "unmap"
  BY <1>1, NotNull DEF FaultSteps
<1>13. Private'
  <2>1. \A a, b \in Procs, x, y \in VAs :
          /\ SharedBy(a, x, b, y)
          /\ <<a, x>> # <<p, va>> /\ <<b, y>> # <<p, va>>
          => SharedBy(a, x, b, y)'
    BY <1>1, <1>2, <1>3, <1>6 DEF SharedBy, ThroughUtemp, In
  <2>2. pte.perm # {"W"}
    BY <1>4
  <2>3. \A b \in Procs, y \in VAs :
          <<b, y>> # <<p, va>> /\ pt[b][y].page = pte.page => ~Writable(b, y)
    BY <1>1, <1>4, <1>5, <1>12, NoOtherWriter
  <2>4. SetPte(p, p, va, pte)
    BY <1>4
  <2>5. \A b \in Procs, y \in VAs :
          /\ <<b, y>> # <<p, va>> /\ pt[b][y].page = pte.page
          => /\ pte.perm = {"W"} => SharedBy(p, va, b, y)'
             /\ Writable(b, y)  => SharedBy(b, y, p, va)'
    BY <2>2, <2>3
  <2>6. Types /\ Private
    BY DEF ForkInv
  <2> QED BY <2>1, <2>4, <2>5, <2>6, PrivatePte
<1>14. ForkCopied(p)'
  <2> SUFFICES ASSUME NEW vb \in Data, Done(p, vb)'
               PROVE  (pt[c][vb] # NoPage /\ SameContent(p, vb, c, vb))'
    BY <1>6 DEF ForkCopied, SameContent
  <2>1. Done(p, vb)
    BY <1>1, <1>3, DoneNext DEF Done, In
  <2>2. pt[c][vb] # NoPage /\ SameContent(p, vb, c, vb)
    BY <1>1, <1>2, <2>1, NotNull DEF ForkInv, ForkCopied
  <2> QED BY <1>1, <1>2, <1>4, <1>7, <2>2, CopiesStay
<1> QED BY <1>1, <1>3, <1>4, <1>5, <1>7, <1>9, <1>10, <1>11, <1>13, <1>14, ForkPteInv

(* A page that p has at va is mapped at va of its child without write      *)
(* permission, and the loop goes on.                                       *)
LEMMA SharedReadOnly ==
  ASSUME ForkInv, NEW p \in Procs,
         NEW this \in {"duppage", "dup_or_share"}, NEW after \in {"xstack", "start"},
         this = "duppage" <=> after = "xstack",
         At(p, this), NEW c \in Procs, c = forking[p].child,
         NEW va \in VAs, va = forking[p].va,
         PageMap(p, p, va, c, va, {}), NextVa(p, this, after), ~Writable(p, va),
         UNCHANGED <<status, upcall, handler, instr, fault>>,
         this = "duppage" => va # XStack
  PROVE  ForkInv'
<1>t. Types /\ ProcInv(p) /\ this \in ForkSteps \ ParentSteps /\ after \in ForkSteps
  BY DEF ForkInv, ForkSteps, ParentSteps
<1>1. /\ status[p] = "LIVE" /\ instr[p] = NULL /\ fault[p] = NULL
      /\ pt[p][PFTEMP] = NoPage /\ pt[p][UTEMP] = NoPage
      /\ forking[p] # NULL /\ forking[p].step = this
  BY AtFacts
<1>2. c # p /\ c = ChildOf(p) /\ status[c] = "EMBRYO"
  BY <1>t, ChildAt
<1>4. PICK pte \in Entries :
        /\ SetPte(p, c, va, pte) /\ pte.perm = {} /\ pte # NoPage
        /\ pte.page = pt[p][va].page /\ pte.page \in Pages
        /\ pt[p][va] # NoPage
  BY <1>t, PageMapEffect, KnownPerms
<1>5. va \notin {UTEMP, PFTEMP} /\ UTEMP \in VAs /\ XStack \in VAs
  BY <1>1, <1>4, Addresses
<1>6. /\ forking' \in [Procs -> Forks \cup {NULL}]
      /\ forking'[p] # NULL /\ forking'[p].step \in {this, after}
      /\ forking'[p].child = c
      /\ \A r \in Procs : r # p => forking'[r] = forking[r]
  BY <1>t, <1>1, NextVaEffect
<1>7. PteStep(p, c, va, pte)
  BY <1>t, <1>1, <1>2, <1>4, <1>6 DEF PteStep, Types
<1>8. /\ pt'[c][va] = pte
      /\ \A r \in Procs, x \in VAs : <<r, x>> # <<c, va>> => pt'[r][x] = pt[r][x]
  BY <1>t, <1>4, SetPteEffect
<1>9. ~upcall[c]
  BY <1>t, <1>1 DEF ProcInv, Control, ParentSteps
<1>10. Control(p)'
  BY <1>1, <1>2, <1>6, <1>9 DEF Control, ParentSteps
<1>11. ~In(p, {"dup_copy", "dup_unmap"})' /\ pt'[p][UTEMP] = NoPage
  BY <1>1, <1>2, <1>5, <1>6, <1>8 DEF In
<1>12. CopyMapped(p)' /\ XStackMapped(p)'
  BY <1>t, <1>2, <1>5, <1>6, <1>8
     DEF ProcInv, CopyMapped, XStackMapped, Writable, In, CopySteps
<1>13. fault[p] # "unmap"
  BY <1>1, NotNull DEF FaultSteps
<1>14. Private'
  <2>1. \A a, b \in Procs, x, y \in VAs :
          SharedBy(a, x, b, y) => SharedBy(a, x, b, y)'
    BY <1>1, <1>6 DEF SharedBy, ThroughUtemp, In
  <2>2. pte.perm # {"W"}
    BY <1>4
  <2>3. \A b \in Procs, y \in VAs : pt[b][y].page = pte.page => ~Writable(b, y)
    BY <1>1, <1>4, <1>5, <1>13, NoOtherWriter
  <2>4. \A a, b \in Procs, x, y \in VAs :
          /\ SharedBy(a, x, b, y)
          /\ <<a, x>> # <<c, va>> /\ <<b, y>> # <<c, va>>
          => SharedBy(a, x, b, y)'
    BY <2>1
  <2>5. \A b \in Procs, y \in VAs :
          <<b, y>> # <<c, va>> /\ pt[b][y].page = pte.page => ~Writable(b, y)
    BY <2>3
  <2>6. SetPte(p, c, va, pte)
    BY <1>4
  <2> HIDE <1>4, <2>1, <2>3
  <2> QED BY <2>2, <2>4, <2>5, <2>6, PrivateUnwritable
<1>15. ForkCopied(p)'
  <2> SUFFICES ASSUME NEW vb \in Data, Done(p, vb)'
               PROVE  (pt[c][vb] # NoPage /\ SameContent(p, vb, c, vb))'
    BY <1>6 DEF ForkCopied, SameContent
  <2>1. CASE vb = va
    BY <1>2, <1>4, <1>8, <2>1 DEF SameContent
  <2>2. CASE vb # va
    <3>1. Done(p, vb)
      BY <1>1, <2>2, DoneNext
    <3>2. pt[c][vb] # NoPage /\ SameContent(p, vb, c, vb)
      BY <1>1, <3>1, NotNull DEF ForkInv, ForkCopied
    <3> QED BY <1>1, <1>2, <1>7, <2>2, <3>2, CopiesStay
  <2> QED BY <2>1, <2>2
<1> QED BY <1>1, <1>2, <1>5, <1>7, <1>9, <1>10, <1>11, <1>12, <1>14, <1>15, ForkPteInv

LEMMA DuppageReadOnlyStep ==
  ASSUME ForkInv, NEW p \in Procs, DuppageReadOnly(p)
  PROVE  ForkInv'
<1>1. PICK c \in Procs, va \in VAs : c = forking[p].child /\ va = forking[p].va
  BY ChildAt DEF DuppageReadOnly, ForkSteps, ParentSteps
<1>2. /\ At(p, "duppage") /\ va # XStack /\ ~Writable(p, va)
      /\ PageMap(p, p, va, c, va, {}) /\ NextVa(p, "duppage", "xstack")
      /\ UNCHANGED <<status, upcall, handler, instr, fault>>
  BY <1>1 DEF DuppageReadOnly, LeavesOut, Writable
<1> QED BY <1>1, <1>2, SharedReadOnly

(* The exception stack of the child. *)
LEMMA ChildStackStep ==
  ASSUME ForkInv, NEW p \in Procs, ChildStack(p)
  PROVE  ForkInv'
<1>t. Types /\ ProcInv(p) /\ XStack \in VAs /\ XStack \notin {UTEMP, PFTEMP}
      /\ UTEMP \in VAs /\ 0 \in VAs
  BY Addresses DEF ForkInv, UTEMP
<1>1. /\ status[p] = "LIVE" /\ instr[p] = NULL /\ fault[p] = NULL
      /\ pt[p][PFTEMP] = NoPage /\ pt[p][UTEMP] = NoPage
      /\ forking[p] # NULL /\ forking[p].step = "xstack"
  BY AtFacts DEF ChildStack
<1>2. PICK c \in Procs :
        c = forking[p].child /\ c # p /\ c = ChildOf(p) /\ status[c] = "EMBRYO"
  BY ChildAt DEF ChildStack, ForkSteps, ParentSteps
<1>3. /\ PageAlloc(p, c, XStack, {"W"}) /\ To(p, "child_upcall", c, 0)
      /\ UNCHANGED <<status, upcall, handler, instr, fault>>
  BY <1>2 DEF ChildStack
<1>4. PICK pte \in Entries :
        /\ SetPte(p, c, XStack, pte) /\ pte.perm = {"W"} /\ pte # NoPage
        /\ \A r \in Procs, w \in VAs : pt[r][w].page # pte.page
  BY <1>t, <1>3, PageAllocEffect, KnownPerms
<1>5. /\ forking' \in [Procs -> Forks \cup {NULL}]
      /\ forking'[p] # NULL /\ forking'[p].step = "child_upcall"
      /\ forking'[p].child = c
      /\ \A r \in Procs : r # p => forking'[r] = forking[r]
  BY <1>t, <1>3, ToEffect DEF ForkSteps
<1>6. PteStep(p, c, XStack, pte)
  BY <1>t, <1>1, <1>2, <1>3, <1>4, <1>5 DEF PteStep, Types
<1>7. /\ pt'[c][XStack] = pte
      /\ \A r \in Procs, x \in VAs : <<r, x>> # <<c, XStack>> => pt'[r][x] = pt[r][x]
  BY <1>t, <1>4, SetPteEffect
<1>8. Control(p)'
  BY <1>t, <1>1, <1>2, <1>3, <1>5 DEF ProcInv, Control, ParentSteps
<1>9. ~In(p, {"dup_copy", "dup_unmap"})' /\ pt'[p][UTEMP] = NoPage
  BY <1>t, <1>1, <1>2, <1>5, <1>7 DEF In
<1>10. CopyMapped(p)' /\ XStackMapped(p)'
  BY <1>t, <1>2, <1>3, <1>4, <1>5, <1>7
     DEF ProcInv, CopyMapped, XStackMapped, Writable, In, CopySteps
<1>11. Private'
  <2>1. \A a, b \in Procs, x, y \in VAs :
          SharedBy(a, x, b, y) => SharedBy(a, x, b, y)'
    BY <1>1, <1>3, <1>5 DEF SharedBy, ThroughUtemp, In
  <2> QED BY <1>t, <1>4, <2>1, PrivatePte DEF ForkInv
<1>12. ForkCopied(p)'
  <2> SUFFICES ASSUME NEW vb \in Data
               PROVE  (pt[c][vb] # NoPage /\ SameContent(p, vb, c, vb))'
    BY <1>5 DEF ForkCopied, SameContent
  <2>1. pt[c][vb] # NoPage /\ SameContent(p, vb, c, vb)
    BY <1>1, <1>2, NotNull DEF ForkInv, ForkCopied, Done, In
  <2>2. vb # XStack
    BY Addresses
  <2> QED BY <1>t, <1>1, <1>2, <1>6, <2>1, <2>2, CopiesStay
<1> QED BY <1>t, <1>1, <1>2, <1>3, <1>4, <1>6, <1>8, <1>9, <1>10, <1>11, <1>12,
           ForkPteInv

(* dup_or_share() for what cannot be written. *)
LEMMA ShareOrSkipStep ==
  ASSUME ForkInv, NEW p \in Procs, ShareOrSkip(p)
  PROVE  ForkInv'
<1>t. Types /\ ProcInv(p)
  BY DEF ForkInv
<1>1. /\ status[p] = "LIVE" /\ instr[p] = NULL /\ fault[p] = NULL
      /\ pt[p][UTEMP] = NoPage
      /\ forking[p] # NULL /\ forking[p].step = "dup_or_share"
  BY AtFacts DEF ShareOrSkip
<1>2. PICK c \in Procs, va \in VAs :
        c = forking[p].child /\ va = forking[p].va /\ c = ChildOf(p)
        /\ status[c] = "EMBRYO"
  BY ChildAt DEF ShareOrSkip, ForkSteps, ParentSteps
<1>3. /\ At(p, "dup_or_share") /\ ~Writable(p, va)
      /\ NextVa(p, "dup_or_share", "start")
      /\ UNCHANGED <<status, upcall, handler, instr, fault>>
  BY <1>2 DEF ShareOrSkip, Writable
<1>4. CASE PageMap(p, p, va, c, va, {})
  BY <1>2, <1>3, <1>4, SharedReadOnly
<1>5. CASE pt[p][va] = NoPage /\ UNCHANGED <<pt, tlb, content>>
  <2>1. /\ forking' \in [Procs -> Forks \cup {NULL}]
        /\ forking'[p] # NULL /\ forking'[p].child = c
        /\ forking'[p].step \in {"dup_or_share", "start"}
        /\ \A r \in Procs : r # p => forking'[r] = forking[r]
    BY <1>1, <1>2, <1>3, NextVaEffect DEF ForkSteps
  <2>2. OnlyOf(p)
    BY <1>t, <1>3, <1>5, <2>1 DEF Types, OnlyOf
  <2>3. ProcInv(p)'
    <3>1. Control(p)' /\ Coherent(p)' /\ DataMapped(p)' /\ WriteMapped(p)'
      BY <1>t, <1>1, <1>2, <1>3, <1>5, <2>1
         DEF ProcInv, Control, Coherent, DataMapped, WriteMapped, ParentSteps,
             CopySteps, Writable
    <3>2. ~In(p, {"dup_copy", "dup_unmap"}) /\ ~In(p, {"dup_copy", "dup_unmap"})'
      BY <1>1, <2>1 DEF In
    <3>3. TempMapped(p)'
      BY <1>t, <1>3, <1>5, <3>2 DEF ProcInv, TempMapped, Writable
    <3>4. CopyMapped(p)' /\ XStackMapped(p)'
      BY <1>t, <1>3, <1>5, <2>1
         DEF ProcInv, CopyMapped, XStackMapped, Writable, In, CopySteps
    <3> QED BY <3>1, <3>3, <3>4 DEF ProcInv
  <2>4. fault[p] # "map" /\ fault[p] # "unmap"
    BY <1>1, NotNull DEF FaultSteps
  <2>5. ForkCopied(p)'
    <3> SUFFICES ASSUME NEW vb \in Data, Done(p, vb)'
                 PROVE  (pt[c][vb] # NoPage /\ SameContent(p, vb, c, vb))'
      BY <2>1 DEF ForkCopied, SameContent
    <3>1. vb # va
      BY <1>t, <1>1, <1>5 DEF ProcInv, DataMapped
    <3>2. Done(p, vb)
      BY <1>1, <1>2, <1>3, <3>1, DoneNext
    <3>3. ForkCopied(p) /\ forking[p] # NULL
      BY <1>1, NotNull DEF ForkInv
    <3>4. pt[c][vb] # NoPage /\ SameContent(p, vb, c, vb)
      BY <1>2, <3>2, <3>3, NotNull DEF ForkCopied
    <3> QED BY <1>5, <3>4 DEF SameContent
  <2>6. FaultCopied(p)'
    BY <1>3, <2>4 DEF FaultCopied
  <2>7. ~In(p, {"own", "dup_copy", "dup_unmap"})
    BY <1>1 DEF In
  <2> QED BY <1>1, <1>2, <2>1, <2>2, <2>3, <2>4, <2>5, <2>6, <2>7, OwnStep
<1> QED BY <1>2, <1>4, <1>5 DEF ShareOrSkip

(* dup_or_share() for what can be written: a page for the child, ... *)
LEMMA DupAllocStep ==
  ASSUME ForkInv, NEW p \in Procs, DupAlloc(p)
  PROVE  ForkInv'
<1>t. Types /\ ProcInv(p) /\ UTEMP \in VAs
  BY Addresses DEF ForkInv
<1>1. /\ status[p] = "LIVE" /\ instr[p] = NULL /\ fault[p] = NULL
      /\ pt[p][PFTEMP] = NoPage /\ pt[p][UTEMP] = NoPage
      /\ forking[p] # NULL /\ forking[p].step = "dup_or_share"
  BY AtFacts DEF DupAlloc
<1>2. PICK c \in Procs, va \in VAs :
        /\ c = forking[p].child /\ va = forking[p].va /\ c # p /\ c = ChildOf(p)
        /\ status[c] = "EMBRYO"
  BY ChildAt DEF DupAlloc, ForkSteps, ParentSteps
<1>3. /\ Writable(p, va)
      /\ PageAlloc(p, c, va, {"W"}) /\ To(p, "dup_map", c, va)
      /\ UNCHANGED <<status, upcall, handler, instr, fault>>
  BY <1>t, <1>2, MappedEntry DEF DupAlloc
<1>4. PICK pte \in Entries :
        /\ SetPte(p, c, va, pte) /\ pte.perm = {"W"} /\ pte # NoPage
        /\ \A r \in Procs, w \in VAs : pt[r][w].page # pte.page
  BY <1>t, <1>3, PageAllocEffect, KnownPerms
<1>5. va \in Data \cup {Stack, XStack} /\ va \notin {UTEMP, PFTEMP}
  BY <1>t, <1>1, <1>2, <1>3, MappedEntry, Addresses
<1>6. /\ forking' \in [Procs -> Forks \cup {NULL}]
      /\ forking'[p] # NULL /\ forking'[p].step = "dup_map"
      /\ forking'[p].child = c /\ forking'[p].va = va
      /\ \A r \in Procs : r # p => forking'[r] = forking[r]
  BY <1>t, <1>3, ToEffect DEF ForkSteps
<1>7. PteStep(p, c, va, pte)
  BY <1>t, <1>1, <1>2, <1>3, <1>4, <1>6 DEF PteStep, Types
<1>8. /\ pt'[c][va] = pte
      /\ \A r \in Procs, x \in VAs : <<r, x>> # <<c, va>> => pt'[r][x] = pt[r][x]
  BY <1>t, <1>4, SetPteEffect
<1>9. ~upcall[c]
  BY <1>t, <1>1, <1>2 DEF ProcInv, Control, ParentSteps
<1>10. Control(p)'
  BY <1>1, <1>2, <1>3, <1>6, <1>9 DEF Control, ParentSteps
<1>11. ~In(p, {"dup_copy", "dup_unmap"})' /\ pt'[p][UTEMP] = NoPage
  BY <1>t, <1>1, <1>2, <1>6, <1>8 DEF In
<1>12. CopyMapped(p)' /\ XStackMapped(p)'
  <2>2. Writable(c, va)' /\ (Writable(p, va))'
    <3>1. pt'[p][va] = pt[p][va]
      BY <1>2, <1>8
    <3> QED BY <1>3, <1>4, <1>8, <3>1 DEF Writable
  <2>3. CopyMapped(p)'
    BY <1>5, <1>6, <2>2 DEF CopyMapped
  <2>4. pt'[p][XStack] = pt[p][XStack] /\ upcall' = upcall
    BY <1>2, <1>3, <1>8, Addresses
  <2>5. ~In(p, {"child_upcall"})' /\ ~In(p, {"set_upcall"})'
    BY <1>6 DEF In
  <2>6. upcall[p] => Writable(p, XStack)
    BY <1>t DEF ProcInv, XStackMapped
  <2>7. XStackMapped(p)'
    BY <2>4, <2>5, <2>6 DEF XStackMapped, Writable
  <2> QED BY <2>3, <2>7
<1>13. Private'
  <2>1. \A a, b \in Procs, x, y \in VAs :
          SharedBy(a, x, b, y) => SharedBy(a, x, b, y)'
    BY <1>1, <1>3, <1>6 DEF SharedBy, ThroughUtemp, In
  <2>2. Types /\ Private
    BY DEF ForkInv
  <2> QED BY <1>4, <2>1, <2>2, PrivatePte
<1>14. ForkCopied(p)'
  <2> SUFFICES ASSUME NEW vb \in Data, Done(p, vb)'
               PROVE  (pt[c][vb] # NoPage /\ SameContent(p, vb, c, vb))'
    BY <1>6 DEF ForkCopied, SameContent
  <2>1. vb < va /\ vb # va /\ Done(p, vb)
    BY <1>1, <1>2, <1>6, Addresses DEF Done, In
  <2>2. pt[c][vb] # NoPage /\ SameContent(p, vb, c, vb)
    BY <1>1, <1>2, <2>1, NotNull DEF ForkInv, ForkCopied
  <2> QED BY <1>1, <1>2, <1>7, <2>1, <2>2, CopiesStay
<1> QED BY <1>1, <1>2, <1>3, <1>5, <1>7, <1>9, <1>10, <1>11, <1>12, <1>13, <1>14,
           ForkPteInv

(* ... which the parent maps at UTEMP, ... *)
LEMMA DupMapStep ==
  ASSUME ForkInv, NEW p \in Procs, DupMap(p)
  PROVE  ForkInv'
<1>t. /\ Types /\ ProcInv(p) /\ Private
      /\ UTEMP \in VAs /\ UTEMP # PFTEMP /\ XStack \in VAs /\ UTEMP # XStack
      /\ UTEMP \notin Data
  BY Addresses DEF ForkInv
<1>1. /\ status[p] = "LIVE" /\ instr[p] = NULL /\ fault[p] = NULL
      /\ pt[p][PFTEMP] = NoPage /\ pt[p][UTEMP] = NoPage
      /\ forking[p] # NULL /\ forking[p].step = "dup_map"
  BY AtFacts DEF DupMap
<1>2. PICK c \in Procs, va \in VAs :
        /\ c = forking[p].child /\ va = forking[p].va /\ c # p /\ c = ChildOf(p)
        /\ status[c] = "EMBRYO" /\ Idle(c)
  BY ChildAt DEF DupMap, ForkSteps, ParentSteps
<1>3. /\ PageMap(p, c, va, p, UTEMP, {"W"}) /\ To(p, "dup_copy", c, va)
      /\ UNCHANGED <<status, upcall, handler, instr, fault>>
  BY <1>2 DEF DupMap
<1>4. PICK pte \in Entries :
        /\ SetPte(p, p, UTEMP, pte) /\ pte.perm = {"W"} /\ pte # NoPage
        /\ pte.page = pt[c][va].page /\ pte.page \in Pages
  BY <1>t, <1>3, PageMapEffect, KnownPerms
<1>5. /\ Writable(p, va) /\ Writable(c, va) /\ va \in Data \cup {Stack, XStack}
      /\ va # UTEMP
  BY <1>t, <1>1, <1>2, Addresses DEF ProcInv, CopyMapped, In, CopySteps
<1>6. /\ forking' \in [Procs -> Forks \cup {NULL}]
      /\ forking'[p] # NULL /\ forking'[p].step = "dup_copy"
      /\ forking'[p].child = c /\ forking'[p].va = va
      /\ \A r \in Procs : r # p => forking'[r] = forking[r]
  BY <1>t, <1>3, ToEffect DEF ForkSteps
<1>7. PteStep(p, p, UTEMP, pte)
  BY <1>t, <1>1, <1>2, <1>3, <1>4, <1>6 DEF PteStep, Types
<1>8. /\ pt'[p][UTEMP] = pte
      /\ \A r \in Procs, x \in VAs : <<r, x>> # <<p, UTEMP>> => pt'[r][x] = pt[r][x]
  BY <1>t, <1>4, SetPteEffect
<1>9. ~upcall[c]
  BY <1>t, <1>1, <1>2 DEF ProcInv, Control, ParentSteps
<1>10. Control(p)'
  BY <1>1, <1>2, <1>3, <1>6, <1>9 DEF Control, ParentSteps
<1>11. (/\ Writable(p, UTEMP)
        /\ pt[p][UTEMP].page = pt[forking[p].child][forking[p].va].page)'
  BY <1>2, <1>4, <1>6, <1>8 DEF Writable
<1>12. CopyMapped(p)' /\ XStackMapped(p)'
  BY <1>t, <1>2, <1>3, <1>5, <1>6, <1>8
     DEF ProcInv, CopyMapped, XStackMapped, Writable, In, CopySteps
<1>13. Private'
  <2>1. \A a, b \in Procs, x, y \in VAs :
          SharedBy(a, x, b, y) => SharedBy(a, x, b, y)'
    BY <1>1, <1>3, <1>6 DEF SharedBy, ThroughUtemp, In
  <2>2. SharedBy(p, UTEMP, c, va)' /\ SharedBy(c, va, p, UTEMP)'
    BY <1>6 DEF SharedBy, ThroughUtemp, In
  <2>3. ASSUME NEW b \in Procs, NEW y \in VAs, pt[b][y].page = pte.page,
               <<b, y>> # <<c, va>>
        PROVE  FALSE
    <3>1. SharedBy(c, va, b, y)
      BY <1>t, <1>4, <1>5, <2>3 DEF Private
    <3>2. forking[c] = NULL /\ fault[c] # "unmap"
      BY <1>2, NotNull DEF Idle, FaultSteps
    <3>3. ThroughUtemp(b, c, va)
      BY <3>1, <3>2 DEF SharedBy, ThroughUtemp, In
    <3>4. b = p
      BY <1>1, <1>2, <3>3, NotNull DEF ForkInv, OneParent, ThroughUtemp, In
    <3> QED BY <1>1, <3>3, <3>4 DEF ThroughUtemp, In
  <2>4. ASSUME NEW b \in Procs, NEW y \in VAs, pt[b][y].page = pte.page
        PROVE  SharedBy(p, UTEMP, b, y)' /\ SharedBy(b, y, p, UTEMP)'
    <3>1. b = c /\ y = va
      BY <2>3, <2>4
    <3> QED BY <2>2, <3>1
  <2> QED BY <1>t, <1>4, <2>1, <2>4, PrivatePte
<1>14. ForkCopied(p)'
  <2> SUFFICES ASSUME NEW vb \in Data, Done(p, vb)'
               PROVE  (pt[c][vb] # NoPage /\ SameContent(p, vb, c, vb))'
    BY <1>6 DEF ForkCopied, SameContent
  <2>1. Done(p, vb)
    BY <1>1, <1>2, <1>6 DEF Done, In
  <2>2. pt[c][vb] # NoPage /\ SameContent(p, vb, c, vb)
    BY <1>1, <1>2, <2>1, NotNull DEF ForkInv, ForkCopied
  <2> QED BY <1>t, <1>1, <1>2, <1>7, <2>2, CopiesStay
<1>15. In(p, {"dup_copy", "dup_unmap"})'
  BY <1>6 DEF In
<1> QED BY <1>t, <1>1, <1>3, <1>7, <1>10, <1>11, <1>12, <1>13, <1>14, <1>15, ForkPteInv

(* ... and, when it has copied the page, unmaps there. *)
LEMMA DupUnmapStep ==
  ASSUME ForkInv, NEW p \in Procs, DupUnmap(p)
  PROVE  ForkInv'
<1>t. /\ Types /\ ProcInv(p) /\ NoPage \in Entries
      /\ UTEMP \in VAs /\ UTEMP # PFTEMP /\ XStack \in VAs /\ UTEMP # XStack
      /\ UTEMP \notin Data
  BY Addresses, EntryFacts DEF ForkInv
<1>1. /\ status[p] = "LIVE" /\ instr[p] = NULL /\ fault[p] = NULL
      /\ pt[p][PFTEMP] = NoPage
      /\ forking[p] # NULL /\ forking[p].step = "dup_unmap"
  BY AtFacts DEF DupUnmap
<1>2. PICK c \in Procs, va \in VAs :
        /\ c = forking[p].child /\ va = forking[p].va /\ c # p /\ c = ChildOf(p)
        /\ status[c] = "EMBRYO"
  BY ChildAt DEF DupUnmap, ForkSteps, ParentSteps
<1>3. /\ SetPte(p, p, UTEMP, NoPage) /\ NextVa(p, "dup_or_share", "start")
      /\ UNCHANGED <<status, upcall, handler, instr, fault>>
  BY DEF DupUnmap
<1>6. /\ forking' \in [Procs -> Forks \cup {NULL}]
      /\ forking'[p] # NULL /\ forking'[p].step \in {"dup_or_share", "start"}
      /\ forking'[p].child = c
      /\ \A r \in Procs : r # p => forking'[r] = forking[r]
  BY <1>1, <1>2, <1>3, NextVaEffect DEF ForkSteps
<1>7. PteStep(p, p, UTEMP, NoPage)
  BY <1>t, <1>1, <1>2, <1>3, <1>6 DEF PteStep, Types
<1>8. /\ pt'[p][UTEMP] = NoPage
      /\ \A r \in Procs, x \in VAs : <<r, x>> # <<p, UTEMP>> => pt'[r][x] = pt[r][x]
  BY <1>t, <1>3, SetPteEffect
<1>9. ~upcall[c]
  BY <1>t, <1>1, <1>2 DEF ProcInv, Control, ParentSteps
<1>10. Control(p)'
  BY <1>1, <1>2, <1>3, <1>6, <1>9 DEF Control, ParentSteps
<1>11. ~In(p, {"dup_copy", "dup_unmap"})'
  BY <1>6 DEF In
<1>12. CopyMapped(p)' /\ XStackMapped(p)'
  BY <1>t, <1>2, <1>3, <1>6, <1>8
     DEF ProcInv, CopyMapped, XStackMapped, Writable, In, CopySteps
<1>13. Private'
  <2>1. \A a, b \in Procs, x, y \in VAs :
          /\ SharedBy(a, x, b, y)
          /\ <<a, x>> # <<p, UTEMP>> /\ <<b, y>> # <<p, UTEMP>>
          => SharedBy(a, x, b, y)'
    BY <1>1, <1>3, <1>6 DEF SharedBy, ThroughUtemp, In
  <2>2. \A b \in Procs, y \in VAs :
          <<b, y>> # <<p, UTEMP>> /\ pt[b][y].page = NoPage.page => ~Writable(b, y)
    BY <1>t, MappedEntry, EntryFacts
  <2>3. NoPage.perm # {"W"}
    BY EntryFacts
  <2> HIDE DEF NoPage
  <2> QED BY <1>t, <1>3, <2>1, <2>2, <2>3, PrivateUnwritable, ZenonT(30)
<1>14. ForkCopied(p)'
  <2> SUFFICES ASSUME NEW vb \in Data, Done(p, vb)'
               PROVE  (pt[c][vb] # NoPage /\ SameContent(p, vb, c, vb))'
    BY <1>6 DEF ForkCopied, SameContent
  <2>1. Done(p, vb)
    BY <1>1, <1>3, DoneNext DEF Done, In
  <2>2. pt[c][vb] # NoPage /\ SameContent(p, vb, c, vb)
    BY <1>1, <1>2, <2>1, NotNull DEF ForkInv, ForkCopied
  <2> QED BY <1>t, <1>1, <1>2, <1>7, <2>2, CopiesStay
<1> QED BY <1>t, <1>1, <1>3, <1>7, <1>8, <1>10, <1>11, <1>12, <1>13, <1>14, ForkPteInv

-----------------------------------------------------------------------------
(***************************************************************************)
(* The end of a process.                                                   *)
(***************************************************************************)
LEMMA MappedContentKept ==
  ASSUME NEW r \in Procs, pt'[r] = pt[r],
         content' = [g \in Pages |-> IF g \in UsedIn(pt') THEN content[g] ELSE 0]
  PROVE  ContentKept(r)
<1> SUFFICES ASSUME NEW w \in VAs, pt[r][w].page \in Pages
             PROVE  content'[pt[r][w].page] = content[pt[r][w].page]
  BY DEF ContentKept
<1>1. pt'[r][w].page \in UsedIn(pt')
  BY ForkAssumption DEF UsedIn
<1> QED BY <1>1

LEMMA ClearedContent ==
  ASSUME Types,
         content' = [g \in Pages |-> IF g \in UsedIn(pt') THEN content[g] ELSE 0]
  PROVE  content' \in [Pages -> Values]
BY ForkAssumption DEF Types

(* A process that is gone shares nothing. *)
LEMMA PrivateCleared ==
  ASSUME ForkInv, NEW p \in Procs, NEW d \in Procs, NEW c \in Procs, StepOf(p, c),
         status[p] = "LIVE", pt' = [pt EXCEPT ![d] = Empty],
         \A a, b \in Procs, x, y \in VAs :
           SharedBy(a, x, b, y) /\ a # d /\ b # d => SharedBy(a, x, b, y)'
  PROVE  Private'
<1>t. Types /\ Private
  BY DEF ForkInv
<1> SUFFICES ASSUME NEW a \in Procs, NEW b \in Procs, NEW x \in VAs, NEW y \in VAs,
                    Writable(a, x)', pt'[a][x].page = pt'[b][y].page,
                    <<a, x>> # <<b, y>>
             PROVE  SharedBy(a, x, b, y)'
  BY DEF Private
<1>1. pt'[d] = Empty /\ \A r \in Procs : r # d => pt'[r] = pt[r]
  BY <1>t DEF Types
<1>2. a # d
  <2> SUFFICES ASSUME a = d PROVE FALSE
    OBVIOUS
  <2>1. pt'[a][x].perm = {}
    BY <1>1, EmptyTable, EntryFacts
  <2> QED BY <2>1 DEF Writable
<1>3. Writable(a, x) /\ pt'[a][x] = pt[a][x] /\ pt[a][x].page \in Pages
  BY <1>t, <1>1, <1>2, MappedEntry DEF Writable
<1>4. b # d
  <2> SUFFICES ASSUME b = d PROVE FALSE
    OBVIOUS
  <2>1. pt'[b][y].page = NULL
    BY <1>1, EmptyTable, EntryFacts
  <2> QED BY <1>3, <2>1, ForkAssumption
<1>5. SharedBy(a, x, b, y)
  BY <1>t, <1>1, <1>3, <1>4 DEF Private
<1> QED BY <1>2, <1>4, <1>5

LEMMA DestroyStep ==
  ASSUME ForkInv, NEW p \in Procs, status[p] = "LIVE", Destroy(p)
  PROVE  ForkInv'
<1>t. Types /\ ProcInv(p) /\ Empty \in [VAs -> Entries]
  BY EmptyTable DEF ForkInv
<1>1. PICK c \in Procs : c = ChildOf(p)
  BY ChildFacts
<1>2. /\ status'[p] = "FREE" /\ pt'[p] = Empty /\ tlb'[p] = Empty /\ ~upcall'[p]
      /\ instr'[p] = NULL /\ fault'[p] = NULL /\ forking'[p] = NULL
  BY <1>t DEF Destroy, Types
<1>3. \A r \in Procs : r # p =>
        /\ status'[r] = status[r] /\ pt'[r] = pt[r] /\ tlb'[r] = tlb[r]
        /\ upcall'[r] = upcall[r] /\ instr'[r] = instr[r] /\ fault'[r] = fault[r]
        /\ forking'[r] = forking[r]
  BY <1>t DEF Destroy, Types
<1>4. content' \in [Pages -> Values]
  BY <1>t, ClearedContent DEF Destroy
<1>5. Types'
  BY <1>t, <1>4 DEF Destroy, Types
<1>6. StepOf(p, c)
  BY <1>1, <1>2, <1>3, <1>5, ChildFacts DEF StepOf
<1>7. c # p => ProcInv(c)' /\ fault'[c] = NULL /\ forking'[c] = NULL
  <2> SUFFICES ASSUME c # p
               PROVE  ProcInv(c)' /\ fault'[c] = NULL /\ forking'[c] = NULL
    OBVIOUS
  <2>1. forking[c] = NULL /\ fault[c] = NULL
    BY <1>1, ChildFacts DEF Idle
  <2> QED BY <1>3, <1>5, <2>1, Untouched
<1>8. ProcInv(p)'
  <2>1. fault'[p] \notin FaultSteps
    BY <1>2, NotNull
  <2>2. \A va \in VAs : pt'[p][va] = NoPage /\ tlb'[p][va] = NoPage
    BY <1>2, EmptyTable
  <2>3. Control(p)' /\ WriteMapped(p)' /\ CopyMapped(p)' /\ XStackMapped(p)'
        /\ DataMapped(p)'
    BY <1>2 DEF Control, Idle, WriteMapped, CopyMapped, XStackMapped, DataMapped, In
  <2>4. Coherent(p)'
    BY <2>2 DEF Coherent
  <2>5. TempMapped(p)'
    BY <1>2, <2>1, <2>2, Addresses DEF TempMapped, In, FaultSteps
  <2> QED BY <2>3, <2>4, <2>5 DEF ProcInv
<1>9. FaultCopied(p)' /\ ForkCopied(p)'
  BY <1>2, NotNull DEF FaultCopied, ForkCopied, FaultSteps
<1>10. Private'
  <2>1. \A a, b \in Procs, x, y \in VAs :
          SharedBy(a, x, b, y) /\ a # p /\ b # p => SharedBy(a, x, b, y)'
    BY <1>6, SharingKept
  <2>2. pt' = [pt EXCEPT ![p] = Empty]
    BY DEF Destroy
  <2> QED BY <1>6, <2>1, <2>2, PrivateCleared
<1>11. \A r \in Procs : r # p => ContentKept(r)
  BY <1>3, MappedContentKept DEF Destroy
<1> QED BY <1>6, <1>7, <1>8, <1>9, <1>10, <1>11, Assemble

(* The child is destroyed, and the parent panics. *)
LEMMA NoUpcallForChildStep ==
  ASSUME ForkInv, NEW p \in Procs, NoUpcallForChild(p)
  PROVE  ForkInv'
<1>t. Types /\ ProcInv(p) /\ Empty \in [VAs -> Entries]
  BY EmptyTable DEF ForkInv
<1>1. /\ status[p] = "LIVE" /\ instr[p] = NULL /\ fault[p] = NULL
      /\ pt[p][PFTEMP] = NoPage /\ pt[p][UTEMP] = NoPage
      /\ forking[p] # NULL /\ forking[p].step = "child_upcall"
  BY AtFacts DEF NoUpcallForChild
<1>2. PICK c \in Procs :
        /\ c = forking[p].child /\ c # p /\ c = ChildOf(p)
        /\ status[c] = "EMBRYO" /\ Idle(c)
  BY ChildAt DEF NoUpcallForChild, ForkSteps, ParentSteps
<1>3. /\ status' = [status EXCEPT ![p] = "PANIC", ![c] = "FREE"]
      /\ pt' = [pt EXCEPT ![c] = Empty]
      /\ content' = [g \in Pages |-> IF g \in UsedIn(pt') THEN content[g] ELSE 0]
      /\ forking' = [forking EXCEPT ![p] = NULL]
      /\ UNCHANGED <<tlb, upcall, handler, instr, fault>>
      /\ ~upcall[p]
  BY <1>2 DEF NoUpcallForChild
<1>4. /\ status'[p] = "PANIC" /\ status'[c] = "FREE"
      /\ \A r \in Procs : r \notin {p, c} => status'[r] = status[r]
      /\ pt'[c] = Empty /\ \A r \in Procs : r # c => pt'[r] = pt[r]
      /\ forking'[p] = NULL /\ \A r \in Procs : r # p => forking'[r] = forking[r]
  BY <1>t, <1>2, <1>3 DEF Types
<1>5. content' \in [Pages -> Values]
  BY <1>t, <1>3, ClearedContent
<1>6. Types'
  BY <1>t, <1>3, <1>5 DEF Types
<1>7. StepOf(p, c)
  BY <1>1, <1>2, <1>3, <1>4, <1>6, ChildFacts DEF StepOf
<1>8. ~upcall[c]
  BY <1>t, <1>1, <1>2 DEF ProcInv, Control, ParentSteps
<1>9. /\ ProcInv(c)' /\ fault'[c] = NULL /\ forking'[c] = NULL
  <2>1. /\ instr'[c] = NULL /\ fault'[c] = NULL /\ forking'[c] = NULL /\ ~upcall'[c]
        /\ tlb'[c] = Empty
    BY <1>2, <1>3, <1>4, <1>8 DEF Idle
  <2>2. fault'[c] \notin FaultSteps
    BY <2>1, NotNull
  <2>3. \A va \in VAs : pt'[c][va] = NoPage /\ tlb'[c][va] = NoPage
    BY <1>4, <2>1, EmptyTable
  <2>4. Control(c)' /\ WriteMapped(c)' /\ CopyMapped(c)' /\ XStackMapped(c)'
        /\ DataMapped(c)'
    BY <1>4, <2>1 DEF Control, Idle, WriteMapped, CopyMapped, XStackMapped,
                      DataMapped, In
  <2>5. Coherent(c)'
    BY <2>3 DEF Coherent
  <2>6. TempMapped(c)'
    BY <2>1, <2>2, <2>3, Addresses DEF TempMapped, In, FaultSteps
  <2> QED BY <2>1, <2>4, <2>5, <2>6 DEF ProcInv
<1>10. ProcInv(p)'
  <2>1. /\ instr'[p] = NULL /\ fault'[p] = NULL /\ forking'[p] = NULL /\ ~upcall'[p]
        /\ tlb'[p] = tlb[p] /\ pt'[p] = pt[p]
    BY <1>1, <1>2, <1>3, <1>4
  <2>2. fault'[p] \notin FaultSteps
    BY <2>1, NotNull
  <2>3. Control(p)' /\ WriteMapped(p)' /\ CopyMapped(p)' /\ XStackMapped(p)'
    BY <1>4, <2>1 DEF Control, WriteMapped, CopyMapped, XStackMapped, In
  <2>4. Coherent(p)' /\ DataMapped(p)'
    BY <1>t, <1>1, <2>1 DEF ProcInv, Coherent, DataMapped
  <2>5. TempMapped(p)'
    BY <1>1, <2>1, <2>2 DEF TempMapped, In, FaultSteps
  <2> QED BY <2>3, <2>4, <2>5 DEF ProcInv
<1>11. FaultCopied(p)' /\ ForkCopied(p)'
  BY <1>1, <1>3, <1>4, NotNull DEF FaultCopied, ForkCopied, FaultSteps
<1>12. Private'
  <2>1. ASSUME NEW a \in Procs, NEW b \in Procs, NEW x \in VAs, NEW y \in VAs,
               SharedBy(a, x, b, y), a # c, b # c
        PROVE  SharedBy(a, x, b, y)'
    <3>1. fault[p] # "unmap"
      BY <1>1, NotNull DEF FaultSteps
    <3>2. ~In(p, {"own", "dup_copy", "dup_unmap"})
      BY <1>1 DEF In
    <3>3. \A r \in Procs : r # p /\ forking[r] # NULL => forking[r].child # p
      BY <1>7 DEF StepOf
    <3>4. a # p /\ b # p
      BY <2>1, <3>1, <3>2, <3>3 DEF SharedBy, ThroughUtemp, In
    <3> QED BY <1>7, <2>1, <3>4, SharingKept
  <2> QED BY <1>1, <1>3, <1>7, <2>1, PrivateCleared
<1>13. \A r \in Procs : r \notin {p, c} => ContentKept(r)
  BY <1>3, <1>4, MappedContentKept
<1> QED BY <1>7, <1>9, <1>10, <1>11, <1>12, <1>13, Assemble

-----------------------------------------------------------------------------
(***************************************************************************)
(* ForkInv is an invariant.                                                *)
(***************************************************************************)
LEMMA InitInv ==
  ASSUME Init
  PROVE  ForkInv
<1>0. PICK load \in [Data \cup {Stack} -> Pages], readonly \in SUBSET Data :
        /\ \A a, b \in DOMAIN load : load[a] = load[b] => a = b
        /\ pt = [p \in Procs |->
                   IF p # First THEN Empty
                   ELSE [va \in VAs |->
                           IF va \notin DOMAIN load THEN NoPage
                           ELSE [page |-> load[va],
                                 perm |-> IF va \in readonly THEN {} ELSE {"W"}]]]
  BY Zenon DEF Init
<1>1. /\ \A a, b \in Data \cup {Stack} : load[a] = load[b] => a = b
      /\ pt = [p \in Procs |->
                 IF p # First THEN Empty
                 ELSE [va \in VAs |->
                         IF va \notin Data \cup {Stack} THEN NoPage
                         ELSE [page |-> load[va],
                               perm |-> IF va \in readonly THEN {} ELSE {"W"}]]]
  <2>1. DOMAIN load = Data \cup {Stack}
    OBVIOUS
  <2> QED BY <1>0, <2>1, Zenon
<1>2. /\ status = [p \in Procs |-> IF p = First THEN "LIVE" ELSE "FREE"]
      /\ tlb = [p \in Procs |-> Empty] /\ content = [g \in Pages |-> 0]
      /\ upcall = [p \in Procs |-> FALSE] /\ handler = [p \in Procs |-> FALSE]
      /\ instr = [p \in Procs |-> NULL] /\ fault = [p \in Procs |-> NULL]
      /\ forking = [p \in Procs |-> NULL]
  BY DEF Init
<1>3. \A p \in Procs : p # First => pt[p] = Empty
  BY <1>1
<1>4. ASSUME NEW va \in VAs
      PROVE  /\ va \notin Data \cup {Stack} => pt[First][va] = NoPage
             /\ va \in Data \cup {Stack} =>
                  /\ pt[First][va] \in Entries /\ pt[First][va] # NoPage
                  /\ pt[First][va].page = load[va] /\ load[va] \in Pages
  <2>1. pt[First] = [w \in VAs |->
                       IF w \notin Data \cup {Stack} THEN NoPage
                       ELSE [page |-> load[w],
                             perm |-> IF w \in readonly THEN {} ELSE {"W"}]]
    BY <1>1, ForkAssumption
  <2>2. CASE va \notin Data \cup {Stack}
    BY <2>1, <2>2
  <2>3. CASE va \in Data \cup {Stack}
    <3> DEFINE perm == IF va \in readonly THEN {} ELSE {"W"}
    <3>1. load[va] \in Pages /\ perm \in Perms
      BY <2>3 DEF Perms
    <3>2. pt[First][va] = [page |-> load[va], perm |-> perm]
      BY <2>1, <2>3
    <3> HIDE DEF perm
    <3> QED BY <2>3, <3>1, <3>2, EntryFacts
  <2> QED BY <2>2, <2>3
<1>5. \A p \in Procs, va \in VAs :
        /\ tlb[p][va] = NoPage
        /\ p # First => pt[p][va] = NoPage
        /\ va \in {UTEMP, PFTEMP} => pt[p][va] = NoPage
  BY <1>2, <1>3, <1>4, EmptyTable, Addresses
<1>6. pt \in [Procs -> [VAs -> Entries]]
  <2>1. pt[First] \in [VAs -> Entries]
    <3>1. \A va \in VAs : pt[First][va] \in Entries
      BY <1>4, EntryFacts
    <3>2. pt[First] = [va \in VAs |-> pt[First][va]]
      BY <1>1, ForkAssumption
    <3> QED BY <3>1, <3>2
  <2>2. \A p \in Procs : pt[p] \in [VAs -> Entries]
    BY <2>1, <1>3, EmptyTable
  <2> QED BY <1>1, <2>2
<1>7. Types
  BY <1>2, <1>6, EmptyTable, ForkAssumption DEF Types
<1>8. OneParent
  BY <1>2 DEF OneParent
<1>9. Private
  <2> SUFFICES ASSUME NEW p \in Procs, NEW q \in Procs, NEW va \in VAs, NEW vb \in VAs,
                      Writable(p, va), pt[p][va].page = pt[q][vb].page
               PROVE  <<p, va>> = <<q, vb>>
    BY DEF Private
  <2>1. pt[p][va] # NoPage /\ pt[p][va].page \in Pages
    BY <1>6, EntryFacts DEF Writable
  <2>2. pt[q][vb].page # NULL
    BY <2>1, ForkAssumption
  <2>3. p = First /\ q = First
    BY <1>5, <2>1, <2>2, EntryFacts
  <2>4. va \in Data \cup {Stack} /\ vb \in Data \cup {Stack}
    BY <1>4, <2>1, <2>2, <2>3, EntryFacts
  <2>5. load[va] = load[vb]
    BY <1>4, <2>3, <2>4
  <2> QED BY <1>1, <2>3, <2>4, <2>5
<1>10. ASSUME NEW p \in Procs PROVE ProcInv(p) /\ FaultCopied(p) /\ ForkCopied(p)
  <2>1. /\ status[p] = (IF p = First THEN "LIVE" ELSE "FREE") /\ tlb[p] = Empty
        /\ ~upcall[p] /\ instr[p] = NULL /\ fault[p] = NULL /\ forking[p] = NULL
    BY <1>2
  <2>2. fault[p] \notin FaultSteps
    BY <2>1, NotNull
  <2>3. Control(p) /\ WriteMapped(p) /\ CopyMapped(p) /\ XStackMapped(p)
    BY <1>3, <2>1 DEF Control, Idle, WriteMapped, CopyMapped, XStackMapped, In
  <2>4. Coherent(p)
    BY <1>5 DEF Coherent
  <2>5. TempMapped(p)
    BY <1>5, <2>1, <2>2, Addresses DEF TempMapped, In, FaultSteps
  <2>6. DataMapped(p)
    BY <1>4, <2>1, Addresses DEF DataMapped
  <2>7. FaultCopied(p) /\ ForkCopied(p)
    BY <2>1, <2>2 DEF FaultCopied, ForkCopied, FaultSteps
  <2> QED BY <2>3, <2>4, <2>5, <2>6, <2>7 DEF ProcInv
<1> QED BY <1>7, <1>8, <1>9, <1>10 DEF ForkInv

LEMMA UserStepInv ==
  ASSUME ForkInv, NEW p \in Procs, UserStep(p)
  PROVE  ForkInv'
<1>1. CASE Store(p) \/ HandlerCopy(p) \/ SkipPage(p) \/ DupCopy(p)
  BY <1>1, StoreStep, HandlerCopyStep, SkipPageStep, DupCopyStep
<1>2. CASE CallFork(p) \/ CallForkV0(p)
  BY <1>2, ParentStepsKeep
<1>3. CASE \E va \in Data \cup {Stack}, v \in Values : Issue(p, va, v)
  BY <1>3, IssueStep
<1>4. CASE \E va \in Data : Load(p, va)
  BY <1>4, LoadStep
<1> QED BY <1>1, <1>2, <1>3, <1>4 DEF UserStep

LEMMA FaultStepInv ==
  ASSUME ForkInv, NEW p \in Procs, FaultStep(p)
  PROVE  ForkInv'
<1>1. CASE Upcall(p)
  BY <1>1, UpcallStep
<1>2. CASE FatalFault(p)
  BY <1>2, DestroyStep DEF FatalFault, Faulting, Running
<1>3. CASE HandlerPanic(p)
  BY <1>3, PanicStep DEF HandlerPanic, Handling, Running
<1>4. CASE HandlerAlloc(p) \/ HandlerMap(p) \/ HandlerUnmap(p)
  BY <1>4, HandlerAllocStep, HandlerMapStep, HandlerUnmapStep
<1> QED BY <1>1, <1>2, <1>3, <1>4 DEF FaultStep

LEMMA ForkPanicsLive ==
  ASSUME NEW p \in Procs, ForkPanics(p)
  PROVE  status[p] = "LIVE" /\ Panic(p)
BY DEF ForkPanics, At, Executing, Running

LEMMA ForkStepInv ==
  ASSUME ForkInv, NEW p \in Procs, ForkStep(p)
  PROVE  ForkInv'
<1>1. CASE SetUpcall(p) \/ NoHandlerStack(p)
  BY <1>1, ParentStepsKeep
<1>2. CASE \E c \in Procs : Exofork(p, c)
  BY <1>2, ExoforkStep
<1>3. CASE ForkPanics(p)
  BY <1>3, PanicStep, ForkPanicsLive
<1>4. CASE HandlerStack(p) \/ Duppage(p) \/ DuppageOwn(p) \/ DuppageReadOnly(p)
  BY <1>4, HandlerStackStep, DuppageStep, DuppageOwnStep, DuppageReadOnlyStep
<1>5. CASE ChildStack(p) \/ ChildUpcall(p) \/ NoUpcallForChild(p) \/ StartChild(p)
  BY <1>5, ChildStackStep, ChildUpcallStep, NoUpcallForChildStep, StartChildStep
<1>6. CASE ShareOrSkip(p) \/ DupAlloc(p) \/ DupMap(p) \/ DupUnmap(p)
  BY <1>6, ShareOrSkipStep, DupAllocStep, DupMapStep, DupUnmapStep
<1> QED BY <1>1, <1>2, <1>3, <1>4, <1>5, <1>6 DEF ForkStep

(* A process that ends of itself, or in sys_cputs(), is running. *)
LEMMA EndsLive ==
  ASSUME NEW p \in Procs, Exit(p) \/ \E va \in Data : Cputs(p, va)
  PROVE  status[p] = "LIVE" /\ Destroy(p)
BY DEF Exit, Cputs, Executing, Running

LEMMA NextInv == ForkInv /\ [Next]_vars => ForkInv'
<1> SUFFICES ASSUME ForkInv, [Next]_vars PROVE ForkInv'
  OBVIOUS
<1>1. CASE Next
  <2>1. PICK p \in Procs :
          \/ UserStep(p) \/ FaultStep(p) \/ ForkStep(p) \/ Exit(p)
          \/ \E va \in Data : Cputs(p, va)
    BY <1>1 DEF Next
  <2> QED BY <2>1, UserStepInv, FaultStepInv, ForkStepInv, EndsLive, DestroyStep
<1>2. CASE UNCHANGED vars
  <2>1. UNCHANGED <<status, pt, tlb, content, upcall, handler, instr, fault, forking>>
    BY <1>2 DEF vars
  <2>2. Types' /\ OneParent' /\ Private'
    <3>1. Types /\ OneParent /\ Private
      BY DEF ForkInv
    <3>2. Types' /\ OneParent'
      BY <2>1, <3>1 DEF Types, OneParent
    <3>3. Private'
      BY <2>1, <3>1 DEF Private, SharedBy, ThroughUtemp, In, Writable
    <3> QED BY <3>2, <3>3
  <2>3. ASSUME NEW p \in Procs PROVE ProcInv(p)' /\ FaultCopied(p)' /\ ForkCopied(p)'
    <3>1. ProcInv(p) /\ FaultCopied(p) /\ ForkCopied(p)
      BY DEF ForkInv
    <3>2. Control(p)' /\ Coherent(p)' /\ DataMapped(p)'
      BY <2>1, <3>1 DEF ProcInv, Control, Idle, Coherent, DataMapped
    <3>3. WriteMapped(p)' /\ TempMapped(p)' /\ CopyMapped(p)' /\ XStackMapped(p)'
      BY <2>1, <3>1 DEF ProcInv, WriteMapped, TempMapped, CopyMapped, XStackMapped,
                        Writable, In
    <3>4. FaultCopied(p)' /\ ForkCopied(p)'
      BY <2>1, <3>1 DEF FaultCopied, ForkCopied, Done, SameContent, In
    <3> QED BY <3>2, <3>3, <3>4 DEF ProcInv
  <2> QED BY <2>2, <2>3 DEF ForkInv
<1> QED BY <1>1, <1>2

(* The strengthening of the properties of Fork that is inductive. *)
THEOREM ForkInvariant == Spec => []ForkInv
<1>1. Init => ForkInv
  BY InitInv
<1> QED BY <1>1, NextInv, PTL DEF Spec

-----------------------------------------------------------------------------
(***************************************************************************)
(* The safety properties.                                                  *)
(***************************************************************************)

(* No page that two processes have mapped can be written by either, but    *)
(* between the two calls of duppage() (lib/fork.c) and through the UTEMP   *)
(* of dup_or_share(): in every interleaving of forks, page faults and      *)
(* exits of any number of processes.                                       *)
THEOREM PagesNotWrittenByTwo == Spec => []NoWritableSharing
<1>1. ForkInv => NoWritableSharing
  <2> SUFFICES ASSUME ForkInv, NEW p \in Procs, NEW q \in Procs,
                      NEW va \in VAs, NEW vb \in VAs, p # q,
                      pt[p][va].page = pt[q][vb].page, "W" \in pt[p][va].perm
               PROVE  \/ \E r \in {p, q} :
                           /\ forking[r] # NULL /\ forking[r].step = "own"
                           /\ forking[r].va = va
                      \/ UTEMP \in {va, vb}
    BY DEF NoWritableSharing
  <2>1. Types /\ Private
    BY DEF ForkInv
  <2>2. Writable(p, va)
    BY <2>1, EntryFacts DEF Types, Writable
  <2>3. SharedBy(p, va, q, vb)
    BY <2>1, <2>2 DEF Private
  <2> QED BY <2>3 DEF SharedBy, In
<1> QED BY <1>1, ForkInvariant, PTL

(* Whoever has a page-fault upcall has an exception stack that it can      *)
(* write and shares with nobody, which page_fault_handler() (kern/trap.c)  *)
(* and the fork() that leaves it out rely on.                              *)
THEOREM ExceptionStacksPrivate == Spec => []ExceptionStackPrivate
<1>1. ForkInv => ExceptionStackPrivate
  <2> SUFFICES ASSUME ForkInv, NEW p \in Procs, status[p] = "LIVE", upcall[p]
               PROVE  /\ pt[p][XStack].perm = {"W"}
                      /\ \A q \in Procs, va \in VAs :
                           pt[q][va].page = pt[p][XStack].page =>
                             q = p /\ va = XStack
    BY DEF ExceptionStackPrivate
  <2>1. Types /\ Private /\ ProcInv(p)
    BY DEF ForkInv
  <2>2. Writable(p, XStack) /\ XStack \in VAs /\ XStack \notin {UTEMP, PFTEMP}
    BY <2>1, Addresses DEF ProcInv, XStackMapped
  <2> SUFFICES ASSUME NEW q \in Procs, NEW va \in VAs,
                      pt[q][va].page = pt[p][XStack].page, <<p, XStack>> # <<q, va>>
               PROVE  FALSE
    BY <2>2 DEF Writable
  <2>3. SharedBy(p, XStack, q, va)
    BY <2>1, <2>2 DEF Private
  <2>4. forking[p] # NULL => ~(forking[p].step = "own" /\ forking[p].va = XStack)
    BY <2>1, Addresses DEF ProcInv, Control
  <2>5. fault[p] = "unmap" => instr[p].va # XStack
    <3>1. fault[p] = "unmap" => instr[p] \in Writes
      BY <2>1, NotNull DEF Types, ProcInv, WriteMapped, FaultSteps
    <3> QED BY <3>1, Addresses DEF Writes
  <2>6. CASE ThroughUtemp(q, p, XStack)
    <3>1. forking[q] # NULL /\ forking[q].step \in {"dup_copy", "dup_unmap"}
          /\ forking[q].child = p
      BY <2>6 DEF ThroughUtemp, In
    <3>2. ProcInv(q)
      BY DEF ForkInv
    <3> QED BY <3>1, <3>2 DEF ProcInv, Control, ParentSteps
  <2> QED BY <2>2, <2>3, <2>4, <2>5, <2>6 DEF SharedBy, In
<1> QED BY <1>1, ForkInvariant, PTL

(* An instruction goes to pgfault() (lib/fork.c) once at most: what it     *)
(* leaves behind can be written, whatever the other processes do.          *)
THEOREM WritesFaultOnce == Spec => []OneFaultPerWrite
<1>1. ForkInv => OneFaultPerWrite
  BY DEF ForkInv, ProcInv, WriteMapped, OneFaultPerWrite
<1> QED BY <1>1, ForkInvariant, PTL

-----------------------------------------------------------------------------
(***************************************************************************)
(* fork() copies: Fork implements PrivateMemory.                           *)
(***************************************************************************)
Images == [p \in Procs |-> Memory(p)]
Stores == [p \in Procs |-> StoreToData(p)]

(* The processor finds the data of a running process where its page table  *)
(* says.                                                                   *)
LEMMA DataFacts ==
  ASSUME ForkInv, NEW r \in Procs, status[r] = "LIVE", NEW va \in Data
  PROVE  /\ va \in VAs /\ pt[r][va] # NoPage /\ pt[r][va].page \in Pages
         /\ Translation(r, va) = pt[r][va]
         /\ content[pt[r][va].page] \in Values
<1>1. Types /\ ProcInv(r) /\ va \in VAs
  BY Addresses DEF ForkInv
<1>2. pt[r][va] # NoPage
  BY <1>1 DEF ProcInv, DataMapped
<1>3. pt[r][va].page \in Pages
  BY <1>1, <1>2, MappedEntry
<1>4. Translation(r, va) = pt[r][va]
  BY <1>1, TranslationRight DEF ProcInv
<1> QED BY <1>1, <1>2, <1>3, <1>4 DEF Types

LEMMA MemoryIs ==
  ASSUME ForkInv, NEW r \in Procs
  PROVE  /\ status[r] = "LIVE" =>
              /\ Memory(r) = [va \in Data |-> content[pt[r][va].page]]
              /\ Memory(r) \in [Data -> Values] /\ Memory(r) # NULL
         /\ status[r] # "LIVE" => Memory(r) = NULL
<1>1. CASE status[r] = "LIVE"
  <2>1. Memory(r) = [va \in Data |-> content[Translation(r, va).page]]
    BY <1>1 DEF Memory
  <2>2. Memory(r) = [va \in Data |-> content[pt[r][va].page]]
    BY <1>1, <2>1, DataFacts
  <2>3. Memory(r) \in [Data -> Values]
    BY <1>1, <2>2, DataFacts
  <2> QED BY <1>1, <2>2, <2>3, ForkAssumption
<1>2. CASE status[r] # "LIVE"
  BY <1>2 DEF Memory
<1> QED BY <1>1, <1>2

LEMMA MemoryIsNext ==
  ASSUME ForkInv', NEW r \in Procs, status'[r] = "LIVE"
  PROVE  Memory(r)' = [va \in Data |-> content'[pt'[r][va].page]]
<1>1. ASSUME NEW va \in Data PROVE Translation(r, va)' = pt'[r][va]
  BY Addresses DEF ForkInv, ProcInv, Coherent, Translation
<1>2. Memory(r)' = [va \in Data |-> content'[Translation(r, va)'.page]]
  BY DEF Memory
<1> QED BY <1>1, <1>2

LEMMA StoreIs ==
  ASSUME ForkInv, NEW r \in Procs
  PROVE  IF status[r] = "LIVE" /\ instr[r] # NULL /\ instr[r].va \in Data
         THEN /\ StoreToData(r) = <<instr[r].va, instr[r].value>>
              /\ StoreToData(r) # NULL
         ELSE StoreToData(r) = NULL
<1>1. Types
  BY DEF ForkInv
<1>2. ASSUME instr[r] # NULL, instr[r].va \in Data
      PROVE  <<instr[r].va, instr[r].value>> # NULL
  BY <1>1, <1>2, WriteFacts, ForkAssumption
<1> QED BY <1>2 DEF StoreToData

(* What a process sees of its memory. *)
KeptView(r) ==
  /\ status'[r] = "LIVE" <=> status[r] = "LIVE"
  /\ instr'[r] # NULL /\ instr'[r].va \in Data <=> instr[r] # NULL /\ instr[r].va \in Data
  /\ instr[r] # NULL /\ instr[r].va \in Data =>
       instr'[r].va = instr[r].va /\ instr'[r].value = instr[r].value
  /\ status[r] = "LIVE" => \A va \in Data :
                             content'[pt'[r][va].page] = content[pt[r][va].page]

LEMMA SameView ==
  ASSUME ForkInv, ForkInv', NEW r \in Procs, KeptView(r)
  PROVE  Memory(r)' = Memory(r) /\ StoreToData(r)' = StoreToData(r)
<1>1. StoreToData(r)' = StoreToData(r)
  BY DEF KeptView, StoreToData
<1>2. CASE status[r] = "LIVE"
  <2>1. Memory(r)' = [va \in Data |-> content'[pt'[r][va].page]]
    BY <1>2, MemoryIsNext DEF KeptView
  <2>2. Memory(r) = [va \in Data |-> content[pt[r][va].page]]
    BY <1>2, MemoryIs
  <2> QED BY <1>1, <1>2, <2>1, <2>2 DEF KeptView
<1>3. CASE status[r] # "LIVE"
  BY <1>1, <1>3 DEF KeptView, Memory
<1> QED BY <1>2, <1>3

LEMMA Stutters ==
  ASSUME ForkInv, ForkInv', \A r \in Procs : KeptView(r)
  PROVE  UNCHANGED <<Images, Stores>>
BY SameView DEF Images, Stores

(* What a process writes to its memory no other running process can see. *)
LEMMA DataPrivate ==
  ASSUME ForkInv, NEW p \in Procs, NEW w \in VAs, Writable(p, w), fault[p] # "unmap",
         NEW r \in Procs, status[r] = "LIVE", NEW va \in Data, <<r, va>> # <<p, w>>
  PROVE  pt[r][va].page # pt[p][w].page
<1> SUFFICES ASSUME pt[r][va].page = pt[p][w].page
             PROVE  FALSE
  OBVIOUS
<1>1. Types /\ Private /\ va \in VAs /\ va # UTEMP
  BY Addresses DEF ForkInv
<1>2. SharedBy(p, w, r, va)
  BY <1>1 DEF Private
<1>3. In(p, {"own", "dup_copy", "dup_unmap"}) /\ r = forking[p].child
  BY <1>1, <1>2 DEF SharedBy, ThroughUtemp, In
<1> QED BY <1>3, ForkFacts DEF In, ParentSteps

LEMMA StoredView ==
  ASSUME ForkInv, NEW p \in Procs, NEW w \in VAs, Writable(p, w), fault[p] # "unmap",
         NEW v, content' = [content EXCEPT ![pt[p][w].page] = v], pt' = pt,
         NEW r \in Procs, status[r] = "LIVE", NEW va \in Data, <<r, va>> # <<p, w>>
  PROVE  content'[pt'[r][va].page] = content[pt[r][va].page]
<1>1. pt[r][va].page # pt[p][w].page
  BY DataPrivate
<1>2. pt[r][va].page \in Pages
  BY DataFacts
<1>3. content \in [Pages -> Values]
  BY DEF ForkInv, Types
<1> QED BY <1>1, <1>2, <1>3

(* A system call that changes one entry of a page table, for an address    *)
(* that is not a data page or for a process that does not run, ...         *)
LEMMA PteView ==
  ASSUME ForkInv, NEW p \in Procs, NEW q \in Procs, NEW w \in VAs, NEW pte \in Entries,
         SetPte(p, q, w, pte),
         NEW r \in Procs, status[r] = "LIVE", NEW va \in Data, <<r, va>> # <<q, w>>
  PROVE  content'[pt'[r][va].page] = content[pt[r][va].page]
<1>1. Types
  BY DEF ForkInv
<1>2. va \in VAs /\ pt[r][va].page \in Pages
  BY DataFacts
<1>3. pt'[r][va] = pt[r][va]
  BY <1>1, <1>2, SetPteEffect
<1> QED BY <1>1, <1>2, <1>3, SetPteEffect

LEMMA PteStutters ==
  ASSUME ForkInv, ForkInv', NEW p \in Procs, NEW q \in Procs, NEW w \in VAs,
         NEW pte \in Entries, SetPte(p, q, w, pte), UNCHANGED <<status, instr>>,
         w \in Data /\ status[q] = "LIVE" =>
           content'[pt'[q][w].page] = content[pt[q][w].page]
  PROVE  UNCHANGED <<Images, Stores>>
<1>1. ASSUME NEW r \in Procs PROVE KeptView(r)
  <2>1. ASSUME status[r] = "LIVE", NEW va \in Data
        PROVE  content'[pt'[r][va].page] = content[pt[r][va].page]
    <3>1. CASE <<r, va>> = <<q, w>>
      BY <2>1, <3>1
    <3>2. CASE <<r, va>> # <<q, w>>
      BY <2>1, <3>2, PteView
    <3> QED BY <3>1, <3>2
  <2> QED BY <2>1 DEF KeptView
<1> QED BY <1>1, Stutters

LEMMA AllocStutters ==
  ASSUME ForkInv, ForkInv', NEW p \in Procs, NEW q \in Procs, NEW w \in VAs,
         NEW perm \in Perms, PageAlloc(p, q, w, perm), UNCHANGED <<status, instr>>,
         w \notin Data \/ status[q] # "LIVE"
  PROVE  UNCHANGED <<Images, Stores>>
<1>1. Types
  BY DEF ForkInv
<1>2. PICK pte \in Entries : SetPte(p, q, w, pte)
  BY <1>1, PageAllocEffect
<1> QED BY <1>2, PteStutters

LEMMA MapStutters ==
  ASSUME ForkInv, ForkInv', NEW p \in Procs, NEW src \in Procs, NEW srcva \in VAs,
         NEW q \in Procs, NEW w \in VAs, NEW perm \in Perms,
         PageMap(p, src, srcva, q, w, perm), UNCHANGED <<status, instr>>,
         w \in Data /\ status[q] = "LIVE" => SameContent(src, srcva, q, w)
  PROVE  UNCHANGED <<Images, Stores>>
<1>1. Types
  BY DEF ForkInv
<1>2. PICK pte \in Entries : /\ SetPte(p, q, w, pte)
                             /\ pte.page = pt[src][srcva].page /\ pte.page \in Pages
  BY <1>1, PageMapEffect
<1>3. content'[pt'[q][w].page] = content[pt[src][srcva].page]
  BY <1>1, <1>2, SetPteEffect
<1> QED BY <1>2, <1>3, PteStutters DEF SameContent

(* ... and the steps that change neither a page table nor a page. *)
LEMMA QuietStutters ==
  ASSUME ForkInv, ForkInv', UNCHANGED <<pt, content>>,
         \A r \in Procs :
           /\ status'[r] = "LIVE" <=> status[r] = "LIVE"
           /\ \/ instr'[r] = instr[r]
              \/ /\ instr[r] = NULL \/ instr[r].va \notin Data
                 /\ instr'[r] = NULL \/ instr'[r].va \notin Data
              \/ /\ instr[r] # NULL /\ instr'[r] # NULL
                 /\ instr'[r].va = instr[r].va /\ instr'[r].value = instr[r].value
  PROVE  UNCHANGED <<Images, Stores>>
<1>1. ASSUME NEW r \in Procs PROVE KeptView(r)
  BY <1>1 DEF KeptView
<1> QED BY <1>1, Stutters

(* A store to a data page, when it begins ... *)
LEMMA IssueSim ==
  ASSUME ForkInv, ForkInv', NEW p \in Procs, NEW va \in Data \cup {Stack},
         NEW v \in Values, Issue(p, va, v)
  PROVE  Copy!Next \/ UNCHANGED <<Images, Stores>>
<1>t. Types
  BY DEF ForkInv
<1>1. /\ status[p] = "LIVE" /\ instr[p] = NULL
      /\ instr' = [instr EXCEPT ![p] = [va |-> va, value |-> v, faults |-> 0]]
      /\ UNCHANGED <<status, pt, content>>
  BY DEF Issue, Executing, Running
<1>w. [va |-> va, value |-> v, faults |-> 0] \in Writes
  BY DEF Writes
<1>2. /\ instr'[p] = [va |-> va, value |-> v, faults |-> 0] /\ instr'[p] # NULL
      /\ instr'[p].va = va /\ instr'[p].value = v
      /\ \A r \in Procs : r # p => instr'[r] = instr[r]
  BY <1>t, <1>1, <1>w, NotNull DEF Types
<1>3. CASE va \in Data
  <2>1. Memory(p) # NULL /\ StoreToData(p) = NULL
    BY <1>1, MemoryIs, StoreIs
  <2>2. \A r \in Procs : Memory(r)' = Memory(r)
    <3> SUFFICES ASSUME NEW r \in Procs PROVE Memory(r)' = Memory(r)
      OBVIOUS
    <3>1. CASE status[r] = "LIVE"
      BY <1>1, <3>1, MemoryIs, MemoryIsNext
    <3>2. CASE status[r] # "LIVE"
      BY <1>1, <3>2 DEF Memory
    <3> QED BY <3>1, <3>2
  <2>3. StoreToData(p)' = <<va, v>>
    BY <1>1, <1>2, <1>3 DEF StoreToData
  <2>4. \A r \in Procs : r # p => StoreToData(r)' = StoreToData(r)
    BY <1>1, <1>2 DEF StoreToData
  <2>5. Copy!Issue(p, va, v)
    BY <2>1, <2>2, <2>3, <2>4 DEF Copy!Issue
  <2> QED BY <1>3, <2>5 DEF Copy!Next
<1>4. CASE va \notin Data
  BY <1>1, <1>2, <1>4, QuietStutters
<1> QED BY <1>3, <1>4

(* ... and when it is done. *)
LEMMA StoreSim ==
  ASSUME ForkInv, ForkInv', NEW p \in Procs, Store(p)
  PROVE  Copy!Next \/ UNCHANGED <<Images, Stores>>
<1>t. Types /\ ProcInv(p)
  BY DEF ForkInv
<1>1. status[p] = "LIVE" /\ instr[p] # NULL /\ fault[p] = NULL /\ fault[p] # "unmap"
  BY NotNull DEF Store, Running, FaultSteps
<1>2. PICK w \in VAs, v \in Values :
        w = instr[p].va /\ v = instr[p].value /\ w \in Data \cup {Stack}
  BY <1>t, <1>1, WriteFacts
<1>3. Translation(p, w) = pt[p][w]
  BY <1>t, TranslationRight DEF ProcInv
<1>4. /\ Writable(p, w)
      /\ content' = [content EXCEPT ![pt[p][w].page] = v]
      /\ instr' = [instr EXCEPT ![p] = NULL]
      /\ UNCHANGED <<status, pt>>
  BY <1>t, <1>2, <1>3, MappedEntry DEF Store
<1>5. instr'[p] = NULL /\ \A r \in Procs : r # p => instr'[r] = instr[r]
  BY <1>t, <1>4 DEF Types
<1>6. ASSUME NEW r \in Procs, NEW va \in Data, status[r] = "LIVE", <<r, va>> # <<p, w>>
      PROVE  content'[pt'[r][va].page] = content[pt[r][va].page]
  <2>1. pt' = pt
    BY <1>4
  <2> QED BY <1>1, <1>4, <1>6, <2>1, StoredView
<1>7. CASE w \in Data
  <2>1. StoreToData(p) = <<w, v>> /\ StoreToData(p) # NULL
    BY <1>1, <1>2, <1>7, StoreIs
  <2>2. StoreToData(p)' = NULL
    BY <1>5 DEF StoreToData
  <2>3. \A r \in Procs : r # p => StoreToData(r)' = StoreToData(r)
    BY <1>4, <1>5 DEF StoreToData
  <2>4. \A r \in Procs : r # p => Memory(r)' = Memory(r)
    <3> SUFFICES ASSUME NEW r \in Procs, r # p PROVE KeptView(r)
      BY SameView
    <3> QED BY <1>4, <1>5, <1>6 DEF KeptView
  <2>5. Memory(p)' = [Memory(p) EXCEPT ![w] = v]
    <3>1. Memory(p)' = [va \in Data |-> content'[pt'[p][va].page]]
      BY <1>1, <1>4, MemoryIsNext
    <3>2. Memory(p) = [va \in Data |-> content[pt[p][va].page]]
      BY <1>1, MemoryIs
    <3>3. content'[pt'[p][w].page] = v
      <4>1. pt[p][w].page \in Pages
        BY <1>1, <1>7, DataFacts
      <4> QED BY <1>t, <1>4, <4>1 DEF Types
    <3>4. \A va \in Data : va # w => content'[pt'[p][va].page] = content[pt[p][va].page]
      BY <1>1, <1>6
    <3> QED BY <1>7, <3>1, <3>2, <3>3, <3>4
  <2>6. Copy!Complete(p)
    <3>1. StoreToData(p)[1] = w /\ StoreToData(p)[2] = v
      BY <2>1
    <3> QED BY <2>1, <2>2, <2>3, <2>4, <2>5, <3>1 DEF Copy!Complete
  <2> QED BY <2>6 DEF Copy!Next
<1>8. CASE w \notin Data
  <2>1. ASSUME NEW r \in Procs PROVE KeptView(r)
    BY <1>1, <1>2, <1>4, <1>5, <1>6, <1>8 DEF KeptView
  <2> QED BY <2>1, Stutters
<1> QED BY <1>7, <1>8

(* The copies that pgfault() and fork_v0() make are not seen yet. *)
LEMMA CopySim ==
  ASSUME ForkInv, ForkInv', NEW p \in Procs, HandlerCopy(p) \/ DupCopy(p)
  PROVE  UNCHANGED <<Images, Stores>>
<1>t. Types /\ ProcInv(p)
  BY DEF ForkInv
<1>1. PICK w \in {UTEMP, PFTEMP} :
        /\ Writable(p, w) /\ fault[p] # "unmap"
        /\ \E v : content' = [content EXCEPT ![pt[p][w].page] = v]
        /\ UNCHANGED <<status, pt, instr>>
  <2>1. CASE HandlerCopy(p)
    <3>1. Writable(p, PFTEMP)
      BY <1>t, <2>1 DEF HandlerCopy, Handling, ProcInv, TempMapped
    <3> QED BY <2>1, <3>1 DEF HandlerCopy, Handling
  <2>2. CASE DupCopy(p)
    <3>1. Writable(p, UTEMP)
      BY <1>t, <2>2 DEF DupCopy, At, ProcInv, TempMapped, In
    <3>2. fault[p] # "unmap"
      <4>1. At(p, "dup_copy")
        BY <2>2 DEF DupCopy
      <4> QED BY <4>1, AtFacts, NotNull DEF FaultSteps
    <3> QED BY <2>2, <3>1, <3>2 DEF DupCopy
  <2> QED BY <2>1, <2>2
<1>2. w \in VAs /\ w \notin Data
  BY Addresses
<1>v. PICK v : content' = [content EXCEPT ![pt[p][w].page] = v]
  BY <1>1
<1>3. ASSUME NEW r \in Procs, NEW va \in Data, status[r] = "LIVE"
      PROVE  content'[pt'[r][va].page] = content[pt[r][va].page]
  <2>1. pt' = pt /\ <<r, va>> # <<p, w>> /\ w \in VAs
    BY <1>1, <1>2
  <2>2. Writable(p, w) /\ fault[p] # "unmap"
    BY <1>1
  <2>3. pt[r][va].page # pt[p][w].page /\ pt[r][va].page \in Pages
    BY <1>3, <2>1, <2>2, DataPrivate, DataFacts
  <2> QED BY <1>t, <1>v, <2>1, <2>3 DEF Types
<1>4. ASSUME NEW r \in Procs PROVE KeptView(r)
  BY <1>1, <1>3 DEF KeptView
<1> QED BY <1>4, Stutters

(* The end of a process, by exit(), at the kernel's hands or in a panic. *)
LEMMA EndSim ==
  ASSUME ForkInv, ForkInv', NEW p \in Procs, status[p] = "LIVE", status'[p] # "LIVE",
         \A r \in Procs : r # p => KeptView(r)
  PROVE  Copy!Next
<1>1. \A r \in Procs : r # p =>
        Memory(r)' = Memory(r) /\ StoreToData(r)' = StoreToData(r)
  BY SameView
<1>2. Memory(p)' = NULL /\ StoreToData(p)' = NULL
  BY DEF Memory, StoreToData
<1>3. Copy!Exit(p)
  BY <1>1, <1>2 DEF Copy!Exit
<1> QED BY <1>3 DEF Copy!Next

LEMMA DestroySim ==
  ASSUME ForkInv, ForkInv', NEW p \in Procs, status[p] = "LIVE", Destroy(p)
  PROVE  Copy!Next
<1>t. Types
  BY DEF ForkInv
<1>1. status'[p] = "FREE" /\ \A r \in Procs : r # p =>
        status'[r] = status[r] /\ instr'[r] = instr[r] /\ pt'[r] = pt[r]
  BY <1>t DEF Destroy, Types
<1>2. ASSUME NEW r \in Procs, r # p PROVE KeptView(r)
  <2>1. ContentKept(r)
    BY <1>1, <1>2, MappedContentKept DEF Destroy
  <2> QED BY <1>1, <1>2, <2>1, DataFacts DEF KeptView, ContentKept
<1> QED BY <1>1, <1>2, EndSim

LEMMA PanicSim ==
  ASSUME ForkInv, ForkInv', NEW p \in Procs, status[p] = "LIVE", Panic(p)
  PROVE  Copy!Next
<1>t. Types
  BY DEF ForkInv
<1>1. status'[p] = "PANIC" /\ \A r \in Procs : r # p => status'[r] = status[r]
  BY <1>t DEF Panic, Types
<1>2. ASSUME NEW r \in Procs, r # p PROVE KeptView(r)
  BY <1>1, <1>2 DEF KeptView, Panic
<1> QED BY <1>1, <1>2, EndSim

LEMMA NoUpcallForChildSim ==
  ASSUME ForkInv, ForkInv', NEW p \in Procs, NoUpcallForChild(p)
  PROVE  Copy!Next
<1>t. Types
  BY DEF ForkInv
<1>1. status[p] = "LIVE"
  BY AtFacts DEF NoUpcallForChild
<1>2. PICK c \in Procs : c = forking[p].child /\ c # p /\ status[c] = "EMBRYO"
  BY ChildAt DEF NoUpcallForChild, ForkSteps, ParentSteps
<1>3. /\ status' = [status EXCEPT ![p] = "PANIC", ![c] = "FREE"]
      /\ pt' = [pt EXCEPT ![c] = Empty] /\ instr' = instr
      /\ content' = [g \in Pages |-> IF g \in UsedIn(pt') THEN content[g] ELSE 0]
  BY <1>2 DEF NoUpcallForChild
<1>4. /\ status'[p] = "PANIC" /\ status'[c] = "FREE"
      /\ \A r \in Procs : r \notin {p, c} => status'[r] = status[r] /\ pt'[r] = pt[r]
  BY <1>t, <1>2, <1>3 DEF Types
<1>5. ASSUME NEW r \in Procs, r # p PROVE KeptView(r)
  <2>1. CASE r = c
    BY <1>2, <1>3, <1>4, <2>1 DEF KeptView
  <2>2. CASE r # c
    <3>1. ContentKept(r)
      BY <1>3, <1>4, <1>5, <2>2, MappedContentKept
    <3> QED BY <1>3, <1>4, <1>5, <2>2, <3>1, DataFacts DEF KeptView, ContentKept
  <2> QED BY <2>1, <2>2
<1> QED BY <1>1, <1>4, <1>5, EndSim

(* The child starts with the memory its parent has. *)
LEMMA StartChildSim ==
  ASSUME ForkInv, ForkInv', NEW p \in Procs, StartChild(p)
  PROVE  Copy!Next
<1>t. Types /\ ForkCopied(p)
  BY DEF ForkInv
<1>1. /\ status[p] = "LIVE" /\ instr[p] = NULL
      /\ forking[p] # NULL /\ forking[p].step = "start"
  BY AtFacts DEF StartChild
<1>2. PICK c \in Procs :
        c = forking[p].child /\ c # p /\ status[c] = "EMBRYO" /\ Idle(c) /\ c # NULL
  BY ChildAt, NotNull DEF StartChild, ForkSteps, ParentSteps
<1>3. status' = [status EXCEPT ![c] = "LIVE"] /\ UNCHANGED <<pt, content, instr>>
  BY <1>2 DEF StartChild
<1>4. status'[c] = "LIVE" /\ \A r \in Procs : r # c => status'[r] = status[r]
  BY <1>t, <1>2, <1>3 DEF Types
<1>5. \A r \in Procs : r # c => Memory(r)' = Memory(r)
  <2> SUFFICES ASSUME NEW r \in Procs, r # c PROVE KeptView(r)
    BY SameView
  <2> QED BY <1>3, <1>4 DEF KeptView
<1>6. \A r \in Procs : StoreToData(r)' = StoreToData(r)
  <2>1. instr[c] = NULL
    BY <1>2 DEF Idle
  <2> QED BY <1>3, <1>4, <2>1 DEF StoreToData
<1>7. Memory(c) = NULL /\ Memory(p) # NULL /\ StoreToData(p) = NULL
  BY <1>1, <1>2, MemoryIs, StoreIs
<1>8. Memory(c)' = Memory(p)
  <2>1. Memory(c)' = [va \in Data |-> content[pt[c][va].page]]
    BY <1>3, <1>4, MemoryIsNext
  <2>2. Memory(p) = [va \in Data |-> content[pt[p][va].page]]
    BY <1>1, MemoryIs
  <2>3. \A va \in Data : SameContent(p, va, c, va)
    BY <1>t, <1>1, <1>2 DEF ForkCopied, Done, In
  <2> QED BY <2>1, <2>2, <2>3 DEF SameContent
<1>9. Copy!Fork(p, c)
  BY <1>2, <1>5, <1>6, <1>7, <1>8 DEF Copy!Fork
<1> QED BY <1>9 DEF Copy!Next

(* The other steps of pgfault() and of fork() change nothing that a        *)
(* running process sees: they are about addresses that are no data pages,  *)
(* about embryos, or put a page in the place of one with the same content. *)
LEMMA HandlerSim ==
  ASSUME ForkInv, ForkInv', NEW p \in Procs,
         HandlerAlloc(p) \/ HandlerMap(p) \/ HandlerUnmap(p)
  PROVE  UNCHANGED <<Images, Stores>>
<1>t. /\ Types /\ ProcInv(p) /\ FaultCopied(p)
      /\ PFTEMP \in VAs /\ PFTEMP \notin Data /\ NoPage \in Entries /\ {"W"} \in Perms
  BY Addresses, EntryFacts DEF ForkInv, Perms
<1>1. CASE HandlerAlloc(p)
  <2>1. PageAlloc(p, p, PFTEMP, {"W"}) /\ UNCHANGED <<status, instr>>
    BY <1>1 DEF HandlerAlloc
  <2> QED BY <1>t, <2>1, AllocStutters
<1>2. CASE HandlerMap(p)
  <2>1. fault[p] = "map" /\ instr[p] # NULL
    BY <1>t, <1>2, NotNull DEF HandlerMap, Handling, ProcInv, WriteMapped, FaultSteps
  <2>2. PICK w \in VAs : w = instr[p].va
    BY <1>t, <2>1, WriteFacts
  <2>3. PageMap(p, p, PFTEMP, p, w, {"W"}) /\ UNCHANGED <<status, instr>>
    BY <1>2, <2>2 DEF HandlerMap
  <2>4. SameContent(p, PFTEMP, p, w)
    BY <1>t, <2>1, <2>2 DEF FaultCopied
  <2> QED BY <1>t, <2>3, <2>4, MapStutters
<1>3. CASE HandlerUnmap(p)
  <2>1. SetPte(p, p, PFTEMP, NoPage) /\ UNCHANGED <<status, instr>>
    BY <1>3 DEF HandlerUnmap
  <2> QED BY <1>t, <2>1, PteStutters
<1> QED BY <1>1, <1>2, <1>3

LEMMA PagesSim ==
  ASSUME ForkInv, ForkInv', NEW p \in Procs,
         \/ HandlerStack(p) \/ Duppage(p) \/ DuppageOwn(p) \/ DuppageReadOnly(p)
         \/ ChildStack(p) \/ ShareOrSkip(p) \/ DupAlloc(p) \/ DupMap(p) \/ DupUnmap(p)
  PROVE  UNCHANGED <<Images, Stores>>
<1>t. /\ Types /\ UTEMP \in VAs /\ UTEMP \notin Data /\ XStack \in VAs
      /\ XStack \notin Data /\ NoPage \in Entries /\ Perms = {{}, {"W"}, {"COW"}}
  BY Addresses, EntryFacts DEF ForkInv, Perms
<1>1. CASE HandlerStack(p)
  <2>1. PageAlloc(p, p, XStack, {"W"}) /\ UNCHANGED <<status, instr>>
    BY <1>1 DEF HandlerStack
  <2> QED BY <1>t, <2>1, AllocStutters
<1>2. CASE DupUnmap(p)
  <2>1. SetPte(p, p, UTEMP, NoPage) /\ UNCHANGED <<status, instr>>
    BY <1>2 DEF DupUnmap
  <2> QED BY <1>t, <2>1, PteStutters
<1>3. ASSUME NEW step \in ForkSteps \ ParentSteps, At(p, step)
      PROVE  \E c \in Procs, va \in VAs :
               c = forking[p].child /\ va = forking[p].va /\ status[c] = "EMBRYO"
  BY <1>3, ChildAt
<1>s. {"duppage", "own", "xstack", "dup_or_share", "dup_map"} \subseteq ForkSteps \ ParentSteps
  BY DEF ForkSteps, ParentSteps
<1>4. PICK c \in Procs, va \in VAs :
        ~HandlerStack(p) /\ ~DupUnmap(p) =>
          c = forking[p].child /\ va = forking[p].va /\ status[c] = "EMBRYO"
  <2>1. CASE HandlerStack(p) \/ DupUnmap(p)
    BY <2>1, <1>t
  <2>2. CASE ~HandlerStack(p) /\ ~DupUnmap(p)
    <3>1. \E step \in ForkSteps \ ParentSteps : At(p, step)
      BY <1>s, <2>2 DEF Duppage, DuppageOwn, DuppageReadOnly, ChildStack, ShareOrSkip,
                        DupAlloc, DupMap
    <3> QED BY <1>3, <3>1
  <2> QED BY <2>1, <2>2
<1> SUFFICES ASSUME ~HandlerStack(p), ~DupUnmap(p)
             PROVE  UNCHANGED <<Images, Stores>>
  BY <1>1, <1>2
<1>5. c = forking[p].child /\ va = forking[p].va /\ status[c] # "LIVE"
  BY <1>4
<1>6. CASE Duppage(p)
  <2>1. PageMap(p, p, va, c, va, {"COW"}) /\ UNCHANGED <<status, instr>>
    BY <1>5, <1>6 DEF Duppage, DuppageTarget
  <2> QED BY <1>t, <1>5, <2>1, MapStutters
<1>7. CASE DuppageOwn(p)
  <2>1. PageMap(p, p, va, p, va, {"COW"}) /\ UNCHANGED <<status, instr>>
    BY <1>5, <1>7 DEF DuppageOwn, DuppageTarget
  <2>2. SameContent(p, va, p, va)
    BY DEF SameContent
  <2> QED BY <1>t, <2>1, <2>2, MapStutters
<1>8. CASE DuppageReadOnly(p)
  <2>1. PageMap(p, p, va, c, va, {}) /\ UNCHANGED <<status, instr>>
    BY <1>5, <1>8 DEF DuppageReadOnly
  <2> QED BY <1>t, <1>5, <2>1, MapStutters
<1>9. CASE ChildStack(p)
  <2>1. PageAlloc(p, c, XStack, {"W"}) /\ UNCHANGED <<status, instr>>
    BY <1>5, <1>9 DEF ChildStack
  <2> QED BY <1>t, <1>5, <2>1, AllocStutters
<1>10. CASE ShareOrSkip(p)
  <2>1. CASE UNCHANGED <<pt, tlb, content>>
    BY <1>10, <2>1, QuietStutters DEF ShareOrSkip
  <2>2. CASE PageMap(p, p, va, c, va, {})
    <3>1. UNCHANGED <<status, instr>>
      BY <1>10 DEF ShareOrSkip
    <3> QED BY <1>t, <1>5, <2>2, <3>1, MapStutters
  <2> QED BY <1>5, <1>10, <2>1, <2>2 DEF ShareOrSkip
<1>11. CASE DupAlloc(p)
  <2>1. PageAlloc(p, c, va, {"W"}) /\ UNCHANGED <<status, instr>>
    BY <1>5, <1>11 DEF DupAlloc
  <2> QED BY <1>t, <1>5, <2>1, AllocStutters
<1>12. CASE DupMap(p)
  <2>1. PageMap(p, c, va, p, UTEMP, {"W"}) /\ UNCHANGED <<status, instr>>
    BY <1>5, <1>12 DEF DupMap
  <2> QED BY <1>t, <2>1, MapStutters
<1> QED BY <1>6, <1>7, <1>8, <1>9, <1>10, <1>11, <1>12

LEMMA ControlSim ==
  ASSUME ForkInv, ForkInv', NEW p \in Procs,
         \/ SkipPage(p) \/ CallFork(p) \/ CallForkV0(p) \/ Upcall(p)
         \/ \E va \in Data : Load(p, va)
         \/ SetUpcall(p) \/ NoHandlerStack(p) \/ \E c \in Procs : Exofork(p, c)
         \/ ChildUpcall(p)
  PROVE  UNCHANGED <<Images, Stores>>
<1>t. Types
  BY DEF ForkInv
<1>1. UNCHANGED <<pt, content>>
  BY DEF SkipPage, CallFork, CallForkV0, Upcall, Load, SetUpcall, NoHandlerStack,
         Exofork, ChildUpcall
<1>2. CASE Upcall(p)
  <2>1. instr[p] # NULL /\ instr' = [instr EXCEPT ![p].faults = @ + 1] /\ status' = status
    BY <1>2 DEF Upcall, Faulting
  <2>2. instr[p] \in Writes
    BY <1>t, <2>1, WriteFacts
  <2>3. /\ instr'[p] = [instr[p] EXCEPT !.faults = @ + 1]
        /\ \A r \in Procs : r # p => instr'[r] = instr[r]
    BY <1>t, <2>1 DEF Types
  <2>4. instr'[p].va = instr[p].va /\ instr'[p].value = instr[p].value
    BY <2>2, <2>3 DEF Writes
  <2>5. instr'[p] # NULL
    <3>1. instr[p].faults + 1 \in Nat
      BY <2>2 DEF Writes
    <3>2. instr'[p] \in Writes
      BY <2>2, <2>3, <3>1 DEF Writes
    <3> QED BY <3>2, NotNull
  <2> QED BY <1>1, <2>1, <2>3, <2>4, <2>5, QuietStutters
<1>3. CASE ~Upcall(p)
  <2>1. instr' = instr
    BY <1>3 DEF SkipPage, CallFork, CallForkV0, Load, SetUpcall, NoHandlerStack,
                Exofork, ChildUpcall
  <2>2. \A r \in Procs : status'[r] = "LIVE" <=> status[r] = "LIVE"
    <3>1. CASE \E c \in Procs : Exofork(p, c)
      BY <1>t, <3>1 DEF Exofork, Types
    <3>2. CASE ~\E c \in Procs : Exofork(p, c)
      BY <1>3, <3>2 DEF SkipPage, CallFork, CallForkV0, Load, SetUpcall,
                        NoHandlerStack, ChildUpcall
    <3> QED BY <3>1, <3>2
  <2> QED BY <1>1, <2>1, <2>2, QuietStutters
<1> QED BY <1>2, <1>3

LEMMA InitSim ==
  ASSUME Init
  PROVE  Copy!Init
<1>1. ForkInv
  BY InitInv
<1>2. /\ status = [p \in Procs |-> IF p = First THEN "LIVE" ELSE "FREE"]
      /\ instr = [p \in Procs |-> NULL]
  BY DEF Init
<1>3. /\ Memory(First) \in [Data -> Values]
      /\ \A q \in Procs : q # First => Memory(q) = NULL
  BY <1>1, <1>2, MemoryIs, ForkAssumption
<1>4. \A q \in Procs : StoreToData(q) = NULL
  BY <1>2 DEF StoreToData
<1>5. \A q \in Procs : Memory(q) = IF q = First THEN Memory(First) ELSE NULL
  BY <1>3
<1>6. First \in Procs
  BY ForkAssumption
<1> QED BY <1>3, <1>4, <1>5, <1>6 DEF Copy!Init

LEMMA NextSim ==
  ASSUME ForkInv, ForkInv', [Next]_vars
  PROVE  Copy!Next \/ UNCHANGED <<Images, Stores>>
<1>1. CASE UNCHANGED vars
  BY <1>1, QuietStutters DEF vars
<1>2. CASE Next
  <2>1. PICK p \in Procs :
          \/ UserStep(p) \/ FaultStep(p) \/ ForkStep(p) \/ Exit(p)
          \/ \E va \in Data : Cputs(p, va)
    BY <1>2 DEF Next
  <2>2. CASE UserStep(p)
    <3>1. CASE Store(p)
      BY <3>1, StoreSim
    <3>2. CASE HandlerCopy(p) \/ DupCopy(p)
      BY <3>2, CopySim
    <3>3. CASE \E va \in Data \cup {Stack}, v \in Values : Issue(p, va, v)
      BY <3>3, IssueSim
    <3>4. CASE SkipPage(p) \/ CallFork(p) \/ CallForkV0(p) \/ \E va \in Data : Load(p, va)
      BY <3>4, ControlSim
    <3> QED BY <2>2, <3>1, <3>2, <3>3, <3>4 DEF UserStep
  <2>3. CASE FaultStep(p)
    <3>1. CASE Upcall(p)
      BY <3>1, ControlSim
    <3>2. CASE FatalFault(p)
      BY <3>2, DestroySim DEF FatalFault, Faulting, Running
    <3>3. CASE HandlerPanic(p)
      BY <3>3, PanicSim DEF HandlerPanic, Handling, Running
    <3>4. CASE HandlerAlloc(p) \/ HandlerMap(p) \/ HandlerUnmap(p)
      BY <3>4, HandlerSim
    <3> QED BY <2>3, <3>1, <3>2, <3>3, <3>4 DEF FaultStep
  <2>4. CASE ForkStep(p)
    <3>1. CASE SetUpcall(p) \/ NoHandlerStack(p) \/ ChildUpcall(p)
               \/ \E c \in Procs : Exofork(p, c)
      BY <3>1, ControlSim
    <3>2. CASE ForkPanics(p)
      BY <3>2, PanicSim, ForkPanicsLive
    <3>3. CASE NoUpcallForChild(p)
      BY <3>3, NoUpcallForChildSim
    <3>4. CASE StartChild(p)
      BY <3>4, StartChildSim
    <3>5. CASE \/ HandlerStack(p) \/ Duppage(p) \/ DuppageOwn(p) \/ DuppageReadOnly(p)
               \/ ChildStack(p) \/ ShareOrSkip(p) \/ DupAlloc(p) \/ DupMap(p)
               \/ DupUnmap(p)
      BY <3>5, PagesSim
    <3> QED BY <2>4, <3>1, <3>2, <3>3, <3>4, <3>5 DEF ForkStep
  <2>5. CASE Exit(p) \/ \E va \in Data : Cputs(p, va)
    BY <2>5, EndsLive, DestroySim
  <2> QED BY <2>1, <2>2, <2>3, <2>4, <2>5
<1> QED BY <1>1, <1>2

(* fork() and fork_v0() (lib/fork.c) with the copy-on-write faults that    *)
(* follow are indistinguishable from copying the whole memory when the     *)
(* child starts: each process finds in its data what it wrote itself or    *)
(* its parent had, in every interleaving, whatever translations the CPUs   *)
(* have cached, with any number of processes and pages, and also when      *)
(* memory runs out.                                                        *)
THEOREM ForkMakesACopy == Spec => ForkCopies
<1>1. Init => Copy!Init
  BY InitSim
<1>2. ForkInv /\ ForkInv' /\ [Next]_vars =>
        [Copy!Next]_<<[p \in Procs |-> Memory(p)], [p \in Procs |-> StoreToData(p)]>>
  BY NextSim DEF Images, Stores
<1> QED BY <1>1, <1>2, ForkInvariant, PTL DEF Spec, ForkCopies, Copy!Spec
=============================================================================
