-------------------------------- MODULE Pmap --------------------------------
(***************************************************************************)
(* Physical pages, page tables and the system calls that change them       *)
(* (kern/pmap.c, the memory part of kern/syscall.c and of kern/env.c).     *)
(*                                                                         *)
(* `mem' is what the functions of pmap.c work on.  Page directories and    *)
(* page tables are physical pages like any other; only the entries below   *)
(* UTOP are modelled.  Operators on memory take and return a value of      *)
(* `mem', in the order in which the code calls them.  The pages that       *)
(* page_alloc() will return are passed to them: the order of the free list *)
(* is left open.                                                           *)
(*                                                                         *)
(* Scheduling is left to module Kernel: any environment that is READY may  *)
(* be running on some CPU and make a call.                                 *)
(***************************************************************************)
EXTENDS Integers, FiniteSets

CONSTANTS
  Envs,     \* slots of envs[]
  Pages,    \* physical pages
  VAs,      \* numbers of virtual pages below UTOP; 0 is "no page" in IPC
  NPTENTRIES, \* virtual pages covered by a page table (1024)
  PermAddrs, \* address bits that programs pass in perm: each is what ORing
             \* it makes of the address of a page
  NULL      \* no page, no environment, no address

ASSUME PmapAssumption ==
  /\ IsFiniteSet(Envs) /\ IsFiniteSet(Pages) /\ IsFiniteSet(VAs)
  /\ Envs # {} /\ Pages # {}
  /\ NULL \notin Envs \cup Pages \cup VAs
  /\ VAs \subseteq Nat \ {0}
  /\ NPTENTRIES \in Nat \ {0}
  /\ PermAddrs \subseteq [Pages -> Pages]

VARIABLES
  envs,    \* status, type, parent, page directory and pending receive
  mem,     \* reference counts, free list, page directories, page tables
  leaked   \* (history) pages lost by a failed env_page_alloc()

vars == <<envs, mem, leaked>>

PDX(va) == va \div NPTENTRIES
Tables  == {PDX(va) : va \in VAs}
Pte     == [page : Pages, w : BOOLEAN]
NoPte   == [page |-> NULL, w |-> FALSE]

(* A perm argument, once PTE_U and PTE_P are set: PTE_W, and the bits of   *)
(* PTE_ADDR in it.  The other flags change nothing here.                   *)
NoAddr == [p \in Pages |-> p]
Perms  == [w : BOOLEAN, addr : PermAddrs \cup {NoAddr}]

(* Only bits of PTE_SYSCALL are set. *)
check_perm(perm) == perm.addr = NoAddr

Env == [status : {"FREE", "READY", "BLOCKED", "DYING"},
        type   : {"USER", "THREAD"},
        parent : Envs \cup {NULL},
        pgdir  : Pages \cup {NULL},
        recving : BOOLEAN,
        dstva  : VAs \cup {NULL}]

Mem == [pp_ref : [Pages -> Nat],
        free   : SUBSET Pages,
        dir    : [Pages -> [Tables -> Pages \cup {NULL}]],
        tab    : [Pages -> [VAs -> Pte \cup {NoPte}]]]

(* Type invariant. *)
TypeOK == envs \in [Envs -> Env] /\ mem \in Mem /\ leaked \subseteq Pages

NoEnv == [status |-> "FREE", type |-> "USER", parent |-> NULL,
          pgdir |-> NULL, recving |-> FALSE, dstva |-> NULL]

Live(e) == envs[e].status # "FREE"

(* envid2env() with checkperm.  An orphan's parent is NULL: the id of a    *)
(* process that is gone names nobody.                                      *)
MayControl(cur, e) == Live(e) /\ (e = cur \/ envs[e].parent = cur)

-----------------------------------------------------------------------------
(***************************************************************************)
(* kern/pmap.c                                                             *)
(***************************************************************************)

(* page_alloc(ALLOC_ZERO) of page p, which is on the free list. *)
PageAlloc(m, p) ==
  [m EXCEPT !.free = @ \ {p},
            !.dir[p] = [t \in Tables |-> NULL],
            !.tab[p] = [va \in VAs |-> NoPte]]

PageDecref(m, p) ==
  [m EXCEPT !.pp_ref[p] = @ - 1,
            !.free = IF m.pp_ref[p] = 1 THEN @ \cup {p} ELSE @]

(* pgdir_walk() without create. *)
TableOf(m, d, va) == m.dir[d][PDX(va)]
PteAt(m, d, va) ==
  IF TableOf(m, d, va) = NULL THEN NoPte ELSE m.tab[TableOf(m, d, va)][va]

(* page_lookup() *)
Mapped(m, d, va) == PteAt(m, d, va) # NoPte

(* pgdir_walk() with create: t is the page for the table, if one is needed *)
CanWalk(m, d, va, t) ==
  IF TableOf(m, d, va) = NULL THEN t \in m.free ELSE t = NULL

PgdirWalk(m, d, va, t) ==
  IF t = NULL THEN m
  ELSE [PageAlloc(m, t) EXCEPT !.pp_ref[t] = @ + 1,
                               !.dir[d][PDX(va)] = t]

PageRemove(m, d, va) ==
  IF ~Mapped(m, d, va) THEN m
  ELSE [PageDecref(m, PteAt(m, d, va).page) EXCEPT
          !.tab[TableOf(m, d, va)][va] = NoPte]

SetPte(m, d, va, p, w) ==
  [m EXCEPT !.tab[TableOf(m, d, va)][va] = [page |-> p, w |-> w]]

Referenced(m, p) == [m EXCEPT !.pp_ref[p] = @ + 1]

(* page_insert().  The new reference is taken before the old mapping goes: *)
(* they may be the same page.  perm is ORed into the entry as it is.       *)
PageInsertRemoveFirst(m, d, p, va, perm, t) ==
  SetPte(Referenced(PageRemove(PgdirWalk(m, d, va, t), d, va), p),
         d, va, perm.addr[p], perm.w)

PageInsert(m, d, p, va, perm, t) ==
  SetPte(PageRemove(Referenced(PgdirWalk(m, d, va, t), p), d, va),
         d, va, perm.addr[p], perm.w)

(* The sweep of env_free() over the user part of page directory d, and the *)
(* page_decref()s of its page tables.                                      *)
SweptRefs(m, d, p) ==
  Cardinality({va \in VAs : PteAt(m, d, va).page = p})
    + Cardinality({t \in Tables : m.dir[d][t] = p})

Sweep(m, d) ==
  [pp_ref |-> [p \in Pages |-> m.pp_ref[p] - SweptRefs(m, d, p)],
   free |-> m.free \cup {p \in Pages : /\ m.pp_ref[p] # 0
                                       /\ m.pp_ref[p] = SweptRefs(m, d, p)},
   dir |-> [m.dir EXCEPT ![d] = [t \in Tables |-> NULL]],
   tab |-> [p \in Pages |->
              IF \E t \in Tables : m.dir[d][t] = p
              THEN [va \in VAs |-> NoPte] ELSE m.tab[p]]]

-----------------------------------------------------------------------------
(***************************************************************************)
(* Environments.                                                           *)
(***************************************************************************)

(* env_create() of one program: load_icode() maps a page of it at va.      *)
Init ==
  \E e \in Envs, d, t, p \in Pages, va \in VAs :
    /\ Cardinality({d, t, p}) = 3
    /\ envs = [x \in Envs |->
                 IF x = e THEN [NoEnv EXCEPT !.status = "READY", !.pgdir = d]
                          ELSE NoEnv]
    /\ mem = [pp_ref |-> [x \in Pages |-> IF x \in {d, t, p} THEN 1 ELSE 0],
              free |-> Pages \ {d, t, p},
              dir |-> [x \in Pages |-> [i \in Tables |->
                         IF x = d /\ i = PDX(va) THEN t ELSE NULL]],
              tab |-> [x \in Pages |-> [a \in VAs |->
                         IF x = t /\ a = va THEN [page |-> p, w |-> TRUE]
                                            ELSE NoPte]]]
    /\ leaked = {}

Running(cur) == envs[cur].status = "READY"

(* The threads that go down with process e, and the ones among them that   *)
(* may be running on another CPU.                                          *)
ThreadsOf(e) ==
  {t \in Envs \ {e} : /\ envs[e].type = "USER"
                      /\ envs[t].type = "THREAD"
                      /\ Live(t)
                      /\ envs[t].parent = e}

(* page_decref() of page directory d by n environments. *)
DroppedDir(m, d, n) ==
  [m EXCEPT !.pp_ref[d] = @ - n,
            !.free = IF m.pp_ref[d] = n THEN @ \cup {d} ELSE @]

(* env_free() of e; the threads in zombies are running on other CPUs.      *)
EnvFreeMemThreadSweeps(e, zombies) ==
  DroppedDir(Sweep(mem, envs[e].pgdir), envs[e].pgdir,
             1 + Cardinality(ThreadsOf(e) \ zombies))

EnvFreeMem(e, zombies) ==
  DroppedDir(IF envs[e].type = "USER" THEN Sweep(mem, envs[e].pgdir) ELSE mem,
             envs[e].pgdir,
             1 + Cardinality(ThreadsOf(e) \ zombies))

EnvFree(e) ==
  \E zombies \in SUBSET {t \in ThreadsOf(e) : Running(t)} :
    LET gone == {e} \cup (ThreadsOf(e) \ zombies)
    IN  /\ mem' = EnvFreeMem(e, zombies)
        /\ envs' = [x \in Envs |->
             IF x \in gone THEN NoEnv
             ELSE [envs[x] EXCEPT
                     !.status = IF x \in zombies THEN "DYING" ELSE @,
                     !.parent = IF @ \in gone THEN NULL ELSE @]]

(* env_destroy(): marked when it may be running on another CPU.  (One that *)
(* is DYING is not destroyed again by the programs.)                       *)
EnvDestroy(cur, e) ==
  /\ envs[e].status # "DYING"
  /\ \/ EnvFree(e)
     \/ /\ e # cur /\ Running(e)
        /\ envs' = [envs EXCEPT ![e].status = "DYING"]
        /\ UNCHANGED mem

(* The CPU of a zombie traps. *)
Reap(e) ==
  /\ envs[e].status = "DYING"
  /\ EnvFree(e)
  /\ UNCHANGED leaked

(* sys_env_destroy(), and exit() when e is the caller. *)
SysEnvDestroy(cur, e) ==
  /\ Running(cur)
  /\ MayControl(cur, e)
  /\ EnvDestroy(cur, e)
  /\ UNCHANGED leaked

(* sys_exofork(), with env_alloc() and env_setup_vm(). *)
SysExofork(cur) ==
  /\ Running(cur)
  /\ \E e \in Envs, d \in mem.free :
       /\ ~Live(e)
       /\ mem' = Referenced(PageAlloc(mem, d), d)
       /\ envs' = [envs EXCEPT ![e] = [NoEnv EXCEPT !.status = "BLOCKED",
                                                    !.parent = cur,
                                                    !.pgdir = d]]
  /\ UNCHANGED leaked

(* sys_env_set_status(ENV_RUNNABLE) at the end of fork(). *)
SysEnvSetStatus(cur, e) ==
  /\ Running(cur)
  /\ MayControl(cur, e)
  /\ envs[e].status = "BLOCKED" /\ ~envs[e].recving
  /\ envs' = [envs EXCEPT ![e].status = "READY"]
  /\ UNCHANGED <<mem, leaked>>

(* sys_thread_create(): env_alloc() needs a page for a directory of its    *)
(* own, which is given back.                                               *)
ThreadMemNoRef(cur, d) == PageDecref(Referenced(PageAlloc(mem, d), d), d)

ThreadMem(cur, d) ==
  Referenced(PageDecref(Referenced(PageAlloc(mem, d), d), d),
             envs[cur].pgdir)

SysThreadCreate(cur) ==
  /\ Running(cur)
  /\ \E e \in Envs, d \in mem.free :
       /\ ~Live(e)
       /\ mem' = ThreadMem(cur, d)
       /\ envs' = [envs EXCEPT ![e] =
                     [NoEnv EXCEPT !.status = "READY", !.type = "THREAD",
                                   !.parent = IF envs[cur].type = "THREAD"
                                              THEN envs[cur].parent ELSE cur,
                                   !.pgdir = envs[cur].pgdir]]
  /\ UNCHANGED leaked

-----------------------------------------------------------------------------
(***************************************************************************)
(* The memory system calls.                                                *)
(***************************************************************************)

(* env_page_alloc() maps page p, in table t if it needs a new one.         *)
CanAllocAt(d, va, p, t) ==
  p \in mem.free /\ CanWalk(PageAlloc(mem, p), d, va, t)

AllocatedAt(d, va, perm, p, t) ==
  PageInsert(PageAlloc(mem, p), d, p, va, perm, t)

(* Its page_insert() fails for want of a page table, and the page it was   *)
(* to map is on no list any more.                                          *)
EnvPageAllocFails(d, va) ==
  \E p \in mem.free :
    /\ mem.free = {p}
    /\ TableOf(mem, d, va) = NULL
    /\ mem' = PageAlloc(mem, p)
    /\ leaked' = leaked \cup {p}

SysPageAlloc(cur, e, va, perm) ==
  LET d == envs[e].pgdir
  IN  /\ Running(cur)
      /\ MayControl(cur, e)
      /\ check_perm(perm)
      /\ \/ EnvPageAllocFails(d, va)
         \/ \E p \in Pages, t \in Pages \cup {NULL} :
              /\ CanAllocAt(d, va, p, t)
              /\ mem' = AllocatedAt(d, va, perm, p, t)
              /\ UNCHANGED leaked
      /\ UNCHANGED envs

(* env_page_map() tests PTE_W and calls no check_perm(): with bits of an   *)
(* address in perm the new entry refers to another page than p, while the  *)
(* reference is taken to p.                                                *)
MayMapUnchecked(m, d, va, perm) == Mapped(m, d, va)
MayMap(m, d, va, perm) ==
  Mapped(m, d, va) /\ (perm.w => PteAt(m, d, va).w)

SysPageMap(cur, src, srcva, dst, dstva, perm) ==
  LET s == envs[src].pgdir
      d == envs[dst].pgdir
      p == PteAt(mem, s, srcva).page
  IN  /\ Running(cur)
      /\ MayControl(cur, src) /\ MayControl(cur, dst)
      /\ MayMap(mem, s, srcva, perm)
      /\ \E t \in Pages \cup {NULL} :
           /\ CanWalk(mem, d, dstva, t)
           /\ mem' = PageInsert(mem, d, p, dstva, perm, t)
      /\ UNCHANGED <<envs, leaked>>

SysPageUnmap(cur, e, va) ==
  /\ Running(cur)
  /\ MayControl(cur, e)
  /\ mem' = PageRemove(mem, envs[e].pgdir, va)
  /\ UNCHANGED <<envs, leaked>>

(* user_mem_assert() on a page, which destroys its environment: sys_cputs  *)
(* asks for a writable page of the caller, sys_env_set_pgfault_upcall for  *)
(* a mapped one of an environment that it may control.                     *)
UserMemCheck(e, va, w) ==
  Mapped(mem, envs[e].pgdir, va) /\ (w => PteAt(mem, envs[e].pgdir, va).w)

UserMemAssertFails(cur, e, va) ==
  /\ Running(cur)
  /\ MayControl(cur, e)
  /\ ~UserMemCheck(e, va, e = cur)
  /\ EnvDestroy(cur, e)
  /\ UNCHANGED leaked

-----------------------------------------------------------------------------
(***************************************************************************)
(* IPC with pages.                                                         *)
(***************************************************************************)

(* Address 0 (NULL here) asks for no page.  env_ipc_dstva is read only      *)
(* while receiving.                                                        *)
SysIpcRecv(cur, dstva) ==
  /\ Running(cur)
  /\ envs' = [envs EXCEPT ![cur].status = "BLOCKED", ![cur].recving = TRUE,
                          ![cur].dstva = dstva]
  /\ UNCHANGED <<mem, leaked>>

Delivered(dst) ==
  envs' = [envs EXCEPT ![dst].status = "READY", ![dst].recving = FALSE,
                          ![dst].dstva = NULL]

(* sys_ipc_try_send() of a value alone, or to one that wants no page. When *)
(* srcva is not mapped the test of its permissions reads an uninitialized  *)
(* pointer, and either result is possible.                                 *)
SysIpcTrySend(cur, dst) ==
  /\ Running(cur)
  /\ Live(dst) /\ envs[dst].recving
  /\ Delivered(dst)
  /\ UNCHANGED <<mem, leaked>>

(* With a page: env_page_alloc() at dstva, and then the sender's page over *)
(* it.  The second step looks srcva up again.  (env_page_alloc() has       *)
(* checked perm.)                                                          *)
SysIpcTrySendPage(cur, dst, srcva, perm) ==
  LET s == envs[cur].pgdir
      d == envs[dst].pgdir
      dstva == envs[dst].dstva
  IN  /\ Running(cur)
      /\ Live(dst) /\ envs[dst].recving
      /\ dstva # NULL
      /\ Mapped(mem, s, srcva) => MayMap(mem, s, srcva, perm)
      /\ check_perm(perm)
      /\ \/ EnvPageAllocFails(d, dstva) /\ UNCHANGED envs
         \/ \E p \in Pages, t \in Pages \cup {NULL} :
              LET m == AllocatedAt(d, dstva, perm, p, t)
              IN  /\ CanAllocAt(d, dstva, p, t)
                  /\ UNCHANGED leaked
                  /\ \/ /\ MayMap(m, s, srcva, perm)
                        /\ mem' = PageInsert(m, d, PteAt(m, s, srcva).page,
                                             dstva, perm, NULL)
                        /\ Delivered(dst)
                     \/ /\ ~MayMap(m, s, srcva, perm)
                        /\ mem' = m
                        /\ UNCHANGED envs

-----------------------------------------------------------------------------
Next ==
  \/ \E cur \in Envs :
       \/ SysExofork(cur)
       \/ SysThreadCreate(cur)
       \/ \E dstva \in VAs \cup {NULL} : SysIpcRecv(cur, dstva)
       \/ \E e \in Envs :
            \/ SysEnvDestroy(cur, e)
            \/ SysEnvSetStatus(cur, e)
            \/ SysIpcTrySend(cur, e)
            \/ \E va \in VAs :
                 \/ SysPageUnmap(cur, e, va)
                 \/ UserMemAssertFails(cur, e, va)
                 \/ \E perm \in Perms :
                      \/ SysPageAlloc(cur, e, va, perm)
                      \/ SysIpcTrySendPage(cur, e, va, perm)
                      \/ \E dst \in Envs, dstva \in VAs :
                           SysPageMap(cur, e, va, dst, dstva, perm)
  \/ \E e \in Envs : Reap(e)

Spec == Init /\ [][Next]_vars

-----------------------------------------------------------------------------
(***************************************************************************)
(* What the programs and libraries of the repository pass as perm: flags   *)
(* of the entry, never bits of an address.  sys_page_map() relies on it.   *)
(***************************************************************************)
ProgramPerms == PermAddrs = {}

Dirs(es) == {es[e].pgdir : e \in {x \in Envs : es[x].status # "FREE"}}
TableUses(es, m) == {u \in Dirs(es) \X Tables : m.dir[u[1]][u[2]] # NULL}
TablesInUse(es, m) == {m.dir[u[1]][u[2]] : u \in TableUses(es, m)}
Mappings(es, m) ==
  {u \in TablesInUse(es, m) \X VAs : m.tab[u[1]][u[2]] # NoPte}

Uses(p) ==
  Cardinality({e \in Envs : Live(e) /\ envs[e].pgdir = p})
    + Cardinality({u \in TableUses(envs, mem) : mem.dir[u[1]][u[2]] = p})
    + Cardinality({u \in Mappings(envs, mem) :
                     mem.tab[u[1]][u[2]].page = p})

(* pp_ref counts every use of a page (memlayout.h:182): as a page          *)
(* directory by a process, its threads and its zombies, as a page table,   *)
(* and in every mapping, whatever was shared, mapped over itself or torn   *)
(* down.  Address bits in the perm of sys_page_map() break this.           *)
RefsExact == \A p \in Pages : mem.pp_ref[p] = Uses(p)

(* Reference counts are exact, and every page without references is on     *)
(* page_free_list, exactly the pages lost by a failed env_page_alloc()     *)
(* excepted: no other path loses one or frees one in use.                  *)
PagesAccountedFor ==
  /\ TypeOK
  /\ RefsExact
  /\ {p \in Pages : mem.pp_ref[p] = 0} = mem.free \cup leaked
  /\ mem.free \cap leaked = {}

(* "If page_insert() fails, remember to free the page you allocated!"      *)
(* (sys_page_alloc): every page without references can be allocated.       *)
NoPageLost == \A p \in Pages : mem.pp_ref[p] = 0 => p \in mem.free

(* No program can reach a page directory or a page table: they are mapped  *)
(* nowhere below UTOP, and a page table belongs to one directory only.     *)
KernelPagesPrivate ==
  LET user == {mem.tab[u[1]][u[2]].page : u \in Mappings(envs, mem)}
  IN  /\ user \cap (Dirs(envs) \cup TablesInUse(envs, mem)) = {}
      /\ Dirs(envs) \cap TablesInUse(envs, mem) = {}
      /\ \A u, v \in TableUses(envs, mem) :
           mem.dir[u[1]][u[2]] = mem.dir[v[1]][v[2]] => u = v

Writable(es, m) ==
  {m.tab[u[1]][u[2]].page : u \in {x \in Mappings(es, m) :
                                     m.tab[x[1]][x[2]].w}}

(* Nobody gets write access to a page that nobody could write: a page that *)
(* becomes writable was free before (sys_page_map, sys_ipc_try_send).      *)
WriteIsNotGranted ==
  [][Writable(envs', mem') \subseteq Writable(envs, mem) \cup mem.free]_vars

(* A thread that dies leaves the memory of its process alone: env_free()   *)
(* of a thread drops its reference to the page directory and no more.      *)
ThreadExitKeepsMemory ==
  [][\A e, t \in Envs :
       /\ envs[e].type = "USER" /\ Live(e) /\ envs'[e].status # "FREE"
       /\ Live(t) /\ envs'[t].status = "FREE"
       /\ envs[t].pgdir = envs[e].pgdir
       => \A va \in VAs : PteAt(mem', envs'[e].pgdir, va)
                             = PteAt(mem, envs[e].pgdir, va)]_vars
=============================================================================
