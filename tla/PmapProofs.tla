----------------------------- MODULE PmapProofs -----------------------------
(***************************************************************************)
(* Proofs about Pmap, for any number of environments, physical pages and   *)
(* virtual pages, while no program passes bits of an address in perm       *)
(* (ProgramPerms).  sys_page_map() does not test it: README.md says what   *)
(* becomes of pp_ref without this hypothesis.                              *)
(***************************************************************************)
EXTENDS Pmap, FiniteSetTheorems, TLAPS

(***************************************************************************)
(* Memory, as the functions of pmap.c find it and leave it.  What they do  *)
(* not know is passed as parameters: the environments that use a page as   *)
(* their directory, the pages that are directories of a process (and not   *)
(* only of zombies), the reference that page_insert() has taken and not    *)
(* used yet, and the pages that are neither free nor in use.               *)
(***************************************************************************)
TabUses(m, p) == {u \in Pages \X Tables : m.dir[u[1]][u[2]] = p}
MapUses(m, p) == {u \in Pages \X VAs : m.tab[u[1]][u[2]].page = p}

Taken(x, p) == IF p = x THEN 1 ELSE 0

(* pp_ref is right. *)
Exact(m, n, x) ==
  \A p \in Pages :
    m.pp_ref[p] = n[p] + Cardinality(TabUses(m, p)) + Cardinality(MapUses(m, p))
                    + Taken(x, p)

(* A page is on the free list, lost, or referenced. *)
Listed(m, lost) ==
  /\ \A p \in Pages : m.pp_ref[p] = 0 <=> p \in m.free \cup lost
  /\ m.free \cap lost = {}

(* Only the directory of a process has entries, only page tables have, and *)
(* only for the addresses they are for.                                    *)
Clean(m, owned) ==
  /\ \A d \in Pages, i \in Tables : m.dir[d][i] # NULL => d \in owned
  /\ \A t \in Pages, va \in VAs :
       m.tab[t][va] # NoPte => \E d \in Pages : m.dir[d][PDX(va)] = t

(* Page directories, page tables and the pages of programs are different   *)
(* pages, and so are the tables of different directories.                  *)
Apart(m, n) ==
  /\ \A d, e \in Pages, i, j \in Tables :
       m.dir[d][i] = m.dir[e][j] /\ m.dir[d][i] # NULL => d = e /\ i = j
  /\ \A d \in Pages, i \in Tables :
       m.dir[d][i] # NULL => n[m.dir[d][i]] = 0
  /\ \A t \in Pages, va \in VAs :
       m.tab[t][va] # NoPte => n[m.tab[t][va].page] = 0
  /\ \A t, d \in Pages, va \in VAs, i \in Tables :
       m.tab[t][va] # NoPte => m.tab[t][va].page # m.dir[d][i]

(* x may be mapped: it is neither a directory nor a page table. *)
UserPage(m, n, x) == n[x] = 0 /\ \A d \in Pages, i \in Tables : m.dir[d][i] # x

MemInv(m, n, owned, x, lost) ==
  /\ m \in Mem
  /\ n \in [Pages -> Nat]
  /\ x \in Pages \cup {NULL}
  /\ lost \subseteq Pages
  /\ \A d \in owned : d \in Pages /\ n[d] # 0
  /\ Exact(m, n, x) /\ Listed(m, lost) /\ Clean(m, owned) /\ Apart(m, n)
  /\ x # NULL => UserPage(m, n, x)

(***************************************************************************)
(* Environments.                                                           *)
(***************************************************************************)
Users(es, p) == {e \in Envs : es[e].status # "FREE" /\ es[e].pgdir = p}
DirUses(es)  == [p \in Pages |-> Cardinality(Users(es, p))]

Process(es, e) == es[e].status # "FREE" /\ es[e].type = "USER"
Owned(es) == {es[e].pgdir : e \in {x \in Envs : Process(es, x)}}

(* A thread without a process is a zombie. *)
EnvInv(es) ==
  /\ es \in [Envs -> Env]
  /\ \A e \in Envs :
       /\ es[e].status # "FREE" => es[e].pgdir \in Pages
       /\ es[e].recving => es[e].status = "BLOCKED"
       /\ es[e].status # "FREE" /\ es[e].type = "THREAD" =>
            IF es[e].parent = NULL THEN es[e].status = "DYING"
            ELSE /\ Process(es, es[e].parent)
                 /\ es[e].pgdir = es[es[e].parent].pgdir
  /\ \A e, f \in Envs :
       Process(es, e) /\ Process(es, f) /\ es[e].pgdir = es[f].pgdir => e = f

PmapInv ==
  EnvInv(envs) /\ MemInv(mem, DirUses(envs), Owned(envs), NULL, leaked)

-----------------------------------------------------------------------------
(***************************************************************************)
(* Cardinalities.                                                          *)
(***************************************************************************)
LEMMA UsesFinite ==
  ASSUME NEW m, NEW p
  PROVE  /\ IsFiniteSet(TabUses(m, p)) /\ Cardinality(TabUses(m, p)) \in Nat
         /\ IsFiniteSet(MapUses(m, p)) /\ Cardinality(MapUses(m, p)) \in Nat
<1>1. IsFiniteSet(Tables)
  <2> DEFINE f == [va \in VAs |-> PDX(va)]
  <2>1. f \in Surjection(VAs, Tables)
    BY DEF Surjection, Tables
  <2> QED BY <2>1, FS_Surjection, PmapAssumption
<1>2. IsFiniteSet(Pages \X Tables) /\ IsFiniteSet(Pages \X VAs)
  BY <1>1, FS_Product, PmapAssumption
<1>3. TabUses(m, p) \in SUBSET (Pages \X Tables) /\ MapUses(m, p) \in SUBSET (Pages \X VAs)
  BY DEF TabUses, MapUses
<1>4. IsFiniteSet(TabUses(m, p)) /\ IsFiniteSet(MapUses(m, p))
  BY <1>2, <1>3, FS_Subset
<1> QED BY <1>4, FS_CardinalityType

LEMMA Counts ==
  ASSUME NEW m, NEW p
  PROVE  /\ Cardinality(TabUses(m, p)) = 0 <=>
              \A d \in Pages, i \in Tables : m.dir[d][i] # p
         /\ Cardinality(MapUses(m, p)) = 0 <=>
              \A t \in Pages, va \in VAs : m.tab[t][va].page # p
<1>1. Cardinality(TabUses(m, p)) = 0 <=> TabUses(m, p) = {}
  BY UsesFinite, FS_EmptySet
<1>2. Cardinality(MapUses(m, p)) = 0 <=> MapUses(m, p) = {}
  BY UsesFinite, FS_EmptySet
<1>3. TabUses(m, p) = {} <=> \A d \in Pages, i \in Tables : m.dir[d][i] # p
  <2>1. ASSUME NEW d \in Pages, NEW i \in Tables, m.dir[d][i] = p
        PROVE  <<d, i>> \in TabUses(m, p)
    BY <2>1 DEF TabUses
  <2>2. ASSUME NEW u \in TabUses(m, p)
        PROVE  u[1] \in Pages /\ u[2] \in Tables /\ m.dir[u[1]][u[2]] = p
    BY DEF TabUses
  <2> QED BY <2>1, <2>2
<1>4. MapUses(m, p) = {} <=> \A t \in Pages, va \in VAs : m.tab[t][va].page # p
  <2>1. ASSUME NEW t \in Pages, NEW va \in VAs, m.tab[t][va].page = p
        PROVE  <<t, va>> \in MapUses(m, p)
    BY <2>1 DEF MapUses
  <2>2. ASSUME NEW u \in MapUses(m, p)
        PROVE  u[1] \in Pages /\ u[2] \in VAs /\ m.tab[u[1]][u[2]].page = p
    BY DEF MapUses
  <2> QED BY <2>1, <2>2
<1> QED BY <1>1, <1>2, <1>3, <1>4

(* One entry of a page table is overwritten. *)
OthersKept(m, m2, t, va) ==
  \A a \in Pages, b \in VAs : a # t \/ b # va => m2.tab[a][b] = m.tab[a][b]

LEMMA MapUsesChange ==
  ASSUME NEW m, NEW m2, NEW t \in Pages, NEW va \in VAs, NEW p,
         OthersKept(m, m2, t, va)
  PROVE  Cardinality(MapUses(m2, p))
           = Cardinality(MapUses(m, p))
               - (IF m.tab[t][va].page = p THEN 1 ELSE 0)
               + (IF m2.tab[t][va].page = p THEN 1 ELSE 0)
<1> DEFINE rest == MapUses(m, p) \ {<<t, va>>}
<1>1. <<t, va>> \in MapUses(m, p) <=> m.tab[t][va].page = p
  BY DEF MapUses
<1>2. MapUses(m2, p) = IF m2.tab[t][va].page = p THEN rest \cup {<<t, va>>} ELSE rest
  <2>2. ASSUME NEW u \in Pages \X VAs
        PROVE  u \in MapUses(m2, p) <=>
                 u \in IF m2.tab[t][va].page = p THEN rest \cup {<<t, va>>} ELSE rest
    <3>1. PICK a \in Pages, b \in VAs : u = <<a, b>>
      OBVIOUS
    <3>2. a # t \/ b # va => m2.tab[a][b] = m.tab[a][b]
      BY DEF OthersKept
    <3>3. u = <<t, va>> <=> a = t /\ b = va
      BY <3>1
    <3>4. u \in MapUses(m2, p) <=> m2.tab[a][b].page = p
      BY <3>1 DEF MapUses
    <3>5. u \in MapUses(m, p) <=> m.tab[a][b].page = p
      BY <3>1 DEF MapUses
    <3>6. CASE u = <<t, va>>
      BY <3>2, <3>3, <3>4, <3>6
    <3>7. CASE u # <<t, va>>
      BY <3>2, <3>3, <3>4, <3>5, <3>7
    <3> QED BY <3>6, <3>7
  <2>3. MapUses(m2, p) \subseteq Pages \X VAs /\ MapUses(m, p) \subseteq Pages \X VAs
    BY DEF MapUses
  <2> QED BY <2>2, <2>3
<1>3. /\ IsFiniteSet(rest)
      /\ Cardinality(rest) = IF m.tab[t][va].page = p
                             THEN Cardinality(MapUses(m, p)) - 1
                             ELSE Cardinality(MapUses(m, p))
  BY <1>1, UsesFinite, FS_RemoveElement
<1>4. Cardinality(rest \cup {<<t, va>>}) = Cardinality(rest) + 1
  <2>1. <<t, va>> \notin rest
    OBVIOUS
  <2> QED BY <1>3, <2>1, FS_AddElement
<1> HIDE DEF rest
<1> QED BY <1>2, <1>3, <1>4, UsesFinite

(* One entry of a page directory is overwritten. *)
LEMMA TabUsesChange ==
  ASSUME NEW m, NEW m2, NEW d \in Pages, NEW i \in Tables, NEW p,
         \A a \in Pages, b \in Tables :
           a # d \/ b # i => m2.dir[a][b] = m.dir[a][b]
  PROVE  Cardinality(TabUses(m2, p))
           = Cardinality(TabUses(m, p))
               - (IF m.dir[d][i] = p THEN 1 ELSE 0)
               + (IF m2.dir[d][i] = p THEN 1 ELSE 0)
<1> DEFINE rest == TabUses(m, p) \ {<<d, i>>}
<1>1. <<d, i>> \in TabUses(m, p) <=> m.dir[d][i] = p
  BY DEF TabUses
<1>2. TabUses(m2, p) = IF m2.dir[d][i] = p THEN rest \cup {<<d, i>>} ELSE rest
  <2>2. ASSUME NEW u \in Pages \X Tables
        PROVE  u \in TabUses(m2, p) <=>
                 u \in IF m2.dir[d][i] = p THEN rest \cup {<<d, i>>} ELSE rest
    <3>1. PICK a \in Pages, b \in Tables : u = <<a, b>>
      OBVIOUS
    <3>2. a # d \/ b # i => m2.dir[a][b] = m.dir[a][b]
      OBVIOUS
    <3>3. u = <<d, i>> <=> a = d /\ b = i
      BY <3>1
    <3>4. u \in TabUses(m2, p) <=> m2.dir[a][b] = p
      BY <3>1 DEF TabUses
    <3>5. u \in TabUses(m, p) <=> m.dir[a][b] = p
      BY <3>1 DEF TabUses
    <3>6. CASE u = <<d, i>>
      BY <3>2, <3>3, <3>4, <3>6
    <3>7. CASE u # <<d, i>>
      BY <3>2, <3>3, <3>4, <3>5, <3>7
    <3> QED BY <3>6, <3>7
  <2>3. TabUses(m2, p) \subseteq Pages \X Tables /\ TabUses(m, p) \subseteq Pages \X Tables
    BY DEF TabUses
  <2> QED BY <2>2, <2>3
<1>3. /\ IsFiniteSet(rest)
      /\ Cardinality(rest) = IF m.dir[d][i] = p
                             THEN Cardinality(TabUses(m, p)) - 1
                             ELSE Cardinality(TabUses(m, p))
  BY <1>1, UsesFinite, FS_RemoveElement
<1>4. Cardinality(rest \cup {<<d, i>>}) = Cardinality(rest) + 1
  <2>1. <<d, i>> \notin rest
    OBVIOUS
  <2> QED BY <1>3, <2>1, FS_AddElement
<1> HIDE DEF rest
<1> QED BY <1>2, <1>3, <1>4, UsesFinite

(* Nothing changes where nothing is written. *)
LEMMA UsesSame ==
  ASSUME NEW m, NEW m2, NEW p
  PROVE  /\ m2.tab = m.tab => MapUses(m2, p) = MapUses(m, p)
         /\ m2.dir = m.dir => TabUses(m2, p) = TabUses(m, p)
BY DEF MapUses, TabUses

-----------------------------------------------------------------------------
(***************************************************************************)
(* What the functions of pmap.c leave.                                     *)
(***************************************************************************)
LEMMA MemFields ==
  ASSUME NEW m \in Mem
  PROVE  /\ m.pp_ref \in [Pages -> Nat]
         /\ m.free \subseteq Pages
         /\ m.dir \in [Pages -> [Tables -> Pages \cup {NULL}]]
         /\ m.tab \in [Pages -> [VAs -> Pte \cup {NoPte}]]
         /\ m = [pp_ref |-> m.pp_ref, free |-> m.free, dir |-> m.dir, tab |-> m.tab]
BY DEF Mem

LEMMA MemMade ==
  ASSUME NEW m,
         m = [pp_ref |-> m.pp_ref, free |-> m.free, dir |-> m.dir, tab |-> m.tab],
         m.pp_ref \in [Pages -> Nat], m.free \in SUBSET Pages,
         m.dir \in [Pages -> [Tables -> Pages \cup {NULL}]],
         m.tab \in [Pages -> [VAs -> Pte \cup {NoPte}]]
  PROVE  m \in Mem
BY DEF Mem

LEMMA MemUpdate ==
  ASSUME NEW m \in Mem, NEW refs, NEW dir, NEW tab
  PROVE  /\ [m EXCEPT !.pp_ref = refs]
              = [pp_ref |-> refs, free |-> m.free, dir |-> m.dir, tab |-> m.tab]
         /\ [m EXCEPT !.dir = dir]
              = [pp_ref |-> m.pp_ref, free |-> m.free, dir |-> dir, tab |-> m.tab]
         /\ [m EXCEPT !.tab = tab]
              = [pp_ref |-> m.pp_ref, free |-> m.free, dir |-> m.dir, tab |-> tab]
<1>1. [m EXCEPT !.pp_ref = refs]
        = [pp_ref |-> refs, free |-> m.free, dir |-> m.dir, tab |-> m.tab]
  BY DEF Mem
<1>3. [m EXCEPT !.dir = dir]
        = [pp_ref |-> m.pp_ref, free |-> m.free, dir |-> dir, tab |-> m.tab]
  BY DEF Mem
<1>4. [m EXCEPT !.tab = tab]
        = [pp_ref |-> m.pp_ref, free |-> m.free, dir |-> m.dir, tab |-> tab]
  BY DEF Mem
<1> QED BY <1>1, <1>3, <1>4

LEMMA RefsUpdate ==
  ASSUME NEW m \in Mem, NEW refs, NEW free
  PROVE  [m EXCEPT !.pp_ref = refs, !.free = free]
           = [pp_ref |-> refs, free |-> free, dir |-> m.dir, tab |-> m.tab]
<1> DEFINE m1 == [m EXCEPT !.pp_ref = refs]
<1>1. m1 \in [pp_ref : {refs}, free : {m.free}, dir : {m.dir}, tab : {m.tab}]
  BY MemUpdate
<1> HIDE DEF m1
<1>2. [m1 EXCEPT !.free = free]
        = [pp_ref |-> refs, free |-> free, dir |-> m.dir, tab |-> m.tab]
  BY <1>1
<1> QED BY <1>2 DEF m1

LEMMA Entry ==
  ASSUME NEW x \in Pte \cup {NoPte}
  PROVE  /\ x # NoPte => x.page \in Pages /\ x.page # NULL
         /\ x = NoPte <=> x.page = NULL
         /\ x.page \in Pages \cup {NULL} /\ x.w \in BOOLEAN
<1>1. CASE x = NoPte
  BY <1>1, PmapAssumption DEF NoPte
<1>2. CASE x \in Pte
  <2>1. x.page \in Pages /\ x.w \in BOOLEAN
    BY <1>2 DEF Pte
  <2>2. x.page # NULL
    BY <2>1, PmapAssumption
  <2>3. x # NoPte
    BY <2>2 DEF NoPte
  <2> QED BY <2>1, <2>2, <2>3
<1> QED BY <1>1, <1>2

LEMMA TableIndex ==
  ASSUME NEW va \in VAs
  PROVE  PDX(va) \in Tables
BY DEF Tables

(* A page without references is used by nobody, and empty. *)
LEMMA Unused ==
  ASSUME NEW m, NEW n, NEW owned, NEW x, NEW lost, MemInv(m, n, owned, x, lost),
         NEW p \in Pages, m.pp_ref[p] = 0
  PROVE  /\ n[p] = 0 /\ p \notin owned /\ p # x
         /\ \A d \in Pages, i \in Tables : m.dir[d][i] # p
         /\ \A t \in Pages, va \in VAs : m.tab[t][va].page # p
         /\ m.dir[p] = [i \in Tables |-> NULL]
         /\ m.tab[p] = [va \in VAs |-> NoPte]
<1>0. n[p] \in Nat /\ Taken(x, p) \in {0, 1} /\ Exact(m, n, x)
  BY DEF MemInv, Taken
<1>1. /\ n[p] = 0 /\ Taken(x, p) = 0
      /\ Cardinality(TabUses(m, p)) = 0 /\ Cardinality(MapUses(m, p)) = 0
  <2> DEFINE a == Cardinality(TabUses(m, p))
             b == Cardinality(MapUses(m, p))
  <2>1. a \in Nat /\ b \in Nat /\ 0 = n[p] + a + b + Taken(x, p)
    BY <1>0, UsesFinite DEF Exact
  <2> HIDE DEF a, b
  <2>2. n[p] = 0 /\ Taken(x, p) = 0 /\ a = 0 /\ b = 0
    BY <1>0, <2>1
  <2> QED BY <2>2 DEF a, b
<1>2. /\ \A d \in Pages, i \in Tables : m.dir[d][i] # p
      /\ \A t \in Pages, va \in VAs : m.tab[t][va].page # p
  BY <1>1, Counts
<1>3. p \notin owned /\ p # x
  BY <1>1 DEF MemInv, Taken
<1>4. m.dir[p] = [i \in Tables |-> NULL]
  <2>1. m.dir[p] \in [Tables -> Pages \cup {NULL}]
    BY MemFields DEF MemInv
  <2>2. \A i \in Tables : m.dir[p][i] = NULL
    BY <1>3 DEF MemInv, Clean
  <2> QED BY <2>1, <2>2
<1>5. m.tab[p] = [va \in VAs |-> NoPte]
  <2>1. m.tab[p] \in [VAs -> Pte \cup {NoPte}]
    BY MemFields DEF MemInv
  <2>2. \A va \in VAs : m.tab[p][va] = NoPte
    BY <1>2, TableIndex DEF MemInv, Clean
  <2> QED BY <2>1, <2>2
<1> QED BY <1>1, <1>2, <1>3, <1>4, <1>5

(* So page_alloc() has nothing to clear. *)
LEMMA PageAllocated ==
  ASSUME NEW m, NEW n, NEW owned, NEW x, NEW lost, MemInv(m, n, owned, x, lost),
         NEW p \in m.free
  PROVE  /\ PageAlloc(m, p) = [m EXCEPT !.free = @ \ {p}]
         /\ MemInv(PageAlloc(m, p), n, owned, x, lost \cup {p})
<1>1. m \in Mem /\ p \in Pages /\ m.pp_ref[p] = 0
  BY MemFields DEF MemInv, Listed
<1>2. m.dir[p] = [i \in Tables |-> NULL] /\ m.tab[p] = [va \in VAs |-> NoPte]
  BY <1>1, Unused
<1>3. PageAlloc(m, p) = [m EXCEPT !.free = @ \ {p}]
  <2>1. [m.dir EXCEPT ![p] = [t \in Tables |-> NULL]] = m.dir
    BY <1>1, <1>2, MemFields
  <2>2. [m.tab EXCEPT ![p] = [va \in VAs |-> NoPte]] = m.tab
    BY <1>1, <1>2, MemFields
  <2>3. PageAlloc(m, p) = [m EXCEPT !.free = @ \ {p}, !.dir = m.dir, !.tab = m.tab]
    BY <2>1, <2>2 DEF PageAlloc
  <2> QED BY <1>1, <2>3, MemFields
<1> DEFINE m2 == [m EXCEPT !.free = @ \ {p}]
<1>4. /\ m2.pp_ref = m.pp_ref /\ m2.dir = m.dir /\ m2.tab = m.tab
      /\ m2.free = m.free \ {p} /\ m2 \in Mem
  BY <1>1 DEF Mem
<1> HIDE DEF m2
<1>5. MemInv(m2, n, owned, x, lost \cup {p})
  <2>1. Exact(m2, n, x)
    BY <1>4, UsesSame DEF MemInv, Exact
  <2>2. Listed(m2, lost \cup {p})
    BY <1>1, <1>4 DEF MemInv, Listed
  <2>3. Clean(m2, owned) /\ Apart(m2, n) /\ (x # NULL => UserPage(m2, n, x))
    BY <1>4 DEF MemInv, Clean, Apart, UserPage
  <2> QED BY <1>1, <1>4, <2>1, <2>2, <2>3 DEF MemInv
<1> QED BY <1>3, <1>5 DEF m2

(* pgdir_walk() with create: page t becomes a table of directory d. *)
IsWalked(m, d, va, t, m2) ==
  /\ m2.pp_ref = [m.pp_ref EXCEPT ![t] = @ + 1] /\ m2.free = m.free \ {t}
  /\ m2.dir = [m.dir EXCEPT ![d][PDX(va)] = t] /\ m2.tab = m.tab
  /\ m2 \in Mem
  /\ d \in Pages /\ PDX(va) \in Tables /\ m.dir[d][PDX(va)] = NULL /\ t \in m.free

LEMMA Walked ==
  ASSUME NEW m, NEW n, NEW owned, NEW lost, MemInv(m, n, owned, NULL, lost),
         NEW d \in owned, NEW va \in VAs, NEW t \in Pages, CanWalk(m, d, va, t)
  PROVE  IsWalked(m, d, va, t, PgdirWalk(m, d, va, t))
<1> DEFINE i == PDX(va)
           m2 == PgdirWalk(m, d, va, t)
<1>1. m \in Mem /\ d \in Pages /\ i \in Tables
  BY TableIndex DEF MemInv
<1>2. t # NULL
  BY PmapAssumption
<1>3. m.dir[d][i] = NULL /\ t \in m.free
  BY <1>2 DEF CanWalk, TableOf
<1>4. PageAlloc(m, t) = [m EXCEPT !.free = @ \ {t}]
  BY <1>3, PageAllocated
<1>5. m2 = [[m EXCEPT !.free = @ \ {t}] EXCEPT !.pp_ref[t] = @ + 1, !.dir[d][i] = t]
  BY <1>2, <1>4 DEF PgdirWalk
<1>6. /\ m2.pp_ref = [m.pp_ref EXCEPT ![t] = @ + 1] /\ m2.free = m.free \ {t}
      /\ m2.dir = [m.dir EXCEPT ![d][i] = t] /\ m2.tab = m.tab
      /\ m2 = [pp_ref |-> m2.pp_ref, free |-> m2.free, dir |-> m2.dir, tab |-> m2.tab]
  BY <1>1, <1>5 DEF Mem
<1>7. m2 \in Mem
  <2>1. m2.pp_ref \in [Pages -> Nat] /\ m2.free \in SUBSET Pages
    BY <1>1, <1>6, MemFields
  <2>2. m2.dir \in [Pages -> [Tables -> Pages \cup {NULL}]]
    BY <1>1, <1>6, MemFields
  <2>3. m2.tab \in [Pages -> [VAs -> Pte \cup {NoPte}]]
    BY <1>1, <1>6, MemFields
  <2> HIDE DEF m2
  <2> QED BY <1>6, <2>1, <2>2, <2>3, MemMade
<1> HIDE DEF m2
<1>8. IsWalked(m, d, va, t, m2)
  BY <1>1, <1>3, <1>6, <1>7 DEF IsWalked
<1> QED BY <1>8 DEF m2

LEMMA WalkInv ==
  ASSUME NEW m, NEW n, NEW owned, NEW lost, MemInv(m, n, owned, NULL, lost),
         NEW d \in owned, NEW va \in VAs, NEW t \in Pages, CanWalk(m, d, va, t)
  PROVE  MemInv(PgdirWalk(m, d, va, t), n, owned, NULL, lost)
<1> DEFINE i == PDX(va)
           m2 == PgdirWalk(m, d, va, t)
<1>0. IsWalked(m, d, va, t, m2)
  BY Walked
<1>1. /\ m2.pp_ref = [m.pp_ref EXCEPT ![t] = @ + 1] /\ m2.free = m.free \ {t}
      /\ m2.dir = [m.dir EXCEPT ![d][i] = t] /\ m2.tab = m.tab
      /\ m2 \in Mem /\ d \in Pages /\ i \in Tables /\ m.dir[d][i] = NULL /\ t \in m.free
  <2> HIDE DEF m2
  <2> QED BY <1>0 DEF IsWalked
<1>m. m \in Mem /\ n \in [Pages -> Nat] /\ lost \subseteq Pages
  BY DEF MemInv
<1> HIDE DEF m2, i
<1>2. m.pp_ref[t] = 0 /\ t \notin lost
  BY <1>1 DEF MemInv, Listed
<1>3. /\ n[t] = 0 /\ \A e \in Pages, j \in Tables : m.dir[e][j] # t
      /\ \A q \in Pages, a \in VAs : m.tab[q][a].page # t
  BY <1>2, Unused
<1>4. \A e \in Pages, j \in Tables :
        m2.dir[e][j] = IF e = d /\ j = i THEN t ELSE m.dir[e][j]
  BY <1>1, <1>m, MemFields
<1>5. Exact(m2, n, NULL)
  <2> SUFFICES ASSUME NEW p \in Pages
               PROVE  m2.pp_ref[p] = n[p] + Cardinality(TabUses(m2, p))
                                       + Cardinality(MapUses(m2, p)) + Taken(NULL, p)
    BY DEF Exact
  <2>1. m.pp_ref[p] = n[p] + Cardinality(TabUses(m, p))
                        + Cardinality(MapUses(m, p)) + Taken(NULL, p)
    BY DEF MemInv, Exact
  <2>2. MapUses(m2, p) = MapUses(m, p)
    BY <1>1, UsesSame
  <2>3. p # NULL
    BY PmapAssumption
  <2>4. Cardinality(TabUses(m2, p))
          = Cardinality(TabUses(m, p)) + (IF t = p THEN 1 ELSE 0)
    <3>0. /\ d \in Pages /\ i \in Tables
          /\ \A a \in Pages, b \in Tables :
               a # d \/ b # i => m2.dir[a][b] = m.dir[a][b]
      BY <1>1, <1>4
    <3>1. Cardinality(TabUses(m2, p))
            = Cardinality(TabUses(m, p)) - (IF m.dir[d][i] = p THEN 1 ELSE 0)
                + (IF m2.dir[d][i] = p THEN 1 ELSE 0)
      BY ONLY <3>0, TabUsesChange
    <3>2. m.dir[d][i] # p /\ m2.dir[d][i] = t
      BY <1>1, <1>4, <2>3
    <3>3. Cardinality(TabUses(m, p)) \in Nat
      BY UsesFinite
    <3> QED BY <3>1, <3>2, <3>3
  <2>5. m2.pp_ref[p] = m.pp_ref[p] + (IF t = p THEN 1 ELSE 0) /\ m.pp_ref[p] \in Nat
    BY <1>1, <1>m, MemFields
  <2>6. n[p] \in Nat /\ Taken(NULL, p) \in Nat
    BY <1>m DEF Taken
  <2> QED BY <2>1, <2>2, <2>4, <2>5, <2>6, UsesFinite
<1>6. Listed(m2, lost)
  <2>1. \A p \in Pages : m2.pp_ref[p] = IF p = t THEN 1 ELSE m.pp_ref[p]
    BY <1>1, <1>2, <1>m, MemFields
  <2> QED BY <1>1, <1>2, <2>1 DEF MemInv, Listed
<1>7. Clean(m2, owned)
  <2>1. \A e \in Pages, j \in Tables : m2.dir[e][j] # NULL => e \in owned
    BY <1>1, <1>4 DEF MemInv, Clean
  <2>2. ASSUME NEW q \in Pages, NEW a \in VAs, m2.tab[q][a] # NoPte
        PROVE  \E e \in Pages : m2.dir[e][PDX(a)] = q
    <3>1. PICK e \in Pages : m.dir[e][PDX(a)] = q
      BY <1>1, <2>2 DEF MemInv, Clean
    <3>2. q # NULL /\ PDX(a) \in Tables
      BY PmapAssumption, TableIndex
    <3> QED BY <1>1, <1>4, <3>1, <3>2
  <2> QED BY <2>1, <2>2 DEF Clean
<1>8. Apart(m2, n)
  <2>1. \A e, f \in Pages, j, k \in Tables :
          m2.dir[e][j] = m2.dir[f][k] /\ m2.dir[e][j] # NULL => e = f /\ j = k
    BY <1>3, <1>4 DEF MemInv, Apart
  <2>2. \A e \in Pages, j \in Tables : m2.dir[e][j] # NULL => n[m2.dir[e][j]] = 0
    BY <1>3, <1>4 DEF MemInv, Apart
  <2>3. \A q \in Pages, a \in VAs : m2.tab[q][a] # NoPte => n[m2.tab[q][a].page] = 0
    BY <1>1 DEF MemInv, Apart
  <2>4. \A q, e \in Pages, a \in VAs, j \in Tables :
          m2.tab[q][a] # NoPte => m2.tab[q][a].page # m2.dir[e][j]
    BY <1>1, <1>3, <1>4 DEF MemInv, Apart
  <2> QED BY <2>1, <2>2, <2>3, <2>4 DEF Apart
<1>9. MemInv(m2, n, owned, NULL, lost)
  BY <1>1, <1>m, <1>5, <1>6, <1>7, <1>8 DEF MemInv
<1> QED BY <1>9 DEF m2

(* page_insert() takes its reference. *)
LEMMA ReferencedInv ==
  ASSUME NEW m, NEW n, NEW owned, NEW lost, MemInv(m, n, owned, NULL, lost),
         NEW p \in Pages, p \notin m.free, UserPage(m, n, p)
  PROVE  /\ MemInv(Referenced(m, p), n, owned, p, lost \ {p})
         /\ Referenced(m, p).dir = m.dir /\ Referenced(m, p).tab = m.tab
         /\ Referenced(m, p).free = m.free
<1> DEFINE m2 == Referenced(m, p)
<1>m. m \in Mem /\ n \in [Pages -> Nat] /\ lost \subseteq Pages
  BY DEF MemInv
<1>1. /\ m2.pp_ref = [m.pp_ref EXCEPT ![p] = @ + 1] /\ m2.free = m.free
      /\ m2.dir = m.dir /\ m2.tab = m.tab
      /\ m2 = [pp_ref |-> m2.pp_ref, free |-> m2.free, dir |-> m2.dir, tab |-> m2.tab]
  <2>1. m2 = [pp_ref |-> [m.pp_ref EXCEPT ![p] = @ + 1], free |-> m.free,
              dir |-> m.dir, tab |-> m.tab]
    BY <1>m, MemUpdate DEF Referenced
  <2> HIDE DEF m2
  <2> QED BY <2>1
<1> HIDE DEF m2
<1>2. m2.pp_ref \in [Pages -> Nat]
  BY <1>1, <1>m, MemFields
<1>3. m2 \in Mem
  BY <1>1, <1>2, <1>m, MemFields, MemMade
<1>4. Exact(m2, n, p)
  <2> SUFFICES ASSUME NEW q \in Pages
               PROVE  m2.pp_ref[q] = n[q] + Cardinality(TabUses(m2, q))
                                       + Cardinality(MapUses(m2, q)) + Taken(p, q)
    BY DEF Exact
  <2>1. m.pp_ref[q] = n[q] + Cardinality(TabUses(m, q))
                        + Cardinality(MapUses(m, q)) + Taken(NULL, q)
    BY DEF MemInv, Exact
  <2>2. MapUses(m2, q) = MapUses(m, q) /\ TabUses(m2, q) = TabUses(m, q)
    BY <1>1, UsesSame
  <2>3. Taken(NULL, q) = 0 /\ Taken(p, q) = IF q = p THEN 1 ELSE 0
    BY PmapAssumption DEF Taken
  <2>4. m2.pp_ref[q] = m.pp_ref[q] + (IF q = p THEN 1 ELSE 0) /\ m.pp_ref[q] \in Nat
    BY <1>1, <1>m, MemFields
  <2>5. n[q] \in Nat
    BY <1>m
  <2> QED BY <2>1, <2>2, <2>3, <2>4, <2>5, UsesFinite
<1>5. Listed(m2, lost \ {p})
  <2>1. \A q \in Pages : m2.pp_ref[q] = IF q = p THEN m.pp_ref[q] + 1 ELSE m.pp_ref[q]
    BY <1>1, <1>m, MemFields
  <2>2. m.pp_ref[p] \in Nat
    BY <1>m, MemFields
  <2> QED BY <1>1, <2>1, <2>2 DEF MemInv, Listed
<1>6. Clean(m2, owned) /\ Apart(m2, n) /\ UserPage(m2, n, p)
  BY <1>1 DEF MemInv, Clean, Apart, UserPage
<1>7. MemInv(m2, n, owned, p, lost \ {p})
  BY <1>m, <1>3, <1>4, <1>5, <1>6 DEF MemInv
<1> QED BY <1>1, <1>7 DEF m2

(* page_remove() of page q, which table t maps at va. *)
IsRemoved(m, d, va, t, q, m2) ==
  /\ t \in Pages /\ m.dir[d][PDX(va)] = t /\ PDX(va) \in Tables
  /\ q \in Pages /\ q = m.tab[t][va].page /\ m.tab[t][va] # NoPte
  /\ m2.pp_ref = [m.pp_ref EXCEPT ![q] = @ - 1]
  /\ m2.free = IF m.pp_ref[q] = 1 THEN m.free \cup {q} ELSE m.free
  /\ m2.dir = m.dir
  /\ m2.tab = [m.tab EXCEPT ![t][va] = NoPte]
  /\ m2 = [pp_ref |-> m2.pp_ref, free |-> m2.free, dir |-> m2.dir, tab |-> m2.tab]

LEMMA Removed ==
  ASSUME NEW m \in Mem, NEW d \in Pages, NEW va \in VAs, Mapped(m, d, va)
  PROVE  IsRemoved(m, d, va, TableOf(m, d, va), m.tab[TableOf(m, d, va)][va].page,
                   PageRemove(m, d, va))
<1> DEFINE t == TableOf(m, d, va)
           q == m.tab[t][va].page
           m2 == PageRemove(m, d, va)
<1>1. PteAt(m, d, va) # NoPte /\ t # NULL /\ PteAt(m, d, va) = m.tab[t][va]
  BY DEF Mapped, PteAt
<1>2. t \in Pages /\ m.dir[d][PDX(va)] = t /\ PDX(va) \in Tables
  BY <1>1, MemFields, TableIndex DEF TableOf
<1>3. q \in Pages
  <2>1. m.tab[t][va] \in Pte \cup {NoPte}
    BY <1>2, MemFields
  <2> QED BY <1>1, <2>1, Entry
<1>4. m2 = [PageDecref(m, q) EXCEPT !.tab[t][va] = NoPte]
  BY <1>1 DEF PageRemove
<1> DEFINE refs == [m.pp_ref EXCEPT ![q] = @ - 1]
           free == IF m.pp_ref[q] = 1 THEN m.free \cup {q} ELSE m.free
           tab  == [m.tab EXCEPT ![t][va] = NoPte]
           m1   == PageDecref(m, q)
<1>5. m1 = [pp_ref |-> refs, free |-> free, dir |-> m.dir, tab |-> m.tab]
  <2>1. m1 = [m EXCEPT !.pp_ref = refs, !.free = free]
    BY DEF PageDecref
  <2> HIDE DEF refs, free, m1
  <2>2. [m EXCEPT !.pp_ref = refs, !.free = free]
          = [pp_ref |-> refs, free |-> free, dir |-> m.dir, tab |-> m.tab]
    BY RefsUpdate
  <2> QED BY <2>1, <2>2
<1>6. m2 = [pp_ref |-> refs, free |-> free, dir |-> m.dir, tab |-> tab]
  <2>1. m1.tab = m.tab
    <3> HIDE DEF m1, refs, free
    <3> QED BY <1>5
  <2>2. m2 = [m1 EXCEPT !.tab = tab]
    BY <1>4, <2>1
  <2>3. m1 \in [pp_ref : {refs}, free : {free}, dir : {m.dir}, tab : {m.tab}]
    <3> HIDE DEF m1, refs, free
    <3> QED BY <1>5
  <2> HIDE DEF m1, m2, refs, free, tab
  <2> QED BY <2>2, <2>3
<1>7. /\ m2.pp_ref = refs /\ m2.free = free /\ m2.dir = m.dir /\ m2.tab = tab
      /\ m2 = [pp_ref |-> m2.pp_ref, free |-> m2.free, dir |-> m2.dir, tab |-> m2.tab]
  <2> HIDE DEF m2, refs, free, tab
  <2> QED BY <1>6
<1>8. IsRemoved(m, d, va, t, q, m2)
  <2>1. q = m.tab[t][va].page /\ m.tab[t][va] # NoPte
    BY <1>1
  <2> HIDE DEF m2, t, q
  <2> QED BY <1>2, <1>3, <1>7, <2>1 DEF IsRemoved
<1> QED BY <1>8

LEMMA RemoveInv ==
  ASSUME NEW m, NEW n, NEW owned, NEW x, NEW lost, MemInv(m, n, owned, x, lost),
         NEW d \in Pages, NEW va \in VAs
  PROVE  MemInv(PageRemove(m, d, va), n, owned, x, lost)
<1> SUFFICES ASSUME Mapped(m, d, va)
             PROVE  MemInv(PageRemove(m, d, va), n, owned, x, lost)
  BY DEF PageRemove
<1>m. /\ m \in Mem /\ n \in [Pages -> Nat] /\ lost \subseteq Pages
      /\ x \in Pages \cup {NULL}
  BY DEF MemInv
<1> DEFINE t == TableOf(m, d, va)
           q == m.tab[t][va].page
           m2 == PageRemove(m, d, va)
<1>0. IsRemoved(m, d, va, t, q, m2)
  BY <1>m, Removed
<1> HIDE DEF t, q, m2
<1>1. /\ t \in Pages /\ m.dir[d][PDX(va)] = t /\ PDX(va) \in Tables
      /\ q \in Pages /\ m.tab[t][va] # NoPte
      /\ m2.pp_ref = [m.pp_ref EXCEPT ![q] = @ - 1]
      /\ m2.free = IF m.pp_ref[q] = 1 THEN m.free \cup {q} ELSE m.free
      /\ m2.dir = m.dir
      /\ m2.tab = [m.tab EXCEPT ![t][va] = NoPte]
      /\ m2 = [pp_ref |-> m2.pp_ref, free |-> m2.free, dir |-> m2.dir, tab |-> m2.tab]
  BY <1>0 DEF IsRemoved
<1>q. q = m.tab[t][va].page
  BY <1>0 DEF IsRemoved
<1>2. m.pp_ref[q] \in Nat /\ m.pp_ref[q] # 0
  <2>1. m.pp_ref[q] \in Nat
    BY <1>1, <1>m, MemFields
  <2>2. ~\A a \in Pages, b \in VAs : m.tab[a][b].page # q
    BY <1>1, <1>q
  <2> QED BY <1>1, <2>1, <2>2, Unused
<1>3. m2 \in Mem
  <2>0. m.pp_ref[q] - 1 \in Nat
    BY <1>2
  <2>1. m2.pp_ref \in [Pages -> Nat]
    BY <1>1, <1>m, <2>0, MemFields
  <2>3. m2.free \in SUBSET Pages
    BY <1>1, <1>m, MemFields
  <2>2. m2.tab \in [Pages -> [VAs -> Pte \cup {NoPte}]]
    BY <1>1, <1>m, MemFields
  <2> QED BY <1>1, <1>m, <2>1, <2>2, <2>3, MemFields, MemMade
<1>4. \A a \in Pages, b \in VAs :
        m2.tab[a][b] = IF a = t /\ b = va THEN NoPte ELSE m.tab[a][b]
  BY <1>1, <1>m, MemFields
<1>5. \A p \in Pages : m2.pp_ref[p] = IF p = q THEN m.pp_ref[p] - 1 ELSE m.pp_ref[p]
  BY <1>1, <1>m, MemFields
<1>6. Exact(m2, n, x)
  <2> SUFFICES ASSUME NEW p \in Pages
               PROVE  m2.pp_ref[p] = n[p] + Cardinality(TabUses(m2, p))
                                       + Cardinality(MapUses(m2, p)) + Taken(x, p)
    BY DEF Exact
  <2>1. m.pp_ref[p] = n[p] + Cardinality(TabUses(m, p))
                        + Cardinality(MapUses(m, p)) + Taken(x, p)
    BY DEF MemInv, Exact
  <2>2. TabUses(m2, p) = TabUses(m, p)
    BY <1>1, UsesSame
  <2>3. NoPte.page # p
    BY PmapAssumption DEF NoPte
  <2>4. Cardinality(MapUses(m2, p))
          = Cardinality(MapUses(m, p)) - (IF p = q THEN 1 ELSE 0)
    <3>0. t \in Pages /\ OthersKept(m, m2, t, va)
      BY <1>1, <1>4 DEF OthersKept
    <3>1. Cardinality(MapUses(m2, p))
            = Cardinality(MapUses(m, p)) - (IF m.tab[t][va].page = p THEN 1 ELSE 0)
                + (IF m2.tab[t][va].page = p THEN 1 ELSE 0)
      BY <3>0, MapUsesChange
    <3>2. m2.tab[t][va].page # p
      BY <1>1, <1>4, <2>3
    <3>3. Cardinality(MapUses(m, p)) \in Nat
      BY UsesFinite
    <3> QED BY <1>q, <3>1, <3>2, <3>3
  <2>5. n[p] \in Nat /\ Taken(x, p) \in Nat /\ m.pp_ref[p] \in Nat
    BY <1>m, MemFields DEF Taken
  <2>6. m2.pp_ref[p] = m.pp_ref[p] - (IF p = q THEN 1 ELSE 0)
    BY <1>5, <2>5
  <2> QED BY <2>1, <2>2, <2>4, <2>5, <2>6, UsesFinite
<1>7. Listed(m2, lost)
  <2>1. q \notin m.free /\ q \notin lost
    BY <1>1, <1>2 DEF MemInv, Listed
  <2>2. \A p \in Pages : m2.pp_ref[p] = 0 <=> p \in m2.free \cup lost
    <3> SUFFICES ASSUME NEW p \in Pages
                 PROVE  m2.pp_ref[p] = 0 <=> p \in m2.free \cup lost
      OBVIOUS
    <3>1. m.pp_ref[p] = 0 <=> p \in m.free \cup lost
      BY DEF MemInv, Listed
    <3>2. CASE p = q
      BY <1>1, <1>2, <1>5, <2>1, <3>2
    <3>3. CASE p # q
      BY <1>1, <1>5, <3>1, <3>3
    <3> QED BY <3>2, <3>3
  <2>3. m2.free \cap lost = {}
    BY <1>1, <2>1 DEF MemInv, Listed
  <2> QED BY <2>2, <2>3 DEF Listed
<1>8. Clean(m2, owned)
  BY <1>1, <1>4 DEF MemInv, Clean
<1>9. Apart(m2, n) /\ (x # NULL => UserPage(m2, n, x))
  BY <1>1, <1>4 DEF MemInv, Apart, UserPage
<1>10. MemInv(m2, n, owned, x, lost)
  BY <1>m, <1>3, <1>6, <1>7, <1>8, <1>9 DEF MemInv
<1> QED BY <1>10 DEF m2

(* The end of page_insert(): its reference is used. *)
IsSet(m, t, va, p, w, m2) ==
  m2.dir = m.dir /\ m2.tab = [m.tab EXCEPT ![t][va] = [page |-> p, w |-> w]]

LEMMA SetInv ==
  ASSUME NEW m, NEW n, NEW owned, NEW p \in Pages, NEW lost,
         MemInv(m, n, owned, p, lost),
         NEW d \in Pages, NEW va \in VAs, NEW w \in BOOLEAN,
         TableOf(m, d, va) # NULL, m.tab[TableOf(m, d, va)][va] = NoPte
  PROVE  /\ MemInv(SetPte(m, d, va, p, w), n, owned, NULL, lost)
         /\ IsSet(m, TableOf(m, d, va), va, p, w, SetPte(m, d, va, p, w))
<1> DEFINE t == TableOf(m, d, va)
           x == [page |-> p, w |-> w]
           m2 == SetPte(m, d, va, p, w)
           tab == [m.tab EXCEPT ![t][va] = x]
<1>m. m \in Mem /\ n \in [Pages -> Nat] /\ lost \subseteq Pages
  BY DEF MemInv
<1>1. t \in Pages /\ m.dir[d][PDX(va)] = t /\ PDX(va) \in Tables
  BY <1>m, MemFields, TableIndex DEF TableOf
<1>2. m2 = [pp_ref |-> m.pp_ref, free |-> m.free, dir |-> m.dir, tab |-> tab]
  <2>1. m2 = [m EXCEPT !.tab = tab]
    BY DEF SetPte
  <2> HIDE DEF m2, tab
  <2> QED BY <1>m, <2>1, MemUpdate
<1>3. /\ m2.pp_ref = m.pp_ref /\ m2.free = m.free /\ m2.dir = m.dir /\ m2.tab = tab
      /\ m2 = [pp_ref |-> m2.pp_ref, free |-> m2.free, dir |-> m2.dir, tab |-> m2.tab]
  <2> HIDE DEF m2, tab
  <2> QED BY <1>2
<1>x. x \in Pte /\ x.page = p
  BY DEF Pte
<1>t. m.tab[t][va] = NoPte
  BY DEF t
<1> HIDE DEF m2, x, t
<1>4. \A a \in Pages, b \in VAs :
        m2.tab[a][b] = IF a = t /\ b = va THEN x ELSE m.tab[a][b]
  BY <1>1, <1>3, <1>m, MemFields
<1>5. m2 \in Mem
  <2>1. m2.tab \in [Pages -> [VAs -> Pte \cup {NoPte}]]
    BY <1>1, <1>3, <1>x, <1>m, MemFields
  <2> HIDE DEF tab
  <2> QED BY <1>3, <1>m, <2>1, MemFields, MemMade
<1> HIDE DEF tab
<1>u. UserPage(m, n, p)
  BY PmapAssumption DEF MemInv
<1>6. Exact(m2, n, NULL)
  <2> SUFFICES ASSUME NEW q \in Pages
               PROVE  m2.pp_ref[q] = n[q] + Cardinality(TabUses(m2, q))
                                       + Cardinality(MapUses(m2, q)) + Taken(NULL, q)
    BY DEF Exact
  <2>1. m.pp_ref[q] = n[q] + Cardinality(TabUses(m, q))
                        + Cardinality(MapUses(m, q)) + Taken(p, q)
    BY DEF MemInv, Exact
  <2>2. TabUses(m2, q) = TabUses(m, q)
    BY <1>3, UsesSame
  <2>3. NoPte.page # q
    BY PmapAssumption DEF NoPte
  <2>4. Cardinality(MapUses(m2, q))
          = Cardinality(MapUses(m, q)) + (IF p = q THEN 1 ELSE 0)
    <3>0. t \in Pages /\ OthersKept(m, m2, t, va)
      BY <1>1, <1>4 DEF OthersKept
    <3>1. Cardinality(MapUses(m2, q))
            = Cardinality(MapUses(m, q)) - (IF m.tab[t][va].page = q THEN 1 ELSE 0)
                + (IF m2.tab[t][va].page = q THEN 1 ELSE 0)
      BY <3>0, MapUsesChange
    <3>2. m2.tab[t][va].page = p /\ m.tab[t][va].page # q
      BY <1>1, <1>4, <1>x, <1>t, <2>3
    <3>3. Cardinality(MapUses(m, q)) \in Nat
      BY UsesFinite
    <3> QED BY <3>1, <3>2, <3>3
  <2>5. n[q] \in Nat /\ m.pp_ref[q] \in Nat
    BY <1>m, MemFields
  <2>6. Taken(NULL, q) = 0 /\ Taken(p, q) = IF p = q THEN 1 ELSE 0
    BY PmapAssumption DEF Taken
  <2> QED BY <1>3, <2>1, <2>2, <2>4, <2>5, <2>6, UsesFinite
<1>7. Listed(m2, lost)
  BY <1>3 DEF MemInv, Listed
<1>8. Clean(m2, owned)
  <2>1. \A a \in Pages, b \in VAs :
          m2.tab[a][b] # NoPte => \E e \in Pages : m2.dir[e][PDX(b)] = a
    BY <1>1, <1>3, <1>4 DEF MemInv, Clean
  <2> QED BY <1>3, <2>1 DEF MemInv, Clean
<1>9. Apart(m2, n)
  <2>1. \A a \in Pages, b \in VAs : m2.tab[a][b] # NoPte => n[m2.tab[a][b].page] = 0
    BY <1>4, <1>x, <1>u DEF MemInv, Apart, UserPage
  <2>2. \A a, e \in Pages, b \in VAs, j \in Tables :
          m2.tab[a][b] # NoPte => m2.tab[a][b].page # m2.dir[e][j]
    BY <1>3, <1>4, <1>x, <1>u DEF MemInv, Apart, UserPage
  <2> QED BY <1>3, <2>1, <2>2 DEF MemInv, Apart
<1>10. MemInv(m2, n, owned, NULL, lost)
  BY <1>m, <1>5, <1>6, <1>7, <1>8, <1>9 DEF MemInv
<1>11. IsSet(m, t, va, p, w, m2)
  BY <1>3 DEF IsSet, tab, x
<1> QED BY <1>10, <1>11 DEF m2, t

(* page_insert() of p at va: one entry of one table is new, and the table  *)
(* if there was none.                                                      *)
IsInserted(m, d, p, va, w, m2) ==
  /\ m2.dir[d][PDX(va)] \in Pages
  /\ \A e \in Pages, i \in Tables : e # d \/ i # PDX(va) => m2.dir[e][i] = m.dir[e][i]
  /\ \A a \in Pages, b \in VAs :
       m2.tab[a][b] = IF a = m2.dir[d][PDX(va)] /\ b = va
                      THEN [page |-> p, w |-> w] ELSE m.tab[a][b]

LEMMA InsertInv ==
  ASSUME NEW m, NEW n, NEW owned, NEW lost, MemInv(m, n, owned, NULL, lost),
         NEW d \in owned, NEW va \in VAs, NEW perm \in Perms, check_perm(perm),
         NEW p \in Pages, p \notin m.free, UserPage(m, n, p),
         NEW t \in Pages \cup {NULL}, CanWalk(m, d, va, t)
  PROVE  /\ MemInv(PageInsert(m, d, p, va, perm, t), n, owned, NULL, lost \ {p})
         /\ IsInserted(m, d, p, va, perm.w, PageInsert(m, d, p, va, perm, t))
<1> DEFINE i  == PDX(va)
           w  == perm.w
           m1 == PgdirWalk(m, d, va, t)
           m2 == Referenced(m1, p)
           m3 == PageRemove(m2, d, va)
           m4 == SetPte(m3, d, va, p, w)
<1>w. w \in BOOLEAN /\ perm.addr[p] = p
  BY DEF Perms, check_perm, NoAddr
<1> HIDE DEF w
<1>0. m \in Mem /\ d \in Pages /\ i \in Tables
  BY TableIndex DEF MemInv
<1>1. /\ MemInv(m1, n, owned, NULL, lost) /\ m1.tab = m.tab
      /\ p \notin m1.free /\ UserPage(m1, n, p)
      /\ m1.dir[d][i] \in Pages
      /\ \A e \in Pages, j \in Tables : e # d \/ j # i => m1.dir[e][j] = m.dir[e][j]
  <2>1. CASE t = NULL
    <3>1. m1 = m
      BY <2>1 DEF PgdirWalk
    <3>2. m.dir[d][i] # NULL
      BY <2>1, PmapAssumption, <1>0, MemFields DEF CanWalk, TableOf
    <3>3. m.dir[d][i] \in Pages
      BY <1>0, <3>2, MemFields
    <3> QED BY <3>1, <3>3
  <2>2. CASE t \in Pages
    <3>1. MemInv(m1, n, owned, NULL, lost)
      BY <2>2, WalkInv
    <3>0. IsWalked(m, d, va, t, m1)
      BY <2>2, Walked
    <3> HIDE DEF m1
    <3>2. /\ m1.free = m.free \ {t} /\ m1.dir = [m.dir EXCEPT ![d][i] = t]
          /\ m1.tab = m.tab /\ t \in m.free
      BY <3>0 DEF IsWalked
    <3> HIDE DEF i
    <3>3. \A e \in Pages, j \in Tables :
            m1.dir[e][j] = IF e = d /\ j = i THEN t ELSE m.dir[e][j]
      BY <1>0, <3>2, MemFields
    <3>4. UserPage(m1, n, p)
      BY <3>2, <3>3 DEF UserPage
    <3> QED BY <1>0, <2>2, <3>1, <3>2, <3>3, <3>4
  <2> QED BY <2>1, <2>2
<1> HIDE DEF m1
<1>2. /\ MemInv(m2, n, owned, p, lost \ {p}) /\ m2.dir = m1.dir /\ m2.tab = m1.tab
  BY <1>1, ReferencedInv
<1> HIDE DEF m2
<1>3. /\ MemInv(m3, n, owned, p, lost \ {p}) /\ m3.dir = m2.dir
      /\ m3.tab[m3.dir[d][i]][va] = NoPte
      /\ \A a \in Pages, b \in VAs :
           a # m3.dir[d][i] \/ b # va => m3.tab[a][b] = m2.tab[a][b]
  <2>1. MemInv(m3, n, owned, p, lost \ {p})
    BY <1>0, <1>2, RemoveInv
  <2>2. CASE ~Mapped(m2, d, va)
    <3>1. m3 = m2
      BY <2>2 DEF PageRemove
    <3>2. TableOf(m2, d, va) = m2.dir[d][i] /\ m2.dir[d][i] # NULL
      BY <1>1, <1>2, PmapAssumption DEF TableOf
    <3>3. m2.tab[m2.dir[d][i]][va] = NoPte
      BY <2>2, <3>2 DEF Mapped, PteAt
    <3> QED BY <2>1, <3>1, <3>3
  <2>3. CASE Mapped(m2, d, va)
    <3> DEFINE u == TableOf(m2, d, va)
               q == m2.tab[u][va].page
    <3>0. m2 \in Mem
      BY <1>2 DEF MemInv
    <3>1. IsRemoved(m2, d, va, u, q, m3)
      BY <1>0, <2>3, <3>0, Removed
    <3> HIDE DEF u, q, m3
    <3>2. /\ u \in Pages /\ m2.dir[d][i] = u /\ m3.dir = m2.dir
          /\ m3.tab = [m2.tab EXCEPT ![u][va] = NoPte]
      BY <3>1 DEF IsRemoved
    <3>3. \A a \in Pages, b \in VAs :
            m3.tab[a][b] = IF a = u /\ b = va THEN NoPte ELSE m2.tab[a][b]
      BY <3>0, <3>2, MemFields
    <3> QED BY <2>1, <3>2, <3>3
  <2> QED BY <2>2, <2>3
<1> HIDE DEF m3
<1>4. TableOf(m3, d, va) = m3.dir[d][i] /\ m3.dir[d][i] \in Pages /\ TableOf(m3, d, va) # NULL
  BY <1>1, <1>2, <1>3, PmapAssumption DEF TableOf
<1>5. /\ MemInv(m4, n, owned, NULL, lost \ {p}) /\ m4.dir = m3.dir
      /\ m4.tab = [m3.tab EXCEPT ![m3.dir[d][i]][va] = [page |-> p, w |-> w]]
  <2>1. /\ MemInv(m3, n, owned, p, lost \ {p}) /\ TableOf(m3, d, va) # NULL
        /\ m3.tab[TableOf(m3, d, va)][va] = NoPte
    BY <1>3, <1>4
  <2>2. MemInv(m4, n, owned, NULL, lost \ {p}) /\ IsSet(m3, TableOf(m3, d, va), va, p, w, m4)
    BY <1>w, <1>0, <2>1, SetInv
  <2> HIDE DEF m4
  <2> QED BY <1>4, <2>2 DEF IsSet
<1>6. PageInsert(m, d, p, va, perm, t) = m4
  BY <1>w DEF PageInsert, m1, m2, m3, w
<1> HIDE DEF m4
<1>7. IsInserted(m, d, p, va, w, m4)
  <2>1. m4.dir = m1.dir
    BY <1>2, <1>3, <1>5
  <2>2. m3.tab \in [Pages -> [VAs -> Pte \cup {NoPte}]]
    BY <1>3, MemFields DEF MemInv
  <2>3. \A a \in Pages, b \in VAs :
          m4.tab[a][b] = IF a = m3.dir[d][i] /\ b = va
                         THEN [page |-> p, w |-> w] ELSE m3.tab[a][b]
    BY <1>4, <1>5, <2>2
  <2>4. \A a \in Pages, b \in VAs :
          m4.tab[a][b] = IF a = m4.dir[d][i] /\ b = va
                         THEN [page |-> p, w |-> w] ELSE m.tab[a][b]
    BY <1>1, <1>2, <1>3, <1>5, <2>3
  <2> QED BY <1>1, <2>1, <2>4 DEF IsInserted
<1> QED BY <1>5, <1>6, <1>7 DEF w

(* A mapped page is in use, and may be mapped again. *)
LEMMA MappedPage ==
  ASSUME NEW m, NEW n, NEW owned, NEW lost, MemInv(m, n, owned, NULL, lost),
         NEW d \in Pages, NEW va \in VAs, Mapped(m, d, va)
  PROVE  /\ PteAt(m, d, va).page \in Pages /\ PteAt(m, d, va).page \notin m.free \cup lost
         /\ UserPage(m, n, PteAt(m, d, va).page)
         /\ \E a \in Pages : PteAt(m, d, va) = m.tab[a][va] /\ m.tab[a][va] # NoPte
<1> DEFINE t == TableOf(m, d, va)
           q == m.tab[t][va].page
           m2 == PageRemove(m, d, va)
<1>m. m \in Mem
  BY DEF MemInv
<1>1. PteAt(m, d, va) = m.tab[t][va]
  BY DEF Mapped, PteAt
<1>2. IsRemoved(m, d, va, t, q, m2)
  BY <1>m, Removed
<1> HIDE DEF t, q, m2
<1>3. t \in Pages /\ q \in Pages /\ q = m.tab[t][va].page /\ m.tab[t][va] # NoPte
  BY <1>2 DEF IsRemoved
<1>4. m.pp_ref[q] # 0
  BY <1>3, Unused
<1>5. q \notin m.free \cup lost
  BY <1>3, <1>4 DEF MemInv, Listed
<1>6. UserPage(m, n, q)
  BY <1>3 DEF MemInv, Apart, UserPage
<1> QED BY <1>1, <1>3, <1>5, <1>6

(* env_page_alloc(). *)
LEMMA AllocInv ==
  ASSUME NEW m, NEW n, NEW owned, NEW lost, MemInv(m, n, owned, NULL, lost),
         NEW d \in owned, NEW va \in VAs, NEW perm \in Perms, check_perm(perm),
         NEW p \in m.free, NEW t \in Pages \cup {NULL},
         CanWalk(PageAlloc(m, p), d, va, t)
  PROVE  /\ MemInv(PageInsert(PageAlloc(m, p), d, p, va, perm, t), n, owned, NULL, lost)
         /\ IsInserted(m, d, p, va, perm.w, PageInsert(PageAlloc(m, p), d, p, va, perm, t))
<1> DEFINE m1 == PageAlloc(m, p)
           m2 == PageInsert(m1, d, p, va, perm, t)
<1>0. p \in Pages /\ m \in Mem /\ p \notin lost /\ m.pp_ref[p] = 0
  BY MemFields DEF MemInv, Listed
<1>1. m1 = [m EXCEPT !.free = @ \ {p}] /\ MemInv(m1, n, owned, NULL, lost \cup {p})
  BY PageAllocated
<1>2. m1.dir = m.dir /\ m1.tab = m.tab /\ m1.free = m.free \ {p}
  BY <1>0, <1>1 DEF Mem
<1> HIDE DEF m1
<1>3. UserPage(m1, n, p)
  BY <1>0, <1>2, Unused DEF UserPage
<1>4. CanWalk(m1, d, va, t)
  BY DEF m1
<1>5. /\ MemInv(m2, n, owned, NULL, (lost \cup {p}) \ {p})
      /\ IsInserted(m1, d, p, va, perm.w, m2)
  <2> DEFINE l == lost \cup {p}
  <2>1. p \notin m1.free /\ MemInv(m1, n, owned, NULL, l)
    BY <1>1, <1>2
  <2> HIDE DEF l
  <2>2. MemInv(m2, n, owned, NULL, l \ {p}) /\ IsInserted(m1, d, p, va, perm.w, m2)
    BY <1>0, <1>3, <1>4, <2>1, InsertInv
  <2> QED BY <2>2 DEF l
<1>6. (lost \cup {p}) \ {p} = lost
  BY <1>0
<1>7. IsInserted(m, d, p, va, perm.w, m2)
  BY <1>2, <1>5 DEF IsInserted
<1> QED BY <1>5, <1>6, <1>7 DEF m1

(* A directory gets one more user. *)
LEMMA DirRefInv ==
  ASSUME NEW m, NEW n, NEW owned, NEW lost, MemInv(m, n, owned, NULL, lost),
         NEW g \in Pages, g \notin m.free,
         \A d \in Pages, i \in Tables : m.dir[d][i] # g,
         \A t \in Pages, va \in VAs : m.tab[t][va].page # g
  PROVE  MemInv(Referenced(m, g), [n EXCEPT ![g] = @ + 1], owned \cup {g}, NULL, lost \ {g})
<1> DEFINE m2 == Referenced(m, g)
           n2 == [n EXCEPT ![g] = @ + 1]
<1>m. m \in Mem /\ n \in [Pages -> Nat] /\ lost \subseteq Pages
  BY DEF MemInv
<1>1. m2 = [pp_ref |-> [m.pp_ref EXCEPT ![g] = @ + 1], free |-> m.free,
            dir |-> m.dir, tab |-> m.tab]
  BY <1>m, MemUpdate DEF Referenced
<1> HIDE DEF m2
<1>2. /\ m2.pp_ref = [m.pp_ref EXCEPT ![g] = @ + 1] /\ m2.free = m.free
      /\ m2.dir = m.dir /\ m2.tab = m.tab
      /\ m2 = [pp_ref |-> m2.pp_ref, free |-> m2.free, dir |-> m2.dir, tab |-> m2.tab]
  BY <1>1
<1>3. \A p \in Pages : /\ m2.pp_ref[p] = m.pp_ref[p] + (IF p = g THEN 1 ELSE 0)
                       /\ n2[p] = n[p] + (IF p = g THEN 1 ELSE 0)
                       /\ m.pp_ref[p] \in Nat /\ n[p] \in Nat
  BY <1>2, <1>m, MemFields
<1>4. m2 \in Mem
  <2>1. m2.pp_ref \in [Pages -> Nat]
    BY <1>2, <1>m, MemFields
  <2> QED BY <1>2, <1>m, <2>1, MemFields, MemMade
<1>5. n2 \in [Pages -> Nat]
  BY <1>m
<1> HIDE DEF n2
<1>6. Exact(m2, n2, NULL)
  <2> SUFFICES ASSUME NEW q \in Pages
               PROVE  m2.pp_ref[q] = n2[q] + Cardinality(TabUses(m2, q))
                                       + Cardinality(MapUses(m2, q)) + Taken(NULL, q)
    BY DEF Exact
  <2>1. m.pp_ref[q] = n[q] + Cardinality(TabUses(m, q))
                        + Cardinality(MapUses(m, q)) + Taken(NULL, q)
    BY DEF MemInv, Exact
  <2>2. MapUses(m2, q) = MapUses(m, q) /\ TabUses(m2, q) = TabUses(m, q)
    BY <1>2, UsesSame
  <2>3. Taken(NULL, q) = 0
    BY PmapAssumption DEF Taken
  <2> QED BY <1>3, <2>1, <2>2, <2>3, UsesFinite
<1>7. Listed(m2, lost \ {g})
  BY <1>2, <1>3 DEF MemInv, Listed
<1>8. Clean(m2, owned \cup {g})
  BY <1>2 DEF MemInv, Clean
<1>9. Apart(m2, n2)
  <2>1. \A d \in Pages, i \in Tables : m.dir[d][i] # NULL => m.dir[d][i] \in Pages
    BY <1>m, MemFields
  <2>2. \A t \in Pages, va \in VAs : m.tab[t][va] # NoPte => m.tab[t][va].page \in Pages
    <3> SUFFICES ASSUME NEW t \in Pages, NEW va \in VAs, m.tab[t][va] # NoPte
                 PROVE  m.tab[t][va].page \in Pages
      OBVIOUS
    <3>1. m.tab[t][va] \in Pte \cup {NoPte}
      BY <1>m, MemFields
    <3> QED BY <3>1, Entry
  <2>3. \A d \in Pages, i \in Tables : m2.dir[d][i] # NULL => n2[m2.dir[d][i]] = 0
    BY <1>2, <1>3, <2>1 DEF MemInv, Apart
  <2>4. \A t \in Pages, va \in VAs : m2.tab[t][va] # NoPte => n2[m2.tab[t][va].page] = 0
    BY <1>2, <1>3, <2>2 DEF MemInv, Apart
  <2> QED BY <1>2, <2>3, <2>4 DEF MemInv, Apart
<1>10. \A d \in owned \cup {g} : d \in Pages /\ n2[d] # 0
  BY <1>3 DEF MemInv
<1>11. MemInv(m2, n2, owned \cup {g}, NULL, lost \ {g})
  BY <1>m, <1>4, <1>5, <1>6, <1>7, <1>8, <1>9, <1>10 DEF MemInv
<1> QED BY <1>11 DEF m2, n2

(* env_setup_vm() *)
LEMMA SetupInv ==
  ASSUME NEW m, NEW n, NEW owned, NEW lost, MemInv(m, n, owned, NULL, lost),
         NEW d \in m.free
  PROVE  MemInv(Referenced(PageAlloc(m, d), d), [n EXCEPT ![d] = @ + 1],
                owned \cup {d}, NULL, lost)
<1> DEFINE m1 == PageAlloc(m, d)
           l == lost \cup {d}
<1>0. d \in Pages /\ m \in Mem /\ d \notin lost /\ m.pp_ref[d] = 0
  BY MemFields DEF MemInv, Listed
<1>1. m1 = [m EXCEPT !.free = @ \ {d}] /\ MemInv(m1, n, owned, NULL, l)
  BY PageAllocated
<1>2. m1.dir = m.dir /\ m1.tab = m.tab /\ m1.free = m.free \ {d}
  BY <1>0, <1>1 DEF Mem
<1> HIDE DEF m1, l
<1>3. /\ \A e \in Pages, i \in Tables : m1.dir[e][i] # d
      /\ \A t \in Pages, va \in VAs : m1.tab[t][va].page # d
      /\ d \notin m1.free
  BY <1>0, <1>2, Unused
<1>4. MemInv(Referenced(m1, d), [n EXCEPT ![d] = @ + 1], owned \cup {d}, NULL, l \ {d})
  BY <1>0, <1>1, <1>3, DirRefInv
<1>5. l \ {d} = lost
  BY <1>0 DEF l
<1> QED BY <1>4, <1>5 DEF m1

(* env_alloc() of a thread gives its directory back: nothing has happened. *)
LEMMA ThreadDirBack ==
  ASSUME NEW m, NEW n, NEW owned, NEW lost, MemInv(m, n, owned, NULL, lost),
         NEW d \in m.free
  PROVE  PageDecref(Referenced(PageAlloc(m, d), d), d) = m
<1>0. d \in Pages /\ m \in Mem /\ m.pp_ref[d] = 0
  BY MemFields DEF MemInv, Listed
<1> DEFINE m1 == PageAlloc(m, d)
           m2 == Referenced(m1, d)
           r == [m.pp_ref EXCEPT ![d] = @ + 1]
<1>1. m1 = [m EXCEPT !.free = @ \ {d}] /\ m1 \in Mem
  BY PageAllocated DEF MemInv
<1>2. m1.pp_ref = m.pp_ref /\ m1.dir = m.dir /\ m1.tab = m.tab /\ m1.free = m.free \ {d}
  BY <1>0, <1>1 DEF Mem
<1> HIDE DEF m1
<1>3. m2 = [pp_ref |-> r, free |-> m.free \ {d}, dir |-> m.dir, tab |-> m.tab]
  <2>1. m2 = [m1 EXCEPT !.pp_ref = r]
    BY <1>2 DEF Referenced
  <2> HIDE DEF m2, r
  <2>2. m2 = [pp_ref |-> r, free |-> m1.free, dir |-> m1.dir, tab |-> m1.tab]
    BY <1>1, <2>1, MemUpdate
  <2> QED BY <1>2, <2>2
<1>4. r \in [Pages -> Nat] /\ r[d] = 1 /\ [r EXCEPT ![d] = @ - 1] = m.pp_ref
  BY <1>0, MemFields
<1> HIDE DEF m2, r
<1>5. m2.pp_ref = r /\ m2.free = m.free \ {d} /\ m2.dir = m.dir /\ m2.tab = m.tab
  BY <1>3
<1>6. m2 \in Mem
  <2>1. m2 = [pp_ref |-> m2.pp_ref, free |-> m2.free, dir |-> m2.dir, tab |-> m2.tab]
    BY <1>3
  <2> QED BY <1>0, <1>4, <1>5, <2>1, MemFields, MemMade
<1>7. PageDecref(m2, d) = [m2 EXCEPT !.pp_ref = m.pp_ref, !.free = m.free]
  <2>1. m2.free \cup {d} = m.free
    BY <1>5
  <2> QED BY <1>4, <1>5, <2>1 DEF PageDecref
<1>8. PageDecref(m2, d) = [pp_ref |-> m.pp_ref, free |-> m.free, dir |-> m.dir, tab |-> m.tab]
  <2> DEFINE refs == m.pp_ref
             free == m.free
  <2> HIDE DEF refs, free
  <2>1. [m2 EXCEPT !.pp_ref = refs, !.free = free]
          = [pp_ref |-> refs, free |-> free, dir |-> m2.dir, tab |-> m2.tab]
    BY <1>6, RefsUpdate
  <2> QED BY <1>5, <1>7, <2>1 DEF refs, free
<1> QED BY <1>0, <1>8, MemFields DEF m2, m1

-----------------------------------------------------------------------------
(***************************************************************************)
(* env_free(): the sweep over a page directory.                            *)
(***************************************************************************)
LEMMA SameSize ==
  ASSUME NEW S, IsFiniteSet(S), NEW T, NEW f \in [S -> T],
         \A x, y \in S : f[x] = f[y] => x = y,
         \A z \in T : \E x \in S : f[x] = z
  PROVE  Cardinality(T) = Cardinality(S)
<1>0. f \in Injection(S, T) /\ f \in Surjection(S, T)
  BY DEF Injection, Surjection, IsInjective
<1>1. f \in Bijection(S, T)
  BY <1>0 DEF Bijection
<1>2. ExistsBijection(S, T)
  BY <1>1 DEF ExistsBijection
<1> QED BY <1>2, FS_Bijection

LEMMA Split ==
  ASSUME NEW A, NEW B, IsFiniteSet(A \cup B), A \cap B = {}
  PROVE  /\ Cardinality(A \cup B) = Cardinality(A) + Cardinality(B)
         /\ Cardinality(A) \in Nat /\ Cardinality(B) \in Nat
         /\ IsFiniteSet(A) /\ IsFiniteSet(B)
<1>1. IsFiniteSet(A) /\ IsFiniteSet(B)
  BY FS_Subset
<1>2. Cardinality(A \cup B) = Cardinality(A) + Cardinality(B) - Cardinality(A \cap B)
  BY <1>1, FS_Union
<1>3. Cardinality(A \cap B) = 0
  BY FS_EmptySet
<1>4. Cardinality(A) \in Nat /\ Cardinality(B) \in Nat
  BY <1>1, FS_CardinalityType
<1> QED BY <1>1, <1>2, <1>3, <1>4

SweptMaps(m, d, p) == {va \in VAs : PteAt(m, d, va).page = p}
SweptTabs(m, d, p) == {t \in Tables : m.dir[d][t] = p}

(* What the sweep leaves in directories and tables. *)
IsSwept(m, d, m2) ==
  /\ \A e \in Pages, i \in Tables :
       m2.dir[e][i] = IF e = d THEN NULL ELSE m.dir[e][i]
  /\ \A t \in Pages, va \in VAs :
       m2.tab[t][va] = IF \E i \in Tables : m.dir[d][i] = t
                       THEN NoPte ELSE m.tab[t][va]

LEMMA TabsSwept ==
  ASSUME NEW m, NEW d \in Pages, NEW m2, IsSwept(m, d, m2), NEW p \in Pages
  PROVE  /\ Cardinality(TabUses(m, p))
              = Cardinality(TabUses(m2, p)) + Cardinality(SweptTabs(m, d, p))
         /\ Cardinality(SweptTabs(m, d, p)) \in Nat
<1> DEFINE A == TabUses(m2, p)
           B == {u \in TabUses(m, p) : u[1] = d}
           f == [u \in B |-> u[2]]
<1>0. p # NULL
  BY PmapAssumption
<1>1. \A e \in Pages, i \in Tables :
        /\ <<e, i>> \in TabUses(m, p) <=> m.dir[e][i] = p
        /\ <<e, i>> \in A <=> m.dir[e][i] = p /\ e # d
  BY <1>0 DEF TabUses, IsSwept
<1>2. TabUses(m, p) \subseteq Pages \X Tables /\ A \subseteq Pages \X Tables
  BY DEF TabUses
<1>3. TabUses(m, p) = A \cup B /\ A \cap B = {}
  <2>1. ASSUME NEW u \in Pages \X Tables
        PROVE  /\ u \in TabUses(m, p) <=> u \in A \/ u \in B
               /\ ~(u \in A /\ u \in B)
    <3>1. PICK e \in Pages, i \in Tables : u = <<e, i>>
      OBVIOUS
    <3>2. u[1] = e
      BY <3>1
    <3> QED BY <1>1, <3>1, <3>2
  <2> QED BY <1>2, <2>1
<1> HIDE DEF A
<1>4. /\ Cardinality(TabUses(m, p)) = Cardinality(A) + Cardinality(B)
      /\ Cardinality(B) \in Nat /\ IsFiniteSet(B)
  <2> HIDE DEF B
  <2>1. IsFiniteSet(A \cup B)
    BY <1>3, UsesFinite
  <2> QED BY <1>3, <2>1, Split
<1>5. Cardinality(SweptTabs(m, d, p)) = Cardinality(B)
  <2>1. \A u \in B : u[2] \in SweptTabs(m, d, p) /\ u = <<d, u[2]>>
    BY DEF SweptTabs, TabUses
  <2>2. \A i \in SweptTabs(m, d, p) : <<d, i>> \in B
    BY <1>1 DEF SweptTabs
  <2>3. f \in [B -> SweptTabs(m, d, p)]
    BY <2>1
  <2>4. \A u, v \in B : f[u] = f[v] => u = v
    BY <2>1
  <2>5. \A i \in SweptTabs(m, d, p) : \E u \in B : f[u] = i
    <3> SUFFICES ASSUME NEW i \in SweptTabs(m, d, p) PROVE \E u \in B : f[u] = i
      OBVIOUS
    <3>1. <<d, i>> \in B
      BY <2>2
    <3>2. f[<<d, i>>] = i
      BY <3>1
    <3> QED BY <3>1, <3>2
  <2> HIDE DEF f, B
  <2> QED BY <1>4, <2>3, <2>4, <2>5, SameSize
<1> HIDE DEF B
<1> QED BY <1>4, <1>5 DEF A

LEMMA MapsSwept ==
  ASSUME NEW m, NEW n, NEW owned, NEW lost, MemInv(m, n, owned, NULL, lost),
         NEW d \in Pages, NEW m2, IsSwept(m, d, m2), NEW p \in Pages
  PROVE  /\ Cardinality(MapUses(m, p))
              = Cardinality(MapUses(m2, p)) + Cardinality(SweptMaps(m, d, p))
         /\ Cardinality(SweptMaps(m, d, p)) \in Nat
<1> DEFINE A == MapUses(m2, p)
           B == {u \in MapUses(m, p) : \E i \in Tables : m.dir[d][i] = u[1]}
           f == [u \in B |-> u[2]]
<1>0. p # NULL /\ NoPte.page # p /\ m \in Mem
  BY PmapAssumption DEF NoPte, MemInv
<1>1. \A t \in Pages, va \in VAs :
        /\ <<t, va>> \in MapUses(m, p) <=> m.tab[t][va].page = p
        /\ <<t, va>> \in A <=> m.tab[t][va].page = p /\ ~\E i \in Tables : m.dir[d][i] = t
  BY <1>0 DEF MapUses, IsSwept
<1>2. MapUses(m, p) \subseteq Pages \X VAs /\ A \subseteq Pages \X VAs
  BY DEF MapUses
<1>3. MapUses(m, p) = A \cup B /\ A \cap B = {}
  <2>1. ASSUME NEW u \in Pages \X VAs
        PROVE  /\ u \in MapUses(m, p) <=> u \in A \/ u \in B
               /\ ~(u \in A /\ u \in B)
    <3>1. PICK t \in Pages, va \in VAs : u = <<t, va>>
      OBVIOUS
    <3>2. u[1] = t
      BY <3>1
    <3> QED BY <1>1, <3>1, <3>2
  <2> QED BY <1>2, <2>1
<1> HIDE DEF A
<1>4. /\ Cardinality(MapUses(m, p)) = Cardinality(A) + Cardinality(B)
      /\ Cardinality(B) \in Nat /\ IsFiniteSet(B)
  <2> HIDE DEF B
  <2>1. IsFiniteSet(A \cup B)
    BY <1>3, UsesFinite
  <2> QED BY <1>3, <2>1, Split
<1>5. Cardinality(SweptMaps(m, d, p)) = Cardinality(B)
  <2>1. ASSUME NEW u \in B
        PROVE  u[2] \in SweptMaps(m, d, p) /\ u = <<m.dir[d][PDX(u[2])], u[2]>>
    <3>1. PICK t \in Pages, va \in VAs : u = <<t, va>>
      BY <1>2
    <3>2. u[1] = t /\ u[2] = va
      BY <3>1
    <3>3. m.tab[t][va].page = p /\ \E i \in Tables : m.dir[d][i] = t
      BY <1>1, <3>1, <3>2
    <3>4. PICK i \in Tables : m.dir[d][i] = t
      BY <3>3
    <3>5. m.tab[t][va] # NoPte
      BY <1>0, <3>3
    <3>6. PICK e \in Pages : m.dir[e][PDX(va)] = t
      BY <3>5 DEF MemInv, Clean
    <3>7. t # NULL /\ PDX(va) \in Tables
      BY PmapAssumption, TableIndex
    <3>8. e = d /\ i = PDX(va)
      BY <3>4, <3>6, <3>7 DEF MemInv, Apart
    <3>9. PteAt(m, d, va) = m.tab[t][va]
      BY <3>6, <3>7, <3>8 DEF PteAt, TableOf
    <3> QED BY <3>1, <3>2, <3>3, <3>6, <3>8, <3>9 DEF SweptMaps
  <2>2. ASSUME NEW va \in SweptMaps(m, d, p)
        PROVE  <<m.dir[d][PDX(va)], va>> \in B
    <3> DEFINE t == m.dir[d][PDX(va)]
    <3>1. va \in VAs /\ PteAt(m, d, va).page = p
      BY DEF SweptMaps
    <3>2. t # NULL /\ m.tab[t][va].page = p
      BY <1>0, <3>1 DEF PteAt, TableOf
    <3>3. t \in Pages /\ PDX(va) \in Tables
      BY <1>0, <3>1, <3>2, MemFields, TableIndex
    <3>4. <<t, va>> \in MapUses(m, p)
      BY <1>1, <3>1, <3>2, <3>3
    <3>5. <<t, va>>[1] = t
      OBVIOUS
    <3> QED BY <3>3, <3>4, <3>5
  <2>3. f \in [B -> SweptMaps(m, d, p)]
    BY <2>1
  <2>4. \A u, v \in B : f[u] = f[v] => u = v
    BY <2>1
  <2>5. \A va \in SweptMaps(m, d, p) : \E u \in B : f[u] = va
    <3> SUFFICES ASSUME NEW va \in SweptMaps(m, d, p) PROVE \E u \in B : f[u] = va
      OBVIOUS
    <3>1. <<m.dir[d][PDX(va)], va>> \in B
      BY <2>2
    <3>2. f[<<m.dir[d][PDX(va)], va>>] = va
      BY <3>1
    <3> QED BY <3>1, <3>2
  <2> HIDE DEF f, B
  <2> QED BY <1>4, <2>3, <2>4, <2>5, SameSize
<1> HIDE DEF B
<1> QED BY <1>4, <1>5 DEF A

LEMMA SweepInv ==
  ASSUME NEW m, NEW n, NEW owned, NEW lost, MemInv(m, n, owned, NULL, lost),
         NEW d \in Pages
  PROVE  /\ MemInv(Sweep(m, d), n, owned \ {d}, NULL, lost)
         /\ IsSwept(m, d, Sweep(m, d))
<1> DEFINE m2 == Sweep(m, d)
           s == [p \in Pages |-> SweptRefs(m, d, p)]
<1>m. m \in Mem /\ n \in [Pages -> Nat] /\ lost \subseteq Pages
  BY DEF MemInv
<1>1. /\ m2.pp_ref = [p \in Pages |-> m.pp_ref[p] - SweptRefs(m, d, p)]
      /\ m2.free = m.free \cup {p \in Pages : /\ m.pp_ref[p] # 0
                                              /\ m.pp_ref[p] = SweptRefs(m, d, p)}
      /\ m2.dir = [m.dir EXCEPT ![d] = [t \in Tables |-> NULL]]
      /\ m2.tab = [p \in Pages |->
                     IF \E t \in Tables : m.dir[d][t] = p
                     THEN [va \in VAs |-> NoPte] ELSE m.tab[p]]
      /\ m2 = [pp_ref |-> m2.pp_ref, free |-> m2.free, dir |-> m2.dir, tab |-> m2.tab]
  BY DEF Sweep
<1> HIDE DEF m2
<1>2. IsSwept(m, d, m2)
  <2>1. \A e \in Pages, i \in Tables :
          m2.dir[e][i] = IF e = d THEN NULL ELSE m.dir[e][i]
    BY <1>1, <1>m, MemFields
  <2>2. \A t \in Pages, va \in VAs :
          m2.tab[t][va] = IF \E i \in Tables : m.dir[d][i] = t
                          THEN NoPte ELSE m.tab[t][va]
    BY <1>1
  <2> QED BY <2>1, <2>2 DEF IsSwept
<1>3. ASSUME NEW p \in Pages
      PROVE  /\ m2.pp_ref[p] = n[p] + Cardinality(TabUses(m2, p)) + Cardinality(MapUses(m2, p))
             /\ m2.pp_ref[p] = m.pp_ref[p] - s[p]
             /\ s[p] \in Nat /\ m2.pp_ref[p] \in Nat
  <2> DEFINE a  == Cardinality(TabUses(m, p))
             a2 == Cardinality(TabUses(m2, p))
             b  == Cardinality(MapUses(m, p))
             b2 == Cardinality(MapUses(m2, p))
             sa == Cardinality(SweptTabs(m, d, p))
             sb == Cardinality(SweptMaps(m, d, p))
  <2>1. a = a2 + sa /\ sa \in Nat
    BY <1>2, TabsSwept
  <2>2. b = b2 + sb /\ sb \in Nat
    BY <1>2, MapsSwept
  <2>3. a \in Nat /\ b \in Nat /\ a2 \in Nat /\ b2 \in Nat
    BY UsesFinite
  <2>4. m.pp_ref[p] = n[p] + a + b + Taken(NULL, p)
    BY DEF MemInv, Exact
  <2>5. Taken(NULL, p) = 0 /\ n[p] \in Nat
    BY <1>m, PmapAssumption DEF Taken
  <2>6. SweptRefs(m, d, p) = sb + sa
    BY DEF SweptRefs, SweptMaps, SweptTabs
  <2>7. m2.pp_ref[p] = m.pp_ref[p] - SweptRefs(m, d, p) /\ s[p] = SweptRefs(m, d, p)
    BY <1>1
  <2>8. m2.pp_ref[p] = m.pp_ref[p] - s[p] /\ s[p] = sb + sa
    BY <2>6, <2>7
  <2> HIDE DEF a, a2, b, b2, sa, sb, s
  <2>9. m2.pp_ref[p] = n[p] + a2 + b2 /\ s[p] \in Nat
    BY <2>1, <2>2, <2>3, <2>4, <2>5, <2>8
  <2> QED BY <2>3, <2>5, <2>8, <2>9 DEF a2, b2
<1>4. \A p \in Pages : s[p] = SweptRefs(m, d, p)
  OBVIOUS
<1> HIDE DEF s
<1>5. m2 \in Mem
  <2>1. m2.pp_ref \in [Pages -> Nat]
    BY <1>1, <1>3
  <2>2. m2.free \in SUBSET Pages
    BY <1>1, <1>m, MemFields
  <2>3. m2.dir \in [Pages -> [Tables -> Pages \cup {NULL}]]
    BY <1>1, <1>m, MemFields
  <2>4. m2.tab \in [Pages -> [VAs -> Pte \cup {NoPte}]]
    BY <1>1, <1>m, MemFields
  <2> QED BY <1>1, <2>1, <2>2, <2>3, <2>4, MemMade
<1>6. Exact(m2, n, NULL)
  <2> SUFFICES ASSUME NEW p \in Pages
               PROVE  m2.pp_ref[p] = n[p] + Cardinality(TabUses(m2, p))
                                       + Cardinality(MapUses(m2, p)) + Taken(NULL, p)
    BY DEF Exact
  <2>1. Taken(NULL, p) = 0
    BY PmapAssumption DEF Taken
  <2>2. n[p] \in Nat /\ Cardinality(TabUses(m2, p)) \in Nat /\ Cardinality(MapUses(m2, p)) \in Nat
    BY <1>m, UsesFinite
  <2> QED BY <1>3, <2>1, <2>2
<1>7. Listed(m2, lost)
  <2>0. \A p \in Pages : p \in m2.free <=> p \in m.free \/ (m.pp_ref[p] # 0 /\ m.pp_ref[p] = s[p])
    BY <1>1, <1>4
  <2>1. \A p \in Pages : m.pp_ref[p] \in Nat
    BY <1>m, MemFields
  <2>2. \A p \in Pages : m2.pp_ref[p] = 0 <=> p \in m2.free \cup lost
    BY <1>3, <2>0, <2>1 DEF MemInv, Listed
  <2>3. m2.free \cap lost = {}
    BY <2>0, <1>m DEF MemInv, Listed
  <2> QED BY <2>2, <2>3 DEF Listed
<1>8. Clean(m2, owned \ {d})
  <2>1. \A e \in Pages, i \in Tables : m2.dir[e][i] # NULL => e \in owned \ {d}
    BY <1>2 DEF IsSwept, MemInv, Clean
  <2>2. ASSUME NEW t \in Pages, NEW va \in VAs, m2.tab[t][va] # NoPte
        PROVE  \E e \in Pages : m2.dir[e][PDX(va)] = t
    <3>1. PDX(va) \in Tables
      BY TableIndex
    <3>2. m2.tab[t][va] = m.tab[t][va] /\ ~\E i \in Tables : m.dir[d][i] = t
      BY <1>2, <2>2 DEF IsSwept
    <3>3. PICK e \in Pages : m.dir[e][PDX(va)] = t
      BY <2>2, <3>2 DEF MemInv, Clean
    <3>4. e # d
      BY <3>1, <3>2, <3>3
    <3> QED BY <1>2, <3>1, <3>3, <3>4 DEF IsSwept
  <2> QED BY <2>1, <2>2 DEF Clean
<1>9. Apart(m2, n)
  <2>1. \A e \in Pages, i \in Tables : m2.dir[e][i] # NULL => m2.dir[e][i] = m.dir[e][i]
    BY <1>2 DEF IsSwept
  <2>2. \A t \in Pages, va \in VAs : m2.tab[t][va] # NoPte => m2.tab[t][va] = m.tab[t][va]
    BY <1>2 DEF IsSwept
  <2>3. \A e, f \in Pages, i, j \in Tables :
          m2.dir[e][i] = m2.dir[f][j] /\ m2.dir[e][i] # NULL => e = f /\ i = j
    BY <2>1 DEF MemInv, Apart
  <2>4. \A e \in Pages, i \in Tables : m2.dir[e][i] # NULL => n[m2.dir[e][i]] = 0
    BY <2>1 DEF MemInv, Apart
  <2>5. \A t \in Pages, va \in VAs : m2.tab[t][va] # NoPte => n[m2.tab[t][va].page] = 0
    BY <2>2 DEF MemInv, Apart
  <2>6. ASSUME NEW t \in Pages, NEW e \in Pages, NEW va \in VAs, NEW i \in Tables,
               m2.tab[t][va] # NoPte
        PROVE  m2.tab[t][va].page # m2.dir[e][i]
    <3>1. m2.tab[t][va] = m.tab[t][va] /\ m.tab[t][va].page # m.dir[e][i]
      BY <2>2, <2>6 DEF MemInv, Apart
    <3>2. m2.tab[t][va] \in Pte \cup {NoPte}
      BY <1>5, MemFields
    <3>3. m2.tab[t][va].page # NULL
      BY <2>6, <3>2, Entry
    <3> QED BY <2>1, <3>1, <3>3
  <2> QED BY <2>3, <2>4, <2>5, <2>6 DEF Apart
<1>10. MemInv(m2, n, owned \ {d}, NULL, lost)
  BY <1>m, <1>5, <1>6, <1>7, <1>8, <1>9 DEF MemInv
<1> QED BY <1>2, <1>10 DEF m2

(* k environments drop their directory. *)
LEMMA DropInv ==
  ASSUME NEW m, NEW n, NEW owned, NEW lost, MemInv(m, n, owned, NULL, lost),
         NEW d \in Pages, NEW k \in Nat \ {0}, k <= n[d], k = n[d] => d \notin owned
  PROVE  /\ MemInv(DroppedDir(m, d, k), [n EXCEPT ![d] = @ - k], owned, NULL, lost)
         /\ DroppedDir(m, d, k).dir = m.dir /\ DroppedDir(m, d, k).tab = m.tab
<1> DEFINE m2 == DroppedDir(m, d, k)
           n2 == [n EXCEPT ![d] = @ - k]
           r == [m.pp_ref EXCEPT ![d] = @ - k]
           free == IF m.pp_ref[d] = k THEN m.free \cup {d} ELSE m.free
<1>m. m \in Mem /\ n \in [Pages -> Nat] /\ lost \subseteq Pages
  BY DEF MemInv
<1>1. m2 = [pp_ref |-> r, free |-> free, dir |-> m.dir, tab |-> m.tab]
  <2>1. m2 = [m EXCEPT !.pp_ref = r, !.free = free]
    BY DEF DroppedDir
  <2> HIDE DEF m2, r, free
  <2>2. [m EXCEPT !.pp_ref = r, !.free = free]
          = [pp_ref |-> r, free |-> free, dir |-> m.dir, tab |-> m.tab]
    BY <1>m, RefsUpdate
  <2> QED BY <2>1, <2>2
<1>2. /\ m2.pp_ref = r /\ m2.free = free /\ m2.dir = m.dir /\ m2.tab = m.tab
      /\ m2 = [pp_ref |-> m2.pp_ref, free |-> m2.free, dir |-> m2.dir, tab |-> m2.tab]
  <2> HIDE DEF m2, r, free
  <2> QED BY <1>1
<1> HIDE DEF m2
<1>t. \A t \in Pages, va \in VAs : m.tab[t][va] # NoPte =>
        m.tab[t][va].page \in Pages /\ m.tab[t][va].page # d
  <2> SUFFICES ASSUME NEW t \in Pages, NEW va \in VAs, m.tab[t][va] # NoPte
               PROVE  m.tab[t][va].page \in Pages /\ m.tab[t][va].page # d
    OBVIOUS
  <2>1. m.tab[t][va] \in Pte \cup {NoPte}
    BY <1>m, MemFields
  <2>2. n[m.tab[t][va].page] = 0 /\ n[d] # 0
    BY <1>m DEF MemInv, Apart
  <2> QED BY <2>1, <2>2, Entry
<1>d. \A e \in Pages, i \in Tables : m.dir[e][i] # NULL => m.dir[e][i] \in Pages /\ m.dir[e][i] # d
  <2>1. \A e \in Pages, i \in Tables : m.dir[e][i] # NULL => m.dir[e][i] \in Pages
    BY <1>m, MemFields
  <2>2. \A e \in Pages, i \in Tables : m.dir[e][i] # NULL => n[m.dir[e][i]] = 0
    BY DEF MemInv, Apart
  <2>3. n[d] # 0
    BY <1>m
  <2> QED BY <2>1, <2>2, <2>3
<1>3. m.pp_ref[d] = n[d] /\ n[d] \in Nat
  <2>1. d # NULL /\ NoPte.page = NULL
    BY PmapAssumption DEF NoPte
  <2>2. Cardinality(TabUses(m, d)) = 0
    BY <1>d, <2>1, Counts
  <2>3. Cardinality(MapUses(m, d)) = 0
    BY <1>t, <2>1, Counts
  <2>4. m.pp_ref[d] = n[d] + Cardinality(TabUses(m, d))
                        + Cardinality(MapUses(m, d)) + Taken(NULL, d)
    BY DEF MemInv, Exact
  <2>5. Taken(NULL, d) = 0 /\ n[d] \in Nat
    BY <1>m, <2>1 DEF Taken
  <2> QED BY <2>2, <2>3, <2>4, <2>5
<1>4. \A p \in Pages : /\ m2.pp_ref[p] = IF p = d THEN m.pp_ref[p] - k ELSE m.pp_ref[p]
                       /\ n2[p] = IF p = d THEN n[p] - k ELSE n[p]
                       /\ m.pp_ref[p] \in Nat /\ n[p] \in Nat
  BY <1>2, <1>m, MemFields
<1>5. n2 \in [Pages -> Nat]
  <2>1. n[d] - k \in Nat
    BY <1>3
  <2> QED BY <1>m, <2>1
<1>6. m2 \in Mem
  <2>0. m.pp_ref[d] - k \in Nat
    BY <1>3
  <2>1. m2.pp_ref \in [Pages -> Nat]
    BY <1>2, <1>m, <2>0, MemFields
  <2>2. m2.free \in SUBSET Pages
    BY <1>2, <1>m, MemFields
  <2> QED BY <1>2, <1>m, <2>1, <2>2, MemFields, MemMade
<1>f. m2.free = IF m.pp_ref[d] = k THEN m.free \cup {d} ELSE m.free
  BY <1>2
<1> HIDE DEF n2, free, r
<1>7. Exact(m2, n2, NULL)
  <2> SUFFICES ASSUME NEW q \in Pages
               PROVE  m2.pp_ref[q] = n2[q] + Cardinality(TabUses(m2, q))
                                       + Cardinality(MapUses(m2, q)) + Taken(NULL, q)
    BY DEF Exact
  <2>1. m.pp_ref[q] = n[q] + Cardinality(TabUses(m, q))
                        + Cardinality(MapUses(m, q)) + Taken(NULL, q)
    BY DEF MemInv, Exact
  <2>2. MapUses(m2, q) = MapUses(m, q) /\ TabUses(m2, q) = TabUses(m, q)
    BY <1>2, UsesSame
  <2>3. Taken(NULL, q) = 0
    BY PmapAssumption DEF Taken
  <2> QED BY <1>4, <2>1, <2>2, <2>3, UsesFinite
<1>8. Listed(m2, lost)
  <2>1. m.pp_ref[d] # 0 /\ d \notin m.free /\ d \notin lost
    BY <1>3 DEF MemInv, Listed
  <2>2. \A p \in Pages : m2.pp_ref[p] = 0 <=> p \in m2.free \cup lost
    <3> SUFFICES ASSUME NEW p \in Pages
                 PROVE  m2.pp_ref[p] = 0 <=> p \in m2.free \cup lost
      OBVIOUS
    <3>1. CASE p = d
      BY <1>3, <1>4, <1>f, <2>1, <3>1
    <3>2. CASE p # d
      BY <1>4, <1>f, <3>2 DEF MemInv, Listed
    <3> QED BY <3>1, <3>2
  <2>3. m2.free \cap lost = {}
    BY <1>f, <2>1 DEF MemInv, Listed
  <2> QED BY <2>2, <2>3 DEF Listed
<1>9. Clean(m2, owned)
  BY <1>2 DEF MemInv, Clean
<1>10. Apart(m2, n2)
  <2>1. \A e \in Pages, i \in Tables : m2.dir[e][i] # NULL => n2[m2.dir[e][i]] = 0
    BY <1>2, <1>4, <1>d DEF MemInv, Apart
  <2>2. \A t \in Pages, va \in VAs : m2.tab[t][va] # NoPte => n2[m2.tab[t][va].page] = 0
    BY <1>2, <1>4, <1>t DEF MemInv, Apart
  <2> QED BY <1>2, <2>1, <2>2 DEF MemInv, Apart
<1>11. \A e \in owned : e \in Pages /\ n2[e] # 0
  BY <1>3, <1>4 DEF MemInv
<1>12. MemInv(m2, n2, owned, NULL, lost)
  BY <1>m, <1>5, <1>6, <1>7, <1>8, <1>9, <1>10, <1>11 DEF MemInv
<1> QED BY <1>2, <1>12 DEF m2, n2

-----------------------------------------------------------------------------
(***************************************************************************)
(* The environments that use a directory.                                  *)
(***************************************************************************)
LEMMA UsersFinite ==
  ASSUME NEW es, NEW p
  PROVE  IsFiniteSet(Users(es, p)) /\ Cardinality(Users(es, p)) \in Nat
<1>1. IsFiniteSet(Users(es, p))
  <2>1. Users(es, p) \in SUBSET Envs
    BY DEF Users
  <2> QED BY <2>1, FS_Subset, PmapAssumption
<1> QED BY <1>1, FS_CardinalityType

(* Nobody starts, ends or changes directory. *)
KeepsDirs(es, es2) ==
  \A e \in Envs :
    /\ es2[e].status # "FREE" <=> es[e].status # "FREE"
    /\ es[e].status # "FREE" => /\ es2[e].pgdir = es[e].pgdir
                                /\ es2[e].type = es[e].type
                                /\ es2[e].parent = es[e].parent

LEMMA SameDirs ==
  ASSUME NEW es, NEW es2, KeepsDirs(es, es2)
  PROVE  DirUses(es2) = DirUses(es) /\ Owned(es2) = Owned(es)
<1>1. ASSUME NEW p \in Pages
      PROVE  Users(es2, p) = Users(es, p)
  BY DEF Users, KeepsDirs
<1>2. DirUses(es2) = DirUses(es)
  BY <1>1 DEF DirUses
<1>3. \A e \in Envs : Process(es2, e) <=> Process(es, e)
  BY DEF Process, KeepsDirs
<1>4. \A e \in Envs : Process(es, e) => es2[e].pgdir = es[e].pgdir
  BY DEF Process, KeepsDirs
<1>5. Owned(es2) = Owned(es)
  BY <1>3, <1>4 DEF Owned
<1> QED BY <1>2, <1>5

LEMMA StatusInv ==
  ASSUME NEW es, EnvInv(es), NEW es2 \in [Envs -> Env], KeepsDirs(es, es2),
         \A e \in Envs : es2[e].recving => es2[e].status = "BLOCKED",
         \A e \in Envs : es[e].status = "DYING" => es2[e].status = "DYING"
  PROVE  EnvInv(es2)
<1>1. \A e \in Envs : Process(es2, e) <=> Process(es, e)
  BY DEF Process, KeepsDirs
<1>2. ASSUME NEW e \in Envs, es2[e].status # "FREE"
      PROVE  /\ es2[e].pgdir \in Pages
             /\ es2[e].type = "THREAD" =>
                  IF es2[e].parent = NULL THEN es2[e].status = "DYING"
                  ELSE /\ Process(es2, es2[e].parent)
                       /\ es2[e].pgdir = es2[es2[e].parent].pgdir
  <2>1. /\ es[e].status # "FREE" /\ es2[e].pgdir = es[e].pgdir
        /\ es2[e].type = es[e].type /\ es2[e].parent = es[e].parent
    BY <1>2 DEF KeepsDirs
  <2>2. es2[e].pgdir \in Pages
    BY <2>1 DEF EnvInv
  <2>3. ASSUME es2[e].type = "THREAD", es2[e].parent = NULL
        PROVE  es2[e].status = "DYING"
    BY <2>1, <2>3 DEF EnvInv
  <2>4. ASSUME es2[e].type = "THREAD", es2[e].parent # NULL
        PROVE  Process(es2, es2[e].parent) /\ es2[e].pgdir = es2[es2[e].parent].pgdir
    <3> DEFINE f == es[e].parent
    <3>1. f \in Envs
      <4>1. es[e] \in Env
        BY DEF EnvInv
      <4> QED BY <2>1, <2>4, <4>1 DEF Env
    <3>2. Process(es, f) /\ es[e].pgdir = es[f].pgdir
      <4>1. es[e].status # "FREE" /\ es[e].type = "THREAD" /\ es[e].parent # NULL
        BY <2>1, <2>4
      <4> QED BY <4>1 DEF EnvInv
    <3>3. es2[f].pgdir = es[f].pgdir
      BY <3>1, <3>2 DEF Process, KeepsDirs
    <3> QED BY <1>1, <2>1, <3>1, <3>2, <3>3
  <2> QED BY <2>2, <2>3, <2>4
<1>3. \A e, f \in Envs :
        Process(es2, e) /\ Process(es2, f) /\ es2[e].pgdir = es2[f].pgdir => e = f
  <2>1. \A e \in Envs : Process(es2, e) => es2[e].pgdir = es[e].pgdir
    BY <1>1 DEF Process, KeepsDirs
  <2> QED BY <1>1, <2>1 DEF EnvInv
<1> QED BY <1>2, <1>3 DEF EnvInv

(* Only zombies are left without a process. *)
LEMMA OwnedDir ==
  ASSUME NEW es, EnvInv(es), NEW e \in Envs, es[e].status # "FREE",
         es[e].status # "DYING" \/ es[e].parent # NULL
  PROVE  es[e].pgdir \in Owned(es)
<1>0. es[e] \in Env
  BY DEF EnvInv
<1>1. CASE es[e].type = "USER"
  BY <1>1 DEF Owned, Process
<1>2. CASE es[e].type = "THREAD"
  <2>1. es[e].parent # NULL
    BY <1>2 DEF EnvInv
  <2>2. es[e].parent \in Envs
    BY <1>0, <2>1 DEF Env
  <2>3. Process(es, es[e].parent) /\ es[e].pgdir = es[es[e].parent].pgdir
    BY <1>2, <2>1 DEF EnvInv
  <2> QED BY <2>2, <2>3 DEF Owned
<1> QED BY <1>0, <1>1, <1>2 DEF Env

(* env_alloc() of a process with a directory of its own, or of a thread. *)
NewEnv(es, r) ==
  /\ r \in Env /\ r.status # "FREE" /\ ~r.recving /\ r.pgdir \in Pages
  /\ \/ r.type = "USER" /\ r.pgdir \notin Owned(es)
     \/ /\ r.type = "THREAD" /\ r.parent \in Envs /\ Process(es, r.parent)
        /\ r.pgdir = es[r.parent].pgdir

IsAdded(es, d, es2) ==
  /\ EnvInv(es2)
  /\ DirUses(es2) = [DirUses(es) EXCEPT ![d] = @ + 1]
  /\ Owned(es2) = Owned(es) \cup {d}

LEMMA AddedInv ==
  ASSUME NEW es, EnvInv(es), NEW e \in Envs, es[e].status = "FREE",
         NEW r, NewEnv(es, r)
  PROVE  IsAdded(es, r.pgdir, [es EXCEPT ![e] = r])
<1>r. /\ r \in Env /\ r.status # "FREE" /\ ~r.recving /\ r.pgdir \in Pages
      /\ \/ r.type = "USER" /\ r.pgdir \notin Owned(es)
         \/ /\ r.type = "THREAD" /\ r.parent \in Envs /\ Process(es, r.parent)
            /\ r.pgdir = es[r.parent].pgdir
  BY DEF NewEnv
<1> DEFINE es2 == [es EXCEPT ![e] = r]
<1>0. es \in [Envs -> Env]
  BY DEF EnvInv
<1>1. es2 \in [Envs -> Env] /\ \A x \in Envs : es2[x] = IF x = e THEN r ELSE es[x]
  BY <1>0, <1>r
<1> HIDE DEF es2
<1>2. \A x \in Envs : Process(es2, x) <=> IF x = e THEN r.type = "USER" ELSE Process(es, x)
  BY <1>1, <1>r DEF Process
<1>3. ~Process(es, e)
  BY DEF Process
<1>4. EnvInv(es2)
  <2>1. ASSUME NEW x \in Envs
        PROVE  /\ es2[x].status # "FREE" => es2[x].pgdir \in Pages
               /\ es2[x].recving => es2[x].status = "BLOCKED"
    BY <1>1, <1>r DEF EnvInv
  <2>2. ASSUME NEW x \in Envs, es2[x].status # "FREE", es2[x].type = "THREAD"
        PROVE  IF es2[x].parent = NULL THEN es2[x].status = "DYING"
               ELSE /\ Process(es2, es2[x].parent)
                    /\ es2[x].pgdir = es2[es2[x].parent].pgdir
    <3>1. CASE x = e
      <4>1. r.parent # NULL /\ r.parent # e /\ r.parent \in Envs /\ Process(es, r.parent)
              /\ r.pgdir = es[r.parent].pgdir
        BY <1>r, <1>1, <1>3, <2>2, <3>1, PmapAssumption
      <4>2. es2[x] = r /\ es2[r.parent] = es[r.parent] /\ Process(es2, r.parent)
        BY <1>1, <1>2, <3>1, <4>1
      <4> QED BY <4>1, <4>2
    <3>2. CASE x # e
      <4>1. es2[x] = es[x]
        BY <1>1, <3>2
      <4>2. CASE es[x].parent = NULL
        BY <2>2, <4>1, <4>2 DEF EnvInv
      <4>3. CASE es[x].parent # NULL
        <5>0. es[x] \in Env
          BY <1>0
        <5>1. /\ es[x].parent \in Envs /\ Process(es, es[x].parent)
              /\ es[x].pgdir = es[es[x].parent].pgdir
          BY <2>2, <4>1, <4>3, <5>0 DEF EnvInv, Env
        <5>2. es[x].parent # e
          BY <1>3, <5>1
        <5> QED BY <1>1, <1>2, <4>1, <4>3, <5>1, <5>2
      <4> QED BY <4>2, <4>3
    <3> QED BY <3>1, <3>2
  <2>3. ASSUME NEW x \in Envs, NEW y \in Envs,
               Process(es2, x), Process(es2, y), es2[x].pgdir = es2[y].pgdir
        PROVE  x = y
    <3>1. \A z \in Envs : Process(es, z) => es[z].pgdir \in Owned(es)
      BY DEF Owned
    <3> QED BY <1>r, <1>1, <1>2, <2>3, <3>1 DEF EnvInv
  <2> QED BY <1>1, <2>1, <2>2, <2>3 DEF EnvInv
<1>5. DirUses(es2) = [DirUses(es) EXCEPT ![r.pgdir] = @ + 1]
  <2>1. ASSUME NEW p \in Pages
        PROVE  Cardinality(Users(es2, p))
                 = Cardinality(Users(es, p)) + (IF p = r.pgdir THEN 1 ELSE 0)
    <3>1. CASE p = r.pgdir
      <4>1. Users(es2, p) = Users(es, p) \cup {e} /\ e \notin Users(es, p)
        BY <1>r, <1>1, <3>1 DEF Users
      <4>2. IsFiniteSet(Users(es, p))
        BY UsersFinite
      <4>3. Cardinality(Users(es, p) \cup {e}) = Cardinality(Users(es, p)) + 1
        BY <4>1, <4>2, FS_AddElement
      <4> QED BY <3>1, <4>1, <4>3
    <3>2. CASE p # r.pgdir
      <4>1. Users(es2, p) = Users(es, p)
        BY <1>r, <1>1, <3>2 DEF Users
      <4>2. Cardinality(Users(es, p)) \in Nat
        BY UsersFinite
      <4> QED BY <3>2, <4>1, <4>2
    <3> QED BY <3>1, <3>2
  <2>2. \A p \in Pages : Cardinality(Users(es, p)) \in Nat
    BY UsersFinite
  <2> QED BY <1>r, <2>1, <2>2 DEF DirUses
<1>6. Owned(es2) = Owned(es) \cup {r.pgdir}
  <2>1. \A p : p \in Owned(es2) => p \in Owned(es) \cup {r.pgdir}
    BY <1>1, <1>2 DEF Owned
  <2>2. Owned(es) \subseteq Owned(es2)
    BY <1>1, <1>2, <1>3 DEF Owned
  <2>3. r.pgdir \in Owned(es2)
    <3>1. CASE r.type = "USER"
      BY <1>r, <1>1, <1>2, <3>1 DEF Owned
    <3>2. CASE r.type = "THREAD"
      <4>1. r.pgdir \in Owned(es)
        BY <1>r, <3>2 DEF Owned
      <4> QED BY <2>2, <4>1
    <3> QED BY <1>r, <3>1, <3>2
  <2> QED BY <2>1, <2>2, <2>3
<1> QED BY <1>4, <1>5, <1>6 DEF es2, IsAdded

(* env_free() of e, with the threads Z left as zombies. *)
Gone(e, Z) == {e} \cup (ThreadsOf(e) \ Z)
Freed(e, Z) ==
  [x \in Envs |->
     IF x \in Gone(e, Z) THEN NoEnv
     ELSE [envs[x] EXCEPT
             !.status = IF x \in Z THEN "DYING" ELSE @,
             !.parent = IF @ \in Gone(e, Z) THEN NULL ELSE @]]

LEMMA FreedFields ==
  ASSUME EnvInv(envs), NEW e \in Envs, NEW Z, NEW x \in Envs
  PROVE  /\ Freed(e, Z)[x] \in Env
         /\ x \in Gone(e, Z) => Freed(e, Z)[x] = NoEnv
         /\ x \notin Gone(e, Z) =>
              /\ Freed(e, Z)[x].status = IF x \in Z THEN "DYING" ELSE envs[x].status
              /\ Freed(e, Z)[x].parent = IF envs[x].parent \in Gone(e, Z)
                                         THEN NULL ELSE envs[x].parent
              /\ Freed(e, Z)[x].type = envs[x].type
              /\ Freed(e, Z)[x].pgdir = envs[x].pgdir
              /\ Freed(e, Z)[x].recving = envs[x].recving
<1>0. envs[x] \in Env
  BY DEF EnvInv
<1>1. CASE x \in Gone(e, Z)
  <2>1. NoEnv \in Env
    BY DEF NoEnv, Env
  <2>2. Freed(e, Z)[x] = NoEnv
    BY <1>1 DEF Freed
  <2> QED BY <1>1, <2>1, <2>2
<1>2. CASE x \notin Gone(e, Z)
  <2> DEFINE s == IF x \in Z THEN "DYING" ELSE envs[x].status
             q == IF envs[x].parent \in Gone(e, Z) THEN NULL ELSE envs[x].parent
             r == [envs[x] EXCEPT !.status = s, !.parent = q]
  <2>1. Freed(e, Z)[x] = r
    BY <1>2 DEF Freed
  <2>2. /\ s \in {"FREE", "READY", "BLOCKED", "DYING"}
        /\ q \in Envs \cup {NULL}
    BY <1>0 DEF Env
  <2> HIDE DEF s, q
  <2>3. /\ r \in Env /\ r.status = s /\ r.parent = q /\ r.type = envs[x].type
        /\ r.pgdir = envs[x].pgdir /\ r.recving = envs[x].recving
    BY <1>0, <2>2 DEF Env
  <2> HIDE DEF r
  <2> QED BY <1>2, <2>1, <2>3 DEF s, q
<1> QED BY <1>1, <1>2

LEMMA FreedInv ==
  ASSUME EnvInv(envs), NEW e \in Envs, Live(e),
         NEW Z \in SUBSET {t \in ThreadsOf(e) : Running(t)}
  PROVE  /\ EnvInv(Freed(e, Z))
         /\ Owned(Freed(e, Z)) = IF envs[e].type = "USER"
                                 THEN Owned(envs) \ {envs[e].pgdir} ELSE Owned(envs)
<1> DEFINE es2 == Freed(e, Z)
           G == Gone(e, Z)
<1>0. /\ envs \in [Envs -> Env] /\ e \in G /\ Z \subseteq ThreadsOf(e) /\ G \subseteq Envs
      /\ Z \cap G = {}
  BY DEF EnvInv, Gone, ThreadsOf
<1>1. \A x \in G : x = e \/ envs[x].type = "THREAD"
  BY DEF Gone, ThreadsOf
<1>2. \A x \in Z : /\ x \in Envs /\ envs[x].status = "READY" /\ ~envs[x].recving
                   /\ envs[x].type = "THREAD"
  BY DEF Running, EnvInv, ThreadsOf
<1>f. ASSUME NEW x \in Envs
      PROVE  /\ es2[x] \in Env
             /\ x \in G => es2[x] = NoEnv
             /\ x \notin G =>
                  /\ es2[x].status = IF x \in Z THEN "DYING" ELSE envs[x].status
                  /\ es2[x].parent = IF envs[x].parent \in G THEN NULL ELSE envs[x].parent
                  /\ es2[x].type = envs[x].type
                  /\ es2[x].pgdir = envs[x].pgdir
                  /\ es2[x].recving = envs[x].recving
  BY FreedFields
<1>d. es2 \in [Envs -> Env]
  <2>1. es2 = [x \in Envs |-> es2[x]]
    BY DEF Freed
  <2> HIDE DEF es2
  <2> QED BY <1>f, <2>1
<1>n. NoEnv.status = "FREE" /\ NoEnv.recving = FALSE
  BY DEF NoEnv
<1> HIDE DEF es2, G
<1>3. \A x \in Envs : Process(es2, x) <=> Process(envs, x) /\ x \notin G
  BY <1>f, <1>2, <1>n DEF Process
<1>4. \A x \in Envs : Process(es2, x) => es2[x].pgdir = envs[x].pgdir
  BY <1>f, <1>3
<1>5. EnvInv(es2)
  <2>1. ASSUME NEW x \in Envs
        PROVE  /\ es2[x].status # "FREE" => es2[x].pgdir \in Pages
               /\ es2[x].recving => es2[x].status = "BLOCKED"
    BY <1>f, <1>2, <1>n DEF EnvInv
  <2>2. ASSUME NEW x \in Envs, es2[x].status # "FREE", es2[x].type = "THREAD"
        PROVE  IF es2[x].parent = NULL THEN es2[x].status = "DYING"
               ELSE /\ Process(es2, es2[x].parent)
                    /\ es2[x].pgdir = es2[es2[x].parent].pgdir
    <3>1. x \notin G /\ envs[x].status # "FREE" /\ envs[x].type = "THREAD"
      BY <1>f, <1>n, <1>2, <2>2
    <3>2. CASE envs[x].parent = NULL
      <4>1. envs[x].status = "DYING"
        BY <3>1, <3>2 DEF EnvInv
      <4>2. es2[x].parent = NULL /\ es2[x].status = "DYING"
        BY <1>f, <3>1, <3>2, <4>1
      <4> QED BY <4>2
    <3>3. CASE envs[x].parent # NULL
      <4> DEFINE f == envs[x].parent
      <4>0. envs[x] \in Env
        BY <1>0
      <4>1. f \in Envs /\ Process(envs, f) /\ envs[x].pgdir = envs[f].pgdir
        BY <3>1, <3>3, <4>0 DEF EnvInv, Env
      <4>2. CASE f \in G
        <5>1. f = e
          BY <1>1, <4>1, <4>2 DEF Process
        <5>2. x \in ThreadsOf(e)
          BY <1>0, <3>1, <4>1, <5>1 DEF ThreadsOf, Live, Process
        <5>3. x \in Z
          BY <3>1, <5>2 DEF G, Gone
        <5> QED BY <1>f, <3>1, <4>2, <5>3
      <4>3. CASE f \notin G
        <5>1. es2[x].parent = f /\ es2[x].pgdir = envs[x].pgdir
          BY <1>f, <3>1, <4>3
        <5>2. Process(es2, f) /\ es2[f].pgdir = envs[f].pgdir
          BY <1>3, <1>4, <4>1, <4>3
        <5> QED BY <3>3, <4>1, <5>1, <5>2
      <4> QED BY <4>2, <4>3
    <3> QED BY <3>2, <3>3
  <2>3. \A x, y \in Envs :
          Process(es2, x) /\ Process(es2, y) /\ es2[x].pgdir = es2[y].pgdir => x = y
    BY <1>3, <1>4 DEF EnvInv
  <2> QED BY <1>d, <2>1, <2>2, <2>3 DEF EnvInv
<1>6. Owned(es2) = {envs[x].pgdir : x \in {y \in Envs : Process(envs, y) /\ y \notin G}}
  BY <1>3, <1>4 DEF Owned
<1>7. Owned(es2) = IF envs[e].type = "USER" THEN Owned(envs) \ {envs[e].pgdir} ELSE Owned(envs)
  <2>0. Process(envs, e) <=> envs[e].type = "USER"
    BY DEF Process, Live
  <2>1. \A x \in Envs : Process(envs, x) /\ x \in G => x = e
    BY <1>1 DEF Process
  <2>2. CASE envs[e].type = "USER"
    <3>1. \A x \in Envs : Process(envs, x) => (x \in G <=> envs[x].pgdir = envs[e].pgdir)
      BY <1>0, <2>0, <2>1, <2>2 DEF EnvInv
    <3> QED BY <1>6, <2>2, <3>1 DEF Owned
  <2>3. CASE envs[e].type # "USER"
    <3>1. \A x \in Envs : Process(envs, x) => x \notin G
      BY <2>0, <2>1, <2>3
    <3> QED BY <1>6, <2>3, <3>1 DEF Owned
  <2> QED BY <2>2, <2>3
<1> QED BY <1>5, <1>7 DEF es2

(* They all drop the same directory. *)
LEMMA FreedUses ==
  ASSUME EnvInv(envs), NEW e \in Envs, Live(e),
         NEW Z \in SUBSET {t \in ThreadsOf(e) : Running(t)}
  PROVE  LET d == envs[e].pgdir
             k == 1 + Cardinality(ThreadsOf(e) \ Z)
         IN  /\ d \in Pages /\ k \in Nat \ {0} /\ k <= DirUses(envs)[d]
             /\ DirUses(Freed(e, Z)) = [DirUses(envs) EXCEPT ![d] = @ - k]
<1> DEFINE es2 == Freed(e, Z)
           G == Gone(e, Z)
           d == envs[e].pgdir
           k == 1 + Cardinality(ThreadsOf(e) \ Z)
<1>1. d \in Pages
  BY DEF EnvInv, Live
<1>2. k \in Nat \ {0} /\ k = Cardinality(G)
  <2> DEFINE T == ThreadsOf(e) \ Z
  <2>1. T \in SUBSET Envs /\ e \notin T
    BY DEF ThreadsOf
  <2>2. IsFiniteSet(T)
    BY <2>1, FS_Subset, PmapAssumption
  <2> HIDE DEF T
  <2>3. Cardinality(T \cup {e}) = Cardinality(T) + 1 /\ Cardinality(T) \in Nat
    BY <2>1, <2>2, FS_AddElement, FS_CardinalityType
  <2>4. G = T \cup {e}
    BY DEF Gone, T
  <2> QED BY <2>3, <2>4 DEF T
<1>3. G \subseteq Users(envs, d)
  <2>1. \A t \in ThreadsOf(e) : t \in Envs /\ envs[t].status # "FREE" /\ envs[t].pgdir = d
    <3> SUFFICES ASSUME NEW t \in ThreadsOf(e)
                 PROVE  t \in Envs /\ envs[t].status # "FREE" /\ envs[t].pgdir = d
      OBVIOUS
    <3>1. /\ t \in Envs /\ envs[t].status # "FREE" /\ envs[t].type = "THREAD"
          /\ envs[t].parent = e
      BY DEF ThreadsOf, Live
    <3>2. e # NULL
      BY PmapAssumption
    <3> QED BY <3>1, <3>2 DEF EnvInv
  <2> QED BY <2>1 DEF Gone, Users, Live
<1>4. ASSUME NEW p \in Pages
      PROVE  Users(es2, p) = IF p = d THEN Users(envs, d) \ G ELSE Users(envs, p)
  <2>1. ASSUME NEW x \in Envs
        PROVE  x \in Users(es2, p) <=> x \in Users(envs, p) /\ x \notin G
    <3>1. CASE x \in G
      <4>1. es2[x].status = "FREE"
        BY <3>1, FreedFields DEF NoEnv
      <4> QED BY <3>1, <4>1 DEF Users
    <3>2. CASE x \notin G
      <4>1. /\ es2[x].status = (IF x \in Z THEN "DYING" ELSE envs[x].status)
            /\ es2[x].pgdir = envs[x].pgdir
        BY <3>2, FreedFields
      <4>2. x \in Z => envs[x].status = "READY"
        BY DEF Running
      <4> HIDE DEF es2, G
      <4> QED BY <3>2, <4>1, <4>2 DEF Users
    <3> QED BY <3>1, <3>2
  <2>2. p # d => Users(envs, p) \cap G = {}
    BY <1>3 DEF Users
  <2>3. Users(es2, p) \subseteq Envs /\ Users(envs, p) \subseteq Envs
    BY DEF Users
  <2> HIDE DEF es2, G
  <2> QED BY <2>1, <2>2, <2>3
<1>5. /\ Cardinality(Users(envs, d) \ G) = Cardinality(Users(envs, d)) - k
      /\ k <= Cardinality(Users(envs, d))
  <2> HIDE DEF G, k, d
  <2>1. G \in SUBSET Users(envs, d) /\ IsFiniteSet(Users(envs, d))
    BY <1>3, UsersFinite
  <2>2. Users(envs, d) \cap G = G
    BY <2>1
  <2>3. Cardinality(G) <= Cardinality(Users(envs, d))
    BY <2>1, FS_Subset
  <2>4. Cardinality(Users(envs, d) \ G)
          = Cardinality(Users(envs, d)) - Cardinality(Users(envs, d) \cap G)
    BY <2>1, FS_Difference
  <2> QED BY <1>2, <2>2, <2>3, <2>4
<1>6. DirUses(es2) = [DirUses(envs) EXCEPT ![d] = @ - k]
  <2> HIDE DEF es2, G, d, k
  <2>1. \A p \in Pages : Cardinality(Users(es2, p))
                           = IF p = d THEN Cardinality(Users(envs, d)) - k
                             ELSE Cardinality(Users(envs, p))
    BY <1>4, <1>5
  <2> QED BY <1>1, <2>1 DEF DirUses
<1>7. k <= DirUses(envs)[d]
  BY <1>1, <1>5 DEF DirUses
<1> QED BY <1>1, <1>2, <1>6, <1>7

LEMMA OwnedUsed ==
  ASSUME NEW es, EnvInv(es), NEW d \in Owned(es)
  PROVE  d \in Pages /\ DirUses(es)[d] # 0
<1>1. PICK e \in Envs : Process(es, e) /\ es[e].pgdir = d
  BY DEF Owned
<1>2. d \in Pages /\ e \in Users(es, d)
  BY <1>1 DEF Users, Process, EnvInv
<1>3. Cardinality(Users(es, d)) # 0
  BY <1>2, UsersFinite, FS_EmptySet
<1> QED BY <1>2, <1>3 DEF DirUses

-----------------------------------------------------------------------------
(***************************************************************************)
(* The steps.                                                              *)
(***************************************************************************)
LEMMA EnvFreeInv ==
  ASSUME PmapInv, NEW e \in Envs, Live(e), EnvFree(e), UNCHANGED leaked
  PROVE  PmapInv'
<1>0. EnvInv(envs) /\ MemInv(mem, DirUses(envs), Owned(envs), NULL, leaked)
  BY DEF PmapInv
<1>1. PICK Z \in SUBSET {t \in ThreadsOf(e) : Running(t)} :
        mem' = EnvFreeMem(e, Z) /\ envs' = Freed(e, Z)
  BY DEF EnvFree, Freed, Gone
<1> DEFINE d == envs[e].pgdir
           k == 1 + Cardinality(ThreadsOf(e) \ Z)
           n == DirUses(envs)
           es2 == Freed(e, Z)
<1>2. /\ d \in Pages /\ k \in Nat \ {0} /\ k <= n[d]
      /\ DirUses(es2) = [n EXCEPT ![d] = @ - k]
  BY <1>0, FreedUses
<1>3. EnvInv(es2)
  BY <1>0, FreedInv
<1>4. Owned(es2) = IF envs[e].type = "USER" THEN Owned(envs) \ {d} ELSE Owned(envs)
  BY <1>0, FreedInv
<1>5. mem' = DroppedDir(IF envs[e].type = "USER" THEN Sweep(mem, d) ELSE mem, d, k)
  BY <1>1 DEF EnvFreeMem
<1>n. n \in [Pages -> Nat]
  BY <1>0 DEF MemInv
<1> HIDE DEF d, k, n, es2
<1>6. k = n[d] => d \notin Owned(es2)
  <2>1. k = n[d] => DirUses(es2)[d] = 0
    BY <1>2, <1>n
  <2> QED BY <1>3, <2>1, OwnedUsed
<1>7. MemInv(mem', DirUses(es2), Owned(es2), NULL, leaked)
  <2>1. CASE envs[e].type = "USER"
    <3>1. MemInv(Sweep(mem, d), n, Owned(es2), NULL, leaked)
      BY <1>0, <1>2, <1>4, <2>1, SweepInv DEF n
    <3>2. MemInv(DroppedDir(Sweep(mem, d), d, k), [n EXCEPT ![d] = @ - k],
                 Owned(es2), NULL, leaked)
      BY <1>2, <1>6, <3>1, DropInv
    <3> QED BY <1>2, <1>5, <2>1, <3>2
  <2>2. CASE envs[e].type # "USER"
    <3>1. MemInv(mem, n, Owned(es2), NULL, leaked)
      BY <1>0, <1>4, <2>2 DEF n
    <3>2. MemInv(DroppedDir(mem, d, k), [n EXCEPT ![d] = @ - k],
                 Owned(es2), NULL, leaked)
      BY <1>2, <1>6, <3>1, DropInv
    <3> QED BY <1>2, <1>5, <2>2, <3>2
  <2> QED BY <2>1, <2>2
<1>8. envs' = es2
  BY <1>1 DEF es2
<1>9. leaked' = leaked
  OBVIOUS
<1> QED BY <1>3, <1>7, <1>8, <1>9 DEF PmapInv

(* A step that leaves the memory and the directories alone. *)
LEMMA StatusStepInv ==
  ASSUME PmapInv, envs' \in [Envs -> Env], KeepsDirs(envs, envs'),
         \A e \in Envs : envs'[e].recving => envs'[e].status = "BLOCKED",
         \A e \in Envs : envs[e].status = "DYING" => envs'[e].status = "DYING"
  PROVE  /\ EnvInv(envs') /\ DirUses(envs') = DirUses(envs) /\ Owned(envs') = Owned(envs)
         /\ UNCHANGED <<mem, leaked>> => PmapInv'
<1>0. EnvInv(envs) /\ MemInv(mem, DirUses(envs), Owned(envs), NULL, leaked)
  BY DEF PmapInv
<1>1. EnvInv(envs')
  BY <1>0, StatusInv
<1>2. DirUses(envs') = DirUses(envs) /\ Owned(envs') = Owned(envs)
  BY SameDirs
<1>3. ASSUME UNCHANGED <<mem, leaked>> PROVE PmapInv'
  <2>1. mem' = mem /\ leaked' = leaked
    BY <1>3
  <2> QED BY <1>0, <1>1, <1>2, <2>1 DEF PmapInv
<1> QED BY <1>1, <1>2, <1>3

LEMMA EnvDestroyInv ==
  ASSUME PmapInv, NEW cur \in Envs, NEW e \in Envs, Live(e),
         EnvDestroy(cur, e), UNCHANGED leaked
  PROVE  PmapInv'
<1>1. CASE EnvFree(e)
  BY <1>1, EnvFreeInv
<1>2. CASE /\ e # cur /\ Running(e)
           /\ envs' = [envs EXCEPT ![e].status = "DYING"]
           /\ UNCHANGED mem
  <2>0. envs \in [Envs -> Env] /\ \A x \in Envs : envs[x].recving => envs[x].status = "BLOCKED"
    BY DEF PmapInv, EnvInv
  <2>1. envs[e].status = "READY" /\ ~envs[e].recving
    BY <1>2, <2>0 DEF Running
  <2>2. envs' \in [Envs -> Env]
    BY <1>2, <2>0 DEF Env
  <2>3. \A x \in Envs : /\ envs'[x].pgdir = envs[x].pgdir /\ envs'[x].type = envs[x].type
                        /\ envs'[x].parent = envs[x].parent
                        /\ envs'[x].recving = envs[x].recving
                        /\ envs'[x].status = IF x = e THEN "DYING" ELSE envs[x].status
    BY <1>2, <2>0 DEF Env
  <2>4. KeepsDirs(envs, envs')
    BY <2>1, <2>3 DEF KeepsDirs
  <2> QED BY <1>2, <2>0, <2>1, <2>2, <2>3, <2>4, StatusStepInv
<1> QED BY <1>1, <1>2 DEF EnvDestroy

LEMMA SetStatusInv ==
  ASSUME PmapInv, NEW cur \in Envs, NEW e \in Envs, SysEnvSetStatus(cur, e)
  PROVE  PmapInv'
<1>0. envs \in [Envs -> Env] /\ \A x \in Envs : envs[x].recving => envs[x].status = "BLOCKED"
  BY DEF PmapInv, EnvInv
<1>1. /\ envs[e].status = "BLOCKED" /\ ~envs[e].recving
      /\ envs' = [envs EXCEPT ![e].status = "READY"] /\ UNCHANGED <<mem, leaked>>
  BY DEF SysEnvSetStatus
<1>2. envs' \in [Envs -> Env]
  BY <1>0, <1>1 DEF Env
<1>3. \A x \in Envs : /\ envs'[x].pgdir = envs[x].pgdir /\ envs'[x].type = envs[x].type
                      /\ envs'[x].parent = envs[x].parent
                      /\ envs'[x].recving = envs[x].recving
                      /\ envs'[x].status = IF x = e THEN "READY" ELSE envs[x].status
  BY <1>0, <1>1 DEF Env
<1>4. KeepsDirs(envs, envs')
  BY <1>1, <1>3 DEF KeepsDirs
<1> QED BY <1>0, <1>1, <1>2, <1>3, <1>4, StatusStepInv

LEMMA RecvInv ==
  ASSUME PmapInv, NEW cur \in Envs, NEW dstva \in VAs \cup {NULL}, SysIpcRecv(cur, dstva)
  PROVE  PmapInv'
<1>0. envs \in [Envs -> Env] /\ \A x \in Envs : envs[x].recving => envs[x].status = "BLOCKED"
  BY DEF PmapInv, EnvInv
<1>1. /\ envs[cur].status = "READY"
      /\ envs' = [envs EXCEPT ![cur].status = "BLOCKED", ![cur].recving = TRUE,
                              ![cur].dstva = dstva]
      /\ UNCHANGED <<mem, leaked>>
  BY DEF SysIpcRecv, Running
<1>2. envs' \in [Envs -> Env]
  BY <1>0, <1>1 DEF Env
<1>3. \A x \in Envs : /\ envs'[x].pgdir = envs[x].pgdir /\ envs'[x].type = envs[x].type
                      /\ envs'[x].parent = envs[x].parent
                      /\ x # cur => envs'[x] = envs[x]
                      /\ x = cur => envs'[x].status = "BLOCKED"
  BY <1>0, <1>1 DEF Env
<1>4. KeepsDirs(envs, envs')
  BY <1>1, <1>3 DEF KeepsDirs
<1> QED BY <1>0, <1>1, <1>2, <1>3, <1>4, StatusStepInv

(* A delivery changes no directory, whatever it does to memory. *)
LEMMA DeliveredInv ==
  ASSUME PmapInv, NEW dst \in Envs, envs[dst].recving, Delivered(dst)
  PROVE  /\ EnvInv(envs') /\ DirUses(envs') = DirUses(envs) /\ Owned(envs') = Owned(envs)
         /\ UNCHANGED <<mem, leaked>> => PmapInv'
<1>0. envs \in [Envs -> Env] /\ \A x \in Envs : envs[x].recving => envs[x].status = "BLOCKED"
  BY DEF PmapInv, EnvInv
<1>1. /\ envs[dst].status = "BLOCKED"
      /\ envs' = [envs EXCEPT ![dst].status = "READY", ![dst].recving = FALSE,
                              ![dst].dstva = NULL]
  BY <1>0 DEF Delivered
<1>2. envs' \in [Envs -> Env]
  BY <1>0, <1>1 DEF Env
<1>3. \A x \in Envs : /\ envs'[x].pgdir = envs[x].pgdir /\ envs'[x].type = envs[x].type
                      /\ envs'[x].parent = envs[x].parent
                      /\ x # dst => envs'[x] = envs[x]
                      /\ x = dst => envs'[x].status = "READY" /\ envs'[x].recving = FALSE
  BY <1>0, <1>1 DEF Env
<1>4. KeepsDirs(envs, envs')
  BY <1>1, <1>3 DEF KeepsDirs
<1> QED BY <1>0, <1>1, <1>2, <1>3, <1>4, StatusStepInv

LEMMA FreeSlot == NoEnv \in Env /\ NoEnv.type = "USER" /\ NoEnv.recving = FALSE
BY DEF NoEnv, Env

LEMMA ExoforkInv ==
  ASSUME PmapInv, NEW cur \in Envs, SysExofork(cur)
  PROVE  PmapInv'
<1>0. EnvInv(envs) /\ MemInv(mem, DirUses(envs), Owned(envs), NULL, leaked)
  BY DEF PmapInv
<1>1. PICK e \in Envs, d \in mem.free :
        /\ ~Live(e) /\ mem' = Referenced(PageAlloc(mem, d), d)
        /\ envs' = [envs EXCEPT ![e] = [NoEnv EXCEPT !.status = "BLOCKED",
                                                     !.parent = cur, !.pgdir = d]]
        /\ leaked' = leaked
  BY DEF SysExofork
<1> DEFINE r == [NoEnv EXCEPT !.status = "BLOCKED", !.parent = cur, !.pgdir = d]
<1>2. d \in Pages /\ mem.pp_ref[d] = 0
  BY <1>0, MemFields DEF MemInv, Listed
<1>3. r \in Env /\ r.status = "BLOCKED" /\ r.type = "USER" /\ ~r.recving /\ r.pgdir = d
  <2>1. r \in Env /\ r.status = "BLOCKED" /\ r.pgdir = d
    BY <1>2, FreeSlot DEF Env
  <2>2. r.type = NoEnv.type /\ r.recving = NoEnv.recving
    BY FreeSlot DEF Env
  <2> QED BY <2>1, <2>2, FreeSlot
<1>4. d \notin Owned(envs)
  BY <1>0, <1>2, Unused
<1> HIDE DEF r
<1>5. envs[e].status = "FREE"
  BY <1>1 DEF Live
<1>6. IsAdded(envs, d, [envs EXCEPT ![e] = r])
  <2>1. NewEnv(envs, r)
    BY <1>2, <1>3, <1>4 DEF NewEnv
  <2> QED BY <1>0, <1>3, <1>5, <2>1, AddedInv
<1>7. envs' = [envs EXCEPT ![e] = r]
  BY <1>1 DEF r
<1>8. MemInv(mem', [DirUses(envs) EXCEPT ![d] = @ + 1], Owned(envs) \cup {d}, NULL, leaked)
  BY <1>0, <1>1, SetupInv
<1> QED BY <1>1, <1>6, <1>7, <1>8 DEF PmapInv, IsAdded

LEMMA ThreadCreateInv ==
  ASSUME PmapInv, NEW cur \in Envs, SysThreadCreate(cur)
  PROVE  PmapInv'
<1>0. EnvInv(envs) /\ MemInv(mem, DirUses(envs), Owned(envs), NULL, leaked)
  BY DEF PmapInv
<1> DEFINE g == envs[cur].pgdir
           f == IF envs[cur].type = "THREAD" THEN envs[cur].parent ELSE cur
<1>1. PICK e \in Envs, d \in mem.free :
        /\ ~Live(e) /\ mem' = ThreadMem(cur, d)
        /\ envs' = [envs EXCEPT ![e] = [NoEnv EXCEPT !.status = "READY", !.type = "THREAD",
                                                     !.parent = f, !.pgdir = g]]
        /\ leaked' = leaked
  BY DEF SysThreadCreate
<1> DEFINE r == [NoEnv EXCEPT !.status = "READY", !.type = "THREAD",
                              !.parent = f, !.pgdir = g]
<1>2. envs[cur].status = "READY" /\ envs[cur] \in Env
  BY <1>0 DEF SysThreadCreate, Running, EnvInv
<1>3. f \in Envs /\ Process(envs, f) /\ envs[f].pgdir = g /\ g \in Pages
  <2>1. g \in Pages
    BY <1>0, <1>2 DEF EnvInv
  <2>2. CASE envs[cur].type = "THREAD"
    <3>1. envs[cur].parent # NULL
      BY <1>0, <1>2, <2>2 DEF EnvInv
    <3>2. envs[cur].parent \in Envs
      BY <1>2, <3>1 DEF Env
    <3> QED BY <1>0, <1>2, <2>1, <2>2, <3>1, <3>2 DEF EnvInv
  <2>3. CASE envs[cur].type # "THREAD"
    BY <1>2, <2>1, <2>3 DEF Env, Process
  <2> QED BY <2>2, <2>3
<1>4. mem' = Referenced(mem, g)
  BY <1>0, <1>1, ThreadDirBack DEF ThreadMem
<1> HIDE DEF g, f
<1>5. g \in Owned(envs)
  BY <1>3 DEF Owned
<1>6. r \in Env /\ r.status = "READY" /\ r.type = "THREAD" /\ ~r.recving /\ r.pgdir = g
        /\ r.parent = f
  <2>1. r \in Env /\ r.status = "READY" /\ r.type = "THREAD" /\ r.parent = f /\ r.pgdir = g
    BY <1>3, FreeSlot DEF Env
  <2>2. r.recving = NoEnv.recving
    BY FreeSlot DEF Env
  <2> QED BY <2>1, <2>2, FreeSlot
<1> HIDE DEF r
<1>7. envs[e].status = "FREE"
  BY <1>1 DEF Live
<1>8. IsAdded(envs, g, [envs EXCEPT ![e] = r])
  <2>1. NewEnv(envs, r)
    BY <1>3, <1>6 DEF NewEnv
  <2> QED BY <1>0, <1>6, <1>7, <2>1, AddedInv
<1>9. envs' = [envs EXCEPT ![e] = r]
  BY <1>1 DEF r
<1>10. MemInv(mem', [DirUses(envs) EXCEPT ![g] = @ + 1], Owned(envs) \cup {g}, NULL, leaked)
  <2>1. DirUses(envs)[g] # 0
    BY <1>0, <1>5, OwnedUsed
  <2>2. mem.pp_ref[g] # 0
    BY <1>0, <1>3, <2>1, Unused
  <2>3. g \notin mem.free /\ g \notin leaked
    BY <1>0, <1>3, <2>2 DEF MemInv, Listed
  <2>4. g # NULL /\ NoPte.page = NULL
    BY <1>3, PmapAssumption DEF NoPte
  <2>5. \A a \in Pages, i \in Tables : mem.dir[a][i] # g
    BY <1>0, <2>1, <2>4 DEF MemInv, Apart
  <2>6. \A t \in Pages, va \in VAs : mem.tab[t][va].page # g
    BY <1>0, <2>1, <2>4 DEF MemInv, Apart
  <2>7. MemInv(Referenced(mem, g), [DirUses(envs) EXCEPT ![g] = @ + 1],
               Owned(envs) \cup {g}, NULL, leaked \ {g})
    BY <1>0, <1>3, <2>3, <2>5, <2>6, DirRefInv
  <2>8. leaked \ {g} = leaked
    BY <2>3
  <2> QED BY <1>4, <2>7, <2>8
<1> QED BY <1>1, <1>8, <1>9, <1>10 DEF PmapInv, IsAdded

(* Every writable mapping is of a page of S or one that was writable. *)
NoNewWrite(m, m2, S) ==
  \A t \in Pages, va \in VAs :
    m2.tab[t][va] # NoPte /\ m2.tab[t][va].w =>
      \/ m2.tab[t][va].page \in S
      \/ \E u \in Pages, b \in VAs :
           m.tab[u][b] # NoPte /\ m.tab[u][b].w /\ m.tab[u][b].page = m2.tab[t][va].page

LEMMA ControlledDir ==
  ASSUME PmapInv, NEW cur \in Envs, NEW e \in Envs, Running(cur), MayControl(cur, e)
  PROVE  envs[e].pgdir \in Owned(envs) /\ envs[e].pgdir \in Pages
<1>0. EnvInv(envs)
  BY DEF PmapInv
<1>1. envs[e].status # "FREE" /\ (envs[e].status # "DYING" \/ envs[e].parent # NULL)
  BY PmapAssumption DEF MayControl, Live, Running
<1> QED BY <1>0, <1>1, OwnedDir, OwnedUsed

LEMMA FailsInv ==
  ASSUME PmapInv, NEW d, NEW va, EnvPageAllocFails(d, va), UNCHANGED envs
  PROVE  PmapInv' /\ NoNewWrite(mem, mem', mem.free)
<1>0. EnvInv(envs) /\ MemInv(mem, DirUses(envs), Owned(envs), NULL, leaked)
  BY DEF PmapInv
<1>1. PICK p \in mem.free : mem' = PageAlloc(mem, p) /\ leaked' = leaked \cup {p}
  BY DEF EnvPageAllocFails
<1>2. /\ MemInv(PageAlloc(mem, p), DirUses(envs), Owned(envs), NULL, leaked \cup {p})
      /\ PageAlloc(mem, p) = [mem EXCEPT !.free = @ \ {p}]
  BY <1>0, PageAllocated
<1>3. mem'.tab = mem.tab
  <2>1. mem \in Mem
    BY <1>0 DEF MemInv
  <2> QED BY <1>1, <1>2, <2>1 DEF Mem
<1>4. PmapInv'
  BY <1>0, <1>1, <1>2 DEF PmapInv
<1>5. NoNewWrite(mem, mem', mem.free)
  BY <1>3 DEF NoNewWrite
<1> QED BY <1>4, <1>5

LEMMA FewerWrites ==
  ASSUME NEW m, NEW m2, NEW S,
         NoNewWrite(m, m2, {}) \/ m2.tab = m.tab
           \/ \A t \in Pages, va \in VAs : m2.tab[t][va] \in {m.tab[t][va], NoPte}
  PROVE  NoNewWrite(m, m2, S)
BY DEF NoNewWrite

LEMMA AllocWrite ==
  ASSUME NEW m, NEW d, NEW va, NEW w, NEW p \in m.free, NEW m2, IsInserted(m, d, p, va, w, m2)
  PROVE  NoNewWrite(m, m2, m.free)
BY DEF IsInserted, NoNewWrite

LEMMA PageAllocInv ==
  ASSUME PmapInv, NEW cur \in Envs, NEW e \in Envs, NEW va \in VAs, NEW perm \in Perms,
         SysPageAlloc(cur, e, va, perm)
  PROVE  PmapInv' /\ NoNewWrite(mem, mem', mem.free)
<1>0. EnvInv(envs) /\ MemInv(mem, DirUses(envs), Owned(envs), NULL, leaked)
  BY DEF PmapInv
<1> DEFINE d == envs[e].pgdir
<1>1. d \in Owned(envs) /\ envs' = envs /\ check_perm(perm)
  BY ControlledDir DEF SysPageAlloc
<1>2. CASE EnvPageAllocFails(d, va)
  BY <1>1, <1>2, FailsInv
<1>3. ASSUME NEW p \in Pages, NEW t \in Pages \cup {NULL}, CanAllocAt(d, va, p, t),
             mem' = AllocatedAt(d, va, perm, p, t), leaked' = leaked
      PROVE  PmapInv' /\ NoNewWrite(mem, mem', mem.free)
  <2> DEFINE m2 == PageInsert(PageAlloc(mem, p), d, p, va, perm, t)
  <2>1. p \in mem.free /\ CanWalk(PageAlloc(mem, p), d, va, t) /\ mem' = m2
    BY <1>3 DEF CanAllocAt, AllocatedAt
  <2> HIDE DEF d
  <2>2. /\ MemInv(m2, DirUses(envs), Owned(envs), NULL, leaked)
        /\ IsInserted(mem, d, p, va, perm.w, m2)
    BY <1>0, <1>1, <2>1, AllocInv
  <2> HIDE DEF m2
  <2>3. NoNewWrite(mem, m2, mem.free)
    BY <2>1, <2>2, AllocWrite
  <2> QED BY <1>0, <1>1, <1>3, <2>1, <2>2, <2>3 DEF PmapInv
<1> QED BY <1>2, <1>3 DEF SysPageAlloc

(* Mapping a page that is mapped at va of s, with no more rights. *)
LEMMA MapOverInv ==
  ASSUME NEW m, NEW n, NEW owned, NEW lost, MemInv(m, n, owned, NULL, lost),
         NEW s \in Pages, NEW srcva \in VAs, NEW perm \in Perms, check_perm(perm),
         MayMap(m, s, srcva, perm),
         NEW d \in owned, NEW dstva \in VAs,
         NEW t \in Pages \cup {NULL}, CanWalk(m, d, dstva, t)
  PROVE  /\ MemInv(PageInsert(m, d, PteAt(m, s, srcva).page, dstva, perm, t), n, owned, NULL, lost)
         /\ NoNewWrite(m, PageInsert(m, d, PteAt(m, s, srcva).page, dstva, perm, t), {})
<1> DEFINE w == perm.w
           p == PteAt(m, s, srcva).page
           m2 == PageInsert(m, d, p, dstva, perm, t)
<1>1. Mapped(m, s, srcva) /\ (w => PteAt(m, s, srcva).w)
  BY DEF MayMap
<1>2. /\ p \in Pages /\ p \notin m.free \cup lost /\ UserPage(m, n, p)
      /\ \E a \in Pages : PteAt(m, s, srcva) = m.tab[a][srcva] /\ m.tab[a][srcva] # NoPte
  BY <1>1, MappedPage
<1>3. PICK a \in Pages : PteAt(m, s, srcva) = m.tab[a][srcva] /\ m.tab[a][srcva] # NoPte
  BY <1>2
<1>p. p = m.tab[a][srcva].page /\ (w => m.tab[a][srcva].w)
  BY <1>1, <1>3
<1> HIDE DEF p
<1>4. MemInv(m2, n, owned, NULL, lost \ {p}) /\ IsInserted(m, d, p, dstva, w, m2)
  BY <1>2, InsertInv
<1>5. lost \ {p} = lost
  BY <1>2
<1> HIDE DEF m2
<1>6. NoNewWrite(m, m2, {})
  <2> SUFFICES ASSUME NEW u \in Pages, NEW b \in VAs, m2.tab[u][b] # NoPte, m2.tab[u][b].w
               PROVE  \E v \in Pages, c \in VAs :
                        /\ m.tab[v][c] # NoPte /\ m.tab[v][c].w
                        /\ m.tab[v][c].page = m2.tab[u][b].page
    BY DEF NoNewWrite
  <2>1. \/ m2.tab[u][b] = m.tab[u][b]
        \/ m2.tab[u][b] = [page |-> p, w |-> w]
    BY <1>4 DEF IsInserted
  <2>2. CASE m2.tab[u][b] = m.tab[u][b]
    BY <2>2
  <2>3. CASE m2.tab[u][b] = [page |-> p, w |-> w]
    <3>1. w = TRUE /\ m2.tab[u][b].page = p
      BY <2>3
    <3> QED BY <1>3, <1>p, <3>1
  <2> QED BY <2>1, <2>2, <2>3
<1> QED BY <1>4, <1>5, <1>6 DEF p, m2

(* sys_page_map() relies on the programs to pass no address.              *)
LEMMA CheckedPerms == ProgramPerms => \A perm \in Perms : check_perm(perm)
BY DEF ProgramPerms, Perms, check_perm

LEMMA PageMapInv ==
  ASSUME PmapInv, ProgramPerms, NEW cur \in Envs, NEW src \in Envs, NEW srcva \in VAs,
         NEW dst \in Envs, NEW dstva \in VAs, NEW perm \in Perms,
         SysPageMap(cur, src, srcva, dst, dstva, perm)
  PROVE  PmapInv' /\ NoNewWrite(mem, mem', mem.free)
<1>0. EnvInv(envs) /\ MemInv(mem, DirUses(envs), Owned(envs), NULL, leaked)
  BY DEF PmapInv
<1> DEFINE s == envs[src].pgdir
           d == envs[dst].pgdir
<1>1. s \in Pages /\ d \in Owned(envs) /\ MayMap(mem, s, srcva, perm)
  BY ControlledDir DEF SysPageMap
<1>2. PICK t \in Pages \cup {NULL} :
        /\ CanWalk(mem, d, dstva, t)
        /\ mem' = PageInsert(mem, d, PteAt(mem, s, srcva).page, dstva, perm, t)
  BY DEF SysPageMap
<1>3. envs' = envs /\ leaked' = leaked
  BY DEF SysPageMap
<1>p. check_perm(perm)
  BY CheckedPerms
<1> HIDE DEF s, d
<1>4. /\ MemInv(mem', DirUses(envs), Owned(envs), NULL, leaked)
      /\ NoNewWrite(mem, mem', {})
  BY <1>p, <1>0, <1>1, <1>2, MapOverInv
<1> QED BY <1>0, <1>3, <1>4, FewerWrites DEF PmapInv

LEMMA RemoveWrite ==
  ASSUME NEW m \in Mem, NEW d \in Pages, NEW va \in VAs
  PROVE  NoNewWrite(m, PageRemove(m, d, va), {})
<1>1. CASE ~Mapped(m, d, va)
  BY <1>1 DEF PageRemove, NoNewWrite
<1>2. CASE Mapped(m, d, va)
  <2> DEFINE t == TableOf(m, d, va)
             q == m.tab[t][va].page
             m2 == PageRemove(m, d, va)
  <2>1. IsRemoved(m, d, va, t, q, m2)
    BY <1>2, Removed
  <2> HIDE DEF t, q, m2
  <2>2. t \in Pages /\ m2.tab = [m.tab EXCEPT ![t][va] = NoPte]
    BY <2>1 DEF IsRemoved
  <2>3. \A a \in Pages, b \in VAs :
          m2.tab[a][b] = IF a = t /\ b = va THEN NoPte ELSE m.tab[a][b]
    BY <2>2, MemFields
  <2>4. NoNewWrite(m, m2, {})
    BY <2>3 DEF NoNewWrite
  <2> QED BY <2>4 DEF m2
<1> QED BY <1>1, <1>2

LEMMA PageUnmapInv ==
  ASSUME PmapInv, NEW cur \in Envs, NEW e \in Envs, NEW va \in VAs, SysPageUnmap(cur, e, va)
  PROVE  PmapInv' /\ NoNewWrite(mem, mem', mem.free)
<1>0. EnvInv(envs) /\ MemInv(mem, DirUses(envs), Owned(envs), NULL, leaked) /\ mem \in Mem
  BY DEF PmapInv, MemInv
<1>1. /\ envs[e].pgdir \in Pages /\ mem' = PageRemove(mem, envs[e].pgdir, va)
      /\ envs' = envs /\ leaked' = leaked
  BY ControlledDir DEF SysPageUnmap
<1>2. MemInv(mem', DirUses(envs), Owned(envs), NULL, leaked)
  BY <1>0, <1>1, RemoveInv
<1>3. NoNewWrite(mem, mem', mem.free)
  BY <1>0, <1>1, RemoveWrite, FewerWrites
<1> QED BY <1>0, <1>1, <1>2, <1>3 DEF PmapInv

LEMMA SendPageInv ==
  ASSUME PmapInv, NEW cur \in Envs, NEW dst \in Envs, NEW srcva \in VAs, NEW perm \in Perms,
         SysIpcTrySendPage(cur, dst, srcva, perm)
  PROVE  PmapInv' /\ NoNewWrite(mem, mem', mem.free)
<1>0. EnvInv(envs) /\ MemInv(mem, DirUses(envs), Owned(envs), NULL, leaked)
  BY DEF PmapInv
<1> DEFINE s == envs[cur].pgdir
           d == envs[dst].pgdir
           dstva == envs[dst].dstva
<1>1. check_perm(perm) /\ Running(cur) /\ Live(dst) /\ envs[dst].recving /\ dstva # NULL
  BY DEF SysIpcTrySendPage
<1>2. dstva \in VAs
  <2>1. envs[dst] \in Env
    BY <1>0 DEF EnvInv
  <2> QED BY <1>1, <2>1 DEF Env
<1>3. s \in Pages /\ d \in Owned(envs)
  <2>1. envs[cur].status # "FREE" /\ envs[dst].status # "FREE" /\ envs[dst].status # "DYING"
    BY <1>0, <1>1 DEF Running, Live, EnvInv
  <2> QED BY <1>0, <2>1, OwnedDir DEF EnvInv
<1>4. CASE EnvPageAllocFails(d, dstva) /\ UNCHANGED envs
  BY <1>4, FailsInv
<1>5. ASSUME NEW p \in Pages, NEW t \in Pages \cup {NULL}, CanAllocAt(d, dstva, p, t),
             leaked' = leaked,
             LET m == AllocatedAt(d, dstva, perm, p, t)
             IN  \/ /\ MayMap(m, s, srcva, perm)
                    /\ mem' = PageInsert(m, d, PteAt(m, s, srcva).page, dstva, perm, NULL)
                    /\ Delivered(dst)
                 \/ /\ ~MayMap(m, s, srcva, perm)
                    /\ mem' = m
                    /\ UNCHANGED envs
      PROVE  PmapInv' /\ NoNewWrite(mem, mem', mem.free)
  <2> DEFINE m == PageInsert(PageAlloc(mem, p), d, p, dstva, perm, t)
  <2>1. p \in mem.free /\ CanWalk(PageAlloc(mem, p), d, dstva, t) /\ m = AllocatedAt(d, dstva, perm, p, t)
    BY <1>5 DEF CanAllocAt, AllocatedAt
  <2>2. \/ /\ MayMap(m, s, srcva, perm)
           /\ mem' = PageInsert(m, d, PteAt(m, s, srcva).page, dstva, perm, NULL)
           /\ Delivered(dst)
        \/ mem' = m /\ UNCHANGED envs
    BY <1>5, <2>1
  <2>g. envs[dst].recving
    BY <1>1
  <2> HIDE DEF d, s, dstva
  <2>3. /\ MemInv(m, DirUses(envs), Owned(envs), NULL, leaked)
        /\ IsInserted(mem, d, p, dstva, perm.w, m)
    BY <1>0, <1>1, <1>2, <1>3, <2>1, AllocInv
  <2> HIDE DEF m
  <2>4. NoNewWrite(mem, m, mem.free)
    BY <2>1, <2>3, AllocWrite
  <2>5. CASE mem' = m /\ UNCHANGED envs
    BY <1>0, <1>5, <2>3, <2>4, <2>5 DEF PmapInv
  <2>6. CASE /\ MayMap(m, s, srcva, perm)
             /\ mem' = PageInsert(m, d, PteAt(m, s, srcva).page, dstva, perm, NULL)
             /\ Delivered(dst)
    <3>1. CanWalk(m, d, dstva, NULL)
      BY <2>3, PmapAssumption DEF CanWalk, TableOf, IsInserted
    <3>2. /\ MemInv(mem', DirUses(envs), Owned(envs), NULL, leaked)
          /\ NoNewWrite(m, mem', {})
      BY <1>1, <1>2, <1>3, <2>3, <2>6, <3>1, MapOverInv
    <3>3. EnvInv(envs') /\ DirUses(envs') = DirUses(envs) /\ Owned(envs') = Owned(envs)
      BY <2>6, <2>g, DeliveredInv
    <3>4. NoNewWrite(mem, mem', mem.free)
      <4> SUFFICES ASSUME NEW u \in Pages, NEW b \in VAs,
                          mem'.tab[u][b] # NoPte, mem'.tab[u][b].w
                   PROVE  \/ mem'.tab[u][b].page \in mem.free
                          \/ \E v \in Pages, c \in VAs :
                               /\ mem.tab[v][c] # NoPte /\ mem.tab[v][c].w
                               /\ mem.tab[v][c].page = mem'.tab[u][b].page
        BY DEF NoNewWrite
      <4>1. PICK v \in Pages, c \in VAs :
              /\ m.tab[v][c] # NoPte /\ m.tab[v][c].w
              /\ m.tab[v][c].page = mem'.tab[u][b].page
        BY <3>2 DEF NoNewWrite
      <4> QED BY <2>4, <4>1 DEF NoNewWrite
    <3> QED BY <1>5, <3>2, <3>3, <3>4 DEF PmapInv
  <2> QED BY <2>2, <2>5, <2>6
<1> QED BY <1>4, <1>5 DEF SysIpcTrySendPage

-----------------------------------------------------------------------------
(***************************************************************************)
(* The invariant.                                                          *)
(***************************************************************************)
LEMMA Three ==
  ASSUME NEW a, NEW b, NEW c, Cardinality({a, b, c}) = 3
  PROVE  a # b /\ b # c /\ a # c
<1>1. ASSUME NEW x, NEW y PROVE Cardinality({x, y}) \in {1, 2}
  <2>1. IsFiniteSet({x}) /\ Cardinality({x}) = 1
    BY FS_Singleton
  <2>2. Cardinality({x} \cup {y}) = IF y \in {x} THEN 1 ELSE 2
    BY <2>1, FS_AddElement
  <2>3. {x, y} = {x} \cup {y}
    OBVIOUS
  <2> QED BY <2>2, <2>3
<1>2. a = b => {a, b, c} = {a, c}
  OBVIOUS
<1>3. b = c => {a, b, c} = {a, b}
  OBVIOUS
<1>4. a = c => {a, b, c} = {a, b}
  OBVIOUS
<1>5. Cardinality({a, c}) # 3 /\ Cardinality({a, b}) # 3
  BY <1>1
<1> QED BY <1>2, <1>3, <1>4, <1>5

LEMMA InitInv == Init => PmapInv
<1> SUFFICES ASSUME Init PROVE PmapInv
  OBVIOUS
<1>1. PICK e \in Envs, d \in Pages, t \in Pages, p \in Pages, va \in VAs :
        /\ Cardinality({d, t, p}) = 3
        /\ envs = [x \in Envs |->
                     IF x = e THEN [NoEnv EXCEPT !.status = "READY", !.pgdir = d]
                              ELSE NoEnv]
        /\ mem = [pp_ref |-> [x \in Pages |-> IF x \in {d, t, p} THEN 1 ELSE 0],
                  free |-> Pages \ {d, t, p},
                  dir |-> [x \in Pages |-> [i \in Tables |->
                             IF x = d /\ i = PDX(va) THEN t ELSE NULL]],
                  tab |-> [x \in Pages |-> [a \in VAs |->
                             IF x = t /\ a = va THEN [page |-> p, w |-> TRUE]
                                                ELSE NoPte]]]
        /\ leaked = {}
  BY DEF Init
<1>2. d # t /\ t # p /\ d # p
  BY <1>1, Three
<1>n. t # NULL /\ p # NULL /\ d # NULL /\ NoPte.page = NULL /\ PDX(va) \in Tables
  BY PmapAssumption, TableIndex DEF NoPte
<1> DEFINE r == [NoEnv EXCEPT !.status = "READY", !.pgdir = d]
           y == [page |-> p, w |-> TRUE]
<1>3. r \in Env /\ r.status = "READY" /\ r.type = "USER" /\ r.recving = FALSE /\ r.pgdir = d
  <2>1. r \in Env /\ r.status = "READY" /\ r.pgdir = d
    BY FreeSlot DEF Env
  <2>2. r.type = NoEnv.type /\ r.recving = NoEnv.recving
    BY FreeSlot DEF Env
  <2> QED BY <2>1, <2>2, FreeSlot
<1>y. y \in Pte /\ y.page = p
  BY DEF Pte
<1>z. NoEnv.status = "FREE"
  BY DEF NoEnv
<1>m. mem \in Mem
  BY <1>1, <1>y DEF Mem
<1>4. /\ \A x \in Pages : mem.pp_ref[x] = IF x \in {d, t, p} THEN 1 ELSE 0
      /\ mem.free = Pages \ {d, t, p}
      /\ \A x \in Pages, i \in Tables :
           mem.dir[x][i] = IF x = d /\ i = PDX(va) THEN t ELSE NULL
      /\ \A x \in Pages, a \in VAs : mem.tab[x][a] = IF x = t /\ a = va THEN y ELSE NoPte
  BY <1>1
<1>5. envs \in [Envs -> Env] /\ \A x \in Envs : envs[x] = IF x = e THEN r ELSE NoEnv
  BY <1>1, <1>3, FreeSlot
<1> HIDE DEF r, y
<1>6. EnvInv(envs)
  BY <1>3, <1>5, <1>z, FreeSlot DEF EnvInv, Process
<1>7. Owned(envs) = {d}
  BY <1>3, <1>5, <1>z DEF Owned, Process
<1>8. \A q \in Pages : DirUses(envs)[q] = IF q = d THEN 1 ELSE 0
  <2> SUFFICES ASSUME NEW q \in Pages
               PROVE  Cardinality(Users(envs, q)) = IF q = d THEN 1 ELSE 0
    BY DEF DirUses
  <2>1. Users(envs, q) = IF q = d THEN {e} ELSE {}
    BY <1>3, <1>5, <1>z DEF Users
  <2> QED BY <2>1, FS_Singleton, FS_EmptySet
<1>9. DirUses(envs) \in [Pages -> Nat]
  BY <1>8 DEF DirUses
<1> DEFINE n == DirUses(envs)
<1> HIDE DEF n
<1>10. Exact(mem, n, NULL)
  <2> SUFFICES ASSUME NEW q \in Pages
               PROVE  mem.pp_ref[q] = n[q] + Cardinality(TabUses(mem, q))
                                        + Cardinality(MapUses(mem, q)) + Taken(NULL, q)
    BY DEF Exact
  <2>0. q # NULL
    BY PmapAssumption
  <2>1. TabUses(mem, q) = IF q = t THEN {<<d, PDX(va)>>} ELSE {}
    <3>1. \A x \in Pages, i \in Tables :
            mem.dir[x][i] = q <=> q = t /\ x = d /\ i = PDX(va)
      BY <1>4, <2>0
    <3> QED BY <1>n, <3>1 DEF TabUses
  <2>2. MapUses(mem, q) = IF q = p THEN {<<t, va>>} ELSE {}
    <3>1. \A x \in Pages, a \in VAs : mem.tab[x][a].page = q <=> q = p /\ x = t /\ a = va
      BY <1>4, <1>n, <1>y, <2>0
    <3> QED BY <3>1 DEF MapUses
  <2>3. Cardinality(TabUses(mem, q)) = IF q = t THEN 1 ELSE 0
    BY <2>1, FS_Singleton, FS_EmptySet
  <2>4. Cardinality(MapUses(mem, q)) = IF q = p THEN 1 ELSE 0
    BY <2>2, FS_Singleton, FS_EmptySet
  <2>5. Taken(NULL, q) = 0
    BY <2>0 DEF Taken
  <2>6. n[q] = IF q = d THEN 1 ELSE 0
    BY <1>8 DEF n
  <2> QED BY <1>2, <1>4, <2>3, <2>4, <2>5, <2>6
<1>11. Listed(mem, {})
  BY <1>4 DEF Listed
<1>12. Clean(mem, {d})
  <2>1. \A x \in Pages, i \in Tables : mem.dir[x][i] # NULL => x \in {d}
    BY <1>4
  <2>2. \A x \in Pages, a \in VAs :
          mem.tab[x][a] # NoPte => \E c \in Pages : mem.dir[c][PDX(a)] = x
    BY <1>4, <1>n
  <2> QED BY <2>1, <2>2 DEF Clean
<1>13. Apart(mem, n)
  <2>0. n[t] = 0 /\ n[p] = 0
    BY <1>2, <1>8 DEF n
  <2>1. \A x \in Pages, i \in Tables : mem.dir[x][i] # NULL => mem.dir[x][i] = t /\ x = d /\ i = PDX(va)
    BY <1>4
  <2>2. \A x \in Pages, a \in VAs : mem.tab[x][a] # NoPte => mem.tab[x][a].page = p
    BY <1>4, <1>y
  <2>3. \A x \in Pages, i \in Tables : mem.dir[x][i] # p
    BY <1>2, <1>4, <1>n
  <2>4. \A x, z \in Pages, i, j \in Tables :
          mem.dir[x][i] = mem.dir[z][j] /\ mem.dir[x][i] # NULL => x = z /\ i = j
    BY <2>1
  <2> QED BY <2>0, <2>1, <2>2, <2>3, <2>4 DEF Apart
<1>14. MemInv(mem, n, {d}, NULL, {})
  <2>1. n[d] # 0 /\ n \in [Pages -> Nat]
    BY <1>8, <1>9 DEF n
  <2> QED BY <1>m, <1>10, <1>11, <1>12, <1>13, <2>1 DEF MemInv
<1> QED BY <1>1, <1>6, <1>7, <1>14 DEF PmapInv, n

LEMMA SweptWrite ==
  ASSUME PmapInv, NEW e \in Envs, Live(e), EnvFree(e)
  PROVE  NoNewWrite(mem, mem', mem.free)
<1>0. EnvInv(envs) /\ MemInv(mem, DirUses(envs), Owned(envs), NULL, leaked) /\ mem \in Mem
  BY DEF PmapInv, MemInv
<1>1. PICK Z \in SUBSET {t \in ThreadsOf(e) : Running(t)} : mem' = EnvFreeMem(e, Z)
  BY DEF EnvFree
<1> DEFINE d == envs[e].pgdir
           k == 1 + Cardinality(ThreadsOf(e) \ Z)
<1>2. d \in Pages
  BY <1>0 DEF EnvInv, Live
<1>3. mem' = DroppedDir(IF envs[e].type = "USER" THEN Sweep(mem, d) ELSE mem, d, k)
  BY <1>1 DEF EnvFreeMem
<1> HIDE DEF d, k
<1>4. ASSUME NEW m \in Mem PROVE DroppedDir(m, d, k).tab = m.tab
  BY DEF DroppedDir, Mem
<1>5. CASE envs[e].type = "USER"
  <2>1. MemInv(Sweep(mem, d), DirUses(envs), Owned(envs) \ {d}, NULL, leaked)
          /\ IsSwept(mem, d, Sweep(mem, d))
    BY <1>0, <1>2, SweepInv
  <2>2. mem'.tab = Sweep(mem, d).tab
    BY <1>3, <1>4, <1>5, <2>1 DEF MemInv
  <2>3. \A t \in Pages, va \in VAs : mem'.tab[t][va] \in {mem.tab[t][va], NoPte}
    BY <2>1, <2>2 DEF IsSwept
  <2> QED BY <2>3, FewerWrites
<1>6. CASE envs[e].type # "USER"
  <2>1. mem'.tab = mem.tab
    BY <1>0, <1>3, <1>4, <1>6
  <2> QED BY <2>1, FewerWrites
<1> QED BY <1>5, <1>6

LEMMA DestroyStep ==
  ASSUME PmapInv, NEW cur \in Envs, NEW e \in Envs, Live(e),
         EnvDestroy(cur, e), UNCHANGED leaked
  PROVE  PmapInv' /\ NoNewWrite(mem, mem', mem.free)
<1>1. PmapInv'
  BY EnvDestroyInv
<1>2. CASE EnvFree(e)
  BY <1>1, <1>2, SweptWrite
<1>3. CASE mem' = mem
  BY <1>1, <1>3, FewerWrites
<1> QED BY <1>2, <1>3 DEF EnvDestroy

LEMMA CreateWrite ==
  ASSUME PmapInv, NEW cur \in Envs, SysExofork(cur) \/ SysThreadCreate(cur)
  PROVE  NoNewWrite(mem, mem', mem.free)
<1>0. EnvInv(envs) /\ MemInv(mem, DirUses(envs), Owned(envs), NULL, leaked) /\ mem \in Mem
  BY DEF PmapInv, MemInv
<1>r. ASSUME NEW m \in Mem, NEW p PROVE Referenced(m, p).tab = m.tab
  BY DEF Referenced, Mem
<1>1. ASSUME SysExofork(cur) PROVE mem'.tab = mem.tab
  <2>1. PICK d \in mem.free : mem' = Referenced(PageAlloc(mem, d), d)
    BY <1>1 DEF SysExofork
  <2>2. /\ PageAlloc(mem, d) = [mem EXCEPT !.free = @ \ {d}] /\ PageAlloc(mem, d) \in Mem
    BY <1>0, PageAllocated DEF MemInv
  <2>3. PageAlloc(mem, d).tab = mem.tab
    BY <1>0, <2>2 DEF Mem
  <2> QED BY <1>r, <2>1, <2>2, <2>3
<1>2. ASSUME SysThreadCreate(cur) PROVE mem'.tab = mem.tab
  <2>1. PICK d \in mem.free : mem' = ThreadMem(cur, d)
    BY <1>2 DEF SysThreadCreate
  <2>2. mem' = Referenced(mem, envs[cur].pgdir)
    BY <1>0, <2>1, ThreadDirBack DEF ThreadMem
  <2> QED BY <1>0, <1>r, <2>2
<1> QED BY <1>1, <1>2, FewerWrites

(* Every step keeps the invariant and grants no write access. *)
LEMMA StepInv ==
  ASSUME PmapInv, ProgramPerms, [Next]_vars
  PROVE  PmapInv' /\ NoNewWrite(mem, mem', mem.free)
<1>0. ASSUME mem' = mem PROVE NoNewWrite(mem, mem', mem.free)
  BY <1>0, FewerWrites
<1>1. CASE UNCHANGED vars
  BY <1>0, <1>1 DEF vars, PmapInv
<1>2. ASSUME NEW cur \in Envs, SysExofork(cur)
      PROVE  PmapInv' /\ NoNewWrite(mem, mem', mem.free)
  BY <1>2, ExoforkInv, CreateWrite
<1>3. ASSUME NEW cur \in Envs, SysThreadCreate(cur)
      PROVE  PmapInv' /\ NoNewWrite(mem, mem', mem.free)
  BY <1>3, ThreadCreateInv, CreateWrite
<1>4. ASSUME NEW cur \in Envs, NEW dstva \in VAs \cup {NULL}, SysIpcRecv(cur, dstva)
      PROVE  PmapInv' /\ NoNewWrite(mem, mem', mem.free)
  BY <1>0, <1>4, RecvInv DEF SysIpcRecv
<1>5. ASSUME NEW cur \in Envs, NEW e \in Envs, SysEnvDestroy(cur, e)
      PROVE  PmapInv' /\ NoNewWrite(mem, mem', mem.free)
  BY <1>5, DestroyStep DEF SysEnvDestroy, MayControl
<1>6. ASSUME NEW cur \in Envs, NEW e \in Envs, SysEnvSetStatus(cur, e)
      PROVE  PmapInv' /\ NoNewWrite(mem, mem', mem.free)
  BY <1>0, <1>6, SetStatusInv DEF SysEnvSetStatus
<1>7. ASSUME NEW cur \in Envs, NEW e \in Envs, SysIpcTrySend(cur, e)
      PROVE  PmapInv' /\ NoNewWrite(mem, mem', mem.free)
  BY <1>0, <1>7, DeliveredInv DEF SysIpcTrySend
<1>8. ASSUME NEW cur \in Envs, NEW e \in Envs, NEW va \in VAs, SysPageUnmap(cur, e, va)
      PROVE  PmapInv' /\ NoNewWrite(mem, mem', mem.free)
  BY <1>8, PageUnmapInv
<1>9. ASSUME NEW cur \in Envs, NEW e \in Envs, NEW va \in VAs, UserMemAssertFails(cur, e, va)
      PROVE  PmapInv' /\ NoNewWrite(mem, mem', mem.free)
  BY <1>9, DestroyStep DEF UserMemAssertFails, MayControl
<1>10. ASSUME NEW cur \in Envs, NEW e \in Envs, NEW va \in VAs, NEW perm \in Perms,
              SysPageAlloc(cur, e, va, perm)
       PROVE  PmapInv' /\ NoNewWrite(mem, mem', mem.free)
  BY <1>10, PageAllocInv
<1>11. ASSUME NEW cur \in Envs, NEW e \in Envs, NEW va \in VAs, NEW perm \in Perms,
              SysIpcTrySendPage(cur, e, va, perm)
       PROVE  PmapInv' /\ NoNewWrite(mem, mem', mem.free)
  BY <1>11, SendPageInv
<1>12. ASSUME NEW cur \in Envs, NEW e \in Envs, NEW va \in VAs, NEW perm \in Perms,
              NEW dst \in Envs, NEW dstva \in VAs, SysPageMap(cur, e, va, dst, dstva, perm)
       PROVE  PmapInv' /\ NoNewWrite(mem, mem', mem.free)
  BY <1>12, PageMapInv
<1>13. ASSUME NEW e \in Envs, Reap(e)
       PROVE  PmapInv' /\ NoNewWrite(mem, mem', mem.free)
  <2>1. Live(e) /\ EnvFree(e) /\ UNCHANGED leaked
    BY <1>13 DEF Reap, Live
  <2> QED BY <2>1, EnvFreeInv, SweptWrite
<1> QED
  BY <1>1, <1>2, <1>3, <1>4, <1>5, <1>6, <1>7, <1>8, <1>9, <1>10, <1>11, <1>12, <1>13
     DEF Next

-----------------------------------------------------------------------------
(***************************************************************************)
(* What the invariant says.                                                *)
(***************************************************************************)
LEMMA InUse ==
  ASSUME PmapInv
  PROVE  /\ \A d : d \in Dirs(envs) <=> d \in Pages /\ DirUses(envs)[d] # 0
         /\ TableUses(envs, mem) = {u \in Pages \X Tables : mem.dir[u[1]][u[2]] # NULL}
         /\ \A t : t \in TablesInUse(envs, mem) <=>
              t \in Pages /\ \E d \in Pages, i \in Tables : mem.dir[d][i] = t
         /\ Mappings(envs, mem) = {u \in Pages \X VAs : mem.tab[u[1]][u[2]] # NoPte}
<1>0. EnvInv(envs) /\ MemInv(mem, DirUses(envs), Owned(envs), NULL, leaked) /\ mem \in Mem
  BY DEF PmapInv, MemInv
<1>1. ASSUME NEW d
      PROVE  d \in Dirs(envs) <=> d \in Pages /\ DirUses(envs)[d] # 0
  <2>1. d \in Dirs(envs) <=> \E e \in Envs : envs[e].status # "FREE" /\ envs[e].pgdir = d
    BY DEF Dirs
  <2>2. d \in Dirs(envs) => d \in Pages
    BY <1>0, <2>1 DEF EnvInv
  <2>3. d \in Dirs(envs) <=> Users(envs, d) # {}
    BY <2>1 DEF Users
  <2>4. Users(envs, d) # {} <=> Cardinality(Users(envs, d)) # 0
    BY UsersFinite, FS_EmptySet
  <2>5. d \in Pages => DirUses(envs)[d] = Cardinality(Users(envs, d))
    BY DEF DirUses
  <2> QED BY <2>2, <2>3, <2>4, <2>5
<1>2. TableUses(envs, mem) = {u \in Pages \X Tables : mem.dir[u[1]][u[2]] # NULL}
  <2>1. ASSUME NEW u \in Pages \X Tables, mem.dir[u[1]][u[2]] # NULL
        PROVE  u[1] \in Dirs(envs)
    <3>1. u[1] \in Pages /\ u[2] \in Tables
      OBVIOUS
    <3>2. u[1] \in Owned(envs)
      BY <1>0, <2>1, <3>1 DEF MemInv, Clean
    <3> QED BY <1>0, <1>1, <3>2, OwnedUsed
  <2>2. Dirs(envs) \subseteq Pages
    BY <1>1
  <2>3. \A u : u \in Dirs(envs) \X Tables <=> u \in Pages \X Tables /\ u[1] \in Dirs(envs)
    BY <2>2
  <2> QED BY <2>1, <2>3 DEF TableUses
<1>3. ASSUME NEW t
      PROVE  t \in TablesInUse(envs, mem) <=>
               t \in Pages /\ \E d \in Pages, i \in Tables : mem.dir[d][i] = t
  <2>1. t \in TablesInUse(envs, mem) <=> \E u \in TableUses(envs, mem) : t = mem.dir[u[1]][u[2]]
    BY DEF TablesInUse
  <2>2. ASSUME NEW u \in TableUses(envs, mem)
        PROVE  /\ u[1] \in Pages /\ u[2] \in Tables /\ mem.dir[u[1]][u[2]] \in Pages
    BY <1>0, <1>2, MemFields
  <2>3. ASSUME NEW d \in Pages, NEW i \in Tables, mem.dir[d][i] = t, t \in Pages
        PROVE  \E u \in TableUses(envs, mem) : t = mem.dir[u[1]][u[2]]
    <3>1. t # NULL
      BY <2>3, PmapAssumption
    <3>2. <<d, i>> \in TableUses(envs, mem)
      BY <1>2, <2>3, <3>1
    <3>3. <<d, i>>[1] = d /\ <<d, i>>[2] = i
      OBVIOUS
    <3> QED BY <2>3, <3>2, <3>3
  <2> QED BY <2>1, <2>2, <2>3
<1>4. Mappings(envs, mem) = {u \in Pages \X VAs : mem.tab[u[1]][u[2]] # NoPte}
  <2>1. ASSUME NEW u \in Pages \X VAs, mem.tab[u[1]][u[2]] # NoPte
        PROVE  u[1] \in TablesInUse(envs, mem)
    <3>1. u[1] \in Pages /\ u[2] \in VAs
      OBVIOUS
    <3>2. PICK d \in Pages : mem.dir[d][PDX(u[2])] = u[1]
      BY <1>0, <2>1, <3>1 DEF MemInv, Clean
    <3>3. PDX(u[2]) \in Tables
      BY <3>1, TableIndex
    <3> QED BY <1>3, <3>1, <3>2, <3>3
  <2>2. TablesInUse(envs, mem) \subseteq Pages
    BY <1>3
  <2>3. \A u : u \in TablesInUse(envs, mem) \X VAs <=>
                 u \in Pages \X VAs /\ u[1] \in TablesInUse(envs, mem)
    BY <2>2
  <2> QED BY <2>1, <2>3 DEF Mappings
<1> QED BY <1>1, <1>2, <1>3, <1>4

LEMMA Accounted == PmapInv => PagesAccountedFor
<1> SUFFICES ASSUME PmapInv PROVE PagesAccountedFor
  OBVIOUS
<1>0. EnvInv(envs) /\ MemInv(mem, DirUses(envs), Owned(envs), NULL, leaked) /\ mem \in Mem
  BY DEF PmapInv, MemInv
<1>1. TypeOK
  BY <1>0 DEF TypeOK, EnvInv, MemInv
<1>2. RefsExact
  <2> SUFFICES ASSUME NEW p \in Pages PROVE mem.pp_ref[p] = Uses(p)
    BY DEF RefsExact
  <2>0. p # NULL /\ NoPte.page # p
    BY PmapAssumption DEF NoPte
  <2>1. {e \in Envs : Live(e) /\ envs[e].pgdir = p} = Users(envs, p)
    BY DEF Users, Live
  <2>2. {u \in TableUses(envs, mem) : mem.dir[u[1]][u[2]] = p} = TabUses(mem, p)
    BY <2>0, InUse DEF TabUses
  <2>3. {u \in Mappings(envs, mem) : mem.tab[u[1]][u[2]].page = p} = MapUses(mem, p)
    BY <2>0, InUse DEF MapUses
  <2>4. Uses(p) = Cardinality(Users(envs, p)) + Cardinality(TabUses(mem, p))
                    + Cardinality(MapUses(mem, p))
    BY <2>1, <2>2, <2>3 DEF Uses
  <2>5. mem.pp_ref[p] = Cardinality(Users(envs, p)) + Cardinality(TabUses(mem, p))
                          + Cardinality(MapUses(mem, p)) + 0
    BY <1>0, <2>0 DEF MemInv, Exact, DirUses, Taken
  <2>6. /\ Cardinality(Users(envs, p)) \in Nat /\ Cardinality(TabUses(mem, p)) \in Nat
        /\ Cardinality(MapUses(mem, p)) \in Nat
    BY UsersFinite, UsesFinite
  <2> QED BY <2>4, <2>5, <2>6
<1>3. {p \in Pages : mem.pp_ref[p] = 0} = mem.free \cup leaked
  <2>1. mem.free \cup leaked \subseteq Pages
    BY <1>0, MemFields DEF MemInv
  <2> QED BY <1>0, <2>1 DEF MemInv, Listed
<1>4. mem.free \cap leaked = {}
  BY <1>0 DEF MemInv, Listed
<1> QED BY <1>1, <1>2, <1>3, <1>4 DEF PagesAccountedFor

LEMMA Private == PmapInv => KernelPagesPrivate
<1> SUFFICES ASSUME PmapInv PROVE KernelPagesPrivate
  OBVIOUS
<1>0. EnvInv(envs) /\ MemInv(mem, DirUses(envs), Owned(envs), NULL, leaked) /\ mem \in Mem
  BY DEF PmapInv, MemInv
<1> DEFINE user == {mem.tab[u[1]][u[2]].page : u \in Mappings(envs, mem)}
<1>1. user \cap (Dirs(envs) \cup TablesInUse(envs, mem)) = {}
  <2> SUFFICES ASSUME NEW u \in Mappings(envs, mem)
               PROVE  /\ mem.tab[u[1]][u[2]].page \notin Dirs(envs)
                      /\ mem.tab[u[1]][u[2]].page \notin TablesInUse(envs, mem)
    OBVIOUS
  <2>1. u[1] \in Pages /\ u[2] \in VAs /\ mem.tab[u[1]][u[2]] # NoPte
    BY InUse
  <2>2. DirUses(envs)[mem.tab[u[1]][u[2]].page] = 0
    BY <1>0, <2>1 DEF MemInv, Apart
  <2>3. \A d \in Pages, i \in Tables : mem.dir[d][i] # mem.tab[u[1]][u[2]].page
    BY <1>0, <2>1 DEF MemInv, Apart
  <2> QED BY <2>2, <2>3, InUse
<1>2. Dirs(envs) \cap TablesInUse(envs, mem) = {}
  <2> SUFFICES ASSUME NEW t \in TablesInUse(envs, mem) PROVE t \notin Dirs(envs)
    OBVIOUS
  <2>1. PICK d \in Pages, i \in Tables : mem.dir[d][i] = t
    BY InUse
  <2>2. t # NULL
    BY InUse, PmapAssumption
  <2>3. DirUses(envs)[t] = 0
    BY <1>0, <2>1, <2>2 DEF MemInv, Apart
  <2> QED BY <2>3, InUse
<1>3. ASSUME NEW u \in TableUses(envs, mem), NEW v \in TableUses(envs, mem),
             mem.dir[u[1]][u[2]] = mem.dir[v[1]][v[2]]
      PROVE  u = v
  <2>1. /\ u \in Pages \X Tables /\ v \in Pages \X Tables /\ mem.dir[u[1]][u[2]] # NULL
    BY InUse
  <2>2. u[1] = v[1] /\ u[2] = v[2]
    BY <1>0, <1>3, <2>1 DEF MemInv, Apart
  <2> QED BY <2>1, <2>2
<1> QED BY <1>1, <1>2, <1>3 DEF KernelPagesPrivate

LEMMA WritableOf ==
  ASSUME PmapInv, NEW p
  PROVE  p \in Writable(envs, mem) <=>
           \E t \in Pages, va \in VAs :
             mem.tab[t][va] # NoPte /\ mem.tab[t][va].w /\ mem.tab[t][va].page = p
<1>1. p \in Writable(envs, mem) <=>
        \E u \in Mappings(envs, mem) : mem.tab[u[1]][u[2]].w /\ mem.tab[u[1]][u[2]].page = p
  BY DEF Writable
<1>2. ASSUME NEW u \in Mappings(envs, mem)
      PROVE  u[1] \in Pages /\ u[2] \in VAs /\ mem.tab[u[1]][u[2]] # NoPte
  BY InUse
<1>3. ASSUME NEW t \in Pages, NEW va \in VAs, mem.tab[t][va] # NoPte
      PROVE  <<t, va>> \in Mappings(envs, mem) /\ <<t, va>>[1] = t /\ <<t, va>>[2] = va
  BY <1>3, InUse
<1>4. ASSUME NEW t \in Pages, NEW va \in VAs,
             mem.tab[t][va] # NoPte, mem.tab[t][va].w, mem.tab[t][va].page = p
      PROVE  \E u \in Mappings(envs, mem) : mem.tab[u[1]][u[2]].w /\ mem.tab[u[1]][u[2]].page = p
  <2>1. <<t, va>> \in Mappings(envs, mem) /\ <<t, va>>[1] = t /\ <<t, va>>[2] = va
    BY <1>3, <1>4
  <2> QED BY <1>4, <2>1
<1> QED BY <1>1, <1>2, <1>4

(* What is writable can be read off the page tables. *)
WritableEntries ==
  \A p : p \in Writable(envs, mem) <=>
    \E t \in Pages, va \in VAs :
      mem.tab[t][va] # NoPte /\ mem.tab[t][va].w /\ mem.tab[t][va].page = p

(* The inductive invariant: pp_ref is exact page by page, directories,     *)
(* tables and program pages are apart, and only zombies outlive a process, *)
(* while every perm is made of flags (sys_page_map() does not check it).   *)
THEOREM PmapInvariant ==
  ASSUME ProgramPerms
  PROVE  Spec => []PmapInv
<1>1. PmapInv /\ [Next]_vars => PmapInv'
  BY StepInv
<1> QED BY <1>1, InitInv, PTL DEF Spec

(* Reference counts are exact and every page is free, in use or known to   *)
(* be lost, for any number of environments, pages and addresses, if no     *)
(* program calls sys_page_map() with an address in perm.                   *)
THEOREM PagesAccountedForHolds ==
  ASSUME ProgramPerms
  PROVE  Spec => []PagesAccountedFor
BY PmapInvariant, Accounted, PTL

(* Page directories and page tables are never mapped by a program, and no  *)
(* two directories share a page table, if no program calls sys_page_map()  *)
(* with an address in perm: the entry would refer to any page.             *)
THEOREM KernelPagesPrivateHolds ==
  ASSUME ProgramPerms
  PROVE  Spec => []KernelPagesPrivate
BY PmapInvariant, Private, PTL

(* No system call makes a page writable that nobody could write, but for a *)
(* page that was on the free list.  The check of PTE_W in sys_page_map()   *)
(* is enough only if no program passes an address in perm with it.         *)
THEOREM WriteIsNotGrantedHolds ==
  ASSUME ProgramPerms
  PROVE  Spec => WriteIsNotGranted
<1>0. PmapInv => WritableEntries
  BY WritableOf DEF WritableEntries
<1>1. PmapInv' => WritableEntries'
  BY <1>0, PTL
<1>2. PmapInv /\ [Next]_vars =>
        [Writable(envs', mem') \subseteq Writable(envs, mem) \cup mem.free]_vars
  <2> SUFFICES ASSUME PmapInv, [Next]_vars
               PROVE  Writable(envs', mem') \subseteq Writable(envs, mem) \cup mem.free
    OBVIOUS
  <2>1. PmapInv' /\ NoNewWrite(mem, mem', mem.free)
    BY StepInv
  <2>2. WritableEntries /\ WritableEntries'
    BY <1>0, <1>1, <2>1
  <2>3. ASSUME NEW p \in Writable(envs', mem')
        PROVE  p \in Writable(envs, mem) \cup mem.free
    <3>1. PICK t \in Pages, va \in VAs :
            mem'.tab[t][va] # NoPte /\ mem'.tab[t][va].w /\ mem'.tab[t][va].page = p
      BY <2>2, <2>3 DEF WritableEntries
    <3> QED BY <2>1, <2>2, <3>1 DEF NoNewWrite, WritableEntries
  <2> QED BY <2>3
<1> QED BY <1>2, PmapInvariant, PTL DEF Spec, WriteIsNotGranted

(* A process keeps every mapping when one of its threads goes, under the   *)
(* same hypothesis, which the invariant needs.                             *)
THEOREM ThreadExitKeepsMemoryHolds ==
  ASSUME ProgramPerms
  PROVE  Spec => ThreadExitKeepsMemory
<1> DEFINE A == \A e, t \in Envs :
                  /\ envs[e].type = "USER" /\ Live(e) /\ envs'[e].status # "FREE"
                  /\ Live(t) /\ envs'[t].status = "FREE"
                  /\ envs[t].pgdir = envs[e].pgdir
                  => \A va \in VAs : PteAt(mem', envs'[e].pgdir, va)
                                        = PteAt(mem, envs[e].pgdir, va)
<1>1. ASSUME PmapInv, Next PROVE A
  <2> SUFFICES ASSUME NEW e \in Envs, NEW t \in Envs,
                      envs[e].type = "USER", Live(e), envs'[e].status # "FREE",
                      Live(t), envs'[t].status = "FREE",
                      envs[t].pgdir = envs[e].pgdir,
                      NEW va \in VAs
               PROVE  PteAt(mem', envs'[e].pgdir, va) = PteAt(mem, envs[e].pgdir, va)
    OBVIOUS
  <2>0. EnvInv(envs) /\ mem \in Mem
    BY <1>1 DEF PmapInv, MemInv
  <2>1. PICK x \in Envs : EnvFree(x) /\ Live(x)
    <3>0. envs \in [Envs -> Env] /\ envs[t].status # "FREE"
      BY <2>0 DEF EnvInv, Live
    <3>1. ASSUME NEW y \in Envs, NEW r, r.status # "FREE", envs' = [envs EXCEPT ![y] = r]
          PROVE  FALSE
      BY <3>0, <3>1
    <3>2. ASSUME NEW y \in Envs, NEW s, s # "FREE", envs' = [envs EXCEPT ![y].status = s]
          PROVE  FALSE
      BY <3>0, <3>2 DEF Env
    <3>3. ASSUME envs' = envs PROVE FALSE
      BY <3>0, <3>3
    <3>4. ASSUME NEW cur \in Envs, NEW y \in Envs, EnvDestroy(cur, y) PROVE EnvFree(y)
      BY <3>2, <3>4 DEF EnvDestroy
    <3>5. ASSUME NEW y \in Envs, Delivered(y) PROVE FALSE
      BY <3>0, <3>5 DEF Delivered, Env
    <3>6. ASSUME NEW cur \in Envs, SysExofork(cur) PROVE FALSE
      BY <3>0, <3>6 DEF SysExofork, NoEnv, Env
    <3>7. ASSUME NEW cur \in Envs, SysThreadCreate(cur) PROVE FALSE
      BY <3>0, <3>7 DEF SysThreadCreate, NoEnv, Env
    <3>8. ASSUME NEW cur \in Envs, NEW dstva \in VAs \cup {NULL}, SysIpcRecv(cur, dstva)
          PROVE  FALSE
      BY <3>0, <3>8 DEF SysIpcRecv, Env
    <3>9. ASSUME NEW cur \in Envs, NEW y \in Envs, SysEnvSetStatus(cur, y) PROVE FALSE
      BY <3>2, <3>9 DEF SysEnvSetStatus
    <3>10. ASSUME NEW cur \in Envs, NEW y \in Envs, SysIpcTrySend(cur, y) PROVE FALSE
      BY <3>5, <3>10 DEF SysIpcTrySend
    <3>11. ASSUME NEW cur \in Envs, NEW y \in Envs, NEW a \in VAs, SysPageUnmap(cur, y, a)
           PROVE  FALSE
      BY <3>3, <3>11 DEF SysPageUnmap
    <3>12. ASSUME NEW cur \in Envs, NEW y \in Envs, NEW a \in VAs, NEW perm \in Perms,
                  SysPageAlloc(cur, y, a, perm)
           PROVE  FALSE
      BY <3>3, <3>12 DEF SysPageAlloc
    <3>13. ASSUME NEW cur \in Envs, NEW y \in Envs, NEW a \in VAs, NEW perm \in Perms,
                  SysIpcTrySendPage(cur, y, a, perm)
           PROVE  FALSE
      BY <3>3, <3>5, <3>13 DEF SysIpcTrySendPage
    <3>14. ASSUME NEW cur \in Envs, NEW y \in Envs, NEW a \in VAs, NEW perm \in Perms,
                  NEW dst \in Envs, NEW dstva \in VAs, SysPageMap(cur, y, a, dst, dstva, perm)
           PROVE  FALSE
      BY <3>3, <3>14 DEF SysPageMap
    <3>15. ASSUME NEW cur \in Envs, NEW y \in Envs, SysEnvDestroy(cur, y)
           PROVE  EnvFree(y) /\ Live(y)
      BY <3>4, <3>15 DEF SysEnvDestroy, MayControl
    <3>16. ASSUME NEW cur \in Envs, NEW y \in Envs, NEW a \in VAs, UserMemAssertFails(cur, y, a)
           PROVE  EnvFree(y) /\ Live(y)
      BY <3>4, <3>16 DEF UserMemAssertFails, MayControl
    <3>17. ASSUME NEW y \in Envs, Reap(y) PROVE EnvFree(y) /\ Live(y)
      BY <3>17 DEF Reap, Live
    <3> QED
      BY <1>1, <3>6, <3>7, <3>8, <3>9, <3>10, <3>11, <3>12, <3>13, <3>14, <3>15, <3>16, <3>17
         DEF Next
  <2>2. PICK Z \in SUBSET {y \in ThreadsOf(x) : Running(y)} :
          mem' = EnvFreeMem(x, Z) /\ envs' = Freed(x, Z)
    BY <2>1 DEF EnvFree, Freed, Gone
  <2>3. e \notin Gone(x, Z) /\ envs'[e].pgdir = envs[e].pgdir
    <3>1. e \in Gone(x, Z) => envs'[e].status = "FREE"
      BY <2>0, <2>2, FreedFields DEF NoEnv
    <3> QED BY <2>0, <2>2, <3>1, FreedFields
  <2>4. t \in Gone(x, Z)
    <3>1. t \notin Gone(x, Z) => envs'[t].status = IF t \in Z THEN "DYING" ELSE envs[t].status
      BY <2>0, <2>2, FreedFields
    <3> QED BY <3>1 DEF Live
  <2>5. envs[x].type # "USER"
    <3> SUFFICES ASSUME envs[x].type = "USER" PROVE FALSE
      OBVIOUS
    <3>1. envs[t].pgdir = envs[x].pgdir
      <4>1. CASE t = x
        BY <4>1
      <4>2. CASE t \in ThreadsOf(x)
        <5>1. /\ envs[t].status # "FREE" /\ envs[t].type = "THREAD" /\ envs[t].parent = x
          BY <4>2 DEF ThreadsOf, Live
        <5>2. x # NULL
          BY PmapAssumption
        <5> QED BY <2>0, <5>1, <5>2 DEF EnvInv
      <4> QED BY <2>4, <4>1, <4>2 DEF Gone
    <3>2. Process(envs, x) /\ Process(envs, e) /\ envs[x].pgdir = envs[e].pgdir
      BY <2>1, <3>1 DEF Process, Live
    <3>3. x = e
      BY <2>0, <3>2 DEF EnvInv
    <3> QED BY <2>3, <3>3 DEF Gone
  <2>6. mem'.dir = mem.dir /\ mem'.tab = mem.tab
    <3>1. mem' = DroppedDir(mem, envs[x].pgdir, 1 + Cardinality(ThreadsOf(x) \ Z))
      BY <2>2, <2>5 DEF EnvFreeMem
    <3> QED BY <2>0, <3>1 DEF DroppedDir, Mem
  <2> QED BY <2>3, <2>6 DEF PteAt, TableOf
<1>2. PmapInv /\ [Next]_vars => [A]_vars
  BY <1>1
<1> QED BY <1>2, PmapInvariant, PTL DEF Spec, ThreadExitKeepsMemory
=============================================================================
