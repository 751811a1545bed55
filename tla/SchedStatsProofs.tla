-------------------------- MODULE SchedStatsProofs --------------------------
(***************************************************************************)
(* Proofs about SchedStats, for any number of slots, generations,          *)
(* priorities, decisions and ticks and any length of the history.          *)
(***************************************************************************)
EXTENDS SchedStats, FiniteSetTheorems, TLAPS

-----------------------------------------------------------------------------
(***************************************************************************)
(* Totals of tables of counters.                                           *)
(***************************************************************************)
LEMMA UnitsMember ==
  ASSUME NEW D, NEW g \in [D -> Nat], NEW u
  PROVE  u \in Units(g) <=>
           \E x \in D, i \in Nat : u = <<x, i>> /\ 1 <= i /\ i <= g[x]
<1>1. u \in Units(g) <=> \E x \in D : u \in {x} \X (1 .. g[x])
  BY DEF Units
<1>2. ASSUME NEW x \in D
      PROVE  u \in {x} \X (1 .. g[x]) <=>
               \E i \in Nat : u = <<x, i>> /\ 1 <= i /\ i <= g[x]
  <2>1. g[x] \in Nat
    OBVIOUS
  <2>2. \A i : i \in 1 .. g[x] <=> i \in Nat /\ 1 <= i /\ i <= g[x]
    BY <2>1
  <2>3. u \in {x} \X (1 .. g[x]) <=> \E i \in 1 .. g[x] : u = <<x, i>>
    OBVIOUS
  <2> QED BY <2>2, <2>3
<1> QED BY <1>1, <1>2

LEMMA UnitsPair ==
  ASSUME NEW D, NEW g \in [D -> Nat], NEW x, NEW i
  PROVE  <<x, i>> \in Units(g) <=>
           x \in D /\ i \in Nat /\ 1 <= i /\ i <= g[x]
  BY UnitsMember

LEMMA UnitsFinite ==
  ASSUME NEW D, IsFiniteSet(D), NEW g \in [D -> Nat]
  PROVE  IsFiniteSet(Units(g))
<1> DEFINE B(x) == {x} \X (1 .. g[x])
           F == {B(x) : x \in D}
           f == [x \in D |-> B(x)]
<1>1. IsFiniteSet(F)
  <2>1. f \in Surjection(D, F)
    BY DEF Surjection
  <2> QED BY <2>1, FS_Surjection
<1>2. ASSUME NEW T \in F PROVE IsFiniteSet(T)
  <2>1. PICK x \in D : T = B(x)
    OBVIOUS
  <2> DEFINE a == {x}
             b == 1 .. g[x]
  <2>2. IsFiniteSet(a)
    BY FS_Singleton
  <2>3. 1 \in Int /\ g[x] \in Int
    OBVIOUS
  <2>4. IsFiniteSet(b)
    BY <2>3, FS_Interval
  <2> HIDE DEF a, b
  <2>5. IsFiniteSet(a \X b)
    BY <2>2, <2>4, FS_Product
  <2> QED BY <2>1, <2>5 DEF a, b
<1>3. Units(g) = UNION F
  BY DEF Units
<1> HIDE DEF F
<1> QED BY <1>1, <1>2, <1>3, FS_UNION

LEMMA TotalNat ==
  ASSUME NEW D, IsFiniteSet(D), NEW g \in [D -> Nat]
  PROVE  Total(g) \in Nat
  BY UnitsFinite, FS_CardinalityType DEF Total

(* One counter goes up by one. *)
Plus(g, x) == [g EXCEPT ![x] = @ + 1]

LEMMA PlusIs ==
  ASSUME NEW D, NEW g \in [D -> Nat], NEW x \in D
  PROVE  /\ Plus(g, x) \in [D -> Nat]
         /\ Plus(g, x)[x] = g[x] + 1
         /\ \A y \in D : y # x => Plus(g, x)[y] = g[y]
  BY DEF Plus

LEMMA TotalPlus ==
  ASSUME NEW D, IsFiniteSet(D), NEW g \in [D -> Nat], NEW x \in D
  PROVE  Total(Plus(g, x)) = Total(g) + 1
<1> DEFINE h == Plus(g, x)
           n == <<x, g[x] + 1>>
<1>1. /\ h \in [D -> Nat] /\ h[x] = g[x] + 1 /\ g[x] \in Nat
      /\ \A y \in D : y # x => h[y] = g[y]
  BY PlusIs
<1> HIDE DEF h
<1>2. n \notin Units(g)
  BY <1>1, UnitsPair
<1>3. ASSUME NEW u PROVE u \in Units(h) <=> u \in Units(g) \cup {n}
  <2>1. ASSUME NEW y \in D, NEW i \in Nat
        PROVE  <<y, i>> \in Units(h) <=> <<y, i>> \in Units(g) \/ <<y, i>> = n
    <3>1. <<y, i>> \in Units(h) <=> 1 <= i /\ i <= h[y]
      BY <1>1, UnitsPair
    <3>2. <<y, i>> \in Units(g) <=> 1 <= i /\ i <= g[y]
      BY UnitsPair
    <3>3. <<y, i>> = n <=> y = x /\ i = g[x] + 1
      OBVIOUS
    <3> QED BY <1>1, <3>1, <3>2, <3>3
  <2>2. u \in Units(h) => \E y \in D, i \in Nat : u = <<y, i>>
    BY <1>1, UnitsMember
  <2>3. u \in Units(g) => \E y \in D, i \in Nat : u = <<y, i>>
    BY UnitsMember
  <2>4. u = n => \E y \in D, i \in Nat : u = <<y, i>>
    BY <1>1
  <2> QED BY <2>1, <2>2, <2>3, <2>4
<1>4. Units(h) = Units(g) \cup {n}
  BY <1>3
<1>5. IsFiniteSet(Units(g))
  BY UnitsFinite
<1>6. Cardinality(Units(h)) = Cardinality(Units(g)) + 1
  BY <1>2, <1>4, <1>5, FS_AddElement
<1> QED BY <1>6 DEF Total, h

-----------------------------------------------------------------------------
(***************************************************************************)
(* The entries of the table, and what they charge each environment.        *)
(***************************************************************************)
Stat == [env_id : Ids \cup {NoId}, runs : Nat, cputicks : Nat]

(* At most one entry for each environment, and none of an unused slot      *)
(* charges anything.                                                       *)
Distinct(E) ==
  /\ E \subseteq Stat
  /\ \A e, f \in E : e.env_id = f.env_id /\ e.env_id # NoId => e = f
  /\ \A e \in E : e.env_id = NoId => e.cputicks = 0

Charged(E) ==
  [id \in Ids |-> IF \E e \in E : e.env_id = id
                  THEN (CHOOSE e \in E : e.env_id = id).cputicks
                  ELSE 0]

LEMMA NoIdNotId == NoId \notin Ids
  BY StatsAssumption DEF NoId, Ids, Slots

LEMMA IdsFinite == IsFiniteSet(Ids)
<1>1. IsFiniteSet(Slots) /\ IsFiniteSet(1 .. MaxGen)
  BY StatsAssumption, FS_Interval DEF Slots
<1> DEFINE g == 1 .. MaxGen
<1> HIDE DEF g
<1>2. IsFiniteSet(Slots \X g)
  BY <1>1, FS_Product DEF g
<1> QED BY <1>2 DEF Ids, g

LEMMA PrioritiesFinite == IsFiniteSet(Priorities)
  BY StatsAssumption, FS_Interval DEF Priorities

LEMMA ChargedIs ==
  ASSUME NEW E, Distinct(E), NEW e \in E, e.env_id \in Ids
  PROVE  Charged(E)[e.env_id] = e.cputicks
<1> DEFINE c == CHOOSE f \in E : f.env_id = e.env_id
<1>1. c \in E /\ c.env_id = e.env_id
  OBVIOUS
<1> HIDE DEF c
<1>2. c = e
  BY <1>1, NoIdNotId DEF Distinct
<1>3. Charged(E)[e.env_id] = c.cputicks
  BY DEF Charged, c
<1> QED BY <1>2, <1>3

LEMMA ChargedNone ==
  ASSUME NEW E, NEW id \in Ids, \A e \in E : e.env_id # id
  PROVE  Charged(E)[id] = 0
  BY DEF Charged

LEMMA ChargedType ==
  ASSUME NEW E, Distinct(E)
  PROVE  Charged(E) \in [Ids -> Nat]
<1>1. ASSUME NEW id \in Ids PROVE Charged(E)[id] \in Nat
  <2>1. CASE \E e \in E : e.env_id = id
    <3>1. PICK e \in E : e.env_id = id
      BY <2>1
    <3>2. e.cputicks \in Nat
      BY DEF Distinct, Stat
    <3> QED BY <3>1, <3>2, ChargedIs
  <2>2. CASE \A e \in E : e.env_id # id
    BY <2>2, ChargedNone
  <2> QED BY <2>1, <2>2
<1> QED BY <1>1 DEF Charged

(* The entries and what they charge have the same total. *)
LEMMA EntriesTotal ==
  ASSUME NEW E, Distinct(E)
  PROVE  Total([e \in E |-> e.cputicks]) = Total(Charged(E))
<1> DEFINE g == [e \in E |-> e.cputicks]
           h == Charged(E)
           S == Units(g)
           T == Units(h)
           f == [u \in S |-> <<u[1].env_id, u[2]>>]
<1>1. g \in [E -> Nat] /\ \A e \in E : g[e] = e.cputicks
  BY DEF Distinct, Stat
<1>2. h \in [Ids -> Nat]
  BY ChargedType
<1>3. \A e \in E : e.env_id \in Ids \cup {NoId}
  BY DEF Distinct, Stat
<1>4. \A e \in E : e.env_id \in Ids => h[e.env_id] = e.cputicks
  BY ChargedIs
<1>5. \A id \in Ids : (\A e \in E : e.env_id # id) => h[id] = 0
  BY ChargedNone
<1> HIDE DEF g, h
<1>6. ASSUME NEW u \in S
      PROVE  /\ u[1] \in E /\ u[1].env_id \in Ids /\ u[2] \in Nat
             /\ u = <<u[1], u[2]>>
             /\ <<u[1].env_id, u[2]>> \in T
  <2>1. PICK e \in E, i \in Nat : u = <<e, i>> /\ 1 <= i /\ i <= g[e]
    BY <1>1, UnitsMember
  <2>2. e.cputicks \in Nat /\ e.cputicks # 0
    BY <1>1, <2>1
  <2>3. e.env_id \in Ids
    BY <1>3, <2>2 DEF Distinct
  <2>4. i <= h[e.env_id]
    BY <1>1, <1>4, <2>1, <2>3
  <2>5. <<e.env_id, i>> \in T
    BY <1>2, <2>1, <2>3, <2>4, UnitsPair
  <2> QED BY <2>1, <2>3, <2>5
<1>7. ASSUME NEW t \in T PROVE \E u \in S : f[u] = t
  <2>1. PICK id \in Ids, i \in Nat : t = <<id, i>> /\ 1 <= i /\ i <= h[id]
    BY <1>2, UnitsMember
  <2>2. PICK e \in E : e.env_id = id
    BY <1>5, <2>1
  <2>3. i <= g[e]
    BY <1>1, <1>4, <2>1, <2>2
  <2>4. <<e, i>> \in S
    BY <1>1, <2>1, <2>3, UnitsPair
  <2>5. f[<<e, i>>] = t
    BY <2>1, <2>2, <2>4
  <2> QED BY <2>4, <2>5
<1>8. ASSUME NEW u \in S, NEW v \in S, f[u] = f[v] PROVE u = v
  <2>1. u[1].env_id = v[1].env_id /\ u[2] = v[2]
    BY <1>8
  <2>2. u[1] = v[1]
    BY <1>6, <2>1, NoIdNotId DEF Distinct
  <2>3. u = <<u[1], u[2]>> /\ v = <<v[1], v[2]>>
    BY <1>6
  <2> QED BY <2>1, <2>2, <2>3
<1>9. f \in [S -> T]
  BY <1>6
<1> HIDE DEF f, S, T
<1>10. f \in Injection(S, T) /\ f \in Surjection(S, T)
  BY <1>7, <1>8, <1>9 DEF Injection, Surjection, IsInjective
<1>11. IsFiniteSet(T)
  BY <1>2, UnitsFinite, IdsFinite DEF T
<1>12. Cardinality(S) = Cardinality(T)
  BY <1>10, <1>11, FS_Injection
<1> QED BY <1>12 DEF Total, S, T, g, h

-----------------------------------------------------------------------------
(***************************************************************************)
(* sched_account_cputicks() and the entries it leaves, for any value of    *)
(* the counters.                                                           *)
(***************************************************************************)
Running == [id : Ids \cup {NoId}, prio : Priorities, since : Nat]

DeltaOf(run, now) == IF run.id = NoId THEN 0 ELSE now - run.since

StatsAt(st, run, now) ==
  [s \in Slots |->
     IF run.id # NoId /\ s = Slot(run.id)
     THEN [st[s] EXCEPT !.cputicks = @ + DeltaOf(run, now)]
     ELSE st[s]]

PriosAt(pt, run, now) == [pt EXCEPT ![run.prio] = @ + DeltaOf(run, now)]

EntriesAt(st, run, pr, now) == {StatsAt(st, run, now)[s] : s \in Slots} \cup pr

LEMMA AtTicks ==
  /\ \A now : AccountedStats(now) = StatsAt(sched_env_stats, sched_running, now)
  /\ \A now : AccountedPrios(now) = PriosAt(sched_prio_ticks, sched_running, now)
  /\ Entries = EntriesAt(sched_env_stats, sched_running, printed, ticks)
  BY DEF AccountedStats, AccountedPrios, Entries, Delta, StatsAt, PriosAt,
         EntriesAt, DeltaOf

(***************************************************************************)
(* The counters of the slots.  A slot's entry is of an environment that    *)
(* has it or had it, and what was printed for the slot is older; the       *)
(* environment that is charged still has the entry of its slot.            *)
(***************************************************************************)
EnvsType(es) == es \in [Slots -> [gen : 1 .. MaxGen, priority : Priorities]]

SlotEntry(e, s, gen) ==
  IF e.env_id = NoId THEN e.cputicks = 0
  ELSE e.env_id[1] = s /\ e.env_id[2] <= gen /\ e.runs > 0

Slotted(es, st) ==
  /\ st \in [Slots -> Stat]
  /\ \A s \in Slots : SlotEntry(st[s], s, es[s].gen)

OlderEntry(st, e) ==
  /\ e.env_id \in Ids
  /\ st[e.env_id[1]].env_id \in Ids
  /\ e.env_id[2] < st[e.env_id[1]].env_id[2]

Printouts(st, pr) ==
  /\ pr \subseteq Stat
  /\ \A e \in pr : OlderEntry(st, e)
  /\ \A e, f \in pr : e.env_id = f.env_id => e = f

Charges(st, run) ==
  /\ run \in Running
  /\ run.id # NoId => st[Slot(run.id)].env_id = run.id

Book(es, st, run, pr, now) ==
  /\ EnvsType(es)
  /\ Slotted(es, st)
  /\ Printouts(st, pr)
  /\ Charges(st, run)
  /\ now \in Nat /\ run.since <= now

LEMMA IdParts ==
  ASSUME NEW id \in Ids
  PROVE  /\ id = <<id[1], id[2]>> /\ id[1] \in Slots /\ id[2] \in 1 .. MaxGen
         /\ id[2] \in Nat /\ id # NoId
  BY NoIdNotId, StatsAssumption DEF Ids

(* What accounting does to the entry of a slot. *)
LEMMA StatsAtIs ==
  ASSUME NEW es, NEW st, NEW run, NEW pr, NEW now, Book(es, st, run, pr, now),
         NEW s \in Slots
  PROVE  LET e == StatsAt(st, run, now)[s]
         IN  /\ e \in Stat
             /\ e.env_id = st[s].env_id /\ e.runs = st[s].runs
             /\ e.cputicks = IF run.id # NoId /\ s = run.id[1]
                             THEN st[s].cputicks + (now - run.since)
                             ELSE st[s].cputicks
             /\ SlotEntry(e, s, es[s].gen)
<1> DEFINE e == StatsAt(st, run, now)[s]
<1>1. st[s] \in Stat /\ run \in Running /\ SlotEntry(st[s], s, es[s].gen)
  BY DEF Book, Slotted, Charges
<1>2. e = IF run.id # NoId /\ s = run.id[1]
          THEN [st[s] EXCEPT !.cputicks = @ + DeltaOf(run, now)]
          ELSE st[s]
  BY DEF StatsAt, Slot
<1>3. run.id # NoId => DeltaOf(run, now) = now - run.since /\ now - run.since \in Nat
  BY <1>1 DEF DeltaOf, Book, Running
<1> HIDE DEF e
<1>4. /\ e \in Stat
      /\ e.env_id = st[s].env_id /\ e.runs = st[s].runs
      /\ e.cputicks = IF run.id # NoId /\ s = run.id[1]
                      THEN st[s].cputicks + (now - run.since)
                      ELSE st[s].cputicks
  BY <1>1, <1>2, <1>3 DEF Stat
<1>5. run.id # NoId /\ s = run.id[1] => st[s].env_id = run.id
  BY DEF Book, Charges, Slot
<1>6. SlotEntry(e, s, es[s].gen)
  BY <1>1, <1>4, <1>5 DEF SlotEntry
<1> QED BY <1>4, <1>6 DEF e

LEMMA EntriesDistinct ==
  ASSUME NEW es, NEW st, NEW run, NEW pr, NEW now, Book(es, st, run, pr, now)
  PROVE  Distinct(EntriesAt(st, run, pr, now))
<1> DEFINE E == EntriesAt(st, run, pr, now)
           A(s) == StatsAt(st, run, now)[s]
<1>1. \A s \in Slots : /\ A(s) \in Stat
                       /\ A(s).env_id = st[s].env_id
                       /\ SlotEntry(A(s), s, es[s].gen)
  BY StatsAtIs
<1>2. E = {A(s) : s \in Slots} \cup pr
  BY DEF EntriesAt
<1> HIDE DEF A, E
<1>3. pr \subseteq Stat /\ \A e \in pr : OlderEntry(st, e)
  BY DEF Book, Printouts
<1>4. \A s \in Slots : A(s).env_id # NoId => A(s).env_id \in Ids /\ A(s).env_id[1] = s
  BY <1>1 DEF SlotEntry, Stat
<1>5. E \subseteq Stat
  BY <1>1, <1>2, <1>3
<1>6. \A s \in Slots, e \in pr : A(s).env_id = e.env_id => FALSE
  <2> SUFFICES ASSUME NEW s \in Slots, NEW e \in pr, A(s).env_id = e.env_id
               PROVE  FALSE
    OBVIOUS
  <2>1. e.env_id \in Ids /\ st[e.env_id[1]].env_id \in Ids
        /\ e.env_id[2] < st[e.env_id[1]].env_id[2]
    BY <1>3 DEF OlderEntry
  <2>2. e.env_id # NoId /\ e.env_id[2] \in Nat
    BY <2>1, IdParts
  <2>3. e.env_id[1] = s
    BY <1>4, <2>2
  <2>4. st[s].env_id = e.env_id
    BY <1>1
  <2> QED BY <2>1, <2>2, <2>3, <2>4
<1>7. ASSUME NEW e \in E, NEW f \in E, e.env_id = f.env_id, e.env_id # NoId
      PROVE  e = f
  <2>1. CASE e \in pr /\ f \in pr
    BY <1>7, <2>1 DEF Book, Printouts
  <2>2. CASE \E s \in Slots : e = A(s)
    <3>1. PICK s \in Slots : e = A(s)
      BY <2>2
    <3>2. f \notin pr
      BY <1>6, <1>7, <3>1
    <3>3. PICK t \in Slots : f = A(t)
      BY <1>2, <3>2
    <3> QED BY <1>4, <1>7, <3>1, <3>3
  <2>3. CASE e \in pr /\ \E s \in Slots : f = A(s)
    BY <1>6, <1>7, <2>3
  <2> QED BY <1>2, <2>1, <2>2, <2>3
<1>8. ASSUME NEW e \in E, e.env_id = NoId PROVE e.cputicks = 0
  <2>1. e \notin pr
    BY <1>3, <1>8, NoIdNotId DEF OlderEntry
  <2>2. PICK s \in Slots : e = A(s)
    BY <1>2, <2>1
  <2> QED BY <1>1, <1>8, <2>2 DEF SlotEntry
<1>9. Distinct(E)
  BY <1>5, <1>7, <1>8 DEF Distinct
<1> QED BY <1>9 DEF E

(* Where the charge of an environment is written down. *)
LEMMA ChargedAt ==
  ASSUME NEW es, NEW st, NEW run, NEW pr, NEW now, Book(es, st, run, pr, now),
         NEW id \in Ids,
         NEW c, c = Charged(EntriesAt(st, run, pr, now))[id]
  PROVE  /\ st[id[1]].env_id = id => c = StatsAt(st, run, now)[id[1]].cputicks
         /\ \A e \in pr : e.env_id = id => c = e.cputicks
         /\ st[id[1]].env_id # id /\ (\A e \in pr : e.env_id # id) => c = 0
<1> DEFINE E == EntriesAt(st, run, pr, now)
           A(s) == StatsAt(st, run, now)[s]
<1>1. Distinct(E)
  BY EntriesDistinct
<1>2. E = {A(s) : s \in Slots} \cup pr
  BY DEF EntriesAt
<1>3. \A s \in Slots : A(s).env_id = st[s].env_id /\ SlotEntry(A(s), s, es[s].gen)
  BY StatsAtIs
<1>4. id[1] \in Slots /\ id # NoId
  BY IdParts
<1> HIDE DEF A, E
<1>5. ASSUME NEW e \in E, e.env_id = id PROVE c = e.cputicks
  BY <1>1, <1>5, ChargedIs DEF E
<1>6. ASSUME \A e \in E : e.env_id # id PROVE c = 0
  BY <1>6, ChargedNone DEF E
<1>7. st[id[1]].env_id = id => c = A(id[1]).cputicks
  BY <1>2, <1>3, <1>4, <1>5
<1>8. \A e \in pr : e.env_id = id => c = e.cputicks
  BY <1>2, <1>5
<1>9. ASSUME st[id[1]].env_id # id, \A e \in pr : e.env_id # id PROVE c = 0
  <2>1. ASSUME NEW s \in Slots PROVE A(s).env_id # id
    BY <1>3, <1>4, <1>9 DEF SlotEntry
  <2> QED BY <1>2, <1>6, <1>9, <2>1
<1> QED BY <1>7, <1>8, <1>9 DEF A

LEMMA PriosAtType ==
  ASSUME NEW pt \in [Priorities -> Nat], NEW run \in Running,
         NEW now \in Nat, run.since <= now
  PROVE  /\ PriosAt(pt, run, now) \in [Priorities -> Nat]
         /\ \A p \in Priorities : PriosAt(pt, run, now)[p] =
              IF p = run.prio THEN pt[p] + DeltaOf(run, now) ELSE pt[p]
<1>1. DeltaOf(run, now) \in Nat /\ run.prio \in Priorities
  BY DEF DeltaOf, Running
<1> QED BY <1>1 DEF PriosAt

(* A tick goes to the environment and to the priority that were running.   *)
LEMMA TickCharged ==
  ASSUME NEW es, NEW st, NEW run, NEW pr, NEW now, Book(es, st, run, pr, now),
         run.id # NoId, NEW later, later = now + 1
  PROVE  /\ Book(es, st, run, pr, later)
         /\ Charged(EntriesAt(st, run, pr, later))
              = Plus(Charged(EntriesAt(st, run, pr, now)), run.id)
<1>1. now \in Nat /\ run.since \in Nat /\ run.since <= now
      /\ run.id \in Ids /\ st[run.id[1]].env_id = run.id
  BY DEF Book, Charges, Running, Slot
<1>2. Book(es, st, run, pr, later)
  BY <1>1 DEF Book
<1> DEFINE c == Charged(EntriesAt(st, run, pr, now))
           d == Charged(EntriesAt(st, run, pr, later))
<1>3. c \in [Ids -> Nat] /\ d \in [Ids -> Nat]
  BY <1>2, EntriesDistinct, ChargedType
<1>4. /\ Plus(c, run.id) \in [Ids -> Nat]
      /\ Plus(c, run.id)[run.id] = c[run.id] + 1
      /\ \A id \in Ids : id # run.id => Plus(c, run.id)[id] = c[id]
  BY <1>1, <1>3, PlusIs
<1>5. \A id \in Ids :
        /\ st[id[1]].env_id = id => c[id] = StatsAt(st, run, now)[id[1]].cputicks
        /\ \A e \in pr : e.env_id = id => c[id] = e.cputicks
        /\ st[id[1]].env_id # id /\ (\A e \in pr : e.env_id # id) => c[id] = 0
  BY ChargedAt
<1>6. \A id \in Ids :
        /\ st[id[1]].env_id = id
             => d[id] = StatsAt(st, run, later)[id[1]].cputicks
        /\ \A e \in pr : e.env_id = id => d[id] = e.cputicks
        /\ st[id[1]].env_id # id /\ (\A e \in pr : e.env_id # id) => d[id] = 0
  BY <1>2, ChargedAt
<1> HIDE DEF c, d
<1>7. ASSUME NEW id \in Ids PROVE d[id] = Plus(c, run.id)[id]
  <2>0. id[1] \in Slots
    BY IdParts
  <2>1. StatsAt(st, run, now)[id[1]].cputicks =
          IF id[1] = run.id[1]
          THEN st[id[1]].cputicks + (now - run.since) ELSE st[id[1]].cputicks
    BY <2>0, StatsAtIs
  <2>2. StatsAt(st, run, later)[id[1]].cputicks =
          IF id[1] = run.id[1]
          THEN st[id[1]].cputicks + (later - run.since) ELSE st[id[1]].cputicks
    BY <1>2, <2>0, StatsAtIs
  <2>3. st[id[1]].cputicks \in Nat
    BY <2>0 DEF Book, Slotted, Stat
  <2>4. CASE id = run.id
    <3>1. c[id] = st[id[1]].cputicks + (now - run.since)
      BY <1>1, <1>5, <2>1, <2>4
    <3>2. d[id] = st[id[1]].cputicks + (later - run.since)
      BY <1>1, <1>6, <2>2, <2>4
    <3>3. d[id] = c[id] + 1
      BY <1>1, <2>3, <3>1, <3>2
    <3> QED BY <1>4, <2>4, <3>3
  <2>5. CASE id # run.id /\ st[id[1]].env_id = id
    <3>1. id[1] # run.id[1]
      BY <1>1, <2>5
    <3> QED BY <1>4, <1>5, <1>6, <2>1, <2>2, <2>5, <3>1
  <2>6. CASE id # run.id /\ st[id[1]].env_id # id
    BY <1>4, <1>5, <1>6, <2>6
  <2> QED BY <2>4, <2>5, <2>6
<1>8. d = Plus(c, run.id)
  BY <1>3, <1>4, <1>7
<1> QED BY <1>2, <1>8 DEF c, d

LEMMA TickPrio ==
  ASSUME NEW pt \in [Priorities -> Nat], NEW run \in Running, run.id # NoId,
         NEW now \in Nat, run.since <= now, NEW later, later = now + 1
  PROVE  PriosAt(pt, run, later) = Plus(PriosAt(pt, run, now), run.prio)
<1> DEFINE c == PriosAt(pt, run, now)
           d == PriosAt(pt, run, later)
<1>1. run.prio \in Priorities /\ run.since \in Nat
  BY DEF Running
<1>2. /\ c \in [Priorities -> Nat]
      /\ \A p \in Priorities :
           c[p] = IF p = run.prio THEN pt[p] + DeltaOf(run, now) ELSE pt[p]
  BY PriosAtType
<1>3. run.since <= later /\ later \in Nat
  BY <1>1
<1>4. /\ d \in [Priorities -> Nat]
      /\ \A p \in Priorities :
           d[p] = IF p = run.prio THEN pt[p] + DeltaOf(run, later) ELSE pt[p]
  BY <1>3, PriosAtType
<1>5. DeltaOf(run, later) = DeltaOf(run, now) + 1 /\ DeltaOf(run, now) \in Int
  BY <1>1 DEF DeltaOf
<1> HIDE DEF c, d
<1>6. /\ Plus(c, run.prio) \in [Priorities -> Nat]
      /\ Plus(c, run.prio)[run.prio] = c[run.prio] + 1
      /\ \A p \in Priorities : p # run.prio => Plus(c, run.prio)[p] = c[p]
  BY <1>1, <1>2, PlusIs
<1>7. \A p \in Priorities : d[p] = Plus(c, run.prio)[p]
  BY <1>1, <1>2, <1>4, <1>5, <1>6
<1>8. d = Plus(c, run.prio)
  BY <1>4, <1>6, <1>7
<1> QED BY <1>8 DEF c, d

-----------------------------------------------------------------------------
(***************************************************************************)
(* sched_run() writes the entry of its slot; charges do not change.        *)
(***************************************************************************)
IsRun(es, st, run, pr, now, s, st2, run2, pr2) ==
  /\ st2 \in [Slots -> Stat]
  /\ st2[s].env_id = <<s, es[s].gen>>
  /\ st2[s].runs > 0
  /\ st2[s].cputicks = IF st[s].env_id = <<s, es[s].gen>>
                       THEN StatsAt(st, run, now)[s].cputicks ELSE 0
  /\ \A t \in Slots : t # s => st2[t] = StatsAt(st, run, now)[t]
  /\ run2 \in Running /\ run2.id = <<s, es[s].gen>> /\ run2.since = now
  /\ pr2 = IF st[s].env_id \in {<<s, es[s].gen>>, NoId} THEN pr
           ELSE pr \cup {StatsAt(st, run, now)[s]}

LEMMA SchedRunIs ==
  ASSUME NEW s \in Slots, NEW now, SchedRun(s, now),
         Book(envs, sched_env_stats, sched_running, printed, now)
  PROVE  IsRun(envs, sched_env_stats, sched_running, printed, now, s,
               sched_env_stats', sched_running', printed')
<1> DEFINE st == sched_env_stats
           A == StatsAt(st, sched_running, now)
           id == <<s, envs[s].gen>>
           r == RecycledStat(A[s], id)
<1>1. \A t \in Slots : /\ A[t] \in Stat /\ A[t].env_id = st[t].env_id
                       /\ A[t].runs = st[t].runs
                       /\ SlotEntry(A[t], t, envs[t].gen)
  BY StatsAtIs
<1>2. A \in [Slots -> Stat]
  BY <1>1 DEF StatsAt
<1>3. id \in Ids /\ envs[s].priority \in Priorities /\ now \in Nat
  BY DEF Book, EnvsType, Ids
<1>4. /\ sched_env_stats' = [A EXCEPT ![s] = [r EXCEPT !.runs = @ + 1]]
      /\ printed' = IF A[s].env_id \notin {id, NoId} /\ A[s].runs > 0
                    THEN printed \cup {A[s]} ELSE printed
      /\ sched_running' = [id |-> id, prio |-> envs[s].priority, since |-> now]
  BY AtTicks DEF SchedRun, EnvId, Printed
<1>5. r = IF A[s].env_id = id THEN A[s] ELSE [ZeroStat EXCEPT !.env_id = id]
  BY DEF RecycledStat
<1> HIDE DEF A, id, r
<1>6. ZeroStat \in Stat /\ ZeroStat.cputicks = 0
  BY DEF ZeroStat, Stat
<1>7. /\ r \in Stat /\ r.env_id = id
      /\ r.cputicks = IF A[s].env_id = id THEN A[s].cputicks ELSE 0
  BY <1>1, <1>3, <1>5, <1>6 DEF Stat
<1> DEFINE q == [r EXCEPT !.runs = @ + 1]
<1>8. q \in Stat /\ q.env_id = id /\ q.runs > 0 /\ q.cputicks = r.cputicks
  BY <1>7 DEF Stat
<1> HIDE DEF q
<1>9. /\ sched_env_stats' \in [Slots -> Stat]
      /\ sched_env_stats'[s] = q
      /\ \A t \in Slots : t # s => sched_env_stats'[t] = A[t]
  BY <1>2, <1>4, <1>8 DEF q
<1>10. /\ sched_running' \in Running
       /\ sched_running'.id = id /\ sched_running'.since = now
  BY <1>3, <1>4 DEF Running
<1>11. A[s].env_id # NoId => A[s].runs > 0
  BY <1>1 DEF SlotEntry
<1>12. printed' = IF st[s].env_id \in {id, NoId} THEN printed
                  ELSE printed \cup {A[s]}
  BY <1>1, <1>4, <1>11
<1> QED BY <1>1, <1>7, <1>8, <1>9, <1>10, <1>12 DEF IsRun, A, id

LEMMA RunBook ==
  ASSUME NEW es, NEW st, NEW run, NEW pr, NEW now, Book(es, st, run, pr, now),
         NEW s \in Slots, NEW st2, NEW run2, NEW pr2,
         IsRun(es, st, run, pr, now, s, st2, run2, pr2)
  PROVE  Book(es, st2, run2, pr2, now)
<1> DEFINE A == StatsAt(st, run, now)
           id == <<s, es[s].gen>>
<1>1. \A t \in Slots : /\ A[t] \in Stat /\ A[t].env_id = st[t].env_id
                       /\ SlotEntry(A[t], t, es[t].gen)
  BY StatsAtIs
<1>2. id \in Ids /\ id[1] = s /\ id[2] = es[s].gen /\ es[s].gen \in Nat /\ id # NoId
  BY NoIdNotId DEF Book, EnvsType, Ids
<1>3. /\ st2 \in [Slots -> Stat]
      /\ st2[s].env_id = id /\ st2[s].runs > 0
      /\ \A t \in Slots : t # s => st2[t] = A[t]
      /\ run2 \in Running /\ run2.id = id /\ run2.since = now
      /\ pr2 = IF st[s].env_id \in {id, NoId} THEN pr ELSE pr \cup {A[s]}
  BY DEF IsRun
<1>4. now \in Nat /\ EnvsType(es)
  BY DEF Book
<1>5. /\ pr \subseteq Stat
      /\ \A e \in pr : OlderEntry(st, e)
      /\ \A e, f \in pr : e.env_id = f.env_id => e = f
  BY DEF Book, Printouts
<1> HIDE DEF A, id
<1>6. Slotted(es, st2)
  <2>1. ASSUME NEW t \in Slots PROVE SlotEntry(st2[t], t, es[t].gen)
    <3>1. CASE t = s
      BY <1>2, <1>3, <3>1 DEF SlotEntry
    <3>2. CASE t # s
      BY <1>1, <1>3, <3>2
    <3> QED BY <3>1, <3>2
  <2> QED BY <1>3, <2>1 DEF Slotted
<1>7. Charges(st2, run2)
  BY <1>2, <1>3 DEF Charges, Slot
<1>8. \A t \in Slots : t # s => st2[t].env_id = st[t].env_id
  BY <1>1, <1>3
<1>9. st[s].env_id # NoId =>
        st[s].env_id \in Ids /\ st[s].env_id[1] = s /\ st[s].env_id[2] <= id[2]
  BY <1>1, <1>2 DEF SlotEntry, Stat
<1>10. ASSUME NEW e \in pr PROVE OlderEntry(st2, e)
  <2>1. /\ e.env_id \in Ids /\ st[e.env_id[1]].env_id \in Ids
        /\ e.env_id[2] < st[e.env_id[1]].env_id[2]
    BY <1>5 DEF OlderEntry
  <2>2. e.env_id[1] \in Slots /\ e.env_id[2] \in Nat
    BY <2>1, IdParts
  <2>3. CASE e.env_id[1] = s
    <3>1. st[s].env_id[2] \in Nat /\ st[s].env_id # NoId
      BY <2>1, <2>3, IdParts
    <3>2. e.env_id[2] < id[2]
      BY <1>2, <1>9, <2>1, <2>2, <2>3, <3>1
    <3> QED BY <1>2, <1>3, <2>1, <2>3, <3>2 DEF OlderEntry
  <2>4. CASE e.env_id[1] # s
    BY <1>8, <2>1, <2>2, <2>4 DEF OlderEntry
  <2> QED BY <2>3, <2>4
<1>11. Printouts(st2, pr2)
  <2>1. CASE st[s].env_id \in {id, NoId}
    BY <1>3, <1>5, <1>10, <2>1 DEF Printouts
  <2>2. CASE st[s].env_id \notin {id, NoId}
    <3>1. pr2 = pr \cup {A[s]} /\ A[s].env_id = st[s].env_id /\ A[s] \in Stat
      BY <1>1, <1>3, <2>2
    <3>2. st[s].env_id \in Ids /\ st[s].env_id[1] = s /\ st[s].env_id[2] <= id[2]
      BY <1>9, <2>2
    <3>3. st[s].env_id[2] < id[2]
      <4>1. st[s].env_id = <<s, st[s].env_id[2]>> /\ id = <<s, id[2]>>
        BY <1>2, <3>2, IdParts
      <4>2. st[s].env_id[2] # id[2]
        BY <2>2, <4>1
      <4> QED BY <1>2, <3>2, <4>2, IdParts
    <3>4. OlderEntry(st2, A[s])
      BY <1>2, <1>3, <3>1, <3>2, <3>3 DEF OlderEntry
    <3>5. ASSUME NEW e \in pr, e.env_id = A[s].env_id PROVE FALSE
      <4>1. e.env_id[2] < st[s].env_id[2]
        BY <1>5, <3>1, <3>2, <3>5 DEF OlderEntry
      <4>2. st[s].env_id[2] \in Nat
        BY <3>2, IdParts
      <4> QED BY <3>1, <3>5, <4>1, <4>2
    <3> QED BY <1>5, <1>10, <3>1, <3>4, <3>5 DEF Printouts
  <2> QED BY <2>1, <2>2
<1>12. run2.since <= now
  BY <1>3, <1>4
<1> QED BY <1>4, <1>6, <1>7, <1>11, <1>12 DEF Book

LEMMA RunCharges ==
  ASSUME NEW es, NEW st, NEW run, NEW pr, NEW now, Book(es, st, run, pr, now),
         NEW s \in Slots, NEW st2, NEW run2, NEW pr2,
         IsRun(es, st, run, pr, now, s, st2, run2, pr2)
  PROVE  Charged(EntriesAt(st2, run2, pr2, now))
           = Charged(EntriesAt(st, run, pr, now))
<1> DEFINE A == StatsAt(st, run, now)
           me == <<s, es[s].gen>>
           c == Charged(EntriesAt(st, run, pr, now))
           d == Charged(EntriesAt(st2, run2, pr2, now))
<1>1. Book(es, st2, run2, pr2, now)
  BY RunBook
<1>2. c \in [Ids -> Nat] /\ d \in [Ids -> Nat]
  BY <1>1, EntriesDistinct, ChargedType
<1>3. /\ st2[s].env_id = me
      /\ st2[s].cputicks = IF st[s].env_id = me THEN A[s].cputicks ELSE 0
      /\ \A t \in Slots : t # s => st2[t] = A[t]
      /\ run2.id = me /\ run2.since = now
      /\ pr2 = IF st[s].env_id \in {me, NoId} THEN pr ELSE pr \cup {A[s]}
      /\ st2 \in [Slots -> Stat]
  BY DEF IsRun
<1>4. me \in Ids /\ me[1] = s
  BY DEF Book, EnvsType, Ids
<1>5. \A t \in Slots : A[t].env_id = st[t].env_id
  BY StatsAtIs
<1>6. \A id \in Ids :
        /\ st[id[1]].env_id = id => c[id] = A[id[1]].cputicks
        /\ \A e \in pr : e.env_id = id => c[id] = e.cputicks
        /\ st[id[1]].env_id # id /\ (\A e \in pr : e.env_id # id) => c[id] = 0
  BY ChargedAt
<1>7. \A id \in Ids :
        /\ st2[id[1]].env_id = id => d[id] = StatsAt(st2, run2, now)[id[1]].cputicks
        /\ \A e \in pr2 : e.env_id = id => d[id] = e.cputicks
        /\ st2[id[1]].env_id # id /\ (\A e \in pr2 : e.env_id # id) => d[id] = 0
  BY <1>1, ChargedAt
<1>8. ASSUME NEW t \in Slots PROVE StatsAt(st2, run2, now)[t].cputicks = st2[t].cputicks
  <2>1. StatsAt(st2, run2, now)[t].cputicks =
          IF run2.id # NoId /\ t = run2.id[1]
          THEN st2[t].cputicks + (now - run2.since)
          ELSE st2[t].cputicks
    BY <1>1, StatsAtIs
  <2>2. st2[t].cputicks \in Nat /\ now \in Nat
    BY <1>3 DEF Stat, Book
  <2> QED BY <1>3, <2>1, <2>2
<1>9. \A e \in pr : OlderEntry(st, e)
  BY DEF Book, Printouts
<1>10. \A e \in pr : OlderEntry(st2, e)
  BY <1>1, <1>3 DEF Book, Printouts
<1> HIDE DEF A, me, c, d
<1>11. ASSUME NEW id \in Ids PROVE d[id] = c[id]
  <2>0. id[1] \in Slots /\ id[2] \in Nat
    BY IdParts
  <2>1. CASE id = me
    <3>1. d[id] = st2[s].cputicks
      BY <1>3, <1>4, <1>7, <1>8, <2>1
    <3>2. CASE st[s].env_id = me
      BY <1>3, <1>4, <1>6, <2>1, <3>1, <3>2
    <3>3. CASE st[s].env_id # me
      <4>1. \A e \in pr : e.env_id # id
        <5> SUFFICES ASSUME NEW e \in pr, e.env_id = id PROVE FALSE
          OBVIOUS
        <5>1. e.env_id[2] < st2[s].env_id[2]
          BY <1>4, <1>10, <2>1 DEF OlderEntry
        <5> QED BY <1>3, <2>0, <2>1, <5>1
      <4>2. c[id] = 0
        BY <1>4, <1>6, <2>1, <3>3, <4>1
      <4> QED BY <1>3, <3>1, <3>3, <4>2
    <3> QED BY <3>2, <3>3
  <2>2. CASE id # me /\ st[id[1]].env_id = id /\ id[1] # s
    BY <1>3, <1>5, <1>6, <1>7, <1>8, <2>0, <2>2
  <2>3. CASE id # me /\ st[id[1]].env_id = id /\ id[1] = s
    <3>1. id # NoId
      BY NoIdNotId
    <3>2. A[s] \in pr2 /\ A[s].env_id = id
      BY <1>3, <1>5, <2>0, <2>3, <3>1
    <3> QED BY <1>6, <1>7, <2>3, <3>2
  <2>4. CASE id # me /\ st[id[1]].env_id # id
    <3>1. st2[id[1]].env_id # id
      BY <1>3, <1>5, <2>0, <2>4
    <3>2. CASE \E e \in pr : e.env_id = id
      BY <1>3, <1>6, <1>7, <3>2
    <3>3. CASE \A e \in pr : e.env_id # id
      <4>1. A[s].env_id = id => id[1] # s
        BY <1>5, <2>4
      <4>2. A[s].env_id \in Ids \cup {NoId}
        BY <1>5 DEF Book, Slotted, Stat
      <4>3. A[s].env_id # NoId => A[s].env_id[1] = s
        BY <1>5 DEF Book, Slotted, SlotEntry
      <4>4. id # NoId
        BY NoIdNotId
      <4>5. \A e \in pr2 : e.env_id # id
        BY <1>3, <3>3, <4>1, <4>3, <4>4
      <4> QED BY <1>6, <1>7, <2>4, <3>1, <3>3, <4>5
    <3> QED BY <3>2, <3>3
  <2> QED BY <2>1, <2>2, <2>3, <2>4
<1>12. c = d
  BY <1>2, <1>11
<1> QED BY <1>12 DEF c, d

-----------------------------------------------------------------------------
(***************************************************************************)
(* The two tables agree, and charges are exact up to the idle ticks: what  *)
(* is charged (c), per priority (p), really used (u), after t ticks.       *)
(***************************************************************************)
Balanced(c, p, u, t) ==
  /\ Total(c) = Total(p)
  /\ \A id \in Ids : /\ u[id] <= c[id]
                     /\ c[id] - u[id] <= t - Total(u)

(* A tick of the environment that runs, or one of an idle CPU. *)
LEMMA BalancedTick ==
  ASSUME NEW c \in [Ids -> Nat], NEW p \in [Priorities -> Nat],
         NEW u \in [Ids -> Nat], NEW t \in Nat, Balanced(c, p, u, t),
         NEW id \in Ids, NEW q \in Priorities,
         NEW v, v = u \/ v = Plus(u, id),
         NEW later, later = t + 1
  PROVE  Balanced(Plus(c, id), Plus(p, q), v, later)
<1>1. Total(Plus(c, id)) = Total(c) + 1
  BY TotalPlus, IdsFinite
<1>2. Total(Plus(p, q)) = Total(p) + 1
  BY TotalPlus, PrioritiesFinite
<1>3. Total(Plus(u, id)) = Total(u) + 1 /\ Total(u) \in Nat
  BY TotalPlus, TotalNat, IdsFinite
<1>4. Plus(c, id)[id] = c[id] + 1 /\ \A y \in Ids : y # id => Plus(c, id)[y] = c[y]
  BY PlusIs
<1>5. Plus(u, id)[id] = u[id] + 1 /\ \A y \in Ids : y # id => Plus(u, id)[y] = u[y]
  BY PlusIs
<1>6. ASSUME NEW y \in Ids
      PROVE  v[y] <= Plus(c, id)[y] /\ Plus(c, id)[y] - v[y] <= later - Total(v)
  <2>1. c[y] \in Nat /\ u[y] \in Nat /\ u[y] <= c[y] /\ c[y] - u[y] <= t - Total(u)
    BY DEF Balanced
  <2>2. CASE v = u
    BY <1>3, <1>4, <2>1, <2>2
  <2>3. CASE v = Plus(u, id)
    BY <1>3, <1>4, <1>5, <2>1, <2>3
  <2> QED BY <2>2, <2>3
<1>7. Total(Plus(c, id)) = Total(Plus(p, q))
  BY <1>1, <1>2 DEF Balanced
<1> QED BY <1>6, <1>7 DEF Balanced

(***************************************************************************)
(* The inductive invariant.                                                *)
(***************************************************************************)
BookInv ==
  /\ Book(envs, sched_env_stats, sched_running, printed, ticks)
  /\ sched_prio_ticks \in [Priorities -> Nat]
  /\ used \in [Ids -> Nat]
  /\ oncpu \in {NoId, sched_running.id}
  /\ log # <<>> => sched_running.id # NoId

ChargesInv ==
  Balanced(Charged(EntriesAt(sched_env_stats, sched_running, printed, ticks)),
           PriosAt(sched_prio_ticks, sched_running, ticks), used, ticks)

StatsInv == BookInv /\ ChargesInv

(* The visit at time `now', with these ticks used so far, starts from      *)
(* books that are in order.                                                *)
Due(now, u) ==
  /\ Book(envs, sched_env_stats, sched_running, printed, now)
  /\ sched_prio_ticks \in [Priorities -> Nat]
  /\ u \in [Ids -> Nat]
  /\ Balanced(Charged(EntriesAt(sched_env_stats, sched_running, printed, now)),
              PriosAt(sched_prio_ticks, sched_running, now), u, now)

LEMMA SchedRunStep ==
  ASSUME NEW s \in Slots, NEW now, SchedRun(s, now),
         Due(now, used'), ticks' = now, envs' = envs
  PROVE  StatsInv'
<1>1. IsRun(envs, sched_env_stats, sched_running, printed, now, s,
            sched_env_stats', sched_running', printed')
  BY SchedRunIs DEF Due
<1>2. Book(envs, sched_env_stats', sched_running', printed', now)
  BY <1>1, RunBook DEF Due
<1>3. Charged(EntriesAt(sched_env_stats', sched_running', printed', now))
        = Charged(EntriesAt(sched_env_stats, sched_running, printed, now))
  BY <1>1, RunCharges DEF Due
<1> DEFINE pt == PriosAt(sched_prio_ticks, sched_running, now)
<1>4. now \in Nat /\ sched_running \in Running /\ sched_running.since <= now
  BY DEF Due, Book, Charges
<1>5. pt \in [Priorities -> Nat]
  BY <1>4, PriosAtType DEF Due
<1>6. sched_prio_ticks' = pt
  BY AtTicks DEF SchedRun
<1> HIDE DEF pt
<1>7. sched_running' \in Running /\ sched_running'.since = now
      /\ sched_running'.id = <<s, envs[s].gen>>
  BY <1>1 DEF IsRun
<1>8. PriosAt(pt, sched_running', now) = pt
  <2>1. DeltaOf(sched_running', now) = 0
    BY <1>4, <1>7 DEF DeltaOf
  <2>2. sched_running'.prio \in Priorities
    BY <1>7 DEF Running
  <2> QED BY <1>5, <2>1, <2>2 DEF PriosAt
<1>9. sched_running'.id \in Ids /\ sched_running'.id # NoId
  <2>1. envs[s].gen \in 1 .. MaxGen
    BY DEF Due, Book, EnvsType
  <2>2. <<s, envs[s].gen>> \in Ids
    BY <2>1 DEF Ids
  <2> QED BY <1>7, <2>2, NoIdNotId
<1>10. oncpu' = sched_running'.id
  BY <1>7 DEF SchedRun, EnvId
<1>11. BookInv'
  BY <1>2, <1>5, <1>6, <1>9, <1>10 DEF BookInv, Due
<1>12. ChargesInv'
  BY <1>3, <1>6, <1>8 DEF ChargesInv, Due, pt
<1> QED BY <1>11, <1>12 DEF StatsInv

LEMMA HaltStep ==
  ASSUME NEW now, SchedHalt, Due(now, used'), ticks' = now, envs' = envs,
         log # <<>> => sched_running.id # NoId
  PROVE  StatsInv'
<1>1. /\ sched_env_stats' = sched_env_stats /\ sched_running' = sched_running
      /\ printed' = printed /\ sched_prio_ticks' = sched_prio_ticks
      /\ log' = log /\ oncpu' = NoId
  BY DEF SchedHalt, stats
<1> QED BY <1>1 DEF Due, StatsInv, BookInv, ChargesInv

(* A tick: the books are in order for the visit it starts. *)
LEMMA TickDue ==
  ASSUME StatsInv, log # <<>>, NEW now, now = ticks + 1,
         used' = [id \in Ids |-> IF id = oncpu THEN used[id] + 1 ELSE used[id]]
  PROVE  Due(now, used')
<1> DEFINE c == Charged(EntriesAt(sched_env_stats, sched_running, printed, ticks))
           p == PriosAt(sched_prio_ticks, sched_running, ticks)
           id == sched_running.id
           q == sched_running.prio
<1>1. Book(envs, sched_env_stats, sched_running, printed, ticks) /\ id # NoId
  BY DEF StatsInv, BookInv
<1>2. /\ sched_running \in Running /\ ticks \in Nat
      /\ sched_running.since <= ticks
      /\ sched_prio_ticks \in [Priorities -> Nat] /\ used \in [Ids -> Nat]
  BY DEF StatsInv, BookInv, Book, Charges
<1>3. id \in Ids /\ q \in Priorities
  BY <1>1, <1>2 DEF Running
<1>4. c \in [Ids -> Nat]
  BY <1>1, EntriesDistinct, ChargedType
<1>5. p \in [Priorities -> Nat]
  BY <1>2, PriosAtType
<1>6. Balanced(c, p, used, ticks)
  BY DEF StatsInv, ChargesInv
<1>7. used' = used \/ used' = Plus(used, id)
  <2>1. CASE oncpu = NoId
    BY <1>2, <2>1, NoIdNotId
  <2>2. CASE oncpu = id
    <3> HIDE DEF id
    <3>0. used \in [Ids -> Nat] /\ id \in Ids
      BY <1>2, <1>3
    <3>1. /\ Plus(used, id) \in [Ids -> Nat]
          /\ Plus(used, id)[id] = used[id] + 1
          /\ \A y \in Ids : y # id => Plus(used, id)[y] = used[y]
      BY ONLY <3>0, PlusIs
    <3>2. \A y \in Ids : used'[y] = Plus(used, id)[y]
      BY <1>2, <1>3, <2>2, <3>1
    <3> QED BY <3>1, <3>2
  <2> QED BY <2>1, <2>2 DEF StatsInv, BookInv
<1>8. used' \in [Ids -> Nat]
  BY <1>2
<1>9. /\ Book(envs, sched_env_stats, sched_running, printed, now)
      /\ Charged(EntriesAt(sched_env_stats, sched_running, printed, now))
           = Plus(c, id)
  BY <1>1, TickCharged
<1>10. PriosAt(sched_prio_ticks, sched_running, now) = Plus(p, q)
  BY <1>1, <1>2, TickPrio
<1> HIDE DEF c, p, id, q
<1>11. Balanced(Plus(c, id), Plus(p, q), used', now)
  BY <1>2, <1>3, <1>4, <1>5, <1>6, <1>7, BalancedTick
<1> QED BY <1>2, <1>8, <1>9, <1>10, <1>11 DEF Due

(* Slots change hands and priorities change without touching the books. *)
LEMMA EnvsStep ==
  ASSUME StatsInv, EnvsType(envs'), \A s \in Slots : envs[s].gen <= envs'[s].gen,
         UNCHANGED <<oncpu, ticks, used, stats>>
  PROVE  StatsInv'
<1>1. /\ sched_env_stats' = sched_env_stats /\ sched_running' = sched_running
      /\ printed' = printed /\ sched_prio_ticks' = sched_prio_ticks
      /\ log' = log /\ oncpu' = oncpu /\ ticks' = ticks /\ used' = used
  BY DEF stats
<1>2. Book(envs, sched_env_stats, sched_running, printed, ticks)
  BY DEF StatsInv, BookInv
<1>3. ASSUME NEW s \in Slots
      PROVE  SlotEntry(sched_env_stats[s], s, envs'[s].gen)
  <2>1. SlotEntry(sched_env_stats[s], s, envs[s].gen) /\ sched_env_stats[s] \in Stat
    BY <1>2 DEF Book, Slotted
  <2>2. envs[s].gen \in Nat /\ envs'[s].gen \in Nat /\ envs[s].gen <= envs'[s].gen
    BY <1>2, StatsAssumption DEF Book, EnvsType
  <2>3. sched_env_stats[s].env_id # NoId => sched_env_stats[s].env_id[2] \in Nat
    BY <2>1, IdParts DEF Stat
  <2> QED BY <2>1, <2>2, <2>3 DEF SlotEntry
<1>4. Book(envs', sched_env_stats, sched_running, printed, ticks)
  BY <1>2, <1>3 DEF Book, Slotted
<1> QED BY <1>1, <1>4 DEF StatsInv, BookInv, ChargesInv

-----------------------------------------------------------------------------
(***************************************************************************)
(* The circular history.                                                   *)
(***************************************************************************)
LEMMA ModBounds ==
  ASSUME NEW a \in Nat, NEW k \in Nat \ {0}
  PROVE  /\ a \div k \in Nat /\ a % k \in 0 .. k - 1
         /\ a = k * (a \div k) + (a % k)
  OBVIOUS

(* Fewer than k apart: different places of a circle of k. *)
LEMMA ModDiffers ==
  ASSUME NEW a \in Nat, NEW b \in Nat, NEW k \in Nat \ {0}, a < b, b - a < k
  PROVE  a % k # b % k
<1> DEFINE p == a \div k
           q == b \div k
<1>1. p \in Nat /\ a = k * p + (a % k) /\ a % k \in Nat
  BY ModBounds
<1>2. q \in Nat /\ b = k * q + (b % k) /\ b % k \in Nat
  BY ModBounds
<1> HIDE DEF p, q
<1>3. SUFFICES ASSUME a % k = b % k PROVE FALSE
  OBVIOUS
<1>4. k * p \in Nat /\ k * q \in Nat
  BY <1>1, <1>2
<1>5. k * p < k * q /\ k * q < k * p + k
  BY <1>1, <1>2, <1>3, <1>4
<1>6. ASSUME q <= p PROVE k * q <= k * p
  BY <1>1, <1>2, <1>6
<1>7. ASSUME p + 1 <= q PROVE k * p + k <= k * q
  BY <1>1, <1>2, <1>7
<1> QED BY <1>1, <1>2, <1>4, <1>5, <1>6, <1>7

(* The last SCHED_HISTORY_LEN decisions are where HistoryIndex() put them. *)
HistoryInv ==
  /\ log \in Seq(Ids)
  /\ sched_history_count = Len(log)
  /\ DOMAIN sched_history = 0 .. SCHED_HISTORY_LEN - 1
  /\ \A j \in 1 .. Len(log) :
       j > Len(log) - SCHED_HISTORY_LEN
         => sched_history[HistoryIndex(j - 1)] = log[j]

LEMMA HistoryRun ==
  ASSUME HistoryInv, NEW s \in Slots, NEW now, SchedRun(s, now), EnvsType(envs)
  PROVE  HistoryInv'
<1> DEFINE id == EnvId(s)
           n == Len(log)
           L == SCHED_HISTORY_LEN
<1>1. id \in Ids
  BY DEF EnvId, EnvsType, Ids
<1>2. /\ log' = Append(log, id) /\ sched_history_count' = n + 1
      /\ sched_history' = [sched_history EXCEPT ![n % L] = id]
  BY DEF SchedRun, HistoryInv, HistoryIndex
<1>3. n \in Nat /\ L \in Nat \ {0} /\ log \in Seq(Ids)
  BY StatsAssumption DEF HistoryInv
<1>4. n % L \in 0 .. L - 1
  BY <1>3, ModBounds
<1>5. \A j \in 1 .. n : j > n - L => sched_history[(j - 1) % L] = log[j]
  BY DEF HistoryInv, HistoryIndex
<1>6. DOMAIN sched_history = 0 .. L - 1
  BY DEF HistoryInv
<1> HIDE DEF id, n, L
<1>7. /\ log' \in Seq(Ids) /\ Len(log') = n + 1 /\ log'[n + 1] = id
      /\ \A j \in 1 .. n : log'[j] = log[j]
  BY <1>1, <1>2, <1>3 DEF n
<1>8. /\ DOMAIN sched_history' = 0 .. L - 1
      /\ sched_history'[n % L] = id
      /\ \A i \in 0 .. L - 1 : i # n % L => sched_history'[i] = sched_history[i]
  BY <1>2, <1>4, <1>6
<1>9. ASSUME NEW j \in 1 .. n + 1, j > n + 1 - L
      PROVE  sched_history'[(j - 1) % L] = log'[j]
  <2>1. CASE j = n + 1
    <3>1. j - 1 = n
      BY <1>3, <2>1
    <3> QED BY <1>7, <1>8, <2>1, <3>1
  <2>2. CASE j <= n
    <3>1. j \in 1 .. n /\ j > n - L /\ j - 1 \in Nat /\ j - 1 < n /\ n - (j - 1) < L
      BY <1>3, <1>9, <2>2
    <3> DEFINE i == j - 1
    <3> HIDE DEF i
    <3>2. i \in Nat /\ i < n /\ n - i < L /\ sched_history[i % L] = log[j]
      BY <1>5, <3>1 DEF i
    <3>3. i % L # n % L
      BY <1>3, <3>2, ModDiffers
    <3>4. i % L \in 0 .. L - 1
      BY <1>3, <3>2, ModBounds
    <3>5. sched_history'[i % L] = log'[j]
      BY <1>7, <1>8, <3>1, <3>2, <3>3, <3>4
    <3> QED BY <3>5 DEF i
  <2> QED BY <1>3, <2>1, <2>2
<1>10. \A j \in 1 .. Len(log') :
         j > Len(log') - L => sched_history'[HistoryIndex(j - 1)] = log'[j]
  <2> SUFFICES ASSUME NEW j \in 1 .. Len(log'), j > Len(log') - L
               PROVE  sched_history'[HistoryIndex(j - 1)] = log'[j]
    OBVIOUS
  <2>1. j \in 1 .. n + 1 /\ j > n + 1 - L
    BY <1>3, <1>7
  <2>2. sched_history'[(j - 1) % L] = log'[j]
    BY <1>9, <2>1
  <2> QED BY <2>2 DEF HistoryIndex, L
<1>11. sched_history_count' = Len(log')
  BY <1>2, <1>7
<1> QED BY <1>7, <1>8, <1>10, <1>11 DEF HistoryInv, HistoryIndex, L

LEMMA HistoryKept ==
  ASSUME HistoryInv, UNCHANGED stats
  PROVE  HistoryInv'
  BY DEF HistoryInv, HistoryIndex, stats

-----------------------------------------------------------------------------
(***************************************************************************)
(* Every step keeps both invariants.                                       *)
(***************************************************************************)
Inv == StatsInv /\ HistoryInv

LEMMA InitInv == Init => Inv
<1> SUFFICES ASSUME Init PROVE Inv
  OBVIOUS
<1>1. ZeroStat \in Stat /\ ZeroStat.env_id = NoId /\ ZeroStat.cputicks = 0
  BY DEF ZeroStat, Stat
<1>2. EnvsType(envs)
  BY StatsAssumption DEF Init, EnvsType
<1>3. Slotted(envs, sched_env_stats)
  BY <1>1 DEF Init, Slotted, SlotEntry
<1>4. 0 \in Priorities
  BY StatsAssumption DEF Priorities
<1>5. /\ sched_running \in Running
      /\ sched_running.id = NoId /\ sched_running.since = 0
  BY <1>4 DEF Init, Running
<1>6. Book(envs, sched_env_stats, sched_running, printed, ticks)
  BY <1>2, <1>3, <1>5 DEF Init, Book, Printouts, Charges
<1>7. sched_prio_ticks \in [Priorities -> Nat] /\ used \in [Ids -> Nat]
  BY DEF Init
<1>8. BookInv
  BY <1>6, <1>7 DEF Init, BookInv
<1> DEFINE c == Charged(EntriesAt(sched_env_stats, sched_running, printed, ticks))
           p == PriosAt(sched_prio_ticks, sched_running, ticks)
<1>9. c \in [Ids -> Nat]
  BY <1>6, EntriesDistinct, ChargedType
<1>10. \A id \in Ids : c[id] = 0
  <2> SUFFICES ASSUME NEW id \in Ids PROVE c[id] = 0
    OBVIOUS
  <2>1. id[1] \in Slots /\ id # NoId
    BY IdParts
  <2>2. sched_env_stats[id[1]].env_id # id /\ \A e \in printed : e.env_id # id
    BY <1>1, <2>1 DEF Init
  <2> QED BY <1>6, <2>2, ChargedAt
<1>11. /\ p \in [Priorities -> Nat]
       /\ \A q \in Priorities : p[q] = 0
  <2>1. ticks \in Nat /\ sched_running.since <= ticks
    BY <1>5 DEF Init
  <2>2. DeltaOf(sched_running, ticks) = 0
    BY <1>5 DEF DeltaOf
  <2>3. /\ p \in [Priorities -> Nat]
        /\ \A q \in Priorities :
             p[q] = IF q = sched_running.prio
                    THEN sched_prio_ticks[q] + DeltaOf(sched_running, ticks)
                    ELSE sched_prio_ticks[q]
    BY <1>5, <1>7, <2>1, PriosAtType
  <2>4. \A q \in Priorities : sched_prio_ticks[q] = 0
    BY DEF Init
  <2> HIDE DEF p
  <2> QED BY <2>2, <2>3, <2>4
<1> HIDE DEF c, p
<1>12. ASSUME NEW D, NEW g \in [D -> Nat], \A x \in D : g[x] = 0
       PROVE  Total(g) = 0
  <2>1. \A u : u \notin Units(g)
    <3> SUFFICES ASSUME NEW u \in Units(g) PROVE FALSE
      OBVIOUS
    <3>1. PICK x \in D, i \in Nat : 1 <= i /\ i <= g[x]
      BY UnitsMember
    <3> QED BY <1>12, <3>1
  <2>2. Units(g) = {}
    BY <2>1
  <2> QED BY <2>2, FS_EmptySet DEF Total
<1>13. Total(c) = 0
  BY <1>9, <1>10, <1>12
<1>14. Total(p) = 0
  BY <1>11, <1>12
<1>15. Total(used) = 0 /\ \A id \in Ids : used[id] = 0
  BY <1>7, <1>12 DEF Init
<1>16. Balanced(c, p, used, ticks)
  BY <1>10, <1>13, <1>14, <1>15 DEF Balanced, Init
<1>17. ChargesInv
  BY <1>16 DEF ChargesInv, c, p
<1>18. HistoryInv
  BY DEF Init, HistoryInv
<1> QED BY <1>8, <1>17, <1>18 DEF Inv, StatsInv

LEMMA YieldInv ==
  ASSUME Inv, Yield
  PROVE  Inv'
<1>1. envs' = envs /\ ticks' = ticks /\ used' = used
  BY DEF Yield
<1>2. Due(ticks, used')
  BY <1>1 DEF Inv, StatsInv, BookInv, ChargesInv, Due
<1>3. EnvsType(envs) /\ log \in Seq(Ids) /\ (log # <<>> => sched_running.id # NoId)
  BY DEF Inv, StatsInv, BookInv, Book, HistoryInv
<1>4. CASE \E s \in Slots : SchedRun(s, ticks)
  <2>1. PICK s \in Slots : SchedRun(s, ticks)
    BY <1>4
  <2>2. StatsInv'
    BY <1>1, <1>2, <1>3, <2>1, SchedRunStep
  <2>3. HistoryInv'
    BY <1>3, <2>1, HistoryRun DEF Inv
  <2> QED BY <2>2, <2>3 DEF Inv
<1>5. CASE SchedHalt
  <2>1. StatsInv'
    BY <1>1, <1>2, <1>3, <1>5, HaltStep
  <2>2. HistoryInv'
    BY <1>5, HistoryKept DEF SchedHalt, Inv
  <2> QED BY <2>1, <2>2 DEF Inv
<1> QED BY <1>4, <1>5 DEF Yield

LEMMA TimerInv ==
  ASSUME Inv, Timer
  PROVE  Inv'
<1> DEFINE now == ticks + 1
<1>1. /\ envs' = envs /\ ticks' = now /\ log # <<>>
      /\ used' = [id \in Ids |-> IF id = oncpu THEN used[id] + 1 ELSE used[id]]
      /\ \/ \E s \in Slots : SchedRun(s, now)
         \/ SchedHalt
  BY DEF Timer
<1>2. now = ticks + 1
  OBVIOUS
<1> HIDE DEF now
<1>3. Due(now, used')
  BY <1>1, <1>2, TickDue DEF Inv
<1>4. EnvsType(envs) /\ log \in Seq(Ids) /\ (log # <<>> => sched_running.id # NoId)
  BY DEF Inv, StatsInv, BookInv, Book, HistoryInv
<1>5. CASE \E s \in Slots : SchedRun(s, now)
  <2>1. PICK s \in Slots : SchedRun(s, now)
    BY <1>5
  <2>2. StatsInv'
    BY <1>1, <1>3, <1>4, <2>1, SchedRunStep
  <2>3. HistoryInv'
    BY <1>4, <2>1, HistoryRun DEF Inv
  <2> QED BY <2>2, <2>3 DEF Inv
<1>6. CASE SchedHalt
  <2>1. StatsInv'
    BY <1>1, <1>3, <1>4, <1>6, HaltStep
  <2>2. HistoryInv'
    BY <1>6, HistoryKept DEF SchedHalt, Inv
  <2> QED BY <2>1, <2>2 DEF Inv
<1> QED BY <1>1, <1>5, <1>6

LEMMA NextInv == Inv /\ [Next]_vars => Inv'
<1> SUFFICES ASSUME Inv, [Next]_vars PROVE Inv'
  OBVIOUS
<1>0. StatsInv /\ HistoryInv /\ EnvsType(envs)
  BY DEF Inv, StatsInv, BookInv, Book
<1>1. CASE Yield
  BY <1>1, YieldInv
<1>2. CASE Timer
  BY <1>2, TimerInv
<1>3. ASSUME NEW s \in Slots, Recycle(s) PROVE Inv'
  <2>1. PICK p \in Priorities :
          envs' = [envs EXCEPT ![s] = [gen |-> envs[s].gen + 1, priority |-> p]]
    BY <1>3 DEF Recycle
  <2>2. \A t \in Slots : envs[t].gen \in 1 .. MaxGen /\ envs[t].gen \in Nat
    BY <1>0, StatsAssumption DEF EnvsType
  <2>3. envs[s].gen + 1 \in 1 .. MaxGen
    BY <1>3, <2>2, StatsAssumption DEF Recycle
  <2>4. EnvsType(envs')
    BY <1>0, <2>1, <2>3 DEF EnvsType
  <2>5. \A t \in Slots : envs[t].gen <= envs'[t].gen
    BY <1>0, <2>1, <2>2 DEF EnvsType
  <2>6. UNCHANGED <<oncpu, ticks, used, stats>>
    BY <1>3 DEF Recycle
  <2> QED BY <1>0, <2>4, <2>5, <2>6, EnvsStep, HistoryKept DEF Inv
<1>4. ASSUME NEW s \in Slots, SetPriority(s) PROVE Inv'
  <2>1. PICK p \in Priorities : envs' = [envs EXCEPT ![s].priority = p]
    BY <1>4 DEF SetPriority
  <2>2. \A t \in Slots : envs[t].gen \in Nat
    BY <1>0, StatsAssumption DEF EnvsType
  <2>3. EnvsType(envs')
    BY <1>0, <2>1 DEF EnvsType
  <2>4. \A t \in Slots : envs[t].gen <= envs'[t].gen
    BY <1>0, <2>1, <2>2 DEF EnvsType
  <2>5. UNCHANGED <<oncpu, ticks, used, stats>>
    BY <1>4 DEF SetPriority
  <2> QED BY <1>0, <2>3, <2>4, <2>5, EnvsStep, HistoryKept DEF Inv
<1>5. CASE UNCHANGED vars
  <2>1. StatsInv'
    BY <1>0, <1>5 DEF vars, stats, StatsInv, BookInv, ChargesInv
  <2>2. HistoryInv'
    BY <1>0, <1>5, HistoryKept DEF vars
  <2> QED BY <2>1, <2>2 DEF Inv
<1> QED BY <1>1, <1>2, <1>3, <1>4, <1>5 DEF Next

(* The statistics stay in order in every run of the system: each slot's    *)
(* entry is of its last environment that ran, the ring holds the last      *)
(* decisions, and charges add up.                                          *)
THEOREM StatsInvariant == Spec => []Inv
<1> QED BY InitInv, NextInv, PTL DEF Spec

(* The ticks of all environments, recycled slots included, add up to the   *)
(* ticks of all priorities: sched_account_cputicks() and sched_run() never *)
(* lose a tick or charge it to one table only.                             *)
THEOREM TicksAddUp == Spec => []TablesAgree
<1>1. Inv => TablesAgree
  <2> SUFFICES ASSUME Inv PROVE TablesAgree
    OBVIOUS
  <2> DEFINE E == EntriesAt(sched_env_stats, sched_running, printed, ticks)
  <2>1. Distinct(E)
    BY EntriesDistinct DEF Inv, StatsInv, BookInv
  <2>2. Entries = E /\ AccountedPrios(ticks)
                         = PriosAt(sched_prio_ticks, sched_running, ticks)
    BY AtTicks
  <2>3. Total(Charged(E)) = Total(AccountedPrios(ticks))
    BY <2>2 DEF Inv, StatsInv, ChargesInv, Balanced
  <2> HIDE DEF E
  <2>4. Total([e \in E |-> e.cputicks]) = Total(Charged(E))
    BY <2>1, EntriesTotal
  <2> QED BY <2>2, <2>3, <2>4 DEF TablesAgree
<1> QED BY <1>1, StatsInvariant, PTL

(* Nobody is charged less than it used, nor more by anything but ticks of  *)
(* an idle CPU, which sched_halt() does not account.                       *)
THEOREM ChargesAreFair == Spec => []OverchargedOnlyIdleTicks
<1>1. Inv => OverchargedOnlyIdleTicks
  <2> SUFFICES ASSUME Inv, NEW e \in Entries, e.env_id # NoId
               PROVE  e.cputicks - used[e.env_id] \in 0 .. IdleTicks
    BY DEF OverchargedOnlyIdleTicks
  <2> DEFINE E == EntriesAt(sched_env_stats, sched_running, printed, ticks)
  <2>1. Distinct(E) /\ e \in E
    BY AtTicks, EntriesDistinct DEF Inv, StatsInv, BookInv
  <2>2. \A id \in Ids : /\ used[id] <= Charged(E)[id]
                        /\ Charged(E)[id] - used[id] <= ticks - Total(used)
    BY DEF Inv, StatsInv, ChargesInv, Balanced
  <2> HIDE DEF E
  <2>3. e.env_id \in Ids /\ e.cputicks \in Nat
    BY <2>1 DEF Distinct, Stat
  <2>4. Charged(E)[e.env_id] = e.cputicks
    BY <2>1, <2>3, ChargedIs
  <2>5. used[e.env_id] \in Nat /\ ticks \in Nat /\ Total(used) \in Nat
    BY <2>3, TotalNat, IdsFinite DEF Inv, StatsInv, BookInv, Book
  <2> QED BY <2>2, <2>3, <2>4, <2>5 DEF IdleTicks
<1> QED BY <1>1, StatsInvariant, PTL

(* Reading the ring backwards from sched_history_count - 1 gives the last  *)
(* decisions, newest first, however often it has wrapped around.           *)
THEOREM HistoryIsTheLog == Spec => []HistoryIsRecent
<1>1. Inv => HistoryIsRecent
  <2> SUFFICES ASSUME Inv, NEW i \in 0 .. SCHED_HISTORY_LEN - 1,
                      i < sched_history_count
               PROVE  sched_history[(sched_history_count - 1 - i)
                                      % SCHED_HISTORY_LEN] = log[Len(log) - i]
    BY DEF HistoryIsRecent
  <2> DEFINE j == Len(log) - i
  <2>1. Len(log) \in Nat /\ sched_history_count = Len(log)
    BY DEF Inv, HistoryInv
  <2>2. j \in 1 .. Len(log) /\ j > Len(log) - SCHED_HISTORY_LEN
    BY <2>1, StatsAssumption
  <2>3. sched_history[(j - 1) % SCHED_HISTORY_LEN] = log[j]
    BY <2>2 DEF Inv, HistoryInv, HistoryIndex
  <2>4. j - 1 = sched_history_count - 1 - i
    BY <2>1
  <2> QED BY <2>3, <2>4
<1> QED BY <1>1, StatsInvariant, PTL
=============================================================================
