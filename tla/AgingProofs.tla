---------------------------- MODULE AgingProofs -----------------------------
(***************************************************************************)
(* Proofs about Aging, for any number of environments, any priorities and  *)
(* any aging threshold.                                                    *)
(***************************************************************************)
EXTENDS Aging, TLAPS

-----------------------------------------------------------------------------
(***************************************************************************)
(* Arithmetic of the bonus.                                                *)
(***************************************************************************)
LEMMA DivBounds ==
  ASSUME NEW a \in Nat, NEW k \in Nat \ {0}
  PROVE  /\ a \div k \in Nat
         /\ k * (a \div k) <= a
         /\ a < k * (a \div k) + k
  OBVIOUS

LEMMA DivMonotone ==
  ASSUME NEW a \in Nat, NEW b \in Nat, NEW k \in Nat \ {0}, a <= b
  PROVE  a \div k <= b \div k
<1> DEFINE p == a \div k
           q == b \div k
<1>1. p \in Nat /\ k * p <= a /\ a < k * p + k
  BY DivBounds
<1>2. q \in Nat /\ k * q <= b /\ b < k * q + k
  BY DivBounds
<1> HIDE DEF p, q
<1>3. ASSUME q + 1 <= p PROVE k * q + k <= k * p
  BY <1>1, <1>2, <1>3
<1>4. p <= q
  BY <1>1, <1>2, <1>3
<1> QED BY <1>4 DEF p, q

LEMMA DivExact ==
  ASSUME NEW n \in Nat, NEW k \in Nat \ {0}
  PROVE  (n * k) \div k = n
<1> DEFINE q == (n * k) \div k
<1>1. n * k \in Nat /\ n * k = k * n
  OBVIOUS
<1>2. q \in Nat /\ k * q <= k * n /\ k * n < k * q + k
  BY <1>1, DivBounds
<1> HIDE DEF q
<1>3. ASSUME q + 1 <= n PROVE k * q + k <= k * n
  BY <1>2, <1>3
<1>4. ASSUME n + 1 <= q PROVE k * n + k <= k * q
  BY <1>2, <1>4
<1>5. k * n \in Nat /\ k * q \in Nat
  BY <1>2
<1>6. q = n
  BY <1>2, <1>3, <1>4, <1>5
<1> QED BY <1>6 DEF q

LEMMA WaitCapType == WaitCap \in Nat
  BY PolicyAssumption DEF WaitCap

LEMMA BonusType ==
  ASSUME NEW w \in Nat
  PROVE  Bonus(w) \in Nat
  BY DivBounds, PolicyAssumption DEF Bonus

(* Who has the larger bonus has waited longer. *)
LEMMA BonusMonotone ==
  ASSUME NEW v \in Nat, NEW w \in Nat, Bonus(v) < Bonus(w)
  PROVE  v < w
<1> DEFINE q(u) == u \div AGING_THRESHOLD
<1>1. ASSUME w <= v PROVE q(w) <= q(v)
  BY <1>1, DivMonotone, PolicyAssumption
<1>2. q(w) \in Nat /\ q(v) \in Nat
  BY DivBounds, PolicyAssumption
<1>3. /\ Bonus(v) = IF q(v) > ENV_PRIORITY_MAX THEN ENV_PRIORITY_MAX ELSE q(v)
      /\ Bonus(w) = IF q(w) > ENV_PRIORITY_MAX THEN ENV_PRIORITY_MAX ELSE q(w)
  BY DEF Bonus
<1> HIDE DEF q
<1> QED BY <1>1, <1>2, <1>3, PolicyAssumption

-----------------------------------------------------------------------------
(***************************************************************************)
(* The inductive invariant.  env_wait_ticks counts the decisions in which  *)
(* the environment was passed over, and only those: it is zero for who is  *)
(* not in the ready queue, so that no age is left from an earlier wait.    *)
(***************************************************************************)
Statuses == {"RUNNABLE", "RUNNING", "NOT_RUNNABLE"}

Env == [status : Statuses, priority : Priorities, wait_ticks : Nat]

CountsWait(e, w) ==
  /\ e.wait_ticks = IF w < WaitCap THEN w ELSE WaitCap
  /\ e.status # "RUNNABLE" => w = 0

AgingInv ==
  /\ envs \in [Slots -> Env]
  /\ curenv \in Slots \cup {NULL}
  /\ waited \in [Slots -> Nat]
  /\ \A s \in Slots : /\ waited[s] <= WaitCap + NENV
                      /\ CountsWait(envs[s], waited[s])
  /\ \A s \in Slots : envs[s].status = "RUNNING" <=> s = curenv

LEMMA InitAging == Init => AgingInv
<1> SUFFICES ASSUME Init PROVE AgingInv
  OBVIOUS
<1>1. PICK priority \in BasePriorities :
        envs = [s \in Slots |-> [status |-> "RUNNABLE",
                                 priority |-> priority[s],
                                 wait_ticks |-> 0]]
  BY DEF Init
<1>2. \A s \in Slots : priority[s] \in Priorities
  BY AgingAssumption
<1>3. \A s \in Slots : /\ envs[s] \in Env
                       /\ envs[s].status = "RUNNABLE"
                       /\ envs[s].wait_ticks = 0
  BY <1>1, <1>2 DEF Env, Statuses
<1>4. envs \in [Slots -> Env]
  BY <1>1, <1>3
<1>5. NULL \notin Slots
  BY PolicyAssumption DEF NULL, Slots
<1>6. \A s \in Slots : waited[s] = 0
  BY DEF Init
<1>7. NENV \in Nat
  BY PolicyAssumption
<1> QED BY <1>3, <1>4, <1>5, <1>6, <1>7, WaitCapType DEF Init, AgingInv, CountsWait

-----------------------------------------------------------------------------
(***************************************************************************)
(* The table sched_yield() decides on: envs, with curenv possibly blocked. *)
(***************************************************************************)
Decided(es) ==
  /\ es \in [Slots -> Env]
  /\ \A s \in Slots : /\ waited[s] <= WaitCap + NENV
                      /\ CountsWait(es[s], waited[s])
  /\ \A s \in Slots : es[s].status = "RUNNING" => s = curenv
  /\ \A s \in Slots : s # curenv => es[s] = envs[s]
  /\ \A s \in Slots : s = curenv => es[s].status # "RUNNABLE"

LEMMA YieldTable ==
  ASSUME AgingInv
  PROVE  Decided(envs)
  BY DEF AgingInv, Decided

LEMMA BlockTable ==
  ASSUME AgingInv, curenv \in Slots
  PROVE  Decided([envs EXCEPT ![curenv].status = "NOT_RUNNABLE"])
<1> DEFINE es == [envs EXCEPT ![curenv].status = "NOT_RUNNABLE"]
<1>1. \A s \in Slots : envs[s] \in Env
  BY DEF AgingInv
<1>2. \A s \in Slots : /\ es[s].wait_ticks = envs[s].wait_ticks
                       /\ es[s].priority = envs[s].priority
                       /\ es[s] \in Env
                       /\ s # curenv => es[s] = envs[s]
                       /\ s = curenv => es[s].status = "NOT_RUNNABLE"
  BY <1>1 DEF AgingInv, Env, Statuses
<1>3. es \in [Slots -> Env]
  BY <1>2 DEF AgingInv
<1> HIDE DEF es
<1>4. \A s \in Slots : CountsWait(es[s], waited[s])
  BY <1>2 DEF AgingInv, CountsWait
<1>5. Decided(es)
  BY <1>2, <1>3, <1>4 DEF AgingInv, Decided
<1> QED BY <1>5 DEF es

(* What env_run() leaves of the choice r, slot by slot. *)
LEMMA RunTable ==
  ASSUME NEW es, es \in [Slots -> Env], NEW r \in Slots, NEW s \in Slots,
         NEW e, e = EnvRun(Aged(es, r), curenv, r)[s]
  PROVE  /\ e \in Env
         /\ e.priority = es[s].priority
         /\ e.wait_ticks = IF s = r THEN 0
                           ELSE IF /\ es[s].status = "RUNNABLE"
                                   /\ es[s].wait_ticks < WaitCap
                                THEN es[s].wait_ticks + 1
                                ELSE es[s].wait_ticks
         /\ e.status = IF s = r THEN "RUNNING"
                       ELSE IF s = curenv /\ es[s].status = "RUNNING"
                            THEN "RUNNABLE"
                            ELSE es[s].status
<1> DEFINE a == Aged(es, r)[s]
<1>1. es[s] \in Env
  OBVIOUS
<1>2. a = IF s = r THEN [es[s] EXCEPT !.wait_ticks = 0]
          ELSE IF es[s].status = "RUNNABLE" /\ es[s].wait_ticks < WaitCap
               THEN [es[s] EXCEPT !.wait_ticks = @ + 1]
               ELSE es[s]
  BY AgingAssumption DEF Aged
<1>3. e = IF s = r THEN [a EXCEPT !.status = "RUNNING"]
          ELSE IF s = curenv /\ a.status = "RUNNING"
               THEN [a EXCEPT !.status = "RUNNABLE"]
               ELSE a
  BY DEF EnvRun
<1> HIDE DEF a
<1>4. /\ a \in Env
      /\ a.priority = es[s].priority
      /\ a.status = es[s].status
      /\ a.wait_ticks = IF s = r THEN 0
                        ELSE IF /\ es[s].status = "RUNNABLE"
                                /\ es[s].wait_ticks < WaitCap
                             THEN es[s].wait_ticks + 1
                             ELSE es[s].wait_ticks
  BY <1>1, <1>2 DEF Env
<1> QED BY <1>3, <1>4 DEF Env, Statuses

-----------------------------------------------------------------------------
LEMMA DecideStep ==
  ASSUME AgingInv, NEW es, Decided(es), Decide(es)
  PROVE  AgingInv'
<1> USE WaitCapType
<1>0. NENV \in Nat /\ NULL \notin Slots
  BY PolicyAssumption DEF NULL, Slots
<1>1. ASSUME NEW r \in Slots,
             envs' = EnvRun(Aged(es, r), curenv, r),
             curenv' = r,
             waited' = [s \in Slots |->
                          IF s # r /\ es[s].status = "RUNNABLE"
                          THEN IF waited[s] = WaitCap + NENV
                               THEN waited[s] ELSE waited[s] + 1
                          ELSE 0]
      PROVE  AgingInv'
  <2>1. es \in [Slots -> Env]
    BY DEF Decided
  <2>2. \A s \in Slots :
          /\ envs'[s] \in Env
          /\ envs'[s].wait_ticks =
               IF s = r THEN 0
               ELSE IF es[s].status = "RUNNABLE" /\ es[s].wait_ticks < WaitCap
                    THEN es[s].wait_ticks + 1
                    ELSE es[s].wait_ticks
          /\ envs'[s].status = IF s = r THEN "RUNNING"
                               ELSE IF s = curenv /\ es[s].status = "RUNNING"
                                    THEN "RUNNABLE"
                                    ELSE es[s].status
    BY <1>1, <2>1, RunTable
  <2>3. envs' \in [Slots -> Env]
    BY <1>1, <2>2 DEF EnvRun
  <2>4. \A s \in Slots : waited[s] \in Nat /\ waited[s] <= WaitCap + NENV
    BY DEF AgingInv
  <2>5. waited' \in [Slots -> Nat]
    BY <1>1, <2>4
  <2>6. ASSUME NEW s \in Slots
        PROVE  waited'[s] <= WaitCap + NENV /\ CountsWait(envs'[s], waited'[s])
    <3>1. waited'[s] = IF s # r /\ es[s].status = "RUNNABLE"
                       THEN IF waited[s] = WaitCap + NENV
                            THEN waited[s] ELSE waited[s] + 1
                       ELSE 0
      BY <1>1
    <3>2. CountsWait(es[s], waited[s]) /\ es[s] \in Env
      BY <2>1 DEF Decided
    <3> QED BY <1>0, <2>2, <2>4, <3>1, <3>2 DEF CountsWait, Env, Statuses
  <2>7. \A s \in Slots : envs'[s].status = "RUNNING" <=> s = curenv'
    BY <1>1, <2>2 DEF Decided
  <2> QED BY <1>1, <2>3, <2>5, <2>6, <2>7 DEF AgingInv
<1>2. ASSUME ~CanPick(es, curenv), envs' = es, curenv' = NULL, UNCHANGED waited
      PROVE  AgingInv'
  <2>1. ASSUME NEW s \in Slots PROVE es[s].status # "RUNNING"
    <3>1. SUFFICES ASSUME es[s].status = "RUNNING" PROVE FALSE
      OBVIOUS
    <3>2. s = curenv
      BY <3>1 DEF Decided
    <3> QED BY <1>0, <1>2, <3>1, <3>2 DEF CanPick, CanKeepCpu
  <2> QED BY <1>0, <1>2, <2>1 DEF AgingInv, Decided
<1> QED BY <1>1, <1>2 DEF Decide

LEMMA WakeupStep ==
  ASSUME AgingInv, NEW s \in Slots, Wakeup(s)
  PROVE  AgingInv'
<1>1. \A t \in Slots : envs[t] \in Env
  BY DEF AgingInv
<1>2. \A t \in Slots : /\ envs'[t].wait_ticks = envs[t].wait_ticks
                       /\ envs'[t] \in Env
                       /\ t # s => envs'[t] = envs[t]
                       /\ t = s => envs'[t].status = "RUNNABLE"
  BY <1>1 DEF AgingInv, Wakeup, Env, Statuses
<1>3. envs' \in [Slots -> Env]
  BY <1>2 DEF AgingInv, Wakeup
<1>4. envs[s].status = "NOT_RUNNABLE" /\ curenv' = curenv /\ waited' = waited
  BY DEF Wakeup
<1>5. \A t \in Slots : CountsWait(envs'[t], waited'[t])
  BY <1>2, <1>4 DEF AgingInv, CountsWait
<1>6. \A t \in Slots : envs'[t].status = "RUNNING" <=> t = curenv'
  BY <1>2, <1>4 DEF AgingInv
<1> QED BY <1>3, <1>4, <1>5, <1>6 DEF AgingInv

LEMMA NextAging == AgingInv /\ [Next]_vars => AgingInv'
<1> SUFFICES ASSUME AgingInv, [Next]_vars PROVE AgingInv'
  OBVIOUS
<1>1. CASE Yield
  BY <1>1, YieldTable, DecideStep DEF Yield
<1>2. CASE Block
  <2>1. curenv \in Slots
    BY <1>2, AgingAssumption DEF Block
  <2> QED BY <1>2, <2>1, BlockTable, DecideStep DEF Block
<1>3. CASE \E s \in Slots : Wakeup(s)
  BY <1>3, WakeupStep
<1>4. CASE UNCHANGED vars
  BY <1>4 DEF vars, AgingInv
<1> QED BY <1>1, <1>2, <1>3, <1>4 DEF Next

(* At every moment env_wait_ticks is the number of decisions in a row in   *)
(* which sched_yield() passed the environment over, as far as the bonus    *)
(* goes, and only curenv is ENV_RUNNING.                                   *)
THEOREM AgingInvariant == Spec => []AgingInv
<1> QED BY InitAging, NextAging, PTL DEF Spec

-----------------------------------------------------------------------------
(***************************************************************************)
(* The choice of sched_yield(), seen from an environment it passes over.   *)
(***************************************************************************)
LEMMA PickedFirst ==
  ASSUME AgingInv, NEW es, Decided(es), Decide(es),
         curenv' # curenv, curenv' # NULL,
         NEW s \in Slots, s # curenv', envs[s].status = "RUNNABLE"
  PROVE  \/ envs[s].priority <= envs[curenv'].priority
         \/ waited[s] < waited[curenv']
<1> USE WaitCapType
<1>1. PICK r \in Slots : Picks(es, curenv, r) /\ curenv' = r
  BY DEF Decide
<1>2. r # curenv /\ s # curenv
  BY <1>1 DEF AgingInv
<1>3. es[r] = envs[r] /\ es[s] = envs[s]
  BY <1>2 DEF Decided
<1>4. s \in Ready(es)
  BY <1>3 DEF Ready
<1>5. PrioritiesPick(es, curenv, r)
  BY <1>1, AgingAssumption DEF Picks
<1>6. envs[r] \in Env /\ envs[s] \in Env
  BY DEF AgingInv
<1>7. /\ sched_effective_priority(es[r]) \in Int
      /\ sched_effective_priority(es[s]) \in Int
  BY <1>3, <1>6, BonusType, PolicyAssumption
     DEF sched_effective_priority, Env, Priorities
<1>8. sched_effective_priority(es[r]) >= sched_effective_priority(es[s])
  BY <1>2, <1>4, <1>5, <1>7 DEF PrioritiesPick
<1> DEFINE br == Bonus(envs[r].wait_ticks)
           bs == Bonus(envs[s].wait_ticks)
<1>9. /\ envs[r].wait_ticks \in Nat /\ envs[s].wait_ticks \in Nat
      /\ envs[r].priority \in Nat /\ envs[s].priority \in Nat
  BY <1>6, PolicyAssumption DEF Env, Priorities
<1>10. br \in Nat /\ bs \in Nat
  BY <1>9, BonusType
<1>11. envs[r].priority + br >= envs[s].priority + bs
  BY <1>3, <1>8 DEF sched_effective_priority
<1>12. bs < br => envs[s].wait_ticks < envs[r].wait_ticks
  BY <1>9, BonusMonotone
<1> HIDE DEF br, bs
<1>13. CASE envs[s].priority <= envs[r].priority
  BY <1>1, <1>13
<1>14. CASE ~(envs[s].priority <= envs[r].priority)
  <2>1. envs[s].wait_ticks < envs[r].wait_ticks
    BY <1>9, <1>10, <1>11, <1>12, <1>14
  <2>2. /\ CountsWait(envs[s], waited[s]) /\ CountsWait(envs[r], waited[r])
        /\ waited[s] \in Nat /\ waited[r] \in Nat
    BY DEF AgingInv
  <2>3. waited[s] < waited[r]
    BY <2>1, <2>2 DEF CountsWait
  <2> QED BY <1>1, <2>3
<1> QED BY <1>13, <1>14

(* Aging orders the ready queue by priority and age together and never     *)
(* inverts it: sched_yield() does not switch to an environment while one   *)
(* with a higher base priority, passed over at least as often, is ready.   *)
THEOREM AgingKeepsTheOrder == Spec => NoInversion
<1> DEFINE Kept == \A s \in Slots :
                     /\ curenv' # curenv /\ curenv' # NULL
                     /\ s # curenv' /\ envs[s].status = "RUNNABLE"
                     => \/ envs[s].priority <= envs[curenv'].priority
                        \/ waited[s] < waited[curenv']
<1>1. AgingInv /\ [Next]_vars => [Kept]_vars
  <2> SUFFICES ASSUME AgingInv, Next PROVE Kept
    BY DEF vars
  <2>1. CASE Yield
    BY <2>1, YieldTable, PickedFirst DEF Yield
  <2>2. CASE Block
    <3>1. curenv \in Slots
      BY <2>2, AgingAssumption DEF Block
    <3> QED BY <2>2, <3>1, BlockTable, PickedFirst DEF Block
  <2>3. CASE \E s \in Slots : Wakeup(s)
    BY <2>3 DEF Wakeup
  <2> QED BY <2>1, <2>2, <2>3 DEF Next
<1> QED BY <1>1, AgingInvariant, PTL DEF Spec, NoInversion

-----------------------------------------------------------------------------
(***************************************************************************)
(* How long one can wait among few environments.                           *)
(***************************************************************************)
AFew == NENV <= AGING_THRESHOLD + 1 /\ ENV_PRIORITY_MAX > 0

LEMMA BonusBounds ==
  ASSUME NEW w \in Nat, NEW b \in 0 .. ENV_PRIORITY_MAX
  PROVE  /\ w < b * AGING_THRESHOLD + AGING_THRESHOLD => Bonus(w) <= b
         /\ b * AGING_THRESHOLD <= w => Bonus(w) >= b
<1> DEFINE T == AGING_THRESHOLD
           q == w \div T
<1>1. T \in Nat \ {0} /\ b \in Nat /\ ENV_PRIORITY_MAX \in Nat
  BY PolicyAssumption
<1>2. q \in Nat /\ T * q <= w /\ w < T * q + T
  BY <1>1, DivBounds
<1>3. Bonus(w) = IF q > ENV_PRIORITY_MAX THEN ENV_PRIORITY_MAX ELSE q
  BY DEF Bonus
<1> HIDE DEF T, q
<1>4. ASSUME b + 1 <= q PROVE b * T + T <= T * q
  BY <1>1, <1>2, <1>4
<1>5. ASSUME q + 1 <= b PROVE T * q + T <= b * T
  BY <1>1, <1>2, <1>5
<1>6. b * T \in Nat /\ T * q \in Nat
  BY <1>1, <1>2
<1>7. w < b * T + T => q <= b
  BY <1>1, <1>2, <1>4, <1>6
<1>8. b * T <= w => q >= b
  BY <1>1, <1>2, <1>5, <1>6
<1>9. /\ w < b * T + T => Bonus(w) <= b
      /\ b * T <= w => Bonus(w) >= b
  BY <1>1, <1>2, <1>3, <1>7, <1>8
<1> QED BY <1>9 DEF T

LEMMA ModOnce ==
  ASSUME NEW x \in Int, NEW n \in Nat \ {0}, x \in -n .. n - 1
  PROVE  x % n = IF x >= 0 THEN x ELSE x + n
<1> DEFINE q == x \div n
           p == n * q
           r == x % n
<1>1. r \in 0 .. n - 1 /\ q \in Int /\ p \in Int /\ x = p + r
  OBVIOUS
<1> HIDE DEF q, r
<1>2. /\ q >= 1 => p >= n
      /\ q = 0 => p = 0
      /\ q = -1 => p = -n
      /\ q <= -2 => p <= -n - n
  <2>1. q >= 1 => n * q >= n
    BY <1>1
  <2>2. q <= -2 => n * q <= -n - n
    BY <1>1
  <2>3. (q = 0 => n * q = 0) /\ (q = -1 => n * q = -n)
    BY <1>1
  <2> QED BY <2>1, <2>2, <2>3
<1> HIDE DEF p
<1>3. r = IF x >= 0 THEN x ELSE x + n
  BY <1>1, <1>2
<1> QED BY <1>3 DEF r

(* The scan comes round to the slots in order, beginning after cur. *)
LEMMA ScanIs ==
  ASSUME NEW cur \in Slots \cup {NULL}, NEW s \in Slots
  PROVE  ScanPosition(cur, s) = IF s > cur THEN s - cur - 1 ELSE s - cur - 1 + NENV
<1> DEFINE x == s - (cur + 1)
<1>1. NENV \in Nat \ {0} /\ x \in Int /\ x \in -NENV .. NENV - 1
      /\ s \in Int /\ cur \in Int
  BY PolicyAssumption DEF Slots, NULL
<1>2. ScanPosition(cur, s) = x % NENV
  BY DEF ScanPosition
<1>3. x = s - cur - 1 /\ (x >= 0 <=> s > cur)
  BY <1>1
<1> HIDE DEF x
<1>4. x % NENV = IF x >= 0 THEN x ELSE x + NENV
  BY <1>1, ModOnce
<1> QED BY <1>2, <1>3, <1>4

LEMMA ScanRange ==
  ASSUME NEW cur \in Slots \cup {NULL}, NEW s \in Slots
  PROVE  ScanPosition(cur, s) \in 0 .. NENV - 1
  BY ScanIs, PolicyAssumption DEF Slots, NULL

(* Whoever is picked before s moves the start of the scan towards s. *)
LEMMA ScanMovesOn ==
  ASSUME NEW cur \in Slots \cup {NULL}, NEW r \in Slots, NEW s \in Slots, r # s
  PROVE  /\ ScanPosition(r, s) <= NENV - 2
         /\ ScanPosition(cur, r) <= ScanPosition(cur, s) =>
              ScanPosition(r, s) <= ScanPosition(cur, s) - 1
<1>1. ScanPosition(r, s) = IF s > r THEN s - r - 1 ELSE s - r - 1 + NENV
  BY ScanIs
<1>2. ScanPosition(cur, s) = IF s > cur THEN s - cur - 1 ELSE s - cur - 1 + NENV
  BY ScanIs
<1>3. ScanPosition(cur, r) = IF r > cur THEN r - cur - 1 ELSE r - cur - 1 + NENV
  BY ScanIs
<1> QED BY <1>1, <1>2, <1>3, PolicyAssumption DEF Slots, NULL

(* From Start on, an environment has the largest effective priority that   *)
(* one that has just run can have; Passes counts the decisions that have   *)
(* gone to others since then.                                              *)
Start(p) == (ENV_PRIORITY_MAX - p) * AGING_THRESHOLD

Passes(p, w) == IF p = ENV_PRIORITY_MAX THEN w
                ELSE IF w < Start(p) THEN 0 ELSE w - Start(p) + 1

LEMMA StartIs ==
  ASSUME NEW p \in Priorities
  PROVE  /\ Start(p) \in Nat /\ Start(p) <= WaitCap
         /\ p = ENV_PRIORITY_MAX => Start(p) = 0
         /\ p # ENV_PRIORITY_MAX => Start(p) >= 1
<1> DEFINE T == AGING_THRESHOLD
           k == ENV_PRIORITY_MAX - p
<1>1. T \in Nat \ {0} /\ k \in Nat /\ k <= ENV_PRIORITY_MAX /\ ENV_PRIORITY_MAX \in Nat
      /\ (p = ENV_PRIORITY_MAX <=> k = 0)
  BY PolicyAssumption DEF Priorities
<1> HIDE DEF T, k
<1>2. k * T \in Nat /\ k * T <= ENV_PRIORITY_MAX * T
  BY <1>1
<1>3. (k = 0 => k * T = 0) /\ (k # 0 => k * T >= 1)
  BY <1>1
<1>4. Start(p) = k * T /\ WaitCap = ENV_PRIORITY_MAX * T
  BY DEF Start, WaitCap, T, k
<1> QED BY <1>1, <1>2, <1>3, <1>4

(* Each of these decisions brought the scan closer to it, so that there    *)
(* are fewer of them than environments.                                    *)
Closer(e, w, cur, s) ==
  e.status = "RUNNABLE" => Passes(e.priority, w) + ScanPosition(cur, s) <= NENV - 1

FewInv ==
  /\ AgingInv
  /\ \A s \in Slots : Closer(envs[s], waited[s], curenv, s)

LEMMA WaitBound ==
  ASSUME AFew, NEW e \in Env, NEW w \in Nat, CountsWait(e, w),
         NEW cur \in Slots \cup {NULL}, NEW s \in Slots, Closer(e, w, cur, s)
  PROVE  w <= WaitCap + NENV - 2
<1>1. Start(e.priority) \in Nat /\ Start(e.priority) <= WaitCap
  BY StartIs DEF Env
<1>2. WaitCap >= 1 /\ WaitCap \in Nat /\ NENV \in Nat \ {0}
  <2>1. \A a, b \in Nat \ {0} : a * b \in Nat /\ a * b >= 1
    OBVIOUS
  <2> QED BY <2>1, PolicyAssumption DEF WaitCap, AFew
<1>3. CASE e.status # "RUNNABLE"
  BY <1>2, <1>3 DEF CountsWait
<1>4. CASE e.status = "RUNNABLE"
  <2>1. Passes(e.priority, w) + ScanPosition(cur, s) <= NENV - 1
    BY <1>4 DEF Closer
  <2>2. ScanPosition(cur, s) \in 0 .. NENV - 1
    BY ScanRange
  <2>3. Passes(e.priority, w) <= NENV - 1
    BY <1>1, <1>2, <2>1, <2>2 DEF Passes
  <2> QED BY <1>1, <1>2, <2>3 DEF Passes
<1> QED BY <1>3, <1>4

(* Nobody's effective priority exceeds ENV_PRIORITY_MAX, but that of an    *)
(* environment at the maximum that the scan finds first.                   *)
LEMMA EffectiveBounds ==
  ASSUME AFew, NEW e \in Env, e.status = "RUNNABLE", NEW w \in Nat, CountsWait(e, w),
         NEW cur \in Slots \cup {NULL}, NEW s \in Slots, Closer(e, w, cur, s)
  PROVE  /\ sched_effective_priority(e) \in Nat
         /\ sched_effective_priority(e) <= ENV_PRIORITY_MAX + 1
         /\ sched_effective_priority(e) > ENV_PRIORITY_MAX => ScanPosition(cur, s) = 0
         /\ w >= Start(e.priority) => sched_effective_priority(e) >= ENV_PRIORITY_MAX
<1> DEFINE p == e.priority
           M == ENV_PRIORITY_MAX
           T == AGING_THRESHOLD
           v == e.wait_ticks
           n == NENV
           b == Bonus(v)
           sc == ScanPosition(cur, s)
<1>1. /\ p \in 0 .. M /\ v \in Nat /\ M \in Nat \ {0} /\ T \in Nat \ {0}
      /\ n \in Nat \ {0} /\ n <= T + 1 /\ sc \in 0 .. n - 1
  BY ScanRange, PolicyAssumption DEF Env, Priorities, AFew
<1>2. v = IF w < WaitCap THEN w ELSE WaitCap
  BY DEF CountsWait
<1>3. Start(p) \in Nat /\ Start(p) <= WaitCap /\ Start(p) = (M - p) * T
  BY <1>1, StartIs DEF Start, Priorities
<1>4. Passes(p, w) + sc <= n - 1
  BY DEF Closer
<1>5. b \in Nat
  BY <1>1, BonusType
<1>6. sched_effective_priority(e) = p + b
  BY DEF sched_effective_priority
<1>7. v <= w /\ (w >= Start(p) => v >= Start(p))
  BY <1>2, <1>3, WaitCapType
<1>8. M - p \in 0 .. M
  BY <1>1
<1>9. v >= Start(p) => b >= M - p
  BY <1>1, <1>3, <1>8, BonusBounds
<1>10. v < Start(p) + T => b <= M - p
  BY <1>1, <1>3, <1>8, BonusBounds
<1>11. p = M => (v < T => b <= 0) /\ (v < T + T => b <= 1)
  <2>1. 0 \in 0 .. M /\ 1 \in 0 .. M /\ 0 * T + T = T /\ 1 * T + T = T + T
    BY <1>1
  <2> QED BY <1>1, <2>1, BonusBounds
<1> HIDE DEF p, M, T, v, n, b, sc
<1>12. CASE p # M
  <2>1. Passes(p, w) = IF w < Start(p) THEN 0 ELSE w - Start(p) + 1
    BY <1>12 DEF Passes, M
  <2>2. w < Start(p) + T
    BY <1>1, <1>3, <1>4, <2>1
  <2> QED BY <1>1, <1>3, <1>5, <1>6, <1>7, <1>9, <1>10, <2>2 DEF p, M, sc
<1>13. CASE p = M
  <2>1. Passes(p, w) = w
    BY <1>13 DEF Passes, M
  <2>2. w <= T - sc
    BY <1>1, <1>4, <2>1
  <2>3. b <= 1 /\ (sc # 0 => b <= 0)
    BY <1>1, <1>7, <1>11, <1>13, <2>2
  <2> QED BY <1>1, <1>5, <1>6, <1>13, <2>3 DEF p, M, sc
<1> QED BY <1>12, <1>13

(* Once it is there, only those before it in the scan can be picked. *)
LEMMA PickedBefore ==
  ASSUME AFew, FewInv, NEW es, Decided(es), NEW r \in Slots, Picks(es, curenv, r),
         NEW s \in Slots, s # r, es[s].status = "RUNNABLE",
         waited[s] >= Start(es[s].priority)
  PROVE  ScanPosition(curenv, r) <= ScanPosition(curenv, s)
<1> DEFINE M == ENV_PRIORITY_MAX
           eff(u) == sched_effective_priority(es[u])
           sc(u) == ScanPosition(curenv, u)
<1>0. /\ curenv \in Slots \cup {NULL} /\ M \in Nat
      /\ \A u \in Slots : waited[u] \in Nat
  BY PolicyAssumption DEF FewInv, AgingInv
<1>1. \A u \in Slots : es[u] \in Env /\ CountsWait(es[u], waited[u])
  BY DEF Decided
<1>2. ASSUME NEW u \in Slots, es[u].status = "RUNNABLE"
      PROVE  Closer(es[u], waited[u], curenv, u)
  <2>1. u # curenv
    BY <1>2 DEF Decided
  <2>2. es[u] = envs[u]
    BY <2>1 DEF Decided
  <2> QED BY <2>2 DEF FewInv
<1>3. ASSUME NEW u \in Slots, es[u].status = "RUNNABLE"
      PROVE  /\ eff(u) \in Nat /\ eff(u) <= M + 1
             /\ eff(u) > M => sc(u) = 0
             /\ waited[u] >= Start(es[u].priority) => eff(u) >= M
  <2>1. es[u] \in Env /\ CountsWait(es[u], waited[u]) /\ waited[u] \in Nat
    BY <1>0, <1>1
  <2>2. Closer(es[u], waited[u], curenv, u)
    BY <1>2, <1>3
  <2> QED BY <1>0, <1>3, <2>1, <2>2, EffectiveBounds
<1>4. \A u \in Slots : sc(u) \in 0 .. NENV - 1
  BY <1>0, ScanRange
<1>5. s \in Ready(es) /\ PrioritiesPick(es, curenv, r)
  BY AgingAssumption DEF Ready, Picks
<1>6. CASE r \in Ready(es)
  <2>1. es[r].status = "RUNNABLE"
    BY <1>6 DEF Ready
  <2>2. \/ eff(r) > eff(s)
        \/ eff(r) = eff(s) /\ sc(r) <= sc(s)
        \/ r = curenv /\ es[curenv].status = "RUNNING"
    BY <1>5 DEF PrioritiesPick, CanKeepCpu
  <2>3. ~(r = curenv /\ es[curenv].status = "RUNNING")
    BY <2>1
  <2>4. /\ eff(s) \in Nat /\ eff(s) >= M
        /\ eff(r) \in Nat /\ eff(r) <= M + 1 /\ (eff(r) > M => sc(r) = 0)
    BY <1>3, <2>1
  <2>5. sc(r) \in 0 .. NENV - 1 /\ sc(s) \in 0 .. NENV - 1
    BY <1>4
  <2> HIDE DEF eff, sc, M
  <2>6. sc(r) <= sc(s)
    BY <1>0, <2>2, <2>3, <2>4, <2>5
  <2> QED BY <2>6 DEF sc
<1>7. CASE r \notin Ready(es)
  <2>1. r = curenv /\ es[r].status = "RUNNING" /\ eff(r) > eff(s)
    BY <1>5, <1>7 DEF PrioritiesPick, CanKeepCpu
  <2>2. es[r].wait_ticks = 0 /\ es[r].priority \in 0 .. M
    BY <1>1, <2>1, WaitCapType DEF CountsWait, Env, Priorities
  <2>3. Bonus(0) = 0
    BY DivExact, BonusBounds, BonusType, PolicyAssumption
  <2>4. eff(r) \in Nat /\ eff(r) <= M
    BY <1>0, <2>2, <2>3 DEF sched_effective_priority
  <2>5. eff(s) \in Nat /\ eff(s) >= M
    BY <1>3
  <2> HIDE DEF eff, M
  <2> QED BY <1>0, <2>1, <2>4, <2>5
<1> QED BY <1>6, <1>7

(* One more decision: either it is not there yet, or the scan is closer.   *)
LEMMA PassesNext ==
  ASSUME NEW p \in Priorities, NEW w \in Nat, NEW a \in Nat, NEW b \in Nat,
         Passes(p, w) + a <= NENV - 1, b <= NENV - 2,
         w >= Start(p) => b <= a - 1
  PROVE  Passes(p, w + 1) + b <= NENV - 1
<1>1. /\ Start(p) \in Nat
      /\ p = ENV_PRIORITY_MAX => Start(p) = 0
      /\ p # ENV_PRIORITY_MAX => Start(p) >= 1
  BY StartIs
<1>2. NENV \in Nat \ {0}
  BY PolicyAssumption
<1> QED BY <1>1, <1>2 DEF Passes

LEMMA FewDecide ==
  ASSUME AFew, FewInv, NEW es, Decided(es), Decide(es)
  PROVE  FewInv'
<1>0. AgingInv'
  BY DecideStep DEF FewInv
<1>1. ASSUME NEW r \in Slots, Picks(es, curenv, r), curenv' = r,
             envs' = EnvRun(Aged(es, r), curenv, r),
             waited' = [s \in Slots |->
                          IF s # r /\ es[s].status = "RUNNABLE"
                          THEN IF waited[s] = WaitCap + NENV
                               THEN waited[s] ELSE waited[s] + 1
                          ELSE 0],
             NEW s \in Slots, envs'[s].status = "RUNNABLE"
      PROVE  Passes(envs'[s].priority, waited'[s]) + ScanPosition(curenv', s) <= NENV - 1
  <2>1. es \in [Slots -> Env] /\ es[s] \in Env
    BY DEF Decided
  <2>2. /\ envs'[s].priority = es[s].priority
        /\ envs'[s].status = IF s = r THEN "RUNNING"
                             ELSE IF s = curenv /\ es[s].status = "RUNNING"
                                  THEN "RUNNABLE" ELSE es[s].status
    BY <1>1, <2>1, RunTable
  <2>3. s # r
    BY <1>1, <2>2
  <2> DEFINE p == es[s].priority
             w == waited[s]
             a == ScanPosition(curenv, s)
             b == ScanPosition(r, s)
  <2>4. p \in Priorities /\ w \in Nat /\ curenv \in Slots \cup {NULL}
    BY <2>1 DEF FewInv, AgingInv, Env
  <2>5. a \in 0 .. NENV - 1 /\ b \in 0 .. NENV - 1 /\ b <= NENV - 2
    BY <2>3, <2>4, ScanRange, ScanMovesOn
  <2>6. NENV \in Nat \ {0} /\ WaitCap \in Nat
    BY PolicyAssumption, WaitCapType
  <2>7. CASE es[s].status = "RUNNABLE"
    <3>1. s # curenv
      BY <2>7 DEF Decided
    <3>2. es[s] = envs[s]
      BY <3>1 DEF Decided
    <3>3. Closer(es[s], w, curenv, s) /\ CountsWait(es[s], w)
      BY <3>2 DEF FewInv, Decided
    <3>4. Passes(p, w) + a <= NENV - 1
      BY <2>7, <3>3 DEF Closer
    <3>5. w <= WaitCap + NENV - 2
      BY <2>1, <2>4, <3>3, WaitBound
    <3>6. waited'[s] = w + 1
      BY <1>1, <2>3, <2>4, <2>6, <2>7, <3>5
    <3>7. w >= Start(p) => ScanPosition(curenv, r) <= a
      BY <1>1, <2>3, <2>7, PickedBefore
    <3>8. w >= Start(p) => b <= a - 1
      BY <2>3, <2>4, <3>7, ScanMovesOn
    <3> HIDE DEF p, w, a, b
    <3>9. Passes(p, w + 1) + b <= NENV - 1
      BY <2>4, <2>5, <3>4, <3>8, PassesNext
    <3> QED BY <1>1, <2>2, <3>6, <3>9 DEF p, b
  <2>8. CASE es[s].status # "RUNNABLE"
    <3>1. waited'[s] = 0
      BY <1>1, <2>8
    <3>2. Passes(p, 0) = 0
      BY <2>4, StartIs DEF Passes
    <3> HIDE DEF p, b
    <3>3. Passes(p, 0) + b <= NENV - 1
      BY <2>5, <2>6, <3>2
    <3> QED BY <1>1, <2>2, <3>1, <3>3 DEF p, b
  <2> QED BY <2>7, <2>8
<1>2. ASSUME ~CanPick(es, curenv), envs' = es
      PROVE  \A s \in Slots : envs'[s].status # "RUNNABLE"
  BY <1>2 DEF CanPick, Ready
<1>3. \A s \in Slots : envs'[s].status = "RUNNABLE" =>
        Passes(envs'[s].priority, waited'[s]) + ScanPosition(curenv', s) <= NENV - 1
  BY <1>1, <1>2 DEF Decide
<1> QED BY <1>0, <1>3 DEF FewInv, Closer

LEMMA FewWakeup ==
  ASSUME FewInv, NEW t \in Slots, Wakeup(t)
  PROVE  FewInv'
<1>0. AgingInv /\ AgingInv'
  BY WakeupStep DEF FewInv
<1>1. ASSUME NEW s \in Slots
      PROVE  Closer(envs'[s], waited'[s], curenv', s)
  <2>1. /\ curenv' = curenv /\ waited' = waited /\ envs[t].status = "NOT_RUNNABLE"
        /\ envs' = [envs EXCEPT ![t].status = "RUNNABLE"]
    BY DEF Wakeup
  <2>2. CASE s # t
    <3>1. envs'[s] = envs[s]
      BY <1>0, <2>1, <2>2 DEF AgingInv
    <3> QED BY <2>1, <3>1 DEF FewInv
  <2>3. CASE s = t
    <3>1. /\ waited[s] = 0 /\ curenv \in Slots \cup {NULL}
          /\ envs[s] \in Env
      BY <1>0, <2>1, <2>3 DEF AgingInv, CountsWait
    <3>2. envs'[s].priority = envs[s].priority /\ envs[s].priority \in Priorities
      BY <1>0, <2>1, <2>3, <3>1 DEF AgingInv, Env
    <3>3. Passes(envs[s].priority, 0) = 0
      BY <3>2, StartIs DEF Passes
    <3>4. ScanPosition(curenv, s) \in 0 .. NENV - 1 /\ NENV \in Nat \ {0}
      BY <3>1, ScanRange, PolicyAssumption
    <3> QED BY <2>1, <3>1, <3>2, <3>3, <3>4 DEF Closer
  <2> QED BY <2>2, <2>3
<1> QED BY <1>0, <1>1 DEF FewInv

(* Among at most AGING_THRESHOLD + 1 environments, none is passed over in  *)
(* more than ENV_PRIORITY_MAX * AGING_THRESHOLD scheduling decisions and   *)
(* one more for each of the others but one, whatever their priorities and  *)
(* however they sleep and wait for messages in between.                    *)
THEOREM FewBoundedWait == ASSUME AFew PROVE Spec => []BoundedWait
<1>1. Init => FewInv
  <2> SUFFICES ASSUME Init PROVE FewInv
    OBVIOUS
  <2>1. AgingInv
    BY InitAging
  <2>2. ASSUME NEW s \in Slots PROVE Closer(envs[s], waited[s], curenv, s)
    <3>1. waited[s] = 0 /\ curenv \in Slots \cup {NULL} /\ envs[s].priority \in Priorities
      BY <2>1 DEF Init, AgingInv, Env
    <3>2. Passes(envs[s].priority, 0) = 0
      BY <3>1, StartIs DEF Passes
    <3>3. ScanPosition(curenv, s) \in 0 .. NENV - 1 /\ NENV \in Nat \ {0}
      BY <3>1, ScanRange, PolicyAssumption
    <3> QED BY <3>1, <3>2, <3>3 DEF Closer
  <2> QED BY <2>1, <2>2 DEF FewInv
<1>2. FewInv /\ [Next]_vars => FewInv'
  <2> SUFFICES ASSUME FewInv, [Next]_vars PROVE FewInv'
    OBVIOUS
  <2>0. AgingInv
    BY DEF FewInv
  <2>1. CASE Yield
    BY <2>0, <2>1, YieldTable, FewDecide DEF Yield
  <2>2. CASE Block
    <3>1. curenv \in Slots
      BY <2>2, AgingAssumption DEF Block
    <3> QED BY <2>0, <2>2, <3>1, BlockTable, FewDecide DEF Block
  <2>3. CASE \E s \in Slots : Wakeup(s)
    BY <2>3, FewWakeup
  <2>4. CASE UNCHANGED vars
    <3>1. AgingInv'
      BY <2>0, <2>4, NextAging
    <3> QED BY <2>4, <3>1 DEF FewInv, vars
  <2> QED BY <2>1, <2>2, <2>3, <2>4 DEF Next
<1>3. FewInv => BoundedWait
  <2> SUFFICES ASSUME FewInv, NEW s \in Slots
               PROVE  waited[s] <= WaitCap + NENV - 2
    BY DEF BoundedWait
  <2>1. /\ envs[s] \in Env /\ waited[s] \in Nat /\ curenv \in Slots \cup {NULL}
        /\ CountsWait(envs[s], waited[s]) /\ Closer(envs[s], waited[s], curenv, s)
    BY DEF FewInv, AgingInv
  <2> QED BY <2>1, WaitBound
<1> QED BY <1>1, <1>2, <1>3, PTL DEF Spec

(* Two environments, as in the comment of sched_effective_priority(): with *)
(* any threshold, none is passed over in more than ENV_PRIORITY_MAX *      *)
(* AGING_THRESHOLD decisions in a row.                                     *)
APair == NENV = 2 /\ ENV_PRIORITY_MAX > 0

THEOREM PairBoundedWait ==
  ASSUME APair PROVE Spec => [](\A s \in Slots : waited[s] <= WaitCap)
<1>1. AFew
  BY PolicyAssumption DEF AFew, APair
<1>2. BoundedWait => \A s \in Slots : waited[s] <= WaitCap
  BY WaitCapType DEF BoundedWait, APair
<1> QED BY <1>1, <1>2, FewBoundedWait, PTL
=============================================================================
