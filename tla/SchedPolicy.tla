---------------------------- MODULE SchedPolicy ----------------------------
(***************************************************************************)
(* kern/sched.c: which environment sched_yield() runs next, for the two    *)
(* policies the build can select (USE_RR=1 and USE_PR=1), and the aging    *)
(* counters the priority policy keeps.  Everything here is a definition    *)
(* over a value `es' of the envs[] table; the state is in the modules that *)
(* extend this one.                                                        *)
(***************************************************************************)
EXTENDS Integers

CONSTANTS
  NENV,              \* number of slots of envs[] (1024 in the code)
  Policy,            \* "RR": -DSCHED_ROUND_ROBIN, "PR": -DSCHED_PRIORITIES
  ENV_PRIORITY_MAX,  \* 15 in the code
  AGING_THRESHOLD    \* 4 in the code

ASSUME PolicyAssumption ==
  /\ NENV \in Nat \ {0}
  /\ Policy \in {"RR", "PR"}
  /\ ENV_PRIORITY_MAX \in Nat
  /\ AGING_THRESHOLD \in Nat \ {0}

Slots      == 0 .. NENV - 1
NULL       == -1                     \* the null `struct Env *'
Priorities == 0 .. ENV_PRIORITY_MAX

(***************************************************************************)
(* env_wait_ticks is a uint32_t that keeps growing while an environment    *)
(* waits.  Only wait / AGING_THRESHOLD up to ENV_PRIORITY_MAX is ever      *)
(* read, so the model stops counting at WaitCap: the bonus is the same.    *)
(***************************************************************************)
WaitCap == ENV_PRIORITY_MAX * AGING_THRESHOLD

Bonus(wait) ==
  IF wait \div AGING_THRESHOLD > ENV_PRIORITY_MAX
  THEN ENV_PRIORITY_MAX
  ELSE wait \div AGING_THRESHOLD

sched_effective_priority(e) == e.priority + Bonus(e.wait_ticks)

-----------------------------------------------------------------------------

Ready(es) == {s \in Slots : es[s].status = "RUNNABLE"}

(* curenv can be picked again only while it is still ENV_RUNNING.          *)
CanKeepCpu(es, cur) == cur # NULL /\ es[cur].status = "RUNNING"

(* Position of slot s in the circular scan that starts right after curenv  *)
(* (at slot 0 when there is no curenv).                                    *)
ScanFromSlotZero(cur, s) == s
ScanPosition(cur, s) == (s - (cur + 1)) % NENV

(* First ENV_RUNNABLE in circular order; curenv again when there is none.  *)
RoundRobinPicks(es, cur, r) ==
  \/ /\ r \in Ready(es)
     /\ \A t \in Ready(es) : ScanPosition(cur, r) <= ScanPosition(cur, t)
  \/ /\ Ready(es) = {}
     /\ CanKeepCpu(es, cur)
     /\ r = cur

(* Highest effective priority among the ENV_RUNNABLE ones, the first in    *)
(* the scan on a tie; curenv keeps the CPU only with a STRICTLY higher     *)
(* effective priority than all of them.                                    *)
PrioritiesPickTieKeeps(es, cur, r) ==
  LET prio(s) == sched_effective_priority(es[s])
  IN  \/ /\ r \in Ready(es)
         /\ \A t \in Ready(es) :
              \/ prio(r) > prio(t)
              \/ /\ prio(r) = prio(t)
                 /\ ScanPosition(cur, r) <= ScanPosition(cur, t)
         /\ CanKeepCpu(es, cur) => prio(cur) < prio(r)
      \/ /\ CanKeepCpu(es, cur)
         /\ r = cur
         /\ \A t \in Ready(es) : prio(cur) >= prio(t)

PrioritiesPick(es, cur, r) ==
  LET prio(s) == sched_effective_priority(es[s])
  IN  \/ /\ r \in Ready(es)
         /\ \A t \in Ready(es) :
              \/ prio(r) > prio(t)
              \/ /\ prio(r) = prio(t)
                 /\ ScanPosition(cur, r) <= ScanPosition(cur, t)
         /\ CanKeepCpu(es, cur) => prio(cur) <= prio(r)
      \/ /\ CanKeepCpu(es, cur)
         /\ r = cur
         /\ \A t \in Ready(es) : prio(cur) > prio(t)

Picks(es, cur, r) ==
  \/ Policy = "RR" /\ RoundRobinPicks(es, cur, r)
  \/ Policy = "PR" /\ PrioritiesPick(es, cur, r)

(* There is something sched_yield() can run. *)
CanPick(es, cur) == Ready(es) # {} \/ CanKeepCpu(es, cur)

(* The loop after the choice: the one picked goes back to zero, everyone   *)
(* else in the ready queue accrues wait time.  Round robin keeps no wait.  *)
AgedNoReset(es, r) ==
  [s \in Slots |->
     IF s # r /\ es[s].status = "RUNNABLE" /\ es[s].wait_ticks < WaitCap
     THEN [es[s] EXCEPT !.wait_ticks = @ + 1]
     ELSE es[s]]

Aged(es, r) ==
  IF Policy = "RR" THEN es
  ELSE [s \in Slots |->
          IF s = r THEN [es[s] EXCEPT !.wait_ticks = 0]
          ELSE IF es[s].status = "RUNNABLE" /\ es[s].wait_ticks < WaitCap
               THEN [es[s] EXCEPT !.wait_ticks = @ + 1]
               ELSE es[s]]

(* kern/env.c, env_run(): the environment that was running goes back to    *)
(* the ready queue, unless whoever knocked it off the CPU already gave it  *)
(* another state; the chosen one runs.                                     *)
EnvRun(es, cur, r) ==
  [s \in Slots |->
     IF s = r THEN [es[s] EXCEPT !.status = "RUNNING"]
     ELSE IF s = cur /\ es[s].status = "RUNNING"
          THEN [es[s] EXCEPT !.status = "RUNNABLE"]
          ELSE es[s]]
=============================================================================
