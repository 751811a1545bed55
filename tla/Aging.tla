------------------------------- MODULE Aging --------------------------------
(***************************************************************************)
(* The priority scheduler of kern/sched.c on one CPU, with environments    *)
(* that exist from the start: how long one of them can stay in the ready   *)
(* queue while sched_yield() picks others.  A step is one scheduling       *)
(* decision, or the wakeup of a blocked environment.                       *)
(***************************************************************************)
EXTENDS SchedPolicy

CONSTANTS
  BasePriorities,  \* the assignments of env_priority to start from
  MayBlock         \* the slots that sometimes sleep or wait for a message

ASSUME AgingAssumption ==
  /\ Policy = "PR"
  /\ BasePriorities \subseteq [Slots -> Priorities]
  /\ MayBlock \subseteq Slots

VARIABLES
  envs,    \* the fields of envs[] the scheduler uses
  curenv,  \* the environment on the CPU, NULL while it is halted
  waited   \* (history) consecutive decisions each environment has been
           \* passed over in; counted up to WaitCap + NENV

vars == <<envs, curenv, waited>>

Init ==
  /\ \E priority \in BasePriorities :
       envs = [s \in Slots |-> [status |-> "RUNNABLE",
                                priority |-> priority[s],
                                wait_ticks |-> 0]]
  /\ curenv = NULL
  /\ waited = [s \in Slots |-> 0]

(* sched_yield() on the table es: run the choice, or halt. *)
Decide(es) ==
  \/ \E r \in Slots :
       /\ Picks(es, curenv, r)
       /\ envs' = EnvRun(Aged(es, r), curenv, r)
       /\ curenv' = r
       /\ waited' = [s \in Slots |->
                       IF s # r /\ es[s].status = "RUNNABLE"
                       THEN IF waited[s] = WaitCap + NENV THEN waited[s]
                                                        ELSE waited[s] + 1
                       ELSE 0]
  \/ /\ ~CanPick(es, curenv)
     /\ envs' = es
     /\ curenv' = NULL
     /\ UNCHANGED waited

(* A timer interrupt, or sys_yield(). *)
Yield == Decide(envs)

(* sys_sleep() or sys_ipc_recv(). *)
Block ==
  /\ curenv \in MayBlock
  /\ Decide([envs EXCEPT ![curenv].status = "NOT_RUNNABLE"])

(* The time to sleep is over, or the message has come. *)
Wakeup(s) ==
  /\ envs[s].status = "NOT_RUNNABLE"
  /\ envs' = [envs EXCEPT ![s].status = "RUNNABLE"]
  /\ UNCHANGED <<curenv, waited>>

Next == Yield \/ Block \/ \E s \in Slots : Wakeup(s)

(* The timer keeps interrupting: scheduling decisions do not stop.         *)
Spec == Init /\ [][Next]_vars /\ WF_vars(Yield)

-----------------------------------------------------------------------------

(* The worst case: an environment is passed over in ENV_PRIORITY_MAX *     *)
(* AGING_THRESHOLD decisions until its bonus is full, and then in one more *)
(* for each of the others that reach the same effective priority first,    *)
(* but the one on the CPU.  For a pair this is the bound that the comment  *)
(* of sched_effective_priority() computes.  It is a bound for at most      *)
(* AGING_THRESHOLD + 1 environments (AgingProofs): with many, those at the *)
(* maximum wait long enough to pass the full bonus (see NoStarvation).     *)
BoundedWait == \A s \in Slots : waited[s] <= WaitCap + NENV - 2

(* Aging rules out starvation: a ready environment eventually runs.        *)
NoStarvation ==
  \A s \in Slots : envs[s].status = "RUNNABLE" ~> envs[s].status = "RUNNING"

(* The CPU is never left to an environment while a ready one has a higher  *)
(* base priority and has been passed over at least as often: aging orders  *)
(* the queue by priority and age together, it does not invert it.          *)
NoInversion ==
  [][\A s \in Slots :
       /\ curenv' # curenv /\ curenv' # NULL
       /\ s # curenv' /\ envs[s].status = "RUNNABLE"
       => \/ envs[s].priority <= envs[curenv'].priority
          \/ waited[s] < waited[curenv']]_vars
=============================================================================
