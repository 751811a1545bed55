---------------------------- MODULE UserLibProofs ----------------------------
(***************************************************************************)
(* Proofs about UserLib, for any number of threads, peers, environments    *)
(* and values.                                                             *)
(***************************************************************************)
EXTENDS UserLib, FiniteSetTheorems, TLAPS

Types ==
  /\ status \in [Envs -> {"UNBORN", "RUNNABLE", "WAITING", "DEAD", "PANIC"}]
  /\ recving \in [Envs -> BOOLEAN]
  /\ dstva \in [Envs -> BOOLEAN]
  /\ ipc \in [Envs -> [from : Envs \cup {NULL}, value : Values \cup {NULL},
                       perm : BOOLEAN]]
  /\ nthreads \in Nat
  /\ stack \in [Stacks -> {"unmapped", "zero", "ready"}]
  /\ stackOf \in [Threads -> Nat \cup {NULL}]
  /\ call \in [Envs -> Calls \cup {NULL}]
  /\ raced \in BOOLEAN
  /\ inbox = [e \in Envs |-> inbox[e]]

(***************************************************************************)
(* thread_create(), as long as one call runs at a time.                    *)
(***************************************************************************)
Born == {t \in Threads : status[t] # "UNBORN"}

(* Whoever is in thread_create() runs, and is a thread of the process. *)
CreatorsRun ==
  \A e \in Envs : Creating(e) => status[e] = "RUNNABLE" /\ e \in Process

(* The one that is in thread_create() works on the next stack. *)
OneCreator ==
  /\ \A e, f \in Process : Creating(e) /\ Creating(f) => e = f
  /\ \A e \in Process : Creating(e) => call[e].n = nthreads

(* Somebody has started a thread that it has not counted yet. *)
Uncounted == \E e \in Process : Creating(e) /\ call[e].at \in {"load", "store"}

(* nthreads counts the threads started, on stacks 0, 1, 2, ... *)
Counted ==
  /\ Cardinality(Born) = IF Uncounted THEN nthreads + 1 ELSE nthreads
  /\ \A t \in Born : /\ stackOf[t] \in Nat
                     /\ stackOf[t] < nthreads \/ (stackOf[t] = nthreads /\ Uncounted)
  /\ \A t, u \in Born : stackOf[t] = stackOf[u] => t = u
  /\ Uncounted => \E t \in Born : stackOf[t] = nthreads

(* The stack of a live thread is ready, and so is the one a call is about  *)
(* to start a thread on.                                                   *)
StacksReady ==
  /\ \A t \in Threads : Alive(t) => stack[stackOf[t]] = "ready"
  /\ \A e \in Process :
       /\ Creating(e) /\ call[e].at = "write" => stack[nthreads] # "unmapped"
       /\ Creating(e) /\ call[e].at = "thread_create" => stack[nthreads] = "ready"

(* Every other mapped stack is that of a thread that has exited. *)
Mapped ==
  \A n \in Stacks :
    stack[n] # "unmapped" =>
      \/ \E t \in Born : stackOf[t] = n
      \/ /\ n = nthreads
         /\ \E e \in Process :
              Creating(e) /\ call[e].at \in {"write", "thread_create", "unmap"}

(* The main thread has exited, perhaps in the middle of a call of another. *)
ProcessGone ==
  /\ \A e \in Process : ~Alive(e)
  /\ \A n \in Stacks : stack[n] = "unmapped"

Serial == OneCreator /\ Counted /\ StacksReady /\ Mapped

StacksInv == Types /\ CreatorsRun /\ (raced \/ ProcessGone \/ Serial)

(***************************************************************************)
(* ipc_recv().  It reads its result from thisenv, which is the caller only *)
(* when the caller is no second thread of a process.                       *)
(***************************************************************************)
MainThreadsReceive == Receivers \cap Threads = {}

Delivered(e, from, value) ==
  \E m : inbox[e] = <<m>> /\ m.from = from /\ m.value = value

(* Exactly those that wait in sys_ipc_recv() have env_ipc_recving set. *)
MailOrder == \A e \in Envs : status[e] = "WAITING" <=> recving[e]

Receiving(e) == call[e] # NULL /\ call[e].at \in {"header", "value", "returned"}

MailFor(e) ==
  /\ recving[e] => Receiving(e) /\ call[e].at = "header" /\ inbox[e] = <<>>
  /\ ~Receiving(e) => inbox[e] = <<>> /\ ~recving[e]
  /\ Receiving(e) /\ ~recving[e] =>
       /\ Delivered(e, ipc[e].from, ipc[e].value)
       /\ call[e].at \in {"value", "returned"} => call[e].from = ipc[e].from
       /\ call[e].at = "returned" => call[e].value = ipc[e].value

MailInv == \A e \in Receivers : MailFor(e)

-----------------------------------------------------------------------------
(***************************************************************************)
(* Types.                                                                  *)
(***************************************************************************)
CreatingCalls == [at : CreatingAt, n : Nat]
SendingCalls  == [at : {"try_send"}, to : Envs, value : Values, pg : BOOLEAN]

LEMMA CallKinds ==
  /\ \A c \in Calls : c # NULL
  /\ \A c \in Calls : c.at \in CreatingAt => c \in CreatingCalls
  /\ \A c \in Calls : c.at = "try_send" => c \in SendingCalls
  /\ \A c \in Calls : c.at = "value" =>
       c \in [at : {"value"}, from : Envs \cup {NULL}, perm : BOOLEAN]
  /\ \A c \in CreatingCalls, at \in CreatingAt :
       [c EXCEPT !.at = at] \in Calls
<1>1. \A c \in Calls : c # NULL
  BY UserLibAssumption
<1>2. \A c \in Calls : c.at \in CreatingAt => c \in CreatingCalls
  BY DEF Calls, CreatingAt, CreatingCalls
<1>3. \A c \in Calls : c.at = "try_send" => c \in SendingCalls
  BY DEF Calls, CreatingAt, SendingCalls
<1>4. \A c \in Calls : c.at = "value" =>
        c \in [at : {"value"}, from : Envs \cup {NULL}, perm : BOOLEAN]
  BY DEF Calls, CreatingAt
<1>5. \A c \in CreatingCalls, at \in CreatingAt : [c EXCEPT !.at = at] \in Calls
  BY DEF Calls, CreatingCalls
<1> QED BY <1>1, <1>2, <1>3, <1>4, <1>5

LEMMA InitTypes == Init => Types
<1> SUFFICES ASSUME Init PROVE Types
  OBVIOUS
<1>1. NoIpc \in [from : Envs \cup {NULL}, value : Values \cup {NULL}, perm : BOOLEAN]
  BY DEF NoIpc
<1>2. stackOf \in [Threads -> Nat \cup {NULL}] /\ raced \in BOOLEAN
  BY DEF Init
<1> QED BY <1>1, <1>2 DEF Init, Types

LEMMA DestroyTypes ==
  ASSUME Types, NEW e \in Envs, Destroy(e)
  PROVE  Types'
<1>1. NoIpc \in [from : Envs \cup {NULL}, value : Values \cup {NULL}, perm : BOOLEAN]
  BY DEF NoIpc
<1>3. /\ status' \in [Envs -> {"UNBORN", "RUNNABLE", "WAITING", "DEAD", "PANIC"}]
      /\ recving' \in [Envs -> BOOLEAN]
      /\ stack' \in [Stacks -> {"unmapped", "zero", "ready"}]
      /\ call' \in [Envs -> Calls \cup {NULL}]
  BY DEF Destroy, Types
<1>4. ipc' \in [Envs -> [from : Envs \cup {NULL}, value : Values \cup {NULL},
                         perm : BOOLEAN]]
  BY <1>1 DEF Destroy, Types
<1>5. inbox' = [f \in Envs |-> inbox'[f]]
  BY DEF Destroy
<1>6. UNCHANGED <<dstva, nthreads, stackOf, raced>>
  BY DEF Destroy
<1> QED BY <1>3, <1>4, <1>5, <1>6 DEF Types

(* The steps of thread_create() write a call, the stacks and the counter.  *)
LEMMA NextTypes == Types /\ [Next]_vars => Types'
<1> SUFFICES ASSUME Types, [Next]_vars PROVE Types'
  OBVIOUS
<1> USE DEF Enter, Return, In, Idle, unchangedThreads, unchangedIpc
<1>r. /\ "RUNNABLE" \in {"UNBORN", "RUNNABLE", "WAITING", "DEAD", "PANIC"}
      /\ Threads \subseteq Envs /\ Process \subseteq Envs
      /\ Receivers \subseteq Envs /\ PgArgs \subseteq BOOLEAN
  BY UserLibAssumption DEF Envs, Process
<1>c. ASSUME NEW e \in Envs, NEW f \in CreatingAt, In(e, f)
      PROVE  /\ call[e] \in CreatingCalls
             /\ call[e].n \in Nat
             /\ \A at \in CreatingAt :
                  [call EXCEPT ![e] = [call[e] EXCEPT !.at = at]]
                    \in [Envs -> Calls \cup {NULL}]
  BY <1>c, CallKinds DEF Types, CreatingCalls
<1>d. \A e \in Envs : \A n \in Nat, at \in CreatingAt :
        [call EXCEPT ![e] = [at |-> at, n |-> n]] \in [Envs -> Calls \cup {NULL}]
  BY DEF Types, Calls
<1>n. \A e \in Envs : [call EXCEPT ![e] = NULL] \in [Envs -> Calls \cup {NULL}]
  BY DEF Types
<1>1. ASSUME NEW e \in Envs, WriteStack(e) PROVE Types'
  BY <1>1, <1>c DEF WriteStack, Types, CreatingAt
<1>2. ASSUME NEW e \in Envs, LoadCount(e) PROVE Types'
  BY <1>2, <1>d DEF LoadCount, Types, CreatingAt
<1>3. ASSUME NEW e \in Envs, StoreCount(e) PROVE Types'
  <2>1. call[e].n \in Nat
    BY <1>3, <1>c DEF StoreCount, CreatingAt
  <2> QED BY <1>3, <1>n, <2>1 DEF StoreCount, Types
<1>4. ASSUME NEW e \in Envs, ReadHeader(e) PROVE Types'
  <2>1. ThisEnv(e) \in Envs
    BY DEF ThisEnv, Envs, Process
  <2>2. [at |-> "value", from |-> ipc[ThisEnv(e)].from,
                         perm |-> ipc[ThisEnv(e)].perm] \in Calls
    BY <2>1 DEF Types, Calls
  <2> QED BY <1>4, <2>2 DEF ReadHeader, Types
<1>5. ASSUME NEW e \in Envs, ReadValue(e) PROVE Types'
  <2>1. ThisEnv(e) \in Envs
    BY DEF ThisEnv, Envs, Process
  <2>2. call[e].from \in Envs \cup {NULL} /\ call[e].perm \in BOOLEAN
    <3>1. call[e] \in Calls /\ call[e].at = "value"
      BY <1>5 DEF ReadValue, Types
    <3>2. call[e] \in [at : {"value"}, from : Envs \cup {NULL}, perm : BOOLEAN]
      BY <3>1, CallKinds
    <3> QED BY <3>2
  <2>3. [at |-> "returned", from |-> call[e].from, perm |-> call[e].perm,
         value |-> ipc[ThisEnv(e)].value] \in Calls
    BY <2>1, <2>2 DEF Types, Calls
  <2> QED BY <1>5, <2>3 DEF ReadValue, Types
<1>6. ASSUME NEW e \in Envs, RecvReturns(e) PROVE Types'
  BY <1>6, <1>n DEF RecvReturns, Types
<1>7. ASSUME NEW e \in Envs, PageAlloc(e) PROVE Types'
  <2>1. CASE call' = [call EXCEPT ![e] = NULL] /\ UNCHANGED stack
    BY <1>7, <1>n, <2>1 DEF PageAlloc, Types
  <2>2. CASE /\ stack' = [stack EXCEPT ![call[e].n] = "zero"]
             /\ call' = [call EXCEPT ![e] = [call[e] EXCEPT !.at = "write"]]
    <3>1. call' \in [Envs -> Calls \cup {NULL}]
      BY <1>7, <1>c, <2>2 DEF PageAlloc, CreatingAt
    <3>2. UNCHANGED <<status, nthreads, stackOf, raced, recving, dstva, ipc, inbox>>
      BY <1>7 DEF PageAlloc
    <3> QED BY <1>n, <2>2, <3>1, <3>2 DEF Types
  <2> QED BY <1>7, <2>1, <2>2 DEF PageAlloc
<1>8. ASSUME NEW e \in Envs, WriteFaults(e) \/ Exit(e) PROVE Types'
  <2>1. Destroy(e)
    BY <1>8 DEF WriteFaults, Exit
  <2> QED BY <2>1, DestroyTypes
<1>9. ASSUME NEW e \in Envs, NEW t \in Threads, SysThreadCreate(e, t)
      PROVE  Types'
  <2>1. /\ call[e].n \in Nat
        /\ call' \in [Envs -> Calls \cup {NULL}]
    BY <1>9, <1>c DEF SysThreadCreate, CreatingAt
  <2> QED BY <1>9, <1>r, <2>1 DEF SysThreadCreate, Types
<1>10. ASSUME NEW e \in Envs, NoFreeEnv(e) PROVE Types'
  BY <1>10, <1>c DEF NoFreeEnv, Types, CreatingAt
<1>11. ASSUME NEW e \in Envs, Unmap(e) PROVE Types'
  BY <1>11, <1>n DEF Unmap, Types
<1>12. ASSUME NEW e \in Envs, TrySend(e) PROVE Types'
  <2> DEFINE m == call[e]
  <2>1. m \in SendingCalls
    BY <1>12, CallKinds DEF TrySend, Types
  <2>2. m.to \in Envs /\ m.value \in Values /\ m.pg \in BOOLEAN
    BY <2>1 DEF SendingCalls
  <2>3. dstva[m.to] \in BOOLEAN /\ ipc[m.to].perm \in BOOLEAN
    BY <2>2 DEF Types
  <2>4. Perm(m.to, m.pg) \in BOOLEAN
    BY <2>2, <2>3 DEF Perm
  <2>5. [from |-> e, value |-> m.value, perm |-> Perm(m.to, m.pg)]
          \in [from : Envs \cup {NULL}, value : Values \cup {NULL}, perm : BOOLEAN]
    BY <2>2, <2>4
  <2>7. inbox' = [f \in Envs |-> inbox'[f]]
    BY <1>12, <2>2 DEF TrySend, Types
  <2>8. ipc' \in [Envs -> [from : Envs \cup {NULL}, value : Values \cup {NULL},
                           perm : BOOLEAN]]
    BY <1>12, <2>5 DEF TrySend, Types
  <2>9. /\ status' \in [Envs -> {"UNBORN", "RUNNABLE", "WAITING", "DEAD", "PANIC"}]
        /\ recving' \in [Envs -> BOOLEAN]
        /\ call' \in [Envs -> Calls \cup {NULL}]
        /\ UNCHANGED <<nthreads, stack, stackOf, raced, dstva>>
    BY <1>12, <1>n DEF TrySend, Types, Woken, RecvingCleared
  <2> QED BY <2>7, <2>8, <2>9 DEF Types
<1>13. ASSUME NEW e \in Envs, SendPanics(e) PROVE Types'
  BY <1>13 DEF SendPanics, Panic, Types
<1>14. ASSUME NEW e \in Envs, ThreadCreate(e) PROVE Types'
  BY <1>14, <1>d DEF ThreadCreate, Types, CreatingAt
<1>15. ASSUME NEW e \in Envs, NEW to \in Receivers, NEW v \in Values,
              NEW pg \in PgArgs, IpcSend(e, to, v, pg)
       PROVE  Types'
  <2>1. [at |-> "try_send", to |-> to, value |-> v, pg |-> pg] \in Calls
    BY <1>r DEF Calls
  <2> QED BY <1>15, <2>1 DEF IpcSend, Types
<1>16. ASSUME NEW e \in Envs, NEW pg \in PgArgs, IpcRecv(e, pg) PROVE Types'
  <2>1. [at |-> "header"] \in Calls
    BY DEF Calls
  <2> QED BY <1>16, <1>r, <2>1 DEF IpcRecv, Types
<1>17. CASE UNCHANGED vars
  BY <1>17 DEF vars, Types
<1> QED BY <1>1, <1>2, <1>3, <1>4, <1>5, <1>6, <1>7, <1>8, <1>9, <1>10, <1>11,
           <1>12, <1>13, <1>14, <1>15, <1>16, <1>17
        DEF Next, Proceed, UserStep, KernelStep, NotRecv

-----------------------------------------------------------------------------
(***************************************************************************)
(* The stacks.                                                             *)
(***************************************************************************)

LEMMA ThreadsAreEnvs == Threads \subseteq Process /\ Process \subseteq Envs
  BY DEF Process, Envs

LEMMA BornFinite ==
  /\ IsFiniteSet(Threads)
  /\ IsFiniteSet(Born)
  /\ Cardinality(Born) \in Nat
  /\ Cardinality(Threads) \in Nat
  /\ Cardinality(Born) <= Cardinality(Threads)
<1>1. IsFiniteSet(Threads)
  BY UserLibAssumption, ThreadsAreEnvs, FS_Subset
<1>2. Born \subseteq Threads
  BY DEF Born
<1> QED BY <1>1, <1>2, FS_Subset, FS_CardinalityType

(* The next stack is one of the process's, and only one of its own.        *)
LEMMA NextStackFits ==
  ASSUME Types, Counted
  PROVE  nthreads \in Stacks
BY BornFinite DEF Counted, Stacks, Types

(* A step that is no part of thread_create() and kills nobody.             *)
LEMMA Elsewhere ==
  ASSUME StacksInv, Types', unchangedThreads,
         \A f \in Envs :
           /\ Creating(f)' <=> Creating(f)
           /\ Creating(f) => call'[f] = call[f] /\ status'[f] = status[f]
           /\ Alive(f)' => Alive(f)
           /\ status'[f] = "UNBORN" <=> status[f] = "UNBORN"
  PROVE  StacksInv'
<1> USE ThreadsAreEnvs
<1>1. CreatorsRun'
  BY DEF StacksInv, CreatorsRun
<1>2. Born' = Born
  BY DEF Born
<1>3. ASSUME ProcessGone PROVE ProcessGone'
  BY <1>3 DEF ProcessGone, unchangedThreads
<1>4. ASSUME Serial PROVE Serial'
  <2>1. OneCreator'
    BY <1>4 DEF Serial, OneCreator, unchangedThreads
  <2>2. Uncounted' <=> Uncounted
    BY DEF Uncounted
  <2>3. Counted'
    BY <1>2, <1>4, <2>2 DEF Serial, Counted, unchangedThreads
  <2>4. StacksReady'
    BY <1>4 DEF Serial, StacksReady, unchangedThreads
  <2>5. Mapped'
    BY <1>2, <1>4 DEF Serial, Mapped, unchangedThreads
  <2> QED BY <2>1, <2>3, <2>4, <2>5 DEF Serial
<1> QED BY <1>1, <1>3, <1>4 DEF StacksInv, unchangedThreads

(* Who is in a step of thread_create().                                    *)
LEMMA CreatorAlone ==
  ASSUME StacksInv, NEW e \in Envs, NEW f \in CreatingAt, In(e, f)
  PROVE  /\ e \in Process
         /\ Creating(e)
         /\ raced \/ Serial
         /\ Serial => /\ call[e].n = nthreads
                      /\ \A g \in Process \ {e} : ~Creating(g)
                      /\ Uncounted <=> f \in {"load", "store"}
                      /\ nthreads \in Stacks
<1>1. Creating(e) /\ status[e] = "RUNNABLE" /\ call[e].at = f
  BY DEF In, Creating
<1>2. e \in Process
  BY <1>1 DEF StacksInv, CreatorsRun
<1>3. ~ProcessGone
  BY <1>1, <1>2 DEF ProcessGone, Alive
<1>4. ASSUME Serial
      PROVE  /\ call[e].n = nthreads
             /\ \A g \in Process \ {e} : ~Creating(g)
             /\ Uncounted <=> f \in {"load", "store"}
             /\ nthreads \in Stacks
  <2>1. call[e].n = nthreads /\ \A g \in Process \ {e} : ~Creating(g)
    BY <1>1, <1>2, <1>4 DEF Serial, OneCreator
  <2>2. Uncounted <=> f \in {"load", "store"}
    BY <1>1, <1>2, <2>1 DEF Uncounted
  <2> QED BY <1>4, <2>1, <2>2, NextStackFits DEF StacksInv, Serial
<1> QED BY <1>1, <1>2, <1>3, <1>4 DEF StacksInv

(* What a step of e does to who is in thread_create().                     *)
LEMMA CreatorMoves ==
  ASSUME StacksInv, NEW e \in Envs, NEW r \in Calls \cup {NULL},
         call' = [call EXCEPT ![e] = r]
  PROVE  /\ call'[e] = r
         /\ \A f \in Envs \ {e} : call'[f] = call[f]
         /\ \A f \in Envs \ {e} : Creating(f)' <=> Creating(f)
         /\ r = NULL => ~Creating(e)'
         /\ r # NULL => (Creating(e)' <=> r.at \in CreatingAt)
<1>1. call'[e] = r /\ \A f \in Envs \ {e} : call'[f] = call[f]
  BY DEF StacksInv, Types
<1> QED BY <1>1 DEF Creating

(* The entry: only now can the calls of two threads begin to overlap.      *)
LEMMA ThreadCreateStep ==
  ASSUME StacksInv, Types', NEW e \in Envs, ThreadCreate(e)
  PROVE  StacksInv'
<1> DEFINE r == [at |-> "page_alloc", n |-> nthreads]
<1>1. r \in CreatingCalls /\ r \in Calls /\ r # NULL /\ r.at = "page_alloc"
      /\ r.n = nthreads
  <2>1. r \in CreatingCalls
    BY DEF StacksInv, Types, CreatingCalls, CreatingAt
  <2>2. r \in Calls
    BY <2>1 DEF Calls, CreatingCalls
  <2> QED BY <2>1, <2>2, CallKinds
<1>2. /\ call' = [call EXCEPT ![e] = r]
      /\ e \in Process /\ status[e] = "RUNNABLE" /\ ~Creating(e)
      /\ raced' = (raced \/ \E f \in Process : Creating(f))
      /\ UNCHANGED <<status, nthreads, stack, stackOf>>
  BY DEF ThreadCreate, Idle, Enter, Creating
<1> HIDE DEF r
<1>3. /\ call'[e] = r /\ Creating(e)'
      /\ \A f \in Envs \ {e} : call'[f] = call[f] /\ (Creating(f)' <=> Creating(f))
  BY <1>1, <1>2, CreatorMoves DEF CreatingAt
<1>4. CreatorsRun'
  BY <1>2, <1>3 DEF StacksInv, CreatorsRun
<1>5. CASE raced'
  BY <1>4, <1>5 DEF StacksInv
<1>6. CASE ~raced'
  <2>1. ~raced /\ \A f \in Process : ~Creating(f)
    BY <1>2, <1>6
  <2>2. Serial
    BY <1>2, <2>1 DEF StacksInv, ProcessGone, Alive
  <2>3. \A f \in Process : Creating(f)' <=> f = e
    BY <1>3, <2>1, ThreadsAreEnvs
  <2>4. ~Uncounted /\ ~Uncounted'
    BY <1>1, <1>3, <2>1, <2>3 DEF Uncounted
  <2>5. Born' = Born
    BY <1>2 DEF Born
  <2>6. OneCreator'
    BY <1>1, <1>2, <1>3, <2>3 DEF OneCreator
  <2>7. Counted'
    BY <1>2, <2>2, <2>4, <2>5 DEF Serial, Counted
  <2>8. StacksReady'
    BY <1>1, <1>2, <1>3, <2>2, <2>3 DEF Serial, StacksReady, Alive
  <2>9. Mapped'
    BY <1>2, <2>1, <2>2, <2>5 DEF Serial, Mapped
  <2> QED BY <1>4, <2>6, <2>7, <2>8, <2>9 DEF StacksInv, Serial
<1> QED BY <1>5, <1>6

(***************************************************************************)
(* A step of the call that starts or counts no thread: e goes from f to r  *)
(* (NULL when it returns), and only its own stack may change.              *)
(***************************************************************************)
LEMMA PrepareStep ==
  ASSUME StacksInv, Types', NEW e \in Envs,
         NEW f \in {"page_alloc", "write", "thread_create", "unmap"}, In(e, f),
         NEW r \in Calls \cup {NULL}, call' = [call EXCEPT ![e] = r],
         r # NULL => /\ r.at \in {"write", "thread_create", "unmap"}
                     /\ r.n = call[e].n,
         UNCHANGED <<status, nthreads, stackOf, raced>>,
         \A n \in Stacks : n # call[e].n => stack'[n] = stack[n],
         Serial => /\ r = NULL => stack'[nthreads] = "unmapped"
                   /\ r # NULL /\ r.at = "write" => stack'[nthreads] # "unmapped"
                   /\ r # NULL /\ r.at = "thread_create" => stack'[nthreads] = "ready"
  PROVE  StacksInv'
<1>0. f \in CreatingAt
  BY DEF CreatingAt
<1>1. /\ call'[e] = r
      /\ Creating(e)' <=> r # NULL
      /\ \A g \in Envs \ {e} : call'[g] = call[g] /\ (Creating(g)' <=> Creating(g))
  BY CreatorMoves DEF CreatingAt
<1>2. e \in Process /\ Creating(e) /\ status[e] = "RUNNABLE" /\ (raced \/ Serial)
  BY <1>0, CreatorAlone DEF In
<1>3. CreatorsRun'
  BY <1>1, <1>2 DEF StacksInv, CreatorsRun
<1>4. ASSUME Serial PROVE Serial'
  <2>1. /\ call[e].n = nthreads
        /\ \A g \in Process \ {e} : ~Creating(g)
        /\ ~Uncounted
        /\ nthreads \in Stacks
    BY <1>0, <1>4, CreatorAlone
  <2>2. \A g \in Process : Creating(g)' <=> g = e /\ r # NULL
    BY <1>1, <2>1, ThreadsAreEnvs
  <2>3. ~Uncounted'
    BY <1>1, <2>2 DEF Uncounted
  <2>4. Born' = Born
    BY DEF Born
  <2>5. OneCreator'
    BY <1>1, <2>1, <2>2 DEF OneCreator
  <2>6. Counted'
    BY <1>4, <2>1, <2>3, <2>4 DEF Serial, Counted
  <2>7. \A t \in Threads : Alive(t) => stackOf[t] \in Stacks /\ stackOf[t] # nthreads
    <3> SUFFICES ASSUME NEW t \in Threads, Alive(t)
                 PROVE  stackOf[t] \in Stacks /\ stackOf[t] # nthreads
      OBVIOUS
    <3>1. t \in Born
      BY DEF Born, Alive
    <3>2. stackOf[t] \in Nat /\ stackOf[t] < nthreads
      BY <1>4, <2>1, <3>1 DEF Serial, Counted
    <3>3. nthreads \in Nat /\ Cardinality(Threads) \in Nat
      BY BornFinite DEF StacksInv, Types
    <3> QED BY <2>1, <3>2, <3>3 DEF Stacks
  <2>8. StacksReady'
    <3>1. \A t \in Threads : Alive(t)' => stack'[stackOf'[t]] = "ready"
      BY <1>4, <2>1, <2>7 DEF Serial, StacksReady, Alive
    <3>2. \A g \in Process :
            /\ Creating(g)' /\ call'[g].at = "write" => stack'[nthreads'] # "unmapped"
            /\ Creating(g)' /\ call'[g].at = "thread_create" =>
                 stack'[nthreads'] = "ready"
      BY <1>1, <1>4, <2>2
    <3> QED BY <3>1, <3>2 DEF StacksReady
  <2>9. Mapped'
    <3> SUFFICES ASSUME NEW n \in Stacks, stack'[n] # "unmapped"
                 PROVE  \/ \E t \in Born : stackOf[t] = n
                        \/ /\ n = nthreads
                           /\ \E g \in Process :
                                /\ Creating(g)'
                                /\ call'[g].at \in {"write", "thread_create", "unmap"}
      BY <2>4 DEF Mapped
    <3>1. CASE n = nthreads
      <4>1. r # NULL
        BY <1>4, <3>1
      <4> QED BY <1>1, <1>2, <2>2, <3>1, <4>1
    <3>2. CASE n # nthreads
      <4>1. stack[n] # "unmapped"
        BY <2>1, <3>2
      <4> QED BY <1>4, <3>2, <4>1 DEF Serial, Mapped
    <3> QED BY <3>1, <3>2
  <2> QED BY <2>5, <2>6, <2>8, <2>9 DEF Serial
<1> QED BY <1>2, <1>3, <1>4 DEF StacksInv

LEMMA PageAllocStep ==
  ASSUME StacksInv, Types', NEW e \in Envs, PageAlloc(e)
  PROVE  StacksInv'
<1>0. In(e, "page_alloc") /\ call[e] \in CreatingCalls
  <2>1. In(e, "page_alloc")
    BY DEF PageAlloc
  <2> QED BY <2>1, CallKinds DEF In, StacksInv, Types, CreatingAt
<1>1. Serial => call[e].n = nthreads /\ nthreads \in Stacks
  BY <1>0, CreatorAlone DEF CreatingAt
<1>2. CASE /\ stack' = [stack EXCEPT ![call[e].n] = "zero"]
           /\ Enter(e, [call[e] EXCEPT !.at = "write"])
  <2> DEFINE r == [call[e] EXCEPT !.at = "write"]
  <2>1. r \in Calls /\ r # NULL /\ r.at = "write" /\ r.n = call[e].n
    <3>1. r \in Calls
      BY <1>0, CallKinds DEF CreatingAt
    <3> QED BY <1>0, <3>1, CallKinds DEF CreatingCalls
  <2>2. call' = [call EXCEPT ![e] = r]
    BY <1>2 DEF Enter
  <2> HIDE DEF r
  <2>3. /\ \A n \in Stacks : n # call[e].n => stack'[n] = stack[n]
        /\ Serial => stack'[nthreads] = "zero"
    BY <1>1, <1>2 DEF StacksInv, Types
  <2> QED BY <1>0, <2>1, <2>2, <2>3, PrepareStep DEF PageAlloc
<1>3. CASE Return(e) /\ UNCHANGED stack
  <2>1. Serial => stack[nthreads] = "unmapped"
    <3> SUFFICES ASSUME Serial, stack[nthreads] # "unmapped" PROVE FALSE
      OBVIOUS
    <3>1. /\ \A g \in Process \ {e} : ~Creating(g)
          /\ ~Uncounted
          /\ e \in Process
      BY <1>0, CreatorAlone DEF CreatingAt
    <3>2. call[e].at = "page_alloc"
      BY <1>0 DEF In
    <3>3. PICK t \in Born : stackOf[t] = nthreads
      BY <1>1, <3>1, <3>2 DEF Serial, Mapped
    <3>4. stackOf[t] < nthreads /\ nthreads \in Nat
      BY <3>1 DEF Serial, Counted, StacksInv, Types
    <3> QED BY <3>3, <3>4
  <2>2. call' = [call EXCEPT ![e] = NULL]
    BY <1>3 DEF Return
  <2> QED BY <1>0, <1>3, <2>1, <2>2, PrepareStep DEF PageAlloc
<1> QED BY <1>2, <1>3 DEF PageAlloc

LEMMA WriteStackStep ==
  ASSUME StacksInv, Types', NEW e \in Envs, WriteStack(e)
  PROVE  StacksInv'
<1> DEFINE r == [call[e] EXCEPT !.at = "thread_create"]
<1>0. In(e, "write") /\ call[e] \in CreatingCalls
  <2>1. In(e, "write")
    BY DEF WriteStack
  <2> QED BY <2>1, CallKinds DEF In, StacksInv, Types, CreatingAt
<1>1. Serial => call[e].n = nthreads /\ nthreads \in Stacks
  BY <1>0, CreatorAlone DEF CreatingAt
<1>2. r \in Calls /\ r # NULL /\ r.at = "thread_create" /\ r.n = call[e].n
  <2>1. r \in Calls
    BY <1>0, CallKinds DEF CreatingAt
  <2> QED BY <1>0, <2>1, CallKinds DEF CreatingCalls
<1>3. call' = [call EXCEPT ![e] = r]
  BY DEF WriteStack, Enter
<1> HIDE DEF r
<1>4. /\ \A n \in Stacks : n # call[e].n => stack'[n] = stack[n]
      /\ Serial => stack'[nthreads] = "ready"
  BY <1>1 DEF WriteStack, StacksInv, Types
<1> QED BY <1>0, <1>2, <1>3, <1>4, PrepareStep DEF WriteStack

LEMMA NoFreeEnvStep ==
  ASSUME StacksInv, Types', NEW e \in Envs, NoFreeEnv(e)
  PROVE  StacksInv'
<1> DEFINE r == [call[e] EXCEPT !.at = "unmap"]
<1>0. In(e, "thread_create") /\ call[e] \in CreatingCalls
  <2>1. In(e, "thread_create")
    BY DEF NoFreeEnv
  <2> QED BY <2>1, CallKinds DEF In, StacksInv, Types, CreatingAt
<1>1. r \in Calls /\ r # NULL /\ r.at = "unmap" /\ r.n = call[e].n
  <2>1. r \in Calls
    BY <1>0, CallKinds DEF CreatingAt
  <2> QED BY <1>0, <2>1, CallKinds DEF CreatingCalls
<1>2. call' = [call EXCEPT ![e] = r]
  BY DEF NoFreeEnv, Enter
<1> HIDE DEF r
<1> QED BY <1>0, <1>1, <1>2, PrepareStep DEF NoFreeEnv, unchangedThreads

LEMMA UnmapStep ==
  ASSUME StacksInv, Types', NEW e \in Envs, Unmap(e)
  PROVE  StacksInv'
<1>0. In(e, "unmap")
  BY DEF Unmap
<1>1. Serial => call[e].n = nthreads /\ nthreads \in Stacks
  BY <1>0, CreatorAlone DEF CreatingAt
<1>2. /\ \A n \in Stacks : n # call[e].n => stack'[n] = stack[n]
      /\ Serial => stack'[nthreads] = "unmapped"
  BY <1>1 DEF Unmap, StacksInv, Types
<1>3. call' = [call EXCEPT ![e] = NULL]
  BY DEF Unmap, Return
<1> QED BY <1>0, <1>2, <1>3, PrepareStep DEF Unmap

(* sys_thread_create() starts t on the stack that e has prepared.          *)
LEMMA SysThreadCreateStep ==
  ASSUME StacksInv, Types', NEW e \in Envs, NEW t \in Threads,
         SysThreadCreate(e, t)
  PROVE  StacksInv'
<1> DEFINE r == [call[e] EXCEPT !.at = "load"]
<1>0. In(e, "thread_create") /\ call[e] \in CreatingCalls
  <2>1. In(e, "thread_create")
    BY DEF SysThreadCreate
  <2> QED BY <2>1, CallKinds DEF In, StacksInv, Types, CreatingAt
<1>1. r \in Calls /\ r # NULL /\ r.at = "load" /\ r.n = call[e].n
  <2>1. r \in Calls
    BY <1>0, CallKinds DEF CreatingAt
  <2> QED BY <1>0, <2>1, CallKinds DEF CreatingCalls
<1>2. /\ call' = [call EXCEPT ![e] = r]
      /\ status[t] = "UNBORN"
      /\ status'[t] = "RUNNABLE" /\ \A g \in Envs \ {t} : status'[g] = status[g]
      /\ stackOf'[t] = call[e].n
      /\ \A u \in Threads \ {t} : stackOf'[u] = stackOf[u]
      /\ UNCHANGED <<nthreads, stack, raced>>
  BY ThreadsAreEnvs DEF SysThreadCreate, Enter, StacksInv, Types
<1> HIDE DEF r
<1>3. /\ call'[e] = r /\ Creating(e)'
      /\ \A g \in Envs \ {e} : call'[g] = call[g] /\ (Creating(g)' <=> Creating(g))
  BY <1>1, <1>2, CreatorMoves DEF CreatingAt
<1>4. /\ e \in Process /\ Creating(e) /\ status[e] = "RUNNABLE" /\ call[e].at = "thread_create"
      /\ raced \/ Serial
  BY <1>0, CreatorAlone DEF In, CreatingAt
<1>5. ~Creating(t) /\ t # e
  BY <1>2, <1>4, ThreadsAreEnvs DEF StacksInv, CreatorsRun
<1>6. CreatorsRun'
  BY <1>2, <1>3, <1>4, <1>5 DEF StacksInv, CreatorsRun
<1>7. ASSUME Serial PROVE Serial'
  <2>1. /\ call[e].n = nthreads
        /\ \A g \in Process \ {e} : ~Creating(g)
        /\ ~Uncounted
        /\ nthreads \in Stacks
    BY <1>0, <1>7, CreatorAlone DEF CreatingAt
  <2>2. \A g \in Process : Creating(g)' <=> g = e
    BY <1>3, <2>1, ThreadsAreEnvs
  <2>3. Uncounted'
    BY <1>1, <1>3, <1>4 DEF Uncounted
  <2>4. Born' = Born \cup {t} /\ t \notin Born
    BY <1>2, ThreadsAreEnvs DEF Born
  <2>5. Cardinality(Born') = Cardinality(Born) + 1
    BY <2>4, BornFinite, FS_AddElement
  <2>6. \A u \in Born : stackOf[u] \in Nat /\ stackOf[u] < nthreads
    BY <1>7, <2>1 DEF Serial, Counted
  <2>7. \A u \in Born : stackOf'[u] = stackOf[u]
    BY <1>2, <2>4 DEF Born
  <2>8. nthreads \in Nat
    BY DEF StacksInv, Types
  <2>9. Counted'
    <3>1. Cardinality(Born') = nthreads' + 1
      BY <1>2, <1>7, <2>1, <2>5 DEF Serial, Counted
    <3>2. \A u \in Born' : stackOf'[u] \in Nat /\ (stackOf'[u] < nthreads' \/ stackOf'[u] = nthreads')
      BY <1>2, <2>1, <2>4, <2>6, <2>7, <2>8
    <3>3. \A u, v \in Born' : stackOf'[u] = stackOf'[v] => u = v
      BY <1>2, <1>7, <2>1, <2>4, <2>6, <2>7, <2>8 DEF Serial, Counted
    <3>4. \E u \in Born' : stackOf'[u] = nthreads'
      BY <1>2, <2>1, <2>4
    <3> QED BY <2>3, <3>1, <3>2, <3>3, <3>4 DEF Counted
  <2>10. OneCreator'
    BY <1>1, <1>2, <1>3, <2>1, <2>2 DEF OneCreator
  <2>11. StacksReady'
    <3>1. stack[nthreads] = "ready"
      BY <1>4, <1>7 DEF Serial, StacksReady
    <3>2. \A u \in Threads : Alive(u)' => stack'[stackOf'[u]] = "ready"
      BY <1>2, <1>7, <2>1, <3>1, ThreadsAreEnvs DEF Serial, StacksReady, Alive
    <3> QED BY <1>1, <1>3, <2>2, <3>2 DEF StacksReady
  <2>12. Mapped'
    <3> SUFFICES ASSUME NEW n \in Stacks, stack[n] # "unmapped"
                 PROVE  \E u \in Born' : stackOf'[u] = n
      BY <1>2 DEF Mapped
    <3>1. CASE n = nthreads
      BY <1>2, <2>1, <2>4, <3>1
    <3>2. CASE n # nthreads
      BY <1>7, <2>4, <2>7, <3>2 DEF Serial, Mapped
    <3> QED BY <3>1, <3>2
  <2> QED BY <2>9, <2>10, <2>11, <2>12 DEF Serial
<1> QED BY <1>2, <1>4, <1>6, <1>7 DEF StacksInv

LEMMA LoadCountStep ==
  ASSUME StacksInv, Types', NEW e \in Envs, LoadCount(e)
  PROVE  StacksInv'
<1> DEFINE r == [at |-> "store", n |-> nthreads]
<1>0. In(e, "load") /\ "load" \in CreatingAt
  BY DEF LoadCount, CreatingAt
<1>1. r \in Calls /\ r # NULL /\ r.at = "store" /\ r.n = nthreads
  <2>1. r \in Calls
    BY DEF StacksInv, Types, Calls, CreatingAt
  <2> QED BY <2>1, CallKinds
<1>2. /\ call' = [call EXCEPT ![e] = r]
      /\ UNCHANGED <<status, nthreads, stack, stackOf, raced>>
  BY DEF LoadCount, Enter, unchangedThreads
<1> HIDE DEF r
<1>3. /\ call'[e] = r /\ Creating(e)'
      /\ \A g \in Envs \ {e} : call'[g] = call[g] /\ (Creating(g)' <=> Creating(g))
  BY <1>1, <1>2, CreatorMoves DEF CreatingAt
<1>4. e \in Process /\ Creating(e) /\ status[e] = "RUNNABLE" /\ (raced \/ Serial)
  BY <1>0, CreatorAlone DEF In
<1>5. CreatorsRun'
  BY <1>2, <1>3, <1>4 DEF StacksInv, CreatorsRun
<1>6. ASSUME Serial PROVE Serial'
  <2>1. (\A g \in Process \ {e} : ~Creating(g)) /\ Uncounted
    BY <1>0, <1>6, CreatorAlone
  <2>2. \A g \in Process : Creating(g)' <=> g = e
    BY <1>3, <2>1, ThreadsAreEnvs
  <2>3. Uncounted' /\ Born' = Born
    BY <1>1, <1>2, <1>3, <1>4 DEF Uncounted, Born
  <2>4. OneCreator'
    BY <1>1, <1>2, <1>3, <2>2 DEF OneCreator
  <2>5. Counted'
    BY <1>2, <1>6, <2>1, <2>3 DEF Serial, Counted
  <2>6. StacksReady'
    BY <1>1, <1>2, <1>3, <1>6, <2>2 DEF Serial, StacksReady, Alive
  <2>7. Mapped'
    <3>1. call[e].at = "load"
      BY <1>0 DEF In
    <3> QED BY <1>2, <1>6, <2>1, <2>3, <3>1 DEF Serial, Mapped
  <2> QED BY <2>4, <2>5, <2>6, <2>7 DEF Serial
<1> QED BY <1>2, <1>4, <1>5, <1>6 DEF StacksInv

LEMMA StoreCountStep ==
  ASSUME StacksInv, Types', NEW e \in Envs, StoreCount(e)
  PROVE  StacksInv'
<1>0. In(e, "store") /\ "store" \in CreatingAt
  BY DEF StoreCount, CreatingAt
<1>1. /\ call' = [call EXCEPT ![e] = NULL]
      /\ nthreads' = call[e].n + 1
      /\ UNCHANGED <<status, stack, stackOf, raced>>
  BY DEF StoreCount, Return
<1>2. /\ call'[e] = NULL /\ ~Creating(e)'
      /\ \A g \in Envs \ {e} : call'[g] = call[g] /\ (Creating(g)' <=> Creating(g))
  BY <1>1, CreatorMoves
<1>3. raced \/ Serial
  BY <1>0, CreatorAlone
<1>4. CreatorsRun'
  BY <1>1, <1>2 DEF StacksInv, CreatorsRun
<1>5. ASSUME Serial PROVE Serial'
  <2>1. /\ call[e].n = nthreads
        /\ \A g \in Process \ {e} : ~Creating(g)
        /\ Uncounted
    BY <1>0, <1>5, CreatorAlone
  <2>2. \A g \in Process : ~Creating(g)'
    BY <1>2, <2>1, ThreadsAreEnvs
  <2>3. ~Uncounted' /\ Born' = Born
    BY <1>1, <2>2 DEF Uncounted, Born
  <2>4. nthreads \in Nat /\ nthreads' = nthreads + 1
    BY <1>1, <2>1 DEF StacksInv, Types
  <2>5. OneCreator'
    BY <2>2 DEF OneCreator
  <2>6. Counted'
    <3>1. \A t \in Born : stackOf[t] \in Nat /\ stackOf[t] < nthreads + 1
      BY <1>5, <2>4 DEF Serial, Counted
    <3>2. Cardinality(Born) = nthreads + 1
      BY <1>5, <2>1 DEF Serial, Counted
    <3>3. \A t, u \in Born : stackOf[t] = stackOf[u] => t = u
      BY <1>5 DEF Serial, Counted
    <3> QED BY <1>1, <2>3, <2>4, <3>1, <3>2, <3>3 DEF Counted
  <2>7. StacksReady'
    BY <1>1, <1>5, <2>2 DEF Serial, StacksReady, Alive
  <2>8. Mapped'
    <3>1. call[e].at = "store"
      BY <1>0 DEF In
    <3> QED BY <1>1, <1>5, <2>1, <2>3, <3>1 DEF Serial, Mapped
  <2> QED BY <2>5, <2>6, <2>7, <2>8 DEF Serial
<1> QED BY <1>1, <1>3, <1>4, <1>5 DEF StacksInv

(* exit(), of a thread that is in no call, or of the whole process.        *)
LEMMA DestroyStep ==
  ASSUME StacksInv, Types', NEW e \in Envs, Destroy(e), status[e] = "RUNNABLE",
         raced \/ ProcessGone \/ ~Creating(e)
  PROVE  StacksInv'
<1>1. Gone(e) \subseteq Envs /\ e \in Gone(e)
  BY ThreadsAreEnvs DEF Gone, Alive, Process
<1>2. /\ \A f \in Envs : status'[f] = IF f \in Gone(e) THEN "DEAD" ELSE status[f]
      /\ \A f \in Envs : call'[f] = IF f \in Gone(e) THEN NULL ELSE call[f]
      /\ UNCHANGED <<nthreads, stackOf, raced>>
  BY DEF Destroy
<1>3. \A f \in Envs : Creating(f)' <=> f \notin Gone(e) /\ Creating(f)
  BY <1>2 DEF Creating
<1>4. CreatorsRun'
  BY <1>2, <1>3 DEF StacksInv, CreatorsRun
<1>5. CASE e = Main
  <2>1. \A f \in Process : ~Alive(f)'
    BY <1>2, <1>5, ThreadsAreEnvs DEF Gone, Alive
  <2>2. \A n \in Stacks : stack'[n] = "unmapped"
    BY <1>5 DEF Destroy
  <2> QED BY <1>4, <2>1, <2>2 DEF StacksInv, ProcessGone
<1>6. CASE e # Main
  <2>1. Gone(e) = {e} /\ UNCHANGED stack
    <3>1. stack' = [n \in Stacks |-> stack[n]]
      BY <1>6 DEF Destroy
    <3>2. stack = [n \in Stacks |-> stack[n]]
      BY DEF StacksInv, Types
    <3> QED BY <1>6, <3>1, <3>2 DEF Gone
  <2>2. ASSUME ProcessGone PROVE ProcessGone'
    BY <1>2, <2>1, <2>2, ThreadsAreEnvs DEF ProcessGone, Alive
  <2>3. ASSUME Serial, ~Creating(e) PROVE Serial'
    <3>1. \A f \in Process : /\ Creating(f)' <=> Creating(f)
                             /\ Creating(f) => call'[f] = call[f]
      BY <1>2, <1>3, <2>1, <2>3, ThreadsAreEnvs
    <3>2. Born' = Born
      BY <1>2, <2>1, ThreadsAreEnvs DEF Born
    <3>3. Uncounted' <=> Uncounted
      BY <3>1 DEF Uncounted
    <3>4. OneCreator'
      BY <1>2, <2>3, <3>1 DEF Serial, OneCreator
    <3>5. Counted'
      BY <1>2, <2>3, <3>2, <3>3 DEF Serial, Counted
    <3>6. StacksReady'
      <4>1. \A t \in Threads : Alive(t)' => Alive(t)
        BY <1>2, ThreadsAreEnvs DEF Alive
      <4> QED BY <1>2, <2>1, <2>3, <3>1, <4>1 DEF Serial, StacksReady
    <3>7. Mapped'
      BY <1>2, <2>1, <2>3, <3>1, <3>2 DEF Serial, Mapped
    <3> QED BY <3>4, <3>5, <3>6, <3>7 DEF Serial
  <2> QED BY <1>2, <1>4, <2>2, <2>3 DEF StacksInv
<1> QED BY <1>5, <1>6

LEMMA InitStacks == Init => StacksInv
<1> SUFFICES ASSUME Init PROVE StacksInv
  OBVIOUS
<1>1. Types
  BY InitTypes
<1>2. \A e \in Envs : ~Creating(e)
  BY DEF Init, Creating
<1>3. Born = {} /\ ~Uncounted
  BY <1>2, ThreadsAreEnvs DEF Init, Born, Uncounted
<1>4. Counted
  BY <1>3, FS_EmptySet DEF Init, Counted
<1>5. \A t \in Threads : ~Alive(t)
  BY ThreadsAreEnvs DEF Init, Alive
<1> QED BY <1>1, <1>2, <1>4, <1>5, ThreadsAreEnvs
        DEF Init, StacksInv, CreatorsRun, Serial, OneCreator, StacksReady, Mapped

(* The steps of ipc_send() and ipc_recv() leave every creator alone.       *)
LEMMA IpcStep ==
  ASSUME StacksInv, Types', NEW e \in Envs, ~Creating(e),
         NEW r \in Calls \cup {NULL}, r # NULL => r.at \notin CreatingAt,
         call' = [call EXCEPT ![e] = r],
         unchangedThreads,
         \A f \in Envs \ {e} :
           \/ status'[f] = status[f]
           \/ status[f] = "WAITING" /\ status'[f] = "RUNNABLE",
         \/ status'[e] = status[e]
         \/ status[e] = "RUNNABLE" /\ status'[e] \in {"WAITING", "PANIC"}
  PROVE  StacksInv'
<1>1. /\ \A f \in Envs \ {e} : call'[f] = call[f] /\ (Creating(f)' <=> Creating(f))
      /\ ~Creating(e)'
  BY CreatorMoves
<1>2. ASSUME NEW f \in Envs
      PROVE  /\ Creating(f)' <=> Creating(f)
             /\ Creating(f) => call'[f] = call[f] /\ status'[f] = status[f]
             /\ Alive(f)' => Alive(f)
             /\ status'[f] = "UNBORN" <=> status[f] = "UNBORN"
  <2>1. CASE f = e
    BY <1>1, <2>1 DEF Alive
  <2>2. CASE f # e
    <3>1. Creating(f) => status[f] = "RUNNABLE"
      BY DEF StacksInv, CreatorsRun
    <3> QED BY <1>1, <2>2, <3>1 DEF Alive
  <2> QED BY <2>1, <2>2
<1> QED BY <1>2, Elsewhere

LEMMA NextStacks == StacksInv /\ MailOrder /\ [Next]_vars => StacksInv'
<1> SUFFICES ASSUME StacksInv, MailOrder, [Next]_vars PROVE StacksInv'
  OBVIOUS
<1>t. Types /\ Types'
  BY NextTypes DEF StacksInv
<1> USE DEF Enter, Return
<1>n. NULL \in Calls \cup {NULL}
  OBVIOUS
<1>i. ASSUME NEW e \in Envs, NEW f \in {"header", "value", "returned", "try_send"},
             In(e, f)
      PROVE  ~Creating(e) /\ status[e] = "RUNNABLE"
  BY <1>i DEF In, Creating, CreatingAt
<1>1. ASSUME NEW e \in Envs, UserStep(e) PROVE StacksInv'
  <2>1. CASE WriteStack(e) \/ LoadCount(e) \/ StoreCount(e)
    BY <1>t, <2>1, WriteStackStep, LoadCountStep, StoreCountStep
  <2>2. CASE ReadHeader(e)
    <3> DEFINE r == [at |-> "value", from |-> ipc[ThisEnv(e)].from,
                                     perm |-> ipc[ThisEnv(e)].perm]
    <3>1. r \in Calls /\ r.at \notin CreatingAt
      <4>1. ThisEnv(e) \in Envs
        BY DEF ThisEnv, Envs, Process
      <4> QED BY <1>t, <4>1 DEF Types, Calls, CreatingAt
    <3>2. call' = [call EXCEPT ![e] = r] /\ UNCHANGED status /\ unchangedThreads
      BY <2>2 DEF ReadHeader
    <3>3. ~Creating(e)
      BY <1>i, <2>2 DEF ReadHeader
    <3> HIDE DEF r
    <3> QED BY <1>t, <3>1, <3>2, <3>3, IpcStep
  <2>3. CASE ReadValue(e)
    <3> DEFINE r == [at |-> "returned", from |-> call[e].from,
                     perm |-> call[e].perm, value |-> ipc[ThisEnv(e)].value]
    <3>1. call'[e] = r /\ call' = [call EXCEPT ![e] = r]
      BY <1>t, <2>3 DEF ReadValue, Types
    <3>2. r \in Calls \cup {NULL} /\ r.at \notin CreatingAt
      BY <1>t, <3>1 DEF Types, CreatingAt
    <3>3. ~Creating(e) /\ UNCHANGED status /\ unchangedThreads
      BY <1>i, <2>3 DEF ReadValue
    <3> HIDE DEF r
    <3> QED BY <1>t, <3>1, <3>2, <3>3, IpcStep
  <2>4. CASE RecvReturns(e)
    <3>1. ~Creating(e)
      BY <1>i, <2>4 DEF RecvReturns
    <3> QED BY <1>t, <1>n, <2>4, <3>1, IpcStep DEF RecvReturns
  <2> QED BY <1>1, <2>1, <2>2, <2>3, <2>4 DEF UserStep
<1>2. ASSUME NEW e \in Envs, KernelStep(e) PROVE StacksInv'
  <2>1. CASE PageAlloc(e) \/ NoFreeEnv(e) \/ Unmap(e)
    BY <1>t, <2>1, PageAllocStep, NoFreeEnvStep, UnmapStep
  <2>2. ASSUME NEW t \in Threads, SysThreadCreate(e, t) PROVE StacksInv'
    BY <1>t, <2>2, SysThreadCreateStep
  <2>3. CASE WriteFaults(e)
    <3>1. In(e, "write") /\ stack[call[e].n] = "unmapped" /\ Destroy(e)
      BY <2>3 DEF WriteFaults
    <3>2. Serial => FALSE
      <4> SUFFICES ASSUME Serial PROVE FALSE
        OBVIOUS
      <4>1. e \in Process /\ Creating(e) /\ call[e].n = nthreads
        BY <3>1, CreatorAlone DEF CreatingAt
      <4> QED BY <3>1, <4>1 DEF Serial, StacksReady, In
    <3>3. raced
      BY <3>1, <3>2, CreatorAlone DEF CreatingAt
    <3> QED BY <1>t, <3>1, <3>3, DestroyStep DEF In
  <2>4. CASE TrySend(e)
    <3>1. In(e, "try_send") /\ ~Creating(e) /\ call[e] \in SendingCalls
      BY <1>i, <1>t, <2>4, CallKinds DEF TrySend, In, Types
    <3>2. call[e].to \in Envs /\ recving[call[e].to] /\ Alive(call[e].to)
      BY <2>4, <3>1 DEF TrySend, SendingCalls
    <3>3. status[call[e].to] = "WAITING"
      BY <3>2 DEF MailOrder
    <3>4. status' = [status EXCEPT ![call[e].to] = "RUNNABLE"]
      BY <2>4 DEF TrySend, Woken
    <3>5. \A f \in Envs : \/ status'[f] = status[f]
                          \/ status[f] = "WAITING" /\ status'[f] = "RUNNABLE"
      BY <1>t, <3>2, <3>3, <3>4 DEF Types
    <3>6. status'[e] = status[e]
      BY <3>1, <3>5 DEF In
    <3>7. call' = [call EXCEPT ![e] = NULL] /\ unchangedThreads
      BY <2>4 DEF TrySend
    <3> QED BY <1>n, <1>t, <3>1, <3>5, <3>6, <3>7, IpcStep
  <2>5. CASE NotRecv(e)
    BY <1>t, <2>5, Elsewhere DEF NotRecv, vars, unchangedThreads, Creating, Alive
  <2>6. CASE SendPanics(e)
    <3>1. ~Creating(e) /\ status[e] = "RUNNABLE"
      BY <1>i, <2>6 DEF SendPanics
    <3>2. /\ status'[e] = "PANIC" /\ \A f \in Envs \ {e} : status'[f] = status[f]
          /\ unchangedThreads
          /\ UNCHANGED call
      BY <1>t, <2>6 DEF SendPanics, Panic, Types, unchangedThreads
    <3>3. call' = [call EXCEPT ![e] = call[e]] /\ call[e] \in Calls \cup {NULL}
      BY <1>t, <3>2 DEF Types
    <3>4. call[e] # NULL => call[e].at \notin CreatingAt
      BY <3>1 DEF Creating
    <3> QED BY <1>t, <3>1, <3>2, <3>3, <3>4, IpcStep
  <2> QED BY <1>2, <2>1, <2>2, <2>3, <2>4, <2>5, <2>6 DEF KernelStep
<1>3. ASSUME NEW e \in Envs, ThreadCreate(e) PROVE StacksInv'
  BY <1>t, <1>3, ThreadCreateStep
<1>4. ASSUME NEW e \in Envs, NEW to \in Receivers, NEW v \in Values,
             NEW pg \in PgArgs, IpcSend(e, to, v, pg)
      PROVE  StacksInv'
  <2> DEFINE r == [at |-> "try_send", to |-> to, value |-> v, pg |-> pg]
  <2>1. r \in Calls /\ r.at \notin CreatingAt
    <3>1. to \in Envs /\ pg \in BOOLEAN
      BY UserLibAssumption
    <3> QED BY <3>1 DEF Calls, CreatingAt
  <2>2. /\ ~Creating(e) /\ call' = [call EXCEPT ![e] = r]
        /\ UNCHANGED status /\ unchangedThreads
    BY <1>4 DEF IpcSend, Idle, Creating
  <2> HIDE DEF r
  <2> QED BY <1>t, <2>1, <2>2, IpcStep
<1>5. ASSUME NEW e \in Envs, Exit(e) PROVE StacksInv'
  <2>1. ~Creating(e) /\ status[e] = "RUNNABLE" /\ Destroy(e)
    BY <1>5 DEF Exit, Idle, Creating
  <2> QED BY <1>t, <2>1, DestroyStep
<1>6. ASSUME NEW e \in Envs, NEW pg \in PgArgs, IpcRecv(e, pg)
      PROVE  StacksInv'
  <2> DEFINE r == [at |-> "header"]
  <2>1. r \in Calls /\ r.at \notin CreatingAt
    BY DEF Calls, CreatingAt
  <2>2. /\ ~Creating(e) /\ call' = [call EXCEPT ![e] = r]
        /\ status[e] = "RUNNABLE"
        /\ status'[e] = "WAITING" /\ \A f \in Envs \ {e} : status'[f] = status[f]
        /\ unchangedThreads
    BY <1>t, <1>6 DEF IpcRecv, Idle, Creating, Types
  <2> HIDE DEF r
  <2> QED BY <1>t, <2>1, <2>2, IpcStep
<1>7. CASE UNCHANGED vars
  BY <1>t, <1>7, Elsewhere DEF vars, unchangedThreads, Creating, Alive
<1> QED BY <1>1, <1>2, <1>3, <1>4, <1>5, <1>6, <1>7 DEF Next, Proceed

LEMMA NextOrder ==
  ASSUME Types, MailOrder, [Next]_vars
  PROVE  MailOrder'
<1> USE DEF MailOrder, Types, unchangedThreads, unchangedIpc, In, Idle
<1>1. ASSUME NEW e \in Envs, Destroy(e) PROVE MailOrder'
  BY <1>1 DEF Destroy
<1>2. ASSUME NEW e \in Envs, NEW t \in Threads, SysThreadCreate(e, t)
      PROVE  MailOrder'
  BY <1>2, ThreadsAreEnvs DEF SysThreadCreate
<1>3. ASSUME NEW e \in Envs, TrySend(e) PROVE MailOrder'
  <2>1. /\ status' = [status EXCEPT ![call[e].to] = "RUNNABLE"]
        /\ recving' = [recving EXCEPT ![call[e].to] = FALSE]
    BY <1>3 DEF TrySend, Woken, RecvingCleared
  <2> QED BY <2>1
<1>4. ASSUME NEW e \in Envs, SendPanics(e) PROVE MailOrder'
  BY <1>4 DEF SendPanics, Panic
<1>5. ASSUME NEW e \in Envs, NEW pg, IpcRecv(e, pg) PROVE MailOrder'
  BY <1>5 DEF IpcRecv
<1>6. CASE UNCHANGED <<status, recving>>
  BY <1>6
<1>7. ASSUME NEW e \in Envs, UserStep(e) PROVE UNCHANGED <<status, recving>>
  BY <1>7 DEF UserStep, WriteStack, LoadCount, StoreCount, ReadHeader, ReadValue,
              RecvReturns
<1>8. ASSUME NEW e \in Envs,
             \/ PageAlloc(e) \/ NoFreeEnv(e) \/ Unmap(e) \/ NotRecv(e)
             \/ ThreadCreate(e)
             \/ \E to \in Receivers, v \in Values, pg \in PgArgs : IpcSend(e, to, v, pg)
      PROVE  UNCHANGED <<status, recving>>
  BY <1>8 DEF PageAlloc, NoFreeEnv, Unmap, NotRecv, ThreadCreate, IpcSend, vars
<1> QED BY <1>1, <1>2, <1>3, <1>4, <1>5, <1>6, <1>7, <1>8
        DEF Next, Proceed, KernelStep, WriteFaults, Exit, vars

(***************************************************************************)
(* Messages.  A step that changes nothing of what receiver e sees.         *)
(***************************************************************************)
LEMMA MailKept ==
  ASSUME NEW e \in Receivers, MailFor(e), call'[e] = call[e],
         recving'[e] = recving[e], ipc'[e] = ipc[e], inbox'[e] = inbox[e]
  PROVE  MailFor(e)'
BY DEF MailFor, Receiving, Delivered

LEMMA NextMail ==
  ASSUME MainThreadsReceive, Types, MailOrder, MailInv, [Next]_vars
  PROVE  MailInv'
<1> SUFFICES ASSUME NEW e \in Receivers PROVE MailFor(e)'
  BY DEF MailInv
<1>m. MailFor(e)
  BY DEF MailInv
<1>e. e \in Envs /\ ThisEnv(e) = e
  BY UserLibAssumption DEF MainThreadsReceive, ThisEnv
<1> USE DEF Enter, Return, unchangedThreads, unchangedIpc
<1>1. ASSUME NEW f \in Envs, Destroy(f) PROVE MailFor(e)'
  <2>1. CASE e \in Gone(f)
    <3>1. call'[e] = NULL /\ inbox'[e] = <<>> /\ recving'[e] = FALSE
      BY <1>1, <1>e, <2>1 DEF Destroy
    <3> QED BY <3>1 DEF MailFor, Receiving
  <2>2. CASE e \notin Gone(f)
    <3>1. /\ call'[e] = call[e] /\ inbox'[e] = inbox[e]
          /\ ipc'[e] = ipc[e] /\ recving'[e] = recving[e]
      BY <1>1, <1>e, <2>2 DEF Destroy, Types
    <3> QED BY <1>m, <3>1, MailKept
  <2> QED BY <2>1, <2>2
<1>2. ASSUME NEW f \in Envs, f # e, NEW r, call' = [call EXCEPT ![f] = r],
             unchangedIpc
      PROVE  MailFor(e)'
  BY <1>2, <1>e, <1>m, MailKept DEF Types
<1>3. ASSUME NEW r, call' = [call EXCEPT ![e] = r], unchangedIpc,
             call[e] # NULL => call[e].at \notin {"header", "value", "returned"},
             r # NULL => r.at \notin {"header", "value", "returned"}
      PROVE  MailFor(e)'
  <2>1. call'[e] = r
    BY <1>3, <1>e DEF Types
  <2>2. ~Receiving(e) /\ ~Receiving(e)'
    BY <1>3, <2>1 DEF Receiving
  <2>3. inbox'[e] = <<>> /\ recving'[e] = FALSE
    BY <1>3, <1>e, <1>m, <2>2 DEF MailFor, Types
  <2> QED BY <2>2, <2>3 DEF MailFor
<1>4. ASSUME NEW f \in Envs, NEW at \in CreatingAt, In(f, at), NEW r \in Calls \cup {NULL},
             r # NULL => r.at \in CreatingAt,
             call' = [call EXCEPT ![f] = r], unchangedIpc
      PROVE  MailFor(e)'
  <2>1. CASE f = e
    BY <1>3, <1>4, <2>1 DEF In, CreatingAt
  <2>2. CASE f # e
    BY <1>2, <1>4, <2>2
  <2> QED BY <2>1, <2>2
<1>c. ASSUME NEW f \in Envs, NEW at \in CreatingAt, In(f, at)
      PROVE  \A g \in CreatingAt :
               /\ [call[f] EXCEPT !.at = g] \in Calls
               /\ [call[f] EXCEPT !.at = g].at = g
  <2>1. call[f] \in CreatingCalls
    BY <1>c, CallKinds DEF In, Types
  <2> QED BY <2>1, CallKinds DEF CreatingCalls
<1>5. ASSUME NEW f \in Envs,
             \/ WriteStack(f) \/ LoadCount(f) \/ StoreCount(f) \/ PageAlloc(f)
             \/ NoFreeEnv(f) \/ Unmap(f)
             \/ \E t \in Threads : SysThreadCreate(f, t)
      PROVE  MailFor(e)'
  <2> USE DEF CreatingAt
  <2>1. CASE WriteStack(f)
    BY <1>4, <1>c, <2>1 DEF WriteStack
  <2>2. CASE LoadCount(f)
    <3>1. [at |-> "store", n |-> nthreads] \in Calls
      BY DEF Types, Calls
    <3> QED BY <1>4, <2>2, <3>1 DEF LoadCount
  <2>3. CASE StoreCount(f) \/ Unmap(f)
    BY <1>4, <2>3 DEF StoreCount, Unmap
  <2>4. CASE PageAlloc(f)
    BY <1>4, <1>c, <2>4 DEF PageAlloc
  <2>5. CASE NoFreeEnv(f)
    BY <1>4, <1>c, <2>5 DEF NoFreeEnv
  <2>6. ASSUME NEW t \in Threads, SysThreadCreate(f, t) PROVE MailFor(e)'
    BY <1>4, <1>c, <2>6 DEF SysThreadCreate
  <2> QED BY <1>5, <2>1, <2>2, <2>3, <2>4, <2>5, <2>6
<1>6. ASSUME NEW f \in Envs, ThreadCreate(f) \/ (\E to \in Receivers, v \in Values,
             pg \in PgArgs : IpcSend(f, to, v, pg))
      PROVE  MailFor(e)'
  <2>1. call[f] = NULL /\ unchangedIpc
    BY <1>6 DEF ThreadCreate, IpcSend, Idle
  <2>2. ASSUME NEW r, call' = [call EXCEPT ![f] = r],
               r.at \in {"page_alloc", "try_send"}
        PROVE  MailFor(e)'
    <3>1. CASE f = e
      BY <1>3, <2>1, <2>2, <3>1
    <3>2. CASE f # e
      BY <1>2, <2>1, <2>2, <3>2
    <3> QED BY <3>1, <3>2
  <2>3. CASE ThreadCreate(f)
    BY <2>2, <2>3 DEF ThreadCreate
  <2>4. ASSUME NEW to, NEW v, NEW pg, IpcSend(f, to, v, pg) PROVE MailFor(e)'
    BY <2>2, <2>4 DEF IpcSend
  <2> QED BY <1>6, <2>3, <2>4
<1>7. ASSUME NEW f \in Envs, ReadHeader(f) PROVE MailFor(e)'
  <2>1. CASE f # e
    BY <1>2, <1>7, <2>1 DEF ReadHeader
  <2>2. CASE f = e
    <3> DEFINE r == [at |-> "value", from |-> ipc[e].from, perm |-> ipc[e].perm]
    <3>1. /\ call'[e] = r /\ recving'[e] = recving[e] /\ inbox'[e] = inbox[e]
          /\ ipc'[e] = ipc[e]
      BY <1>7, <1>e, <2>2 DEF ReadHeader, Types
    <3>2. status[e] = "RUNNABLE" /\ Receiving(e)
      BY <1>7, <2>2 DEF ReadHeader, In, Receiving
    <3>3. ~recving[e] /\ Delivered(e, ipc[e].from, ipc[e].value)
      BY <1>e, <1>m, <3>2 DEF MailOrder, MailFor
    <3>4. r.at = "value" /\ r.from = ipc[e].from
      OBVIOUS
    <3>5. r # NULL
      <4>1. r \in Calls
        BY <1>e DEF Types, Calls
      <4> QED BY <4>1, CallKinds
    <3> HIDE DEF r
    <3>6. Receiving(e)'
      BY <3>1, <3>4, <3>5 DEF Receiving
    <3>7. Delivered(e, ipc[e].from, ipc[e].value)'
      BY <3>1, <3>3 DEF Delivered
    <3> QED BY <3>1, <3>3, <3>4, <3>6, <3>7 DEF MailFor
  <2> QED BY <2>1, <2>2
<1>8. ASSUME NEW f \in Envs, ReadValue(f) PROVE MailFor(e)'
  <2>1. CASE f # e
    BY <1>2, <1>8, <2>1 DEF ReadValue
  <2>2. CASE f = e
    <3> DEFINE r == [at |-> "returned", from |-> call[e].from,
                     perm |-> call[e].perm, value |-> ipc[e].value]
    <3>1. /\ call'[e] = r /\ recving'[e] = recving[e] /\ inbox'[e] = inbox[e]
          /\ ipc'[e] = ipc[e]
      BY <1>8, <1>e, <2>2 DEF ReadValue, Types
    <3>2. status[e] = "RUNNABLE" /\ Receiving(e) /\ call[e].at = "value"
      BY <1>8, <2>2 DEF ReadValue, In, Receiving
    <3>3. ~recving[e] /\ Delivered(e, ipc[e].from, ipc[e].value)
          /\ call[e].from = ipc[e].from
      BY <1>e, <1>m, <3>2 DEF MailOrder, MailFor
    <3>4. r.at = "returned" /\ r.from = call[e].from /\ r.value = ipc[e].value
      OBVIOUS
    <3>5. r # NULL
      <4>1. call[e] \in [at : {"value"}, from : Envs \cup {NULL}, perm : BOOLEAN]
        BY <1>e, <3>2, CallKinds DEF Types, Receiving
      <4>2. r \in Calls
        BY <1>e, <4>1 DEF Types, Calls
      <4> QED BY <4>2, CallKinds
    <3> HIDE DEF r
    <3>6. Receiving(e)'
      BY <3>1, <3>4, <3>5 DEF Receiving
    <3>7. Delivered(e, ipc[e].from, ipc[e].value)'
      BY <3>1, <3>3 DEF Delivered
    <3> QED BY <3>1, <3>3, <3>4, <3>6, <3>7 DEF MailFor
  <2> QED BY <2>1, <2>2
<1>9. ASSUME NEW f \in Envs, RecvReturns(f) PROVE MailFor(e)'
  <2>1. /\ call' = [call EXCEPT ![f] = NULL]
        /\ inbox' = [inbox EXCEPT ![f] = Tail(@)]
        /\ UNCHANGED <<recving, ipc>>
    BY <1>9 DEF RecvReturns
  <2>2. CASE f # e
    <3>1. call'[e] = call[e] /\ inbox'[e] = inbox[e]
      BY <1>e, <2>1, <2>2 DEF Types
    <3> QED BY <1>m, <2>1, <3>1, MailKept
  <2>3. CASE f = e
    <3>1. status[e] = "RUNNABLE" /\ Receiving(e)
      BY <1>9, <2>3 DEF RecvReturns, In, Receiving
    <3>2. ~recving[e] /\ Delivered(e, ipc[e].from, ipc[e].value)
      BY <1>e, <1>m, <3>1 DEF MailOrder, MailFor
    <3>3. PICK m : inbox[e] = <<m>>
      BY <3>2 DEF Delivered
    <3>4. inbox'[e] = <<>>
      <4>1. inbox'[e] = Tail(inbox[e])
        BY <1>e, <2>1, <2>3 DEF Types
      <4> QED BY <4>1, <3>3
    <3>5. call'[e] = NULL
      BY <1>e, <2>1, <2>3 DEF Types
    <3> QED BY <2>1, <3>2, <3>4, <3>5 DEF MailFor, Receiving
  <2> QED BY <2>2, <2>3
<1>10. ASSUME NEW f \in Envs, TrySend(f) PROVE MailFor(e)'
  <2> DEFINE to == call[f].to
             m  == [from |-> f, value |-> call[f].value,
                    page |-> call[f].pg /\ dstva[to]]
             i  == [from |-> f, value |-> call[f].value,
                    perm |-> Perm(to, call[f].pg)]
  <2>1. /\ call' = [call EXCEPT ![f] = NULL]
        /\ recving[to]
        /\ recving' = [recving EXCEPT ![to] = FALSE]
        /\ ipc' = [ipc EXCEPT ![to] = i]
        /\ inbox' = [inbox EXCEPT ![to] = Append(@, m)]
    BY <1>10 DEF TrySend, RecvingCleared
  <2>2. call[f].at = "try_send"
    BY <1>10 DEF TrySend, In
  <2>3. m.from = i.from /\ m.value = i.value
    OBVIOUS
  <2> HIDE DEF m, i
  <2>4. CASE to = e
    <3>1. call[e].at = "header" /\ inbox[e] = <<>> /\ Receiving(e) /\ f # e
      BY <1>m, <2>1, <2>2, <2>4 DEF MailFor
    <3>2. /\ call'[e] = call[e] /\ recving'[e] = FALSE /\ ipc'[e] = i
          /\ inbox'[e] = Append(<<>>, m)
      BY <1>e, <2>1, <2>4, <3>1 DEF Types
    <3>3. inbox'[e] = <<m>>
      BY <3>2
    <3>4. Delivered(e, ipc[e].from, ipc[e].value)'
      BY <2>3, <3>2, <3>3 DEF Delivered
    <3> QED BY <3>1, <3>2, <3>4 DEF MailFor, Receiving
  <2>5. CASE to # e
    <3>1. recving'[e] = recving[e] /\ ipc'[e] = ipc[e] /\ inbox'[e] = inbox[e]
      BY <1>e, <2>1, <2>5 DEF Types
    <3>2. CASE f = e
      <4>1. call'[e] = NULL /\ ~Receiving(e)
        BY <1>e, <2>1, <2>2, <3>2 DEF Types, Receiving
      <4> QED BY <1>m, <3>1, <4>1 DEF MailFor, Receiving
    <3>3. CASE f # e
      <4>1. call'[e] = call[e]
        BY <1>e, <2>1, <3>3 DEF Types
      <4> QED BY <1>m, <3>1, <4>1, MailKept
    <3> QED BY <3>2, <3>3
  <2> QED BY <2>4, <2>5
<1>11. ASSUME NEW f \in Envs, NEW pg \in PgArgs, IpcRecv(f, pg)
       PROVE  MailFor(e)'
  <2>1. /\ call' = [call EXCEPT ![f] = [at |-> "header"]]
        /\ recving' = [recving EXCEPT ![f] = TRUE]
        /\ UNCHANGED <<ipc, inbox>>
        /\ call[f] = NULL
    BY <1>11 DEF IpcRecv, Idle
  <2>2. CASE f # e
    <3>1. call'[e] = call[e] /\ recving'[e] = recving[e]
      BY <1>e, <2>1, <2>2 DEF Types
    <3> QED BY <1>m, <2>1, <3>1, MailKept
  <2>3. CASE f = e
    <3>1. call'[e] = [at |-> "header"] /\ recving'[e] = TRUE
      BY <1>e, <2>1, <2>3 DEF Types
    <3>2. inbox'[e] = <<>>
      BY <1>m, <2>1, <2>3 DEF MailFor, Receiving
    <3>3. [at |-> "header"] # NULL
      <4>1. [at |-> "header"] \in Calls
        BY DEF Calls
      <4> QED BY <4>1, CallKinds
    <3> QED BY <3>1, <3>2, <3>3 DEF MailFor, Receiving
  <2> QED BY <2>2, <2>3
<1>12. CASE UNCHANGED <<call, recving, ipc, inbox>>
  BY <1>12, <1>m, MailKept
<1>13. ASSUME NEW f \in Envs, SendPanics(f)
       PROVE  UNCHANGED <<call, recving, ipc, inbox>>
  BY <1>13 DEF SendPanics, Panic
<1> QED BY <1>1, <1>5, <1>6, <1>7, <1>8, <1>9, <1>10, <1>11, <1>12, <1>13
        DEF Next, Proceed, UserStep, KernelStep, WriteFaults, Exit, NotRecv, vars

-----------------------------------------------------------------------------
LEMMA InitMail == Init => MailOrder /\ MailInv
<1> SUFFICES ASSUME Init PROVE MailOrder /\ MailInv
  OBVIOUS
<1>1. MailOrder
  BY DEF Init, MailOrder
<1>2. ASSUME NEW e \in Receivers PROVE MailFor(e)
  <2>1. e \in Envs
    BY UserLibAssumption
  <2>2. call[e] = NULL /\ inbox[e] = <<>> /\ recving[e] = FALSE
    BY <2>1 DEF Init
  <2> QED BY <2>2 DEF MailFor, Receiving
<1> QED BY <1>1, <1>2 DEF MailInv

LEMMA StacksAlways == Spec => [](StacksInv /\ MailOrder)
<1>1. Init => StacksInv /\ MailOrder
  BY InitStacks, InitMail
<1>2. StacksInv /\ MailOrder /\ [Next]_vars => (StacksInv /\ MailOrder)'
  BY NextStacks, NextOrder DEF StacksInv
<1> QED BY <1>1, <1>2, PTL DEF Spec

(* Until two calls of thread_create() overlap, the live threads of a       *)
(* process have stacks of their own that are mapped and initialised,       *)
(* however many threads are created, exit, or fail to be created: nthreads *)
(* is the number of threads ever started and never goes back.              *)
THEOREM ThreadsHaveTheirStacks == Spec => []StacksPrivate
<1>1. StacksInv => StacksPrivate
  <2> SUFFICES ASSUME StacksInv, ~raced, NEW t \in Threads, Alive(t)
               PROVE  /\ stack[stackOf[t]] = "ready"
                      /\ \A u \in Threads :
                           Alive(u) /\ stackOf[u] = stackOf[t] => u = t
    BY DEF StacksPrivate
  <2>1. Serial
    BY DEF StacksInv, ProcessGone, Process
  <2>2. \A u \in Threads : Alive(u) => u \in Born
    BY DEF Alive, Born
  <2> QED BY <2>1, <2>2 DEF Serial, Counted, StacksReady
<1> QED BY <1>1, StacksAlways, PTL

(* thread_create() leaves no page behind when sys_thread_create() fails,   *)
(* as long as its calls do not overlap.                                    *)
THEOREM FailedCreateLeavesNoStack == Spec => []NoStackLeft
<1>1. StacksInv => NoStackLeft
  <2> SUFFICES ASSUME StacksInv, ~raced, NEW n \in Stacks, stack[n] # "unmapped"
               PROVE  \/ n \in {stackOf[t] : t \in Threads}
                      \/ \E e \in Process : Creating(e) /\ call[e].n = n
    BY DEF NoStackLeft
  <2>1. Serial
    BY DEF StacksInv, ProcessGone
  <2> QED BY <2>1 DEF Serial, Mapped, OneCreator, Born
<1> QED BY <1>1, StacksAlways, PTL

(* When only main threads receive, which is when thisenv is the caller,    *)
(* ipc_recv() returns the sender and the value of the one message that was *)
(* delivered for this call, whatever the senders do between the steps in   *)
(* which it reads them.                                                    *)
THEOREM RecvReturnsItsMessage ==
  MainThreadsReceive => (Spec => []RecvReturnsSent)
<1> SUFFICES ASSUME MainThreadsReceive PROVE Spec => []RecvReturnsSent
  OBVIOUS
<1>1. Init => MailInv
  BY InitMail
<1>2. StacksInv /\ MailOrder /\ MailInv /\ [Next]_vars => MailInv'
  BY NextMail DEF StacksInv
<1>3. MailOrder /\ MailInv => RecvReturnsSent
  <2> SUFFICES ASSUME MailOrder, MailInv, NEW e \in Receivers
               PROVE  /\ Len(inbox[e]) <= 1
                      /\ In(e, "returned") =>
                           /\ inbox[e] # <<>>
                           /\ Head(inbox[e]).from = call[e].from
                           /\ Head(inbox[e]).value = call[e].value
    BY DEF RecvReturnsSent
  <2>1. MailFor(e) /\ e \in Envs
    BY UserLibAssumption DEF MailInv
  <2>2. CASE inbox[e] = <<>>
    <3>1. ~In(e, "returned")
      <4>1. SUFFICES ASSUME In(e, "returned") PROVE FALSE
        OBVIOUS
      <4>2. Receiving(e) /\ ~recving[e]
        BY <2>1, <4>1 DEF In, Receiving, MailOrder
      <4>3. PICK m : inbox[e] = <<m>>
        BY <2>1, <4>2 DEF MailFor, Delivered
      <4>4. Len(inbox[e]) = 1
        BY <4>3
      <4> QED BY <2>2, <4>4
    <3> QED BY <2>2, <3>1
  <2>3. CASE inbox[e] # <<>>
    <3>1. Receiving(e) /\ ~recving[e]
      BY <2>1, <2>3 DEF MailFor
    <3>2. PICK m : inbox[e] = <<m>> /\ m.from = ipc[e].from /\ m.value = ipc[e].value
      BY <2>1, <3>1 DEF MailFor, Delivered
    <3>3. Len(inbox[e]) = 1 /\ Head(inbox[e]) = m
      BY <3>2
    <3>4. In(e, "returned") => call[e].from = ipc[e].from /\ call[e].value = ipc[e].value
      BY <2>1, <3>1 DEF In, MailFor
    <3> QED BY <2>3, <3>2, <3>3, <3>4
  <2> QED BY <2>2, <2>3
<1> QED BY <1>1, <1>2, <1>3, StacksAlways, PTL DEF Spec
=============================================================================
