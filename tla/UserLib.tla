------------------------------- MODULE UserLib -------------------------------
(***************************************************************************)
(* The library calls that take several steps in user space, as a process   *)
(* with several threads and its peers make them: thread_create()           *)
(* (lib/thread.c), ipc_send() and ipc_recv() (lib/ipc.c), with exit() and  *)
(* panic() (lib/exit.c, lib/panic.c).  Threads share nthreads, the stacks  *)
(* and thisenv, and run in any order, on one CPU or on several.            *)
(***************************************************************************)
EXTENDS Naturals, Sequences, FiniteSets

CONSTANTS
  Main,       \* the main thread of the process
  Threads,    \* env_ids for threads of the process, each used once
  Peers,      \* other processes, of one thread each
  NENV,       \* environments there may be at a time
  Values,     \* what is sent
  Receivers,  \* the environments that call ipc_recv()
  PgArgs,     \* whether the calls pass a page: a subset of BOOLEAN
  NULL

Process == {Main} \cup Threads
Envs    == Process \cup Peers

(* Where an environment is in a library call, and what it has read so far. *)
CreatingAt == {"page_alloc", "write", "thread_create", "unmap", "load", "store"}

Calls ==
  [at : CreatingAt, n : Nat]
    \cup [at : {"try_send"}, to : Envs, value : Values, pg : BOOLEAN]
    \cup [at : {"header"}]
    \cup [at : {"value"}, from : Envs \cup {NULL}, perm : BOOLEAN]
    \cup [at : {"returned"}, from : Envs \cup {NULL}, perm : BOOLEAN,
          value : Values \cup {NULL}]

ASSUME UserLibAssumption ==
  /\ Main \notin Threads /\ Process \cap Peers = {}
  /\ IsFiniteSet(Envs) /\ NENV \in Nat
  /\ Receivers \subseteq Envs /\ PgArgs \subseteq BOOLEAN
  /\ NULL \notin Envs \cup Calls

VARIABLES
  status,    \* UNBORN, RUNNABLE, WAITING (in sys_ipc_recv()), DEAD or PANIC
  recving, dstva, ipc,  \* env_ipc_*: ipc is the sender, the value and perm
  nthreads,  \* the number of threads created so far
  stack,     \* contents of the page at THREAD_STACK_BASE(n)
  stackOf,   \* the stack each thread was started on
  call,      \* the library call each environment is executing
  raced,     \* two calls of thread_create() have overlapped
  inbox      \* messages delivered that ipc_recv() has not returned yet

vars == <<status, recving, dstva, ipc, nthreads, stack, stackOf, call, raced,
          inbox>>

Stacks == 0 .. Cardinality(Threads)
NoIpc  == [from |-> NULL, value |-> NULL, perm |-> FALSE]

Alive(e)   == status[e] \in {"RUNNABLE", "WAITING"}
Idle(e)    == status[e] = "RUNNABLE" /\ call[e] = NULL
In(e, f)   == status[e] = "RUNNABLE" /\ call[e] # NULL /\ call[e].at = f
SlotFree   == Cardinality({e \in Envs : Alive(e)}) < NENV

Init ==
  /\ status = [e \in Envs |-> IF e \in Threads THEN "UNBORN" ELSE "RUNNABLE"]
  /\ recving = [e \in Envs |-> FALSE]
  /\ dstva = [e \in Envs |-> FALSE]
  /\ ipc = [e \in Envs |-> NoIpc]
  /\ nthreads = 0
  /\ stack = [n \in Stacks |-> "unmapped"]
  /\ stackOf = [t \in Threads |-> NULL]
  /\ call = [e \in Envs |-> NULL]
  /\ raced = FALSE
  /\ inbox = [e \in Envs |-> <<>>]

Enter(e, record) == call' = [call EXCEPT ![e] = record]
Return(e)        == call' = [call EXCEPT ![e] = NULL]

unchangedThreads == UNCHANGED <<nthreads, stack, stackOf, raced>>
unchangedIpc     == UNCHANGED <<recving, dstva, ipc, inbox>>

-----------------------------------------------------------------------------
(***************************************************************************)
(* exit(): the environment is destroyed, and with the main thread all of   *)
(* the process and its memory.                                             *)
(***************************************************************************)
Gone(e) == IF e = Main THEN {t \in Process : Alive(t)} ELSE {e}

Destroy(e) ==
  /\ status' = [f \in Envs |-> IF f \in Gone(e) THEN "DEAD" ELSE status[f]]
  /\ call' = [f \in Envs |-> IF f \in Gone(e) THEN NULL ELSE call[f]]
  /\ stack' = [n \in Stacks |-> IF e = Main THEN "unmapped" ELSE stack[n]]
  /\ recving' = [f \in Envs |-> recving[f] /\ f \notin Gone(e)]
  /\ ipc' = [f \in Envs |-> IF f \in Gone(e) THEN NoIpc ELSE ipc[f]]
  /\ inbox' = [f \in Envs |-> IF f \in Gone(e) THEN <<>> ELSE inbox[f]]
  /\ UNCHANGED <<dstva, nthreads, stackOf, raced>>

(* A thread exits by returning to the address thread_create() left on its  *)
(* stack.                                                                  *)
Exit(e) == Idle(e) /\ Destroy(e)

(* panic(): int3 takes the environment to the kernel monitor, which none   *)
(* of its commands leaves and which keeps the big kernel lock.  From then  *)
(* on nobody gets into the kernel.                                         *)
Panic(e) ==
  /\ status' = [status EXCEPT ![e] = "PANIC"]
  /\ UNCHANGED <<recving, dstva, ipc, nthreads, stack, stackOf, call, raced,
                 inbox>>

InMonitor == \E e \in Envs : status[e] = "PANIC"

-----------------------------------------------------------------------------
(***************************************************************************)
(* thread_create().                                                        *)
(***************************************************************************)
Creating(e) == call[e] # NULL /\ call[e].at \in CreatingAt

(* base and top are worked out from one read of nthreads. *)
ThreadCreate(e) ==
  /\ Idle(e)
  /\ e \in Process
  /\ Enter(e, [at |-> "page_alloc", n |-> nthreads])
  /\ raced' = (raced \/ \E f \in Process : Creating(f))
  /\ UNCHANGED <<status, nthreads, stack, stackOf>>
  /\ unchangedIpc

(* sys_page_alloc() puts a page of zeroes there, in the place of any       *)
(* other, or there is no memory for it.                                    *)
PageAlloc(e) ==
  /\ In(e, "page_alloc")
  /\ \/ /\ stack' = [stack EXCEPT ![call[e].n] = "zero"]
        /\ Enter(e, [call[e] EXCEPT !.at = "write"])
     \/ /\ Return(e)
        /\ UNCHANGED stack
  /\ UNCHANGED <<status, nthreads, stackOf, raced>>
  /\ unchangedIpc

(* arg and the address of exit(), at the top of the stack. *)
WriteStack(e) ==
  /\ In(e, "write")
  /\ stack[call[e].n] # "unmapped"
  /\ stack' = [stack EXCEPT ![call[e].n] = "ready"]
  /\ Enter(e, [call[e] EXCEPT !.at = "thread_create"])
  /\ UNCHANGED <<status, nthreads, stackOf, raced>>
  /\ unchangedIpc

(* The page has been unmapped by another call that failed. *)
WriteFaults(e) ==
  /\ In(e, "write")
  /\ stack[call[e].n] = "unmapped"
  /\ Destroy(e)

(* sys_thread_create(): the new thread may run at once. *)
SysThreadCreate(e, t) ==
  /\ In(e, "thread_create")
  /\ SlotFree
  /\ status[t] = "UNBORN"
  /\ status' = [status EXCEPT ![t] = "RUNNABLE"]
  /\ stackOf' = [stackOf EXCEPT ![t] = call[e].n]
  /\ Enter(e, [call[e] EXCEPT !.at = "load"])
  /\ UNCHANGED <<nthreads, stack, raced>>
  /\ unchangedIpc

NoFreeEnv(e) ==
  /\ In(e, "thread_create")
  /\ ~SlotFree
  /\ Enter(e, [call[e] EXCEPT !.at = "unmap"])
  /\ UNCHANGED status
  /\ unchangedThreads /\ unchangedIpc

UnmapNot(e) ==
  /\ In(e, "unmap")
  /\ Return(e)
  /\ UNCHANGED status
  /\ unchangedThreads /\ unchangedIpc

Unmap(e) ==
  /\ In(e, "unmap")
  /\ stack' = [stack EXCEPT ![call[e].n] = "unmapped"]
  /\ Return(e)
  /\ UNCHANGED <<status, nthreads, stackOf, raced>>
  /\ unchangedIpc

(* nthreads++ is a load and a store, to the other CPUs. *)
LoadCount(e) ==
  /\ In(e, "load")
  /\ Enter(e, [at |-> "store", n |-> nthreads])
  /\ UNCHANGED status
  /\ unchangedThreads /\ unchangedIpc

StoreCountNot(e) ==
  /\ In(e, "store")
  /\ Return(e)
  /\ UNCHANGED status
  /\ unchangedThreads /\ unchangedIpc

StoreCount(e) ==
  /\ In(e, "store")
  /\ nthreads' = call[e].n + 1
  /\ Return(e)
  /\ UNCHANGED <<status, stack, stackOf, raced>>
  /\ unchangedIpc

-----------------------------------------------------------------------------
(***************************************************************************)
(* ipc_send() and ipc_recv().                                              *)
(***************************************************************************)
IpcSend(e, to, v, pg) ==
  /\ Idle(e)
  /\ Enter(e, [at |-> "try_send", to |-> to, value |-> v, pg |-> pg])
  /\ UNCHANGED status
  /\ unchangedThreads /\ unchangedIpc

(* env_ipc_perm after the delivery: no page sent, a page sent, or a page   *)
(* for a receiver that wants none, which leaves it as it was.              *)
Perm(to, pg) == (pg /\ dstva[to]) \/ (pg /\ ipc[to].perm)

(* What sys_ipc_try_send() does to env_ipc_recving and to env_status. *)
RecvingKept(to)    == recving
RecvingCleared(to) == [recving EXCEPT ![to] = FALSE]

WokenNot(to) == status
Woken(to)    == [status EXCEPT ![to] = "RUNNABLE"]

(* A delivery.  The receiver runs again, ...                               *)
TrySend(e) ==
  /\ In(e, "try_send")
  /\ LET m == call[e]
     IN  /\ Alive(m.to) /\ recving[m.to]
         /\ recving' = RecvingCleared(m.to)
         /\ ipc' = [ipc EXCEPT ![m.to] =
                      [from |-> e, value |-> m.value, perm |-> Perm(m.to, m.pg)]]
         /\ inbox' = [inbox EXCEPT ![m.to] = Append(@,
                        [from |-> e, value |-> m.value,
                         page |-> m.pg /\ dstva[m.to]])]
         /\ status' = Woken(m.to)
  /\ Return(e)
  /\ unchangedThreads
  /\ UNCHANGED dstva

(* ... it is not there yet, and the sender yields and tries again, ...     *)
NotRecv(e) ==
  /\ In(e, "try_send")
  /\ Alive(call[e].to) /\ ~recving[call[e].to]
  /\ UNCHANGED vars

(* ... or it is dead, or the page cannot be mapped, and ipc_send() panics. *)
SendPanics(e) ==
  /\ In(e, "try_send")
  /\ \/ ~Alive(call[e].to)
     \/ recving[call[e].to] /\ call[e].pg /\ dstva[call[e].to]
  /\ Panic(e)

(* sys_ipc_recv(), for which a null pg is an address where it maps nothing.*)
IpcRecv(e, pg) ==
  /\ Idle(e)
  /\ e \in Receivers
  /\ recving' = [recving EXCEPT ![e] = TRUE]
  /\ dstva' = [dstva EXCEPT ![e] = pg]
  /\ status' = [status EXCEPT ![e] = "WAITING"]
  /\ Enter(e, [at |-> "header"])
  /\ unchangedThreads
  /\ UNCHANGED <<ipc, inbox>>

(* thisenv, set by libmain() in the main thread. *)
ThisEnv(e) == IF e \in Threads THEN Main ELSE e

ReadHeader(e) ==
  /\ In(e, "header")
  /\ Enter(e, [at |-> "value", from |-> ipc[ThisEnv(e)].from,
                               perm |-> ipc[ThisEnv(e)].perm])
  /\ UNCHANGED status
  /\ unchangedThreads /\ unchangedIpc

(* What ipc_recv() returns, kept until it is compared. *)
ReadValue(e) ==
  /\ In(e, "value")
  /\ Enter(e, [at |-> "returned", from |-> call[e].from, perm |-> call[e].perm,
               value |-> ipc[ThisEnv(e)].value])
  /\ UNCHANGED status
  /\ unchangedThreads /\ unchangedIpc

RecvReturns(e) ==
  /\ In(e, "returned")
  /\ inbox' = [inbox EXCEPT ![e] = Tail(@)]
  /\ Return(e)
  /\ UNCHANGED <<status, recving, dstva, ipc>>
  /\ unchangedThreads

-----------------------------------------------------------------------------
(* The steps of a call that need nothing of the kernel, ... *)
UserStep(e) ==
  \/ WriteStack(e) \/ LoadCount(e) \/ StoreCount(e)
  \/ ReadHeader(e) \/ ReadValue(e) \/ RecvReturns(e)

(* ... and the system calls and traps. *)
KernelStep(e) ==
  \/ PageAlloc(e) \/ WriteFaults(e)
  \/ (\E t \in Threads : SysThreadCreate(e, t)) \/ NoFreeEnv(e) \/ Unmap(e)
  \/ TrySend(e) \/ NotRecv(e) \/ SendPanics(e)

Proceed(e) == UserStep(e) \/ (~InMonitor /\ KernelStep(e))

Next ==
  \E e \in Envs :
    \/ Proceed(e)
    \/ ThreadCreate(e)
    \/ \E to \in Receivers \ {e}, v \in Values, pg \in PgArgs :
         status[to] # "UNBORN" /\ IpcSend(e, to, v, pg)
    \/ ~InMonitor /\ (Exit(e) \/ \E pg \in PgArgs : IpcRecv(e, pg))

(* The scheduler runs an environment that can run again and again, so a    *)
(* call that has been started goes on.                                     *)
Spec == Init /\ [][Next]_vars /\ \A e \in Envs : WF_vars(Proceed(e))

-----------------------------------------------------------------------------
(***************************************************************************)
(* Properties.                                                             *)
(***************************************************************************)

(* Two threads that are alive have stacks of their own, and a thread       *)
(* starts on a page with its argument and its way out, as long as calls of *)
(* thread_create() have never overlapped.                                  *)
StacksPrivate ==
  raced \/ \A t \in Threads : Alive(t) =>
             /\ stack[stackOf[t]] = "ready"
             /\ \A u \in Threads : Alive(u) /\ stackOf[u] = stackOf[t] => u = t

(* A call that fails leaves no stack behind: every mapped stack is one a   *)
(* thread was started on or one of a call that is going on.                *)
NoStackLeft ==
  raced \/ \A n \in Stacks :
             stack[n] # "unmapped" =>
               \/ n \in {stackOf[t] : t \in Threads}
               \/ \E e \in Process : Creating(e) /\ call[e].n = n

(* ipc_recv() returns the sender and the value of the message that was     *)
(* delivered to the environment that called it, and no message is          *)
(* overwritten: the next one is delivered only when the last has been      *)
(* taken and the receiver has asked again.                                 *)
RecvReturnsSent ==
  \A e \in Receivers :
    /\ Len(inbox[e]) <= 1
    /\ In(e, "returned") => /\ inbox[e] # <<>>
                            /\ Head(inbox[e]).from = call[e].from
                            /\ Head(inbox[e]).value = call[e].value

(* The permissions ipc_recv() stores are not zero if and only if a page    *)
(* was transferred.                                                        *)
PermMeansPage ==
  \A e \in Receivers :
    In(e, "returned") => (call[e].perm <=> Head(inbox[e]).page)

(* An environment that waits is served once there is a sender, which tries *)
(* again until it is, and a message that is delivered wakes it up, unless  *)
(* a panic has stopped the system.                                         *)
SendingTo(e) ==
  \E f \in Envs :
    call[f] # NULL /\ call[f].at = "try_send" /\ call[f].to = e

ReceiverServed ==
  \A e \in Envs :
    status[e] = "WAITING" /\ SendingTo(e)
      ~> \/ status[e] # "WAITING"
         \/ ~SendingTo(e) /\ inbox[e] = <<>>
         \/ InMonitor
=============================================================================
