------------------------------- MODULE TCThread -------------------------------
(***************************************************************************)
(* TC_Thread (src/util/src/tc_thread.cpp): start() creates a std::thread   *)
(* running threadEntry and blocks on the monitor _lock until the new       *)
(* thread has set _running and called notifyAll; threadEntry then runs     *)
(* run() and clears _running.  The caller gets a TC_ThreadControl that     *)
(* wraps the std::thread object _th and may join or detach it; the         *)
(* destructor detaches a joinable _th and deletes it.                      *)
(*                                                                         *)
(* Callers are the application threads that call start() (and own the     *)
(* TC_Thread); OS threads are numbered 1..MaxStarts in creation order,     *)
(* which is also the identity of the std::thread object new'ed for them.  *)
(* The monitor is a mutex plus a wait set, as TC_ThreadLock is a           *)
(* TC_Monitor over a mutex and a condition.  A condition wait may return   *)
(* without a notification when Spurious is TRUE.                           *)
(***************************************************************************)
EXTENDS Naturals, FiniteSets

CONSTANTS
    Callers,     \* application threads that call start()
    MaxStarts,   \* bound on the std::thread objects start() may create
    Spurious,    \* whether _lock.wait() may wake without a notification
    NoOne        \* owner of a free mutex

ASSUME /\ MaxStarts \in Nat \ {0}
       /\ Spurious \in BOOLEAN
       /\ NoOne \notin Callers

Threads == 1..MaxStarts
NULL == 0

VARIABLES
    running,   \* TC_Thread::_running
    th,        \* TC_Thread::_th: NULL or the std::thread object
    alive,     \* the TC_Thread object has not been destroyed
    owner,     \* holder of the mutex of _lock: a caller, a thread or NoOne
    pc,        \* where each caller is in start()
    ctl,       \* the std::thread a caller's TC_ThreadControl wraps
    created,   \* std::thread objects created so far
    tpc,       \* where each OS thread is in threadEntry
    joinable,  \* std::thread::joinable() of each object
    deleted,   \* the std::thread object has been deleted
    uaf,       \* some step touched a destroyed TC_Thread or deleted object
    aborted    \* an exception left a thread function: std::terminate ended the process

vars == <<running, th, alive, owner, pc, ctl, created, tpc, joinable, deleted, uaf, aborted>>

Init ==
    /\ running = FALSE
    /\ th = NULL
    /\ alive = TRUE
    /\ owner = NoOne
    /\ pc = [c \in Callers |-> "idle"]
    /\ ctl = [c \in Callers |-> NULL]
    /\ created = 0
    /\ tpc = [t \in Threads |-> "none"]
    /\ joinable = [t \in Threads |-> FALSE]
    /\ deleted = [t \in Threads |-> FALSE]
    /\ uaf = FALSE
    /\ aborted = FALSE

(* start(): TC_ThreadLock::Lock sync(_lock) blocks until the mutex is    *)
(* free.  The callers call start() while fewer than MaxStarts threads      *)
(* have been created.                                                      *)
Lock(c) ==
    /\ pc[c] = "idle"
    /\ alive
    /\ created < MaxStarts
    /\ owner = NoOne
    /\ owner' = c
    /\ pc' = [pc EXCEPT ![c] = "locked"]
    /\ UNCHANGED <<running, th, alive, ctl, created, tpc, joinable, deleted, uaf>>

(* start(), _running already set: throw "thread has start"; the Lock guard *)
(* releases the mutex as the exception leaves start().                     *)
StartThrows(c) ==
    /\ pc[c] = "locked"
    /\ running
    /\ owner' = NoOne
    /\ pc' = [pc EXCEPT ![c] = "idle"]
    /\ UNCHANGED <<running, th, alive, ctl, created, tpc, joinable, deleted, uaf>>

(* start(): _th = new std::thread(&threadEntry, this), then _lock.wait(),  *)
(* which releases the mutex and joins the wait set.  The previous _th is   *)
(* overwritten.                                                            *)
StartCreates(c) ==
    /\ pc[c] = "locked"
    /\ ~running
    /\ LET t == created + 1
       IN /\ created' = t
          /\ th' = t
          /\ tpc' = [tpc EXCEPT ![t] = "entry"]
          /\ joinable' = [joinable EXCEPT ![t] = TRUE]
    /\ owner' = NoOne
    /\ pc' = [pc EXCEPT ![c] = "waiting"]
    /\ UNCHANGED <<running, alive, ctl, deleted, uaf>>

(* start(): std::thread construction fails: "thread start error". *)
StartFails(c) ==
    /\ pc[c] = "locked"
    /\ ~running
    /\ owner' = NoOne
    /\ pc' = [pc EXCEPT ![c] = "idle"]
    /\ UNCHANGED <<running, th, alive, ctl, created, tpc, joinable, deleted, uaf>>

(* The condition variable returns without a notification. *)
SpuriousWake(c) ==
    /\ Spurious
    /\ pc[c] = "waiting"
    /\ pc' = [pc EXCEPT ![c] = "woken"]
    /\ UNCHANGED <<running, th, alive, owner, ctl, created, tpc, joinable, deleted, uaf>>

(* start(): wait() reacquires the mutex; return TC_ThreadControl(_th),     *)
(* reading _th now, and release the mutex.                                 *)
StartReturns(c) ==
    /\ pc[c] = "woken"
    /\ owner = NoOne
    /\ ctl' = [ctl EXCEPT ![c] = th]
    /\ pc' = [pc EXCEPT ![c] = "idle"]
    /\ UNCHANGED <<running, th, alive, owner, created, tpc, joinable, deleted, uaf>>

(* getThreadControl(): TC_ThreadControl(_th), read without the lock; the  *)
(* constructor asserts _th != NULL, so a caller that asks before the first *)
(* start() aborts, and a caller does not.                                  *)
GetThreadControl(c) ==
    /\ pc[c] = "idle"
    /\ alive
    /\ th # NULL
    /\ ctl' = [ctl EXCEPT ![c] = th]
    /\ UNCHANGED <<running, th, alive, owner, pc, created, tpc, joinable, deleted, uaf>>

(* TC_ThreadControl::join(): _th->join() blocks until the thread has      *)
(* finished.  A control still held after ~TC_Thread deleted the            *)
(* std::thread calls join on freed memory.                                 *)
Join(c) ==
    LET t == ctl[c]
    IN /\ pc[c] = "idle"
       /\ t # NULL
       /\ \/ joinable[t] /\ tpc[t] = "done"
          \/ deleted[t]
       /\ joinable' = [joinable EXCEPT ![t] = FALSE]
       /\ uaf' = (uaf \/ deleted[t])
       /\ UNCHANGED <<running, th, alive, owner, pc, ctl, created, tpc, deleted>>

(* TC_ThreadControl::detach(): _th->detach(), on freed memory after the    *)
(* destructor deleted the std::thread.                                     *)
Detach(c) ==
    LET t == ctl[c]
    IN /\ pc[c] = "idle"
       /\ t # NULL
       /\ joinable[t] \/ deleted[t]
       /\ joinable' = [joinable EXCEPT ![t] = FALSE]
       /\ uaf' = (uaf \/ deleted[t])
       /\ UNCHANGED <<running, th, alive, owner, pc, ctl, created, tpc, deleted>>

(* ~TC_Thread(): detach _th if joinable, delete it; the object is gone. *)
Destroy(c) ==
    /\ pc[c] = "idle"
    /\ alive
    /\ \A d \in Callers : pc[d] = "idle"
    /\ alive' = FALSE
    /\ IF th # NULL
       THEN /\ joinable' = [joinable EXCEPT ![th] = FALSE]
            /\ deleted' = [deleted EXCEPT ![th] = TRUE]
       ELSE UNCHANGED <<joinable, deleted>>
    /\ th' = NULL
    /\ UNCHANGED <<running, owner, pc, ctl, created, tpc, uaf>>

(* A step of OS thread t that writes pThread->_running. *)
WriteRunning(t, b) ==
    /\ running' = b
    /\ uaf' = (uaf \/ ~alive)

(* threadEntry: pThread->_running = true (outside the lock). *)
EntrySetRunning(t) ==
    /\ tpc[t] = "entry"
    /\ WriteRunning(t, TRUE)
    /\ tpc' = [tpc EXCEPT ![t] = "lock"]
    /\ UNCHANGED <<th, alive, owner, pc, ctl, created, joinable, deleted>>

(* Mutant: threadEntry takes the lock but does not notify. *)
EntryNotifyNoWake(t) ==
    /\ tpc[t] = "lock"
    /\ owner = NoOne
    /\ tpc' = [tpc EXCEPT ![t] = "run"]
    /\ uaf' = (uaf \/ ~alive)
    /\ UNCHANGED <<running, th, alive, owner, pc, ctl, created, joinable, deleted>>

(* threadEntry: lock _lock, notifyAll, unlock: every caller waiting in     *)
(* start() is woken and competes for the mutex.                            *)
EntryNotify(t) ==
    /\ tpc[t] = "lock"
    /\ owner = NoOne
    /\ pc' = [c \in Callers |-> IF pc[c] = "waiting" THEN "woken" ELSE pc[c]]
    /\ tpc' = [tpc EXCEPT ![t] = "run"]
    /\ uaf' = (uaf \/ ~alive)
    /\ UNCHANGED <<running, th, alive, owner, ctl, created, joinable, deleted>>

(* threadEntry: run() returns, then pThread->_running = false. *)
EntryFinish(t) ==
    /\ tpc[t] = "run"
    /\ WriteRunning(t, FALSE)
    /\ tpc' = [tpc EXCEPT ![t] = "done"]
    /\ UNCHANGED <<th, alive, owner, pc, ctl, created, joinable, deleted>>

(* threadEntry: run() throws; the handler clears pThread->_running and     *)
(* rethrows out of the thread function, so std::terminate ends the whole   *)
(* process.                                                                *)
EntryThrows(t) ==
    /\ tpc[t] = "run"
    /\ WriteRunning(t, FALSE)
    /\ tpc' = [tpc EXCEPT ![t] = "done"]
    /\ aborted' = TRUE
    /\ UNCHANGED <<th, alive, owner, pc, ctl, created, joinable, deleted>>

(* A step of the process while it lives; only EntryThrows ends it. *)
InProcess(A) == ~aborted /\ A /\ UNCHANGED aborted

Next ==
    \/ \E c \in Callers :
         InProcess(\/ Lock(c) \/ StartThrows(c) \/ StartCreates(c) \/ StartFails(c)
                   \/ SpuriousWake(c) \/ StartReturns(c)
                   \/ GetThreadControl(c) \/ Join(c) \/ Detach(c) \/ Destroy(c))
    \/ \E t \in Threads :
         \/ InProcess(EntrySetRunning(t) \/ EntryNotify(t) \/ EntryFinish(t))
         \/ ~aborted /\ EntryThrows(t)

(* The OS schedules every runnable thread (weak fairness), and a thread    *)
(* blocked on the mutex of _lock is granted it if the mutex is free again  *)
(* and again (strong fairness of the steps that take it: a waiter that     *)
(* wakes up, and threadEntry's notifyAll).  Calling start(), join(),       *)
(* detach() and destroying the object are the application's choice and    *)
(* carry no fairness, and neither does an exception out of run().  No     *)
(* step is fair once the process has ended.                                *)
Fairness ==
    /\ \A c \in Callers :
         /\ WF_vars(InProcess(StartThrows(c) \/ StartCreates(c) \/ StartFails(c)))
         /\ SF_vars(InProcess(StartReturns(c)))
    /\ \A t \in Threads :
         /\ WF_vars(InProcess(EntrySetRunning(t))) /\ WF_vars(InProcess(EntryFinish(t)))
         /\ SF_vars(InProcess(EntryNotify(t)))

Spec == Init /\ [][Next]_vars /\ Fairness

(***************************************************************************)
(* Properties                                                              *)
(***************************************************************************)
(* start() refuses to start a second thread while one runs ("[TC_Thread:: *)
(* start] thread has start"): at most one OS thread is inside threadEntry  *)
(* before the end of run().                                                *)
AtMostOneRunning ==
    Cardinality({t \in Threads : tpc[t] \in {"entry", "lock", "run"}}) <= 1

(* Every call of start() that is waiting for the new thread returns, or   *)
(* the process ends first (an exception out of run() of a thread).        *)
StartTerminates == \A c \in Callers : pc[c] = "waiting" ~> (pc[c] = "idle" \/ aborted)

(* No thread writes _running of, or runs, a destroyed TC_Thread, and no   *)
(* TC_ThreadControl joins or detaches a deleted std::thread.               *)
NoUseAfterFree == ~uaf

(* Every std::thread object start() has new'ed is still owned by _th or    *)
(* has been deleted by ~TC_Thread: a start() after the thread finished     *)
(* (_running false again) must not lose the previous object.              *)
NoThreadObjectLeak == \A t \in 1..created : t = th \/ deleted[t]
===============================================================================
