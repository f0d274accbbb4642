------------------------------- MODULE RwLock -------------------------------
(***************************************************************************)
(* src/src/rwlock.c, compiled where pthreads has no read/write lock: two   *)
(* conditions, a mutex, and counters of the threads that hold the lock and *)
(* of those that wait for it.                                              *)
(*                                                                         *)
(* All of a function happens with the mutex held, so that a call is one    *)
(* step, and two with a wait between when the lock is taken.  A thread     *)
(* that waits sleeps until the condition is signalled (or it wakes up for  *)
(* nothing, as POSIX allows) and then competes for the mutex with          *)
(* everybody else: whoever is faster finds the lock free.                  *)
(***************************************************************************)
EXTENDS Integers, FiniteSets

CONSTANT Threads

ASSUME ThreadsAssumption == IsFiniteSet(Threads)

VARIABLES r_active, w_active,   \* readers that hold the lock, a writer does
          r_wait, w_wait,       \* threads that wait to read, to write
          pc,                   \* pc[t]: where thread t is
          sleeping,             \* those that wait and were not woken
          valid                 \* the lock is initialised; if not, calls return EINVAL

lock == <<valid, r_active, w_active, r_wait, w_wait, pc, sleeping>>

At(where) == {t \in Threads : pc[t] = where}
Goes(t, where) == pc' = [pc EXCEPT ![t] = where]

LockInit == /\ valid = TRUE
            /\ r_active = 0 /\ w_active = FALSE
            /\ r_wait = 0 /\ w_wait = 0
            /\ pc = [t \in Threads |-> "idle"] /\ sleeping = {}

GetRead(t) == r_active' = r_active + 1 /\ Goes(t, "reading") /\ UNCHANGED w_active
GetWrite(t) == w_active' = TRUE /\ Goes(t, "writing") /\ UNCHANGED r_active

\* pthread_cond_signal wakes one of those that sleep, if there is one.
Signal(where) == \/ \E w \in sleeping \cap At(where) : sleeping' = sleeping \ {w}
                 \/ sleeping \cap At(where) = {} /\ UNCHANGED sleeping

rwl_init == /\ ~ valid /\ valid' = TRUE
            /\ r_active' = 0 /\ w_active' = FALSE /\ r_wait' = 0 /\ w_wait' = 0
            /\ UNCHANGED <<pc, sleeping>>

\* EBUSY, and nothing happens, while somebody has the lock or waits for it
rwl_destroy == /\ valid /\ r_active = 0 /\ ~ w_active /\ r_wait = 0 /\ w_wait = 0
               /\ valid' = FALSE
               /\ UNCHANGED <<r_active, w_active, r_wait, w_wait, pc, sleeping>>

rwl_rdlock(t) ==
    /\ valid /\ pc[t] = "idle"
    /\ \/ ~ w_active /\ GetRead(t) /\ UNCHANGED <<r_wait, sleeping>>
       \/ /\ w_active
          /\ r_wait' = r_wait + 1 /\ sleeping' = sleeping \cup {t}
          /\ Goes(t, "rdwait") /\ UNCHANGED <<r_active, w_active>>
    /\ UNCHANGED <<w_wait, valid>>

\* mutant: the condition is not checked again after the wait
RdWoken_NoLoop(t) ==
    /\ pc[t] = "rdwait" /\ t \notin sleeping
    /\ r_wait' = r_wait - 1 /\ GetRead(t) /\ UNCHANGED <<sleeping, w_wait, valid>>

\* pthread_cond_wait returned in rwl_rdlock
RdWoken(t) ==
    /\ pc[t] = "rdwait" /\ t \notin sleeping
    /\ \/ ~ w_active /\ r_wait' = r_wait - 1 /\ GetRead(t) /\ UNCHANGED sleeping
       \/ w_active /\ sleeping' = sleeping \cup {t} /\ UNCHANGED <<r_active, w_active, r_wait, pc>>
    /\ UNCHANGED <<w_wait, valid>>

rwl_tryrdlock(t) == /\ valid /\ pc[t] = "idle" /\ ~ w_active
                    /\ GetRead(t) /\ UNCHANGED <<r_wait, w_wait, sleeping, valid>>

\* mutant: the count is tested before it is decremented
rwl_rdunlock_TestsFirst(t) ==
    /\ pc[t] = "reading"
    /\ IF r_active = 0 /\ w_wait > 0 THEN Signal("wrwait") ELSE UNCHANGED sleeping
    /\ r_active' = r_active - 1
    /\ Goes(t, "idle") /\ UNCHANGED <<w_active, r_wait, w_wait, valid>>

rwl_rdunlock(t) ==
    /\ pc[t] = "reading"
    /\ r_active' = r_active - 1
    /\ IF r_active' = 0 /\ w_wait > 0 THEN Signal("wrwait") ELSE UNCHANGED sleeping
    /\ Goes(t, "idle") /\ UNCHANGED <<w_active, r_wait, w_wait, valid>>

Free == ~ w_active /\ r_active = 0

rwl_wrlock(t) ==
    /\ valid /\ pc[t] = "idle"
    /\ \/ Free /\ GetWrite(t) /\ UNCHANGED <<w_wait, sleeping>>
       \/ /\ ~ Free
          /\ w_wait' = w_wait + 1 /\ sleeping' = sleeping \cup {t}
          /\ Goes(t, "wrwait") /\ UNCHANGED <<r_active, w_active>>
    /\ UNCHANGED <<r_wait, valid>>

\* pthread_cond_wait returned in rwl_wrlock
WrWoken(t) ==
    /\ pc[t] = "wrwait" /\ t \notin sleeping
    /\ \/ Free /\ w_wait' = w_wait - 1 /\ GetWrite(t) /\ UNCHANGED sleeping
       \/ ~ Free /\ sleeping' = sleeping \cup {t} /\ UNCHANGED <<r_active, w_active, w_wait, pc>>
    /\ UNCHANGED <<r_wait, valid>>

rwl_trywrlock(t) == /\ valid /\ pc[t] = "idle" /\ Free
                    /\ GetWrite(t) /\ UNCHANGED <<r_wait, w_wait, sleeping, valid>>

\* mutant: readers that wait are woken one at a time
rwl_wrunlock_OneReader(t) ==
    /\ pc[t] = "writing"
    /\ w_active' = FALSE
    /\ \/ r_wait > 0 /\ Signal("rdwait")
       \/ r_wait = 0 /\ w_wait > 0 /\ Signal("wrwait")
       \/ r_wait = 0 /\ w_wait = 0 /\ UNCHANGED sleeping
    /\ Goes(t, "idle") /\ UNCHANGED <<r_active, r_wait, w_wait, valid>>

\* Readers that wait go first, all of them.
rwl_wrunlock(t) ==
    /\ pc[t] = "writing"
    /\ w_active' = FALSE
    /\ \/ r_wait > 0 /\ sleeping' = sleeping \ At("rdwait")
       \/ r_wait = 0 /\ w_wait > 0 /\ Signal("wrwait")
       \/ r_wait = 0 /\ w_wait = 0 /\ UNCHANGED sleeping
    /\ Goes(t, "idle") /\ UNCHANGED <<r_active, r_wait, w_wait, valid>>

Spurious(t) == /\ t \in sleeping /\ sleeping' = sleeping \ {t}
               /\ UNCHANGED <<r_active, w_active, r_wait, w_wait, pc, valid>>

Woken(t) == RdWoken(t) \/ WrWoken(t) \/ Spurious(t)
------------------------------------------------------------------------------
LockTypeOK == /\ valid \in BOOLEAN /\ r_active \in Nat /\ w_active \in BOOLEAN
              /\ r_wait \in Nat /\ w_wait \in Nat
              /\ pc \in [Threads -> {"idle", "rdwait", "wrwait", "reading", "writing"}]
              /\ sleeping \subseteq At("rdwait") \cup At("wrwait")

\* The counters count: rwl_destroy and the wake-ups decide by them.
CountersCount == /\ r_active = Cardinality(At("reading"))
                 /\ r_wait = Cardinality(At("rdwait"))
                 /\ w_wait = Cardinality(At("wrwait"))
                 /\ w_active <=> At("writing") # {}

\* Nobody sleeps while the lock is free for it: readers sleep only when there is
\* a writer, and when a writer sleeps somebody holds the lock or is about to
\* look at it again (rwlock.c:190, 272-285).
NoLostWakeup ==
    /\ ~ valid => At("idle") = Threads
    /\ sleeping \cap At("rdwait") # {} => w_active
    /\ sleeping \cap At("wrwait") # {} =>
          ~ Free \/ (At("rdwait") \cup At("wrwait")) \ sleeping # {}

\* One writer and no reader, or readers and no writer.
Exclusion == /\ At("writing") # {} => At("reading") = {}
             /\ \A t, u \in At("writing") : t = u

\* Inductive: what a function decides by the counters is right about the threads.
LockInv == LockTypeOK /\ CountersCount /\ Exclusion /\ NoLostWakeup

RW == INSTANCE ReadersWriters WITH readers <- At("reading"), writer <- At("writing")

\* Whoever calls what and wakes up when, readers and writers exclude each other.
ImplementsReadersWriters == RW!Spec
==============================================================================
