---------------------------- MODULE LogFileProofs ----------------------------
(***************************************************************************)
(* Proofs about RwLock and LogFile, for any number of threads.             *)
(***************************************************************************)
EXTENDS LogFile, FiniteSetTheorems, TLAPS

\* The sets of threads are finite, and counted by numbers.
LEMMA AtFinite ==
  ASSUME NEW w
  PROVE  /\ IsFiniteSet(At(w)) /\ Cardinality(At(w)) \in Nat
         /\ Cardinality(At(w)) = 0 <=> At(w) = {}
<1>1. At(w) \in SUBSET Threads
  BY DEF At
<1>2. IsFiniteSet(At(w))
  BY <1>1, FS_Subset, ThreadsAssumption DEF ThreadsAssumption
<1> QED
  BY <1>2, FS_CardinalityType, FS_EmptySet

\* A thread that goes from one place to another leaves the one set and joins the
\* other, and the numbers change with it.
LEMMA Moves ==
  ASSUME LockTypeOK, NEW t \in Threads, NEW from, NEW to,
         pc[t] = from, Goes(t, to), from # to
  PROVE  /\ At(to)' = At(to) \cup {t} /\ t \notin At(to)
         /\ At(from)' = At(from) \ {t} /\ t \in At(from)
         /\ \A w : w # to /\ w # from => At(w)' = At(w)
         /\ Cardinality(At(to))' = Cardinality(At(to)) + 1
         /\ Cardinality(At(from))' = Cardinality(At(from)) - 1
         /\ Cardinality(At(from)) > 0
<1>1. /\ At(to)' = At(to) \cup {t} /\ t \notin At(to)
      /\ At(from)' = At(from) \ {t} /\ t \in At(from)
      /\ \A w : w # to /\ w # from => At(w)' = At(w)
  BY DEF LockTypeOK, Goes, At
<1>2. Cardinality(At(to) \cup {t}) = Cardinality(At(to)) + 1
  BY <1>1, AtFinite, FS_AddElement
<1>3. Cardinality(At(from) \ {t}) = Cardinality(At(from)) - 1
  BY <1>1, AtFinite, FS_RemoveElement
<1>4. Cardinality(At(from)) > 0
  BY <1>1, AtFinite
<1> QED
  BY <1>1, <1>2, <1>3, <1>4

\* What a thread may do to the lock, and nobody else.
Calls(t) == \/ rwl_rdlock(t) \/ rwl_tryrdlock(t) \/ rwl_rdunlock(t)
            \/ rwl_wrlock(t) \/ rwl_trywrlock(t) \/ rwl_wrunlock(t)

RWStep == [RW!Next]_<<At("reading"), At("writing")>>

\* A reader gets the lock, at once or after it was woken.
LEMMA GetReadStep ==
  ASSUME LockInv, NEW t \in Threads, NEW from \in {"idle", "rdwait"},
         pc[t] = from, t \notin sleeping, valid, ~ w_active, GetRead(t),
         r_wait' = IF from = "rdwait" THEN r_wait - 1 ELSE r_wait,
         UNCHANGED <<w_wait, sleeping, valid>>
  PROVE  LockInv' /\ RWStep
<1> USE DEF LockInv
<1>1. /\ At("reading")' = At("reading") \cup {t} /\ t \notin At("reading")
      /\ At(from)' = At(from) \ {t} /\ t \in At(from)
      /\ \A w : w # "reading" /\ w # from => At(w)' = At(w)
      /\ Cardinality(At("reading"))' = Cardinality(At("reading")) + 1
      /\ Cardinality(At(from))' = Cardinality(At(from)) - 1
      /\ Cardinality(At(from)) > 0
  BY Moves DEF GetRead
<1>2. LockTypeOK'
  BY <1>1 DEF LockTypeOK, CountersCount, GetRead, Goes
<1>3. CountersCount'
  BY <1>1 DEF CountersCount, GetRead, LockTypeOK
<1>4. Exclusion'
  BY <1>1 DEF Exclusion, CountersCount
<1>5. NoLostWakeup'
  BY <1>1, AtFinite DEF NoLostWakeup, CountersCount, LockTypeOK, GetRead, Free
<1>6. RW!Read(t)
  BY <1>1 DEF RW!Read, CountersCount
<1> QED
  BY <1>2, <1>3, <1>4, <1>5, <1>6 DEF RWStep, RW!Next

\* A writer gets the lock.
LEMMA GetWriteStep ==
  ASSUME LockInv, NEW t \in Threads, NEW from \in {"idle", "wrwait"},
         pc[t] = from, t \notin sleeping, valid, Free, GetWrite(t),
         w_wait' = IF from = "wrwait" THEN w_wait - 1 ELSE w_wait,
         UNCHANGED <<r_wait, sleeping, valid>>
  PROVE  LockInv' /\ RWStep
<1> USE DEF LockInv
<1>1. /\ At("writing")' = At("writing") \cup {t} /\ t \notin At("writing")
      /\ At(from)' = At(from) \ {t} /\ t \in At(from)
      /\ \A w : w # "writing" /\ w # from => At(w)' = At(w)
      /\ Cardinality(At(from))' = Cardinality(At(from)) - 1
      /\ Cardinality(At(from)) > 0
  BY Moves DEF GetWrite
<1>2. At("reading") = {} /\ At("writing") = {}
  BY AtFinite DEF Free, CountersCount
<1>3. LockTypeOK'
  BY <1>1 DEF LockTypeOK, CountersCount, GetWrite, Goes
<1>4. CountersCount'
  BY <1>1 DEF CountersCount, GetWrite, LockTypeOK
<1>5. Exclusion'
  BY <1>1, <1>2 DEF Exclusion
<1>6. NoLostWakeup'
  BY <1>1 DEF NoLostWakeup, CountersCount, LockTypeOK, GetWrite, Free
<1>7. RW!Write(t)
  BY <1>1, <1>2 DEF RW!Write
<1> QED
  BY <1>3, <1>4, <1>5, <1>6, <1>7 DEF RWStep, RW!Next

\* A reader goes to sleep: there is a writer.
LEMMA RdSleepStep ==
  ASSUME LockInv, NEW t \in Threads, pc[t] = "idle", valid, w_active,
         r_wait' = r_wait + 1, sleeping' = sleeping \cup {t}, Goes(t, "rdwait"),
         UNCHANGED <<r_active, w_active, w_wait, valid>>
  PROVE  LockInv' /\ RWStep
<1> USE DEF LockInv
<1>1. /\ At("rdwait")' = At("rdwait") \cup {t} /\ t \notin At("rdwait")
      /\ At("idle")' = At("idle") \ {t} /\ t \in At("idle")
      /\ \A w : w # "rdwait" /\ w # "idle" => At(w)' = At(w)
      /\ Cardinality(At("rdwait"))' = Cardinality(At("rdwait")) + 1
  BY Moves
<1>2. LockTypeOK'
  BY <1>1 DEF LockTypeOK, Goes
<1>3. CountersCount' /\ Exclusion' /\ RWStep
  BY <1>1 DEF CountersCount, Exclusion, RWStep, LockTypeOK
<1>4. NoLostWakeup'
  BY <1>1 DEF NoLostWakeup, Free
<1> QED
  BY <1>2, <1>3, <1>4

\* A writer goes to sleep: somebody holds the lock.
LEMMA WrSleepStep ==
  ASSUME LockInv, NEW t \in Threads, pc[t] = "idle", valid, ~ Free,
         w_wait' = w_wait + 1, sleeping' = sleeping \cup {t}, Goes(t, "wrwait"),
         UNCHANGED <<r_active, w_active, r_wait, valid>>
  PROVE  LockInv' /\ RWStep
<1> USE DEF LockInv
<1>1. /\ At("wrwait")' = At("wrwait") \cup {t} /\ t \notin At("wrwait")
      /\ At("idle")' = At("idle") \ {t} /\ t \in At("idle")
      /\ \A w : w # "wrwait" /\ w # "idle" => At(w)' = At(w)
      /\ Cardinality(At("wrwait"))' = Cardinality(At("wrwait")) + 1
  BY Moves
<1>2. LockTypeOK'
  BY <1>1 DEF LockTypeOK, Goes
<1>3. CountersCount' /\ Exclusion' /\ RWStep
  BY <1>1 DEF CountersCount, Exclusion, RWStep, LockTypeOK
<1>4. t \notin At("rdwait")
  BY DEF At
<1>5. NoLostWakeup'
  BY <1>1, <1>4 DEF NoLostWakeup, Free
<1> QED
  BY <1>2, <1>3, <1>5

\* A thread that was woken finds the lock taken and sleeps on; or one wakes up for
\* nothing.  Where everybody is does not change.
LEMMA SameSets ==
  ASSUME UNCHANGED pc
  PROVE  /\ \A w : At(w)' = At(w)
         /\ UNCHANGED <<At("reading"), At("writing")>>
         /\ Cardinality(At("reading"))' = Cardinality(At("reading"))
         /\ Cardinality(At("rdwait"))' = Cardinality(At("rdwait"))
         /\ Cardinality(At("wrwait"))' = Cardinality(At("wrwait"))
  BY DEF At

LEMMA SleepsOnStep ==
  ASSUME LockInv, NEW t \in Threads,
         UNCHANGED <<r_active, w_active, r_wait, w_wait, pc, valid>>,
         \/ pc[t] = "rdwait" /\ w_active /\ sleeping' = sleeping \cup {t}
         \/ pc[t] = "wrwait" /\ ~ Free /\ sleeping' = sleeping \cup {t}
         \/ Spurious(t)
  PROVE  LockInv' /\ RWStep
<1> USE DEF LockInv
<1>1. /\ \A w : At(w)' = At(w)
      /\ UNCHANGED <<At("reading"), At("writing")>>
      /\ CountersCount'
  BY SameSets DEF CountersCount
<1>2. /\ t \in At("rdwait") <=> pc[t] = "rdwait"
      /\ t \in At("wrwait") <=> pc[t] = "wrwait"
  BY DEF At
<1>3. LockTypeOK'
  BY <1>1, <1>2 DEF LockTypeOK, Spurious
<1>4. Exclusion' /\ RWStep
  BY <1>1 DEF Exclusion, RWStep
<1>5. NoLostWakeup'
  BY <1>1, <1>2 DEF NoLostWakeup, Free, Spurious, LockTypeOK
<1> QED
  BY <1>1, <1>3, <1>4, <1>5

\* A reader gives the lock back; the last one wakes a writer that sleeps.
LEMMA RdUnlockStep ==
  ASSUME LockInv, NEW t \in Threads, rwl_rdunlock(t)
  PROVE  LockInv' /\ RWStep
<1> USE DEF LockInv
<1>1. /\ At("idle")' = At("idle") \cup {t} /\ t \notin At("idle")
      /\ At("reading")' = At("reading") \ {t} /\ t \in At("reading")
      /\ \A w : w # "idle" /\ w # "reading" => At(w)' = At(w)
      /\ Cardinality(At("reading"))' = Cardinality(At("reading")) - 1
      /\ Cardinality(At("reading")) > 0
  BY Moves DEF rwl_rdunlock
<1>2. /\ valid
      /\ sleeping' \subseteq sleeping
      /\ r_active' = r_active - 1
      /\ UNCHANGED <<w_active, r_wait, w_wait, valid>>
  BY <1>1 DEF rwl_rdunlock, Signal, NoLostWakeup, At
<1>3. LockTypeOK'
  BY <1>1, <1>2 DEF LockTypeOK, CountersCount, rwl_rdunlock, Goes
<1>4. CountersCount' /\ Exclusion'
  BY <1>1, <1>2 DEF CountersCount, Exclusion
<1>5. NoLostWakeup'
  <2>1. CASE r_active' = 0 /\ w_wait > 0
    <3>1. \/ \E w \in sleeping \cap At("wrwait") : sleeping' = sleeping \ {w}
          \/ sleeping \cap At("wrwait") = {} /\ UNCHANGED sleeping
      BY <2>1 DEF rwl_rdunlock, Signal
    <3> QED
      BY <1>1, <1>2, <3>1 DEF NoLostWakeup
  <2>2. CASE r_active' # 0
    BY <1>1, <1>2, <2>2 DEF NoLostWakeup, Free
  <2>3. CASE w_wait = 0
    <3>1. At("wrwait") = {}
      BY <2>3, AtFinite DEF CountersCount
    <3> QED
      BY <1>1, <1>2, <3>1 DEF NoLostWakeup
  <2> QED
    BY <2>1, <2>2, <2>3 DEF LockTypeOK
<1>6. RW!EndRead(t)
  BY <1>1 DEF RW!EndRead
<1> QED
  BY <1>3, <1>4, <1>5, <1>6 DEF RWStep, RW!Next

\* A writer gives the lock back, and wakes all readers or one writer.
LEMMA WrUnlockStep ==
  ASSUME LockInv, NEW t \in Threads, rwl_wrunlock(t)
  PROVE  LockInv' /\ RWStep
<1> USE DEF LockInv
<1>1. /\ At("idle")' = At("idle") \cup {t} /\ t \notin At("idle")
      /\ At("writing")' = At("writing") \ {t} /\ t \in At("writing")
      /\ \A w : w # "idle" /\ w # "writing" => At(w)' = At(w)
  BY Moves DEF rwl_wrunlock
<1>2. At("writing") = {t}
  BY <1>1 DEF Exclusion
<1>3. /\ valid
      /\ sleeping' \subseteq sleeping
      /\ w_active' = FALSE
      /\ UNCHANGED <<r_active, r_wait, w_wait, valid>>
  BY <1>1 DEF rwl_wrunlock, Signal, NoLostWakeup, At
<1>4. /\ Cardinality(At("reading"))' = Cardinality(At("reading"))
      /\ Cardinality(At("rdwait"))' = Cardinality(At("rdwait"))
      /\ Cardinality(At("wrwait"))' = Cardinality(At("wrwait"))
  BY <1>1
<1>5. LockTypeOK'
  BY <1>1, <1>3 DEF LockTypeOK, rwl_wrunlock, Goes
<1>6. CountersCount' /\ Exclusion'
  BY <1>1, <1>2, <1>3, <1>4 DEF CountersCount, Exclusion
<1>7. NoLostWakeup'
  <2>1. CASE r_wait > 0
    <3>1. sleeping' = sleeping \ At("rdwait") /\ At("rdwait") # {}
      BY <2>1, AtFinite DEF rwl_wrunlock, CountersCount
    <3> QED
      BY <1>1, <1>3, <3>1 DEF NoLostWakeup, LockTypeOK
  <2>2. CASE r_wait = 0 /\ w_wait > 0
    <3>1. \/ \E w \in sleeping \cap At("wrwait") : sleeping' = sleeping \ {w}
          \/ sleeping \cap At("wrwait") = {} /\ UNCHANGED sleeping
      BY <2>2 DEF rwl_wrunlock, Signal
    <3>2. At("rdwait") = {}
      BY <2>2, AtFinite DEF CountersCount
    <3> QED
      BY <1>1, <1>3, <3>1, <3>2 DEF NoLostWakeup
  <2>3. CASE r_wait = 0 /\ w_wait = 0
    <3>1. At("wrwait") = {} /\ At("rdwait") = {}
      BY <2>3, AtFinite DEF CountersCount
    <3> QED
      BY <1>1, <1>3, <3>1 DEF NoLostWakeup
  <2> QED
    BY <2>1, <2>2, <2>3 DEF LockTypeOK
<1>8. RW!EndWrite(t)
  BY <1>1, <1>2 DEF RW!EndWrite
<1> QED
  BY <1>5, <1>6, <1>7, <1>8 DEF RWStep, RW!Next

\* rwl_init and rwl_destroy happen where no thread has to do with the lock.
LEMMA InitDestroyStep ==
  ASSUME LockInv, rwl_init \/ rwl_destroy
  PROVE  LockInv' /\ RWStep
<1> USE DEF LockInv
<1>1. UNCHANGED <<pc, sleeping>>
  BY DEF rwl_init, rwl_destroy
<1>2. /\ \A w : At(w)' = At(w)
      /\ UNCHANGED <<At("reading"), At("writing")>>
      /\ Cardinality(At("reading"))' = Cardinality(At("reading"))
      /\ Cardinality(At("rdwait"))' = Cardinality(At("rdwait"))
      /\ Cardinality(At("wrwait"))' = Cardinality(At("wrwait"))
  BY <1>1, SameSets
<1>3. /\ At("reading") = {} /\ At("writing") = {}
      /\ At("rdwait") = {} /\ At("wrwait") = {}
  <2>1. CASE rwl_init
    BY <2>1 DEF rwl_init, NoLostWakeup, At
  <2>2. CASE rwl_destroy
    BY <2>2, AtFinite DEF rwl_destroy, CountersCount
  <2> QED
    BY <2>1, <2>2
<1>4. At("idle") = Threads
  BY <1>3 DEF LockTypeOK, At
<1>5. r_active' = 0 /\ r_wait' = 0 /\ w_wait' = 0 /\ w_active' = FALSE
  BY DEF rwl_init, rwl_destroy, LockTypeOK
<1>6. CountersCount'
  BY <1>2, <1>3, <1>5, FS_EmptySet DEF CountersCount
<1>7. LockTypeOK' /\ Exclusion' /\ NoLostWakeup'
  BY <1>1, <1>2, <1>3, <1>4, <1>5 DEF LockTypeOK, Exclusion, NoLostWakeup, rwl_init, rwl_destroy
<1> QED
  BY <1>2, <1>6, <1>7 DEF RWStep

\* No call and no wake-up breaks the invariant, and each is a step of the abstract
\* lock.
LEMMA LockStep ==
  ASSUME LockInv,
         \/ rwl_init \/ rwl_destroy
         \/ \E t \in Threads : Calls(t) \/ Woken(t)
         \/ UNCHANGED lock
  PROVE  LockInv' /\ RWStep
<1>1. CASE rwl_init \/ rwl_destroy
  BY <1>1, InitDestroyStep
<1>2. ASSUME NEW t \in Threads, Calls(t) \/ Woken(t)
      PROVE  LockInv' /\ RWStep
  <2>1. LockTypeOK /\ (~ valid => At("idle") = Threads) /\ (t \in sleeping => pc[t] \in {"rdwait", "wrwait"})
    BY DEF LockInv, LockTypeOK, NoLostWakeup, At
  <2>2. pc[t] # "idle" => valid
    BY <2>1 DEF At
  <2>3. CASE rwl_rdlock(t)
    BY <2>1, <2>3, GetReadStep, RdSleepStep DEF rwl_rdlock
  <2>4. CASE rwl_tryrdlock(t)
    BY <2>1, <2>4, GetReadStep DEF rwl_tryrdlock
  <2>5. CASE RdWoken(t)
    BY <2>2, <2>5, GetReadStep, SleepsOnStep DEF RdWoken
  <2>6. CASE rwl_wrlock(t)
    BY <2>1, <2>6, GetWriteStep, WrSleepStep DEF rwl_wrlock
  <2>7. CASE rwl_trywrlock(t)
    BY <2>1, <2>7, GetWriteStep DEF rwl_trywrlock
  <2>8. CASE WrWoken(t)
    BY <2>2, <2>8, GetWriteStep, SleepsOnStep DEF WrWoken
  <2>9. CASE Spurious(t)
    BY <2>9, SleepsOnStep DEF Spurious
  <2> QED
    BY <1>2, <2>3, <2>4, <2>5, <2>6, <2>7, <2>8, <2>9, RdUnlockStep, WrUnlockStep
       DEF Calls, Woken
<1>3. CASE UNCHANGED lock
  BY <1>3, SameSets
     DEF lock, LockInv, LockTypeOK, CountersCount, Exclusion, NoLostWakeup, Free, RWStep
<1> QED
  BY <1>1, <1>2, <1>3

\* Initially nobody has to do with the lock.
LEMMA LockInitOK == ASSUME LockInit PROVE LockInv
<1>1. /\ At("reading") = {} /\ At("writing") = {}
      /\ At("rdwait") = {} /\ At("wrwait") = {}
  BY DEF LockInit, At
<1>2. CountersCount
  BY <1>1, FS_EmptySet DEF LockInit, CountersCount
<1>3. LockTypeOK /\ Exclusion /\ NoLostWakeup
  BY <1>1 DEF LockInit, LockTypeOK, Exclusion, NoLostWakeup
<1> QED
  BY <1>2, <1>3 DEF LockInv

\* Every step of the log is one step of the lock.
LEMMA LogStepsLock ==
  ASSUME [Next]_vars
  PROVE  \/ rwl_init \/ rwl_destroy
         \/ \E t \in Threads : Calls(t) \/ Woken(t)
         \/ UNCHANGED lock
  BY AdminAssumption
     DEF AdminAssumption, Next, Direct, Writers, Calls, vars, hlog, hlog_format,
         WriterLocks, LoadName, Write, WriterUnlocks, AdminLocks, Close, Open, AdminUnlocks

\* A call moves one thread, and no thread is moved into or out of the lock but by
\* its own call.
LEMMA OnlyOneMoves ==
  ASSUME LockInv, NEW t \in Threads, Calls(t) \/ Woken(t)
  PROVE  /\ \A u \in Threads : u # t => pc'[u] = pc[u]
         /\ Woken(t) => /\ pc[t] \in {"rdwait", "wrwait"}
                        /\ pc'[t] # "idle"
  BY DEF LockInv, LockTypeOK, At, Calls, Woken, rwl_rdlock, rwl_tryrdlock, rwl_rdunlock,
         rwl_wrlock, rwl_trywrlock, rwl_wrunlock, RdWoken, WrWoken, Spurious, GetRead,
         GetWrite, Goes

\* Steps of the log that leave the lock alone, and those that do not.
LEMMA LogTypeStep == ASSUME LogInv, [Next]_vars
  PROVE  /\ use' \in Uses /\ log_file' \in {-1, -666, 1} /\ log_name' \in Nat
         /\ task' \in [Threads -> {"none", "line", "text", "written", "lost",
                                   "open", "close", "reopen", "done"}]
         /\ name' \in [Threads -> Nat]
<1> USE AdminAssumption DEF AdminAssumption, LogInv, Does, log
<1>1. CASE Next
  <2>1. CASE use # "direct" /\ \E t \in Threads \ {Admin} : Writers(t)
    <3>1. PICK t \in Threads \ {Admin} : Writers(t)
      BY <2>1
    <3>2. CASE hlog(t) \/ hlog_format(t) \/ LoadName(t) \/ Write(t)
      BY <3>2 DEF hlog, hlog_format, LoadName, Write
    <3>3. CASE WriterLocks(t) \/ WriterUnlocks(t)
      BY <3>3 DEF WriterLocks, WriterUnlocks
    <3> QED
      BY <3>1, <3>2, <3>3 DEF Writers
  <2>2. CASE AdminLocks \/ Close \/ Open \/ AdminUnlocks
    BY <2>2 DEF AdminLocks, Close, Open, AdminUnlocks
  <2>3. CASE UNCHANGED <<use, log>>
    BY <2>3
  <2> QED
    BY <1>1, <2>1, <2>2, <2>3 DEF Next, Direct
<1>2. CASE UNCHANGED vars
  BY <1>2 DEF vars
<1> QED
  BY <1>1, <1>2

\* Between the halves of a reopen the admin thread has the write lock.
ReopenInv == /\ log_file < 0 /\ ~ shut /\ use \notin NoFile =>
                   pc[Admin] = "writing" /\ task[Admin] = "open"
             /\ use = "direct" => shut

\* A name that was loaded is printed under the lock that keeps it alive.
NamesInv == use # "file" => \A t \in Threads : name[t] # 0 =>
               /\ use = "stderr" /\ pc[t] = "reading"
               /\ name[t] = log_name /\ task[t] = "text"

\* While one thread writes nobody reads, and so nobody has a name.
LEMMA WriterIsAlone ==
  ASSUME LogInv, NEW t \in Threads, pc[t] = "writing"
  PROVE  /\ \A u \in Threads : pc[u] # "reading"
         /\ use # "file" => \A u \in Threads : name[u] = 0
<1>1. t \in At("writing")
  BY DEF At
<1>2. At("reading") = {}
  BY <1>1 DEF LogInv, LockInv, Exclusion
<1>3. \A u \in Threads : pc[u] # "reading"
  BY <1>2 DEF At
<1> QED
  BY <1>3 DEF LogInv

\* A thread that writes a line.
LEMMA WritersStep ==
  ASSUME LogInv, use # "direct", NEW t \in Threads \ {Admin}, Writers(t)
  PROVE  ReopenInv' /\ NamesInv'
<1> USE AdminAssumption DEF AdminAssumption
<1>1. /\ \A u \in Threads : u # t => pc'[u] = pc[u] /\ task'[u] = task[u] /\ name'[u] = name[u]
      /\ pc'[Admin] = pc[Admin] /\ task'[Admin] = task[Admin]
      /\ UNCHANGED <<use, shut, log_name>>
  <2>1. CASE hlog(t) \/ hlog_format(t) \/ LoadName(t) \/ Write(t)
    BY <2>1 DEF hlog, hlog_format, LoadName, Write, Does, lock, LogInv
  <2>2. CASE WriterLocks(t) \/ WriterUnlocks(t)
    BY <2>2, OnlyOneMoves
       DEF WriterLocks, WriterUnlocks, Calls, Does, log, LogInv
  <2> QED
    BY <2>1, <2>2 DEF Writers
<1>2. log_file' < 0 => log_file < 0
  BY DEF Writers, hlog, hlog_format, WriterLocks, LoadName, Write, WriterUnlocks, log, LogInv
<1>3. ReopenInv'
  BY <1>1, <1>2 DEF LogInv, ReopenInv
<1>4. ASSUME use # "file", name'[t] # 0
      PROVE  /\ use = "stderr" /\ pc'[t] = "reading"
             /\ name'[t] = log_name /\ task'[t] = "text"
  <2>1. CASE hlog(t)
    BY <1>4, <2>1 DEF hlog, LogInv
  <2>2. CASE hlog_format(t) \/ Write(t)
    BY <1>4, <2>2 DEF hlog_format, Write, LogInv
  <2>3. CASE LoadName(t)
    BY <1>4, <2>3 DEF LoadName, Does, lock, LogInv
  <2>4. CASE WriterLocks(t)
    BY <1>4, <2>4 DEF WriterLocks, rwl_rdlock, log, LogInv
  <2>5. CASE WriterUnlocks(t)
    BY <1>4, <2>5 DEF WriterUnlocks, LogInv
  <2> QED
    BY <2>1, <2>2, <2>3, <2>4, <2>5 DEF Writers
<1>5. NamesInv'
  BY <1>1, <1>4 DEF LogInv, NamesInv
<1> QED
  BY <1>3, <1>5

\* The thread that opens and closes the log.
LEMMA AdminStep ==
  ASSUME LogInv, use # "direct", AdminLocks \/ Close \/ Open \/ AdminUnlocks
  PROVE  ReopenInv' /\ NamesInv'
<1> USE AdminAssumption DEF AdminAssumption
<1>1. CASE AdminLocks
  <2>1. \A u \in Threads : u # Admin => pc'[u] = pc[u] /\ task'[u] = task[u]
    BY <1>1, OnlyOneMoves DEF AdminLocks, Calls, Does, LogInv
  <2>2. UNCHANGED <<use, log_file, log_name, shut, name>> /\ pc[Admin] = "idle"
    BY <1>1 DEF AdminLocks, rwl_wrlock
  <2> QED
    BY <2>1, <2>2 DEF LogInv, ReopenInv, NamesInv
<1>2. CASE Close
  <2>1. /\ use # "file" => \A u \in Threads : name[u] = 0
        /\ UNCHANGED <<lock, use, name>>
    BY <1>2, WriterIsAlone DEF Close
  <2>2. pc'[Admin] = "writing" /\ (~ shut' => task'[Admin] = "open")
    BY <1>2 DEF Close, Does, LogInv, lock
  <2> QED
    BY <2>1, <2>2 DEF ReopenInv, NamesInv
<1>3. CASE Open
  <2>1. /\ use # "file" => \A u \in Threads : name[u] = 0
        /\ UNCHANGED <<lock, use, name>>
    BY <1>3, WriterIsAlone DEF Open
  <2>2. use \notin NoFile => (shut' <=> log_file' = -1) /\ log_file' \in {-1, 1}
    BY <1>3 DEF Open
  <2> QED
    BY <2>1, <2>2 DEF ReopenInv, NamesInv
<1>4. CASE AdminUnlocks
  <2>1. /\ use # "file" => \A u \in Threads : name[u] = 0
        /\ UNCHANGED <<use, log_file, shut, name>>
        /\ task[Admin] = "done"
    BY <1>4, WriterIsAlone DEF AdminUnlocks, rwl_wrunlock
  <2> QED
    BY <2>1 DEF LogInv, ReopenInv, NamesInv
<1> QED
  BY <1>1, <1>2, <1>3, <1>4

LEMMA LogInvStep == ASSUME LogInv, [Next]_vars PROVE LogInv' /\ RWStep
<1> USE AdminAssumption DEF AdminAssumption
<1>1. LockInv' /\ RWStep
  BY LogStepsLock, LockStep DEF LogInv
<1>2. ReopenInv' /\ NamesInv'
  <2>1. CASE use # "direct" /\ \E t \in Threads \ {Admin} : Writers(t)
    BY <2>1, WritersStep
  <2>2. CASE use # "direct" /\ (AdminLocks \/ Close \/ Open \/ AdminUnlocks)
    BY <2>2, AdminStep
  <2>3. CASE UNCHANGED <<use, log>> /\ \E t \in Threads : Woken(t)
    <3>1. \A u \in Threads : pc[u] \in {"reading", "writing"} => pc'[u] = pc[u]
      BY <2>3, OnlyOneMoves DEF LogInv
    <3> QED
      BY <2>3, <3>1 DEF LogInv, ReopenInv, NamesInv, log
  <2>4. CASE use = "direct" /\ Direct
    <3>1. UNCHANGED <<use, log>> /\ shut
      BY <2>4 DEF Direct, LogInv
    <3> QED
      BY <2>4, <3>1 DEF LogInv, ReopenInv, NamesInv, log
  <2>5. CASE UNCHANGED vars
    BY <2>5 DEF LogInv, ReopenInv, NamesInv, vars, lock, log
  <2> QED
    BY <2>1, <2>2, <2>3, <2>4, <2>5 DEF Next
<1> QED
  BY <1>1, <1>2, LogTypeStep DEF LogInv, ReopenInv, NamesInv

\* Initially nothing is open, and nobody has a name.
LEMMA LogInitOK == ASSUME Init PROVE LogInv
  BY LockInitOK DEF Init, LogInv, Uses

\* The inductive invariant, for any number of threads.
THEOREM LogInductive == Spec => []LogInv
<1>1. Init => LogInv
  BY LogInitOK
<1>2. LogInv /\ [Next]_vars => LogInv'
  BY LogInvStep
<1> QED
  BY <1>1, <1>2, PTL DEF Spec

\* No reader sleeps without a writer, no writer sleeps while the lock is free and
\* nobody is about to look at it again (rwlock.c), whatever the threads call.
THEOREM Wakeups == Spec => []NoLostWakeup
<1>1. LogInv => NoLostWakeup
  BY DEF LogInv, LockInv
<1> QED
  BY <1>1, LogInductive, PTL

\* A line meets a closed file only where the log is closed for good: the write lock
\* is held across a reopen (hlog.c), and a writer of a line is a reader of the lock.
THEOREM LinesAreLogged == Spec => []LostOnlyWhenClosed
<1>1. ASSUME LogInv PROVE LostOnlyWhenClosed
  <2> SUFFICES ASSUME NEW t \in Threads, pc[t] = "reading", log_file < 0,
                      ~ shut, use \notin NoFile
               PROVE  FALSE
    BY DEF LostOnlyWhenClosed
  <2>1. pc[Admin] = "writing"
    BY <1>1 DEF LogInv
  <2> QED
    BY <1>1, <2>1, WriterIsAlone, AdminAssumption DEF AdminAssumption
<1> QED
  BY <1>1, LogInductive, PTL

\* A name of the log that is about to be printed was not freed (hlog.c, accesslog
\* and stderr).
THEOREM NamesLive == Spec => []NameIsAlive
<1>1. LogInv => NameIsAlive
  BY DEF LogInv, NameIsAlive
<1> QED
  BY <1>1, LogInductive, PTL

\* rwlock.c implements the abstract lock: with two conditions, a mutex and counters,
\* and wake-ups for nothing, any number of readers or one writer hold it.
THEOREM LockRefinement == Spec => ImplementsReadersWriters
<1>1. Init => RW!Init
  BY DEF Init, LockInit, RW!Init, At
<1>2. LogInv /\ [Next]_vars => [RW!Next]_<<At("reading"), At("writing")>>
  BY LogInvStep DEF RWStep
<1> QED
  BY <1>1, <1>2, LogInductive, PTL DEF Spec, ImplementsReadersWriters, RW!Spec
=============================================================================
