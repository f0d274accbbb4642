------------------------------- MODULE LogFile -------------------------------
(***************************************************************************)
(* src/src/hlog.c: threads write lines to a log under the read lock, one   *)
(* thread opens it, reopens and closes it under the write lock.  The log   *)
(* proper and the access log do the same, but hlog looks at the file and   *)
(* at the log's name before it has the lock, accesslog after.              *)
(*                                                                         *)
(* `use' says what the threads of a behaviour do: write to stderr, to      *)
(* syslog, to the log file or to the access log, or ("direct") call the    *)
(* lock themselves, as they like.  log_name is the number of the string it *)
(* points to.  Lines that the open and close functions log themselves, and *)
(* what the syslog library keeps, are left out.                            *)
(***************************************************************************)
EXTENDS RwLock

CONSTANT Admin     \* the thread that opens and closes the log

ASSUME AdminAssumption == Admin \in Threads

VARIABLES use,
          log_file,     \* -1 closed, -666 closed and said so, 1 open
          log_name,     \* 0: NULL
          task,         \* task[t]: what thread t is doing
          shut,         \* history: the log was not opened, or closed for good
          name          \* name[t]: the log_name thread t is about to print

log == <<log_file, log_name, shut, task, name>>
vars == <<lock, use, log>>

Uses == {"stderr", "syslog", "file", "access", "direct"}
NoFile == {"stderr", "syslog"}
Does(t, what) == task' = [task EXCEPT ![t] = what]

Init == /\ LockInit
        /\ use \in Uses
        /\ log_file = -1 /\ log_name = 0 /\ shut = TRUE
        /\ task = [t \in Threads |-> "none"] /\ name = [t \in Threads |-> 0]
------------------------------------------------------------------------------
\* A line is to be written.  hlog to a file gives up if there is none, and takes
\* the name, before it locks.
hlog(t) == /\ task[t] = "none" /\ pc[t] = "idle"
           /\ use = "file" => log_file >= 0
           /\ Does(t, "line")
           /\ name' = IF use = "file" THEN [name EXCEPT ![t] = log_name] ELSE name
           /\ UNCHANGED <<lock, use, log_file, log_name, shut>>

\* snprintf prints the name.
hlog_format(t) == /\ use = "file" /\ task[t] = "line" /\ pc[t] = "idle"
                  /\ Does(t, "text") /\ name' = [name EXCEPT ![t] = 0]
                  /\ UNCHANGED <<lock, use, log_file, log_name, shut>>

WriterLocks(t) == /\ task[t] = IF use = "file" THEN "text" ELSE "line"
                  /\ rwl_rdlock(t) /\ UNCHANGED <<use, log>>

\* mutant: the name is loaded without the lock
LoadName_Early(t) == /\ use = "stderr" /\ task[t] = "line" /\ pc[t] = "idle" /\ name[t] = 0
                     /\ name' = [name EXCEPT ![t] = log_name]
                     /\ UNCHANGED <<lock, use, log_file, log_name, shut, task>>

\* With the lock: the name is loaded (stderr), then the line is written.
LoadName(t) == /\ use = "stderr" /\ task[t] = "line" /\ pc[t] = "reading"
               /\ Does(t, "text") /\ name' = [name EXCEPT ![t] = log_name]
               /\ UNCHANGED <<lock, use, log_file, log_name, shut>>

\* accesslog says once that there is no file.
Write(t) == /\ pc[t] = "reading" /\ task[t] \in {"line", "text"}
            /\ use = "stderr" => task[t] = "text"
            /\ Does(t, IF use = "access" /\ log_file < 0 THEN "lost" ELSE "written")
            /\ log_file' = IF use = "access" /\ log_file = -1 THEN -666 ELSE log_file
            /\ name' = [name EXCEPT ![t] = 0]
            /\ UNCHANGED <<lock, use, log_name, shut>>

WriterUnlocks(t) == /\ task[t] \in {"written", "lost"}
                    /\ rwl_rdunlock(t) /\ Does(t, "none")
                    /\ UNCHANGED <<use, log_file, log_name, shut, name>>
------------------------------------------------------------------------------
\* open_log, accesslog_open, close_log and accesslog_close with or without reopen
\* take the write lock first.
AdminLocks == /\ task[Admin] = "none"
              /\ \E what \in IF log_name = 0 THEN {"open"} ELSE {"close", "reopen"} :
                     Does(Admin, what)
              /\ rwl_wrlock(Admin)
              /\ UNCHANGED <<use, log_file, log_name, shut, name>>

\* mutant: closing for a reopen gives the lock back in between
Close_Unlocks == /\ pc[Admin] = "writing" /\ task[Admin] \in {"close", "reopen"}
                 /\ log_file' = -1 /\ log_name' = 0
                 /\ shut' = (task[Admin] = "close") /\ Does(Admin, "none")
                 /\ rwl_wrunlock(Admin) /\ UNCHANGED <<use, name>>

Close == /\ pc[Admin] = "writing" /\ task[Admin] \in {"close", "reopen"}
         /\ log_file' = -1 /\ log_name' = 0
         /\ shut' = (task[Admin] = "close")
         /\ Does(Admin, IF task[Admin] = "close" THEN "done" ELSE "open")
         /\ UNCHANGED <<lock, use, name>>

\* A log file that cannot be opened ends the program (not modelled), an access
\* log that cannot is left closed.
Open == /\ pc[Admin] = "writing" /\ task[Admin] = "open"
        /\ log_name' \in {1, 2}
        /\ log_file' \in IF use \in NoFile THEN {-1} ELSE IF use = "access" THEN {-1, 1} ELSE {1}
        /\ shut' = (use \notin NoFile /\ log_file' = -1)
        /\ Does(Admin, "done")
        /\ UNCHANGED <<lock, use, name>>

AdminUnlocks == /\ task[Admin] = "done"
                /\ rwl_wrunlock(Admin) /\ Does(Admin, "none")
                /\ UNCHANGED <<use, log_file, log_name, shut, name>>

Writers(t) == \/ hlog(t) \/ hlog_format(t) \/ WriterLocks(t) \/ LoadName(t)
              \/ Write(t) \/ WriterUnlocks(t)

Direct == /\ \/ rwl_init \/ rwl_destroy
             \/ \E t \in Threads : \/ rwl_rdlock(t) \/ rwl_tryrdlock(t) \/ rwl_rdunlock(t)
                                   \/ rwl_wrlock(t) \/ rwl_trywrlock(t) \/ rwl_wrunlock(t)
          /\ UNCHANGED <<use, log>>

Next == \/ use = "direct" /\ Direct
        \/ \E t \in Threads : Woken(t) /\ UNCHANGED <<use, log>>
        \/ /\ use # "direct"
           /\ \/ \E t \in Threads \ {Admin} : Writers(t)
              \/ AdminLocks \/ Close \/ Open \/ AdminUnlocks

Spec == Init /\ [][Next]_vars

\* Threads run: one that holds the lock gives it back, one that was woken gets the
\* mutex in the end, but whoever is faster may have the lock again by then.  Nothing
\* makes a thread take the lock, or leave it to another.
Unlocks(t) == \/ use = "direct" /\ (rwl_rdunlock(t) \/ rwl_wrunlock(t)) /\ UNCHANGED <<use, log>>
              \/ use # "direct" /\ t # Admin /\ (LoadName(t) \/ Write(t) \/ WriterUnlocks(t))
              \/ use # "direct" /\ t = Admin /\ (Close \/ Open \/ AdminUnlocks)

FairSpec == /\ Spec
            /\ \A t \in Threads : /\ WF_vars(Unlocks(t))
                                  /\ WF_vars(RdWoken(t) /\ UNCHANGED <<use, log>>)
                                  /\ WF_vars(WrWoken(t) /\ UNCHANGED <<use, log>>)
------------------------------------------------------------------------------
\* A line meets a closed file only where the log was closed for good or never
\* opened, not between the two halves of a reopen (hlog.c:194, 312).
LostOnlyWhenClosed ==
    \A t \in Threads : pc[t] = "reading" /\ task[t] \in {"line", "text"} /\ log_file < 0 =>
                          shut \/ use \in NoFile

\* A name that is about to be printed was not freed.  (Not so where hlog writes
\* to a file: hlog.c:249 reads the name without the lock.)
NameIsAlive == use # "file" => \A t \in Threads : name[t] \in {0, log_name}

\* Inductive, with LockInv: between the two halves of a reopen the admin thread has
\* the write lock, and a loaded name is used by a thread that has the read lock.
LogInv ==
    /\ LockInv
    /\ use \in Uses /\ log_file \in {-1, -666, 1}
    /\ task \in [Threads -> {"none", "line", "text", "written", "lost",
                              "open", "close", "reopen", "done"}]
    /\ name \in [Threads -> Nat]
    /\ log_file < 0 /\ ~ shut /\ use \notin NoFile =>
          pc[Admin] = "writing" /\ task[Admin] = "open"
    /\ use = "direct" => shut
    /\ use # "file" => \A t \in Threads : name[t] # 0 =>
          /\ use = "stderr" /\ pc[t] = "reading"
          /\ name[t] = log_name /\ task[t] = "text"
    /\ log_name \in Nat

Comes(to) == \E t \in Threads : pc[t] = "idle" /\ pc'[t] \in to

\* Whoever waits for the lock gets it: a reader unless threads keep coming to write,
\* a writer unless threads keep coming at all.  Whoever leaves has to wake the right
\* ones (rwlock.c:190, 272-285).
WaitersGetIn ==
    /\ \/ []<><<Comes({"wrwait", "writing"})>>_vars
       \/ \A t \in Threads : pc[t] = "rdwait" ~> pc[t] = "reading"
    /\ \/ []<><<Comes({"rdwait", "reading", "wrwait", "writing"})>>_vars
       \/ \A t \in Threads : pc[t] = "wrwait" ~> pc[t] = "writing"
==============================================================================
