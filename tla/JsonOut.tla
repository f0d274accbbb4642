------------------------------ MODULE JsonOut ------------------------------
(***************************************************************************)
(* The JSON exporter, out_json.c: the main thread appends notifications to *)
(* a linked list under out_json_que_mut (jsonout_push); the exporting      *)
(* thread looks at the list without the lock, takes the whole list under   *)
(* the lock, and posts it to every uplink without the lock                 *)
(* (jsonout_thread, jsonout_post_all).  jsonout_deinit asks the thread to  *)
(* die and joins it.                                                       *)
(*                                                                         *)
(* List nodes are numbered in the order in which jsonout_push allocates    *)
(* them, so a node also stands for its event.  A pointer is a node number  *)
(* or NULL.  out_json_tail points to a "next" field: NULL stands for       *)
(* &out_json_que and n for &n->next.  Loads and stores of one word are     *)
(* atomic, as they are on the machines this is built for (without          *)
(* optimisation, so the flag is loaded in every round of the loop).        *)
(***************************************************************************)
EXTENDS Naturals, Sequences

CONSTANTS NumUplinks,   \* length of the uplink_config list
          PushLimit     \* bound: notifications pushed in one behaviour

ASSUME JsonOutAssumption == NumUplinks \in Nat /\ PushLimit \in Nat

Uplinks == 1..NumUplinks
Nodes == 1..PushLimit
NULL == 0
Pointers == Nodes \cup {NULL}

VARIABLES
  out_json_que,    \* head of the shared list
  out_json_tail,   \* where the next node is linked
  next,            \* next[n]: the next field of node n
  nodes,           \* number of nodes allocated so far
  mut,             \* holder of out_json_que_mut
  jsonout_die,     \* death was requested
  mpc,             \* where the main thread is
  tpc,             \* where the exporting thread is
  out,             \* jsonout_thread: the list it took
  qp,              \* jsonout_post_all: next node to add to the form
  form,            \* the events in the HTTP form
  up,              \* jsonout_post_all: the uplink posted to next
  offered,         \* history: offered[u], the events of all requests made to u
  received         \* history: received[u], the events that reached u

list == <<out_json_que, out_json_tail, next, nodes>>
batch == <<out, qp, form, up>>
history == <<offered, received>>
vars == <<list, mut, jsonout_die, mpc, tpc, batch, history>>

Init == /\ out_json_que = NULL
        /\ out_json_tail = NULL
        /\ next = [n \in Nodes |-> NULL]
        /\ nodes = 0
        /\ mut = "free"
        /\ jsonout_die = FALSE
        /\ mpc = "init"
        /\ tpc = "absent"
        /\ out = NULL
        /\ qp = NULL
        /\ form = <<>>
        /\ up = 1
        /\ offered = [u \in Uplinks |-> <<>>]
        /\ received = [u \in Uplinks |-> <<>>]

-----------------------------------------------------------------------------
(***************************************************************************)
(* The main thread.                                                        *)
(***************************************************************************)

\* main(): the exporter exists only when an uplink is configured; when its
\* thread cannot be created the program exits.
jsonout_init ==
  /\ mpc = "init"
  /\ \/ mpc' = "run" /\ tpc' = IF NumUplinks > 0 THEN "loop" ELSE "absent"
     \/ NumUplinks > 0 /\ mpc' = "exit" /\ UNCHANGED tpc
  /\ UNCHANGED <<list, mut, jsonout_die, batch, history>>

\* jsonout_push: hmalloc the node and clear its next field.
PushAlloc ==
  /\ mpc = "run"
  /\ nodes < PushLimit
  /\ nodes' = nodes + 1
  /\ next' = [next EXCEPT ![nodes + 1] = NULL]
  /\ mpc' = "push_lock"
  /\ UNCHANGED <<out_json_que, out_json_tail, mut, jsonout_die, tpc, batch,
                 history>>

PushLock ==
  /\ mpc = "push_lock"
  /\ mut = "free"
  /\ mut' = "main"
  /\ mpc' = "push_link"
  /\ UNCHANGED <<list, jsonout_die, tpc, batch, history>>

\* *out_json_tail = q
PushLink ==
  /\ mpc = "push_link"
  /\ IF out_json_tail = NULL
       THEN out_json_que' = nodes /\ UNCHANGED next
       ELSE next' = [next EXCEPT ![out_json_tail] = nodes]
            /\ UNCHANGED out_json_que
  /\ mpc' = "push_tail"
  /\ UNCHANGED <<out_json_tail, nodes, mut, jsonout_die, tpc, batch, history>>

\* Mutant: the tail is not moved to the new node.
PushTail_TailKept ==
  /\ mpc = "push_tail"
  /\ mpc' = "push_unlock"
  /\ UNCHANGED <<list, mut, jsonout_die, tpc, batch, history>>

\* out_json_tail = &q->next
PushTail ==
  /\ mpc = "push_tail"
  /\ out_json_tail' = nodes
  /\ mpc' = "push_unlock"
  /\ UNCHANGED <<out_json_que, next, nodes, mut, jsonout_die, tpc, batch,
                 history>>

PushUnlock ==
  /\ mpc = "push_unlock"
  /\ mut' = "free"
  /\ mpc' = "run"
  /\ UNCHANGED <<list, jsonout_die, tpc, batch, history>>

\* The end of main(): jsonout_deinit is called only with an uplink.
jsonout_deinit ==
  /\ mpc = "run"
  /\ jsonout_die' = IF NumUplinks > 0 THEN TRUE ELSE jsonout_die
  /\ mpc' = IF NumUplinks > 0 THEN "join" ELSE "exit"
  /\ UNCHANGED <<list, mut, tpc, batch, history>>

\* Mutant: main() does not wait for the thread.
Join_NoWait ==
  /\ mpc = "join"
  /\ mpc' = "exit"
  /\ UNCHANGED <<list, mut, jsonout_die, tpc, batch, history>>

Join ==
  /\ mpc = "join"
  /\ tpc = "returned"
  /\ mpc' = "exit"
  /\ UNCHANGED <<list, mut, jsonout_die, tpc, batch, history>>

MainPush == PushLock \/ PushLink \/ PushTail \/ PushUnlock
MainStep == jsonout_init \/ PushAlloc \/ MainPush \/ jsonout_deinit \/ Join

-----------------------------------------------------------------------------
(***************************************************************************)
(* The exporting thread.                                                   *)
(***************************************************************************)

\* Mutant: the flag, which is not volatile, was read before the loop.
CheckDie_Hoisted ==
  /\ tpc = "loop"
  /\ tpc' = "peek"
  /\ UNCHANGED <<list, mut, jsonout_die, mpc, batch, history>>

\* Top of the loop: return when death was requested, else sleep.
CheckDie ==
  /\ tpc = "loop"
  /\ tpc' = IF jsonout_die THEN "returned" ELSE "peek"
  /\ UNCHANGED <<list, mut, jsonout_die, mpc, batch, history>>

\* Mutant: the list is taken without looking at it first.
Peek_NoLook ==
  /\ tpc = "peek"
  /\ tpc' = "grab_lock"
  /\ UNCHANGED <<list, mut, jsonout_die, mpc, batch, history>>

\* if (out_json_que), without the lock.
Peek ==
  /\ tpc = "peek"
  /\ tpc' = IF out_json_que = NULL THEN "loop" ELSE "grab_lock"
  /\ UNCHANGED <<list, mut, jsonout_die, mpc, batch, history>>

\* Mutant: the list is taken without the mutex.
GrabLock_NoMutex ==
  /\ tpc = "grab_lock"
  /\ tpc' = "grab_out"
  /\ UNCHANGED <<list, mut, jsonout_die, mpc, batch, history>>

GrabLock ==
  /\ tpc = "grab_lock"
  /\ mut = "free"
  /\ mut' = "exporter"
  /\ tpc' = "grab_out"
  /\ UNCHANGED <<list, jsonout_die, mpc, batch, history>>

\* out = out_json_que
GrabOut ==
  /\ tpc = "grab_out"
  /\ out' = out_json_que
  /\ tpc' = "grab_tail"
  /\ UNCHANGED <<list, mut, jsonout_die, mpc, qp, form, up, history>>

\* Mutant: the tail keeps pointing into the list that was taken.
GrabTail_TailKept ==
  /\ tpc = "grab_tail"
  /\ tpc' = "grab_que"
  /\ UNCHANGED <<list, mut, jsonout_die, mpc, batch, history>>

\* out_json_tail = &out_json_que
GrabTail ==
  /\ tpc = "grab_tail"
  /\ out_json_tail' = NULL
  /\ tpc' = "grab_que"
  /\ UNCHANGED <<out_json_que, next, nodes, mut, jsonout_die, mpc, batch,
                 history>>

\* out_json_que = NULL
GrabQue ==
  /\ tpc = "grab_que"
  /\ out_json_que' = NULL
  /\ tpc' = "grab_unlock"
  /\ UNCHANGED <<out_json_tail, next, nodes, mut, jsonout_die, mpc, batch,
                 history>>

\* Mutant: the form of the previous batch is used again.
GrabUnlock_FormKept ==
  /\ tpc = "grab_unlock"
  /\ mut' = "free"
  /\ qp' = out
  /\ tpc' = "form"
  /\ UNCHANGED <<list, jsonout_die, mpc, out, form, up, history>>

GrabUnlock ==
  /\ tpc = "grab_unlock"
  /\ mut' = "free"
  /\ qp' = out
  /\ form' = <<>>
  /\ tpc' = "form"
  /\ UNCHANGED <<list, jsonout_die, mpc, out, up, history>>

\* One round of the loop that adds a node to the form and follows its next
\* field, without the lock.
FormAdd ==
  /\ tpc = "form"
  /\ qp # NULL
  /\ form' = Append(form, qp)
  /\ qp' = next[qp]
  /\ UNCHANGED <<list, mut, jsonout_die, mpc, tpc, out, up, history>>

\* Mutant: the loop over the uplinks does not start over.
FormDone_UpKept ==
  /\ tpc = "form"
  /\ qp = NULL
  /\ tpc' = "post"
  /\ UNCHANGED <<list, mut, jsonout_die, mpc, batch, history>>

FormDone ==
  /\ tpc = "form"
  /\ qp = NULL
  /\ up' = 1
  /\ tpc' = "post"
  /\ UNCHANGED <<list, mut, jsonout_die, mpc, out, qp, form, history>>

\* jsonout_post_single: the request reaches the uplink or it does not, and
\* its result is ignored either way.
jsonout_post_single ==
  /\ tpc = "post"
  /\ up \in Uplinks
  /\ offered' = [offered EXCEPT ![up] = @ \o form]
  /\ \/ received' = [received EXCEPT ![up] = @ \o form]
     \/ UNCHANGED received
  /\ up' = up + 1
  /\ UNCHANGED <<list, mut, jsonout_die, mpc, tpc, out, qp, form>>

\* Mutant: the thread returns after its first batch.
PostDone_Return ==
  /\ tpc = "post"
  /\ up \notin Uplinks
  /\ tpc' = "returned"
  /\ UNCHANGED <<list, mut, jsonout_die, mpc, batch, history>>

PostDone ==
  /\ tpc = "post"
  /\ up \notin Uplinks
  /\ tpc' = "loop"
  /\ UNCHANGED <<list, mut, jsonout_die, mpc, batch, history>>

jsonout_thread == \/ CheckDie \/ Peek \/ GrabLock \/ GrabOut \/ GrabTail
                  \/ GrabQue \/ GrabUnlock \/ FormAdd \/ FormDone
                  \/ jsonout_post_single \/ PostDone

-----------------------------------------------------------------------------
\* main() has returned: the process is gone.
Exited == mpc = "exit" /\ UNCHANGED vars

Next == MainStep \/ jsonout_thread \/ Exited

\* Fairness: both threads keep running, the mutex does not starve a waiter
\* that finds it free again and again, and an HTTP request returns sooner or
\* later.  Nothing makes main() push another event or shut down.
Fairness == /\ WF_vars(jsonout_thread)
            /\ SF_vars(GrabLock)
            /\ WF_vars(MainPush)
            /\ SF_vars(PushLock)
            /\ WF_vars(Join)

Spec == Init /\ [][Next]_vars
FairSpec == Spec /\ Fairness
-----------------------------------------------------------------------------
(***************************************************************************)
(* Properties.                                                             *)
(***************************************************************************)

\* Number of events linked into the list so far.
Pushed == IF mpc \in {"push_lock", "push_link"} THEN nodes - 1 ELSE nodes

\* The events before First were taken off the shared list.
First == IF out_json_que = NULL THEN Pushed + 1 ELSE out_json_que

\* The exporter holds a batch that is no longer in the shared list.
HoldsBatch == tpc \in {"grab_unlock", "form", "post"}

\* Events 1..n in order.
Upto(n) == [i \in 1..n |-> i]

MainPcs == {"init", "run", "push_lock", "push_link", "push_tail",
            "push_unlock", "join", "exit"}
ThreadPcs == {"absent", "loop", "peek", "grab_lock", "grab_out", "grab_tail",
              "grab_que", "grab_unlock", "form", "post", "returned"}

\* Every variable has its type.
TypeOK == /\ out_json_que \in Pointers
          /\ out_json_tail \in Pointers
          /\ next \in [Nodes -> Pointers]
          /\ nodes \in 0..PushLimit
          /\ mut \in {"free", "main", "exporter"}
          /\ jsonout_die \in BOOLEAN
          /\ mpc \in MainPcs
          /\ tpc \in ThreadPcs
          /\ out \in Pointers
          /\ qp \in Pointers
          /\ form \in Seq(Nodes)
          /\ up \in 1..(NumUplinks + 1)
          /\ offered \in [Uplinks -> Seq(Nodes)]
          /\ received \in [Uplinks -> Seq(Nodes)]

\* The requests made to an uplink carry the events in the order they were
\* pushed, each exactly once, with none skipped - whatever became of earlier
\* requests (jsonout_push, jsonout_thread and the walk of jsonout_post_all).
InOrderExactlyOnce ==
  \A u \in Uplinks : offered[u] = Upto(Len(offered[u]))

\* No event is lost between the two threads: when the exporter holds no batch,
\* every uplink was offered all events but those still linked in the list.
\* After the exporter has returned, these are the events lost at shutdown.
NothingLost ==
  ~HoldsBatch => \A u \in Uplinks : Len(offered[u]) = First - 1

\* While nobody holds the mutex the list is intact: it links the events that
\* were pushed and not taken, in order, and out_json_tail is where it ends.
QueueWellFormed ==
  mut = "free" =>
    /\ \A n \in First..Pushed :
         next[n] = IF n = Pushed THEN NULL ELSE n + 1
    /\ out_json_tail = IF out_json_que = NULL THEN NULL ELSE Pushed

\* The exporter walks its batch without the lock, and that is no data race:
\* the main thread is not going to write a node of the batch.
BatchIsPrivate ==
  HoldsBatch => \/ out_json_tail = NULL
                \/ out_json_tail >= First

\* The unlocked look at out_json_que is enough: the list is never empty when
\* the exporter takes it, so no request without events is made.
GrabNeverEmpty == HoldsBatch => out # NULL

\* The exporter implements the abstract channel.
Channel == INSTANCE EventChannel WITH
             pushed <- Pushed,
             offered <- [u \in Uplinks |-> Len(offered[u])],
             received <- received,
             closed <- mpc = "exit"
ImplementsChannel == Channel!Spec

\* An event that was pushed is offered to every uplink, unless death is
\* requested first.
PushedIsOffered ==
  \A e \in Nodes, u \in Uplinks :
    (nodes >= e /\ mpc = "run") ~> (Len(offered[u]) >= e \/ jsonout_die)

\* Shutdown completes: after jsonout_deinit the thread returns and main()
\* gets past the join.
ShutdownCompletes == jsonout_die ~> mpc = "exit"

-----------------------------------------------------------------------------
(***************************************************************************)
(* The inductive invariant behind the safety properties.                   *)
(***************************************************************************)
MutexInv ==
  /\ mut = "main" <=> mpc \in {"push_link", "push_tail", "push_unlock"}
  /\ mut = "exporter" <=> tpc \in {"grab_out", "grab_tail", "grab_que",
                                    "grab_unlock"}

\* The list links the events First..Pushed in order; a node that is not
\* linked yet is clear.
ListInv ==
  /\ mpc \in {"push_lock", "push_link", "push_tail", "push_unlock"}
       => nodes >= 1
  /\ mpc \in {"push_lock", "push_link"} => next[nodes] = NULL
  /\ mpc = "push_tail" => out_json_que # NULL
  /\ out_json_que \in 0..Pushed
  /\ \A n \in First..Pushed : next[n] = IF n = Pushed THEN NULL ELSE n + 1

\* Where the tail points while either thread is about to move it.
TailInv ==
  out_json_tail = IF out_json_que = NULL \/ tpc = "grab_que" THEN NULL
                  ELSE IF mpc # "push_tail" THEN Pushed
                  ELSE IF out_json_que = nodes THEN NULL
                  ELSE nodes - 1

\* What the exporter holds is a chain of its own that ends before First.
BatchInv ==
  /\ tpc \in {"grab_lock", "grab_out", "grab_tail", "grab_que"}
       => out_json_que # NULL
  /\ tpc \in {"grab_tail", "grab_que"} => out = out_json_que
  /\ HoldsBatch =>
       /\ out \in 1..(First - 1)
       /\ \A n \in out..(First - 1) :
            next[n] = IF n = First - 1 THEN NULL ELSE n + 1

\* The form holds the events of the batch walked so far.
FormInv ==
  /\ tpc \in {"form", "post"} =>
       \A i \in 1..Len(form) : form[i] = out + i - 1
  /\ tpc = "form" =>
       /\ Len(form) <= First - out
       /\ qp = IF Len(form) = First - out THEN NULL ELSE out + Len(form)
  /\ tpc = "post" => Len(form) = First - out

\* How many events uplink u was offered.
OfferedTo(u) == IF ~HoldsBatch \/ (tpc = "post" /\ u < up) THEN First - 1
                                                         ELSE out - 1
OfferedInv ==
  \A u \in Uplinks :
    /\ Len(offered[u]) = OfferedTo(u)
    /\ \A i \in 1..Len(offered[u]) : offered[u][i] = i

\* The exporter is gone, or was never there, when main() is done.
ExitInv == /\ mpc = "init" \/ NumUplinks = 0 => tpc = "absent"
           /\ mpc = "exit" => tpc \in {"absent", "returned"}

\* The inductive invariant: out_json_que, out_json_tail and the next fields
\* agree in every step of jsonout_push and jsonout_thread, and the batch in
\* hand continues what was offered.
IndInv == TypeOK /\ MutexInv /\ ListInv /\ TailInv /\ BatchInv /\ FormInv
          /\ OfferedInv /\ ExitInv
=============================================================================
