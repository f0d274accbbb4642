------------------------------ MODULE EventFeed ------------------------------
(***************************************************************************)
(* What the web part promises to a page: it goes through the server's log  *)
(* in order and lists the overs that start there, the newest first and     *)
(* each once, up to some point of the log.  Events are left out only where *)
(* the page is fresh: it was just opened, or the server lost its events    *)
(* since.                                                                  *)
(*                                                                         *)
(* Event 2 * o - 1 starts over o, event 2 * o ends it.  An end is shown in *)
(* the row of its over, and not at all when the over is not listed.        *)
(***************************************************************************)
EXTENDS Integers, Sequences

CONSTANT Clients

VARIABLES log,     \* the events the server stored, in order
          at,      \* at[c]: how much of the log page c has dealt with
          fresh,   \* the pages that may skip events
          view     \* view[c]: the rows of page c, from its top

vars == <<log, at, fresh, view>>

Rows == [over : Nat, done : BOOLEAN]

Init == /\ log = <<>>
        /\ at = [c \in Clients |-> 0]
        /\ fresh = Clients
        /\ view = [c \in Clients |-> <<>>]

IsStart(e) == e % 2 = 1
InOrder(l) == \A i, j \in DOMAIN l : i < j => l[i] < l[j]

\* The events that can be read off the rows v.
Shown(v) == {2 * v[i].over - 1 : i \in DOMAIN v} \cup
            {2 * v[i].over : i \in {j \in DOMAIN v : v[j].done}}
NewestFirst(v) == \A i, j \in DOMAIN v : i < j => v[i].over > v[j].over

\* the server stores more events
Publish == /\ Len(log') > Len(log)
           /\ SubSeq(log', 1, Len(log)) = log
           /\ InOrder(log')
           /\ UNCHANGED <<at, fresh, view>>

\* Page c goes on to point `to'.  NewestFirst and what is shown determine the rows.
Show(c, from, to) ==
    LET new == {log[i] : i \in from + 1 .. to}
        old == Shown(view[c])
        v == view'[c]
    IN  /\ at[c] <= from /\ from <= to /\ to <= Len(log)
        /\ c \notin fresh => from = at[c]
        /\ at' = [at EXCEPT ![c] = to]
        /\ v \in Seq(Rows) /\ NewestFirst(v)
        /\ Shown(v) = old \cup {e \in new : IsStart(e) \/ e - 1 \in old \cup new}
        /\ view' = [view EXCEPT ![c] = v]
        /\ fresh' \in {fresh, fresh \ {c}}
        /\ UNCHANGED log

\* the page is opened, again
Open(c) == /\ at' = [at EXCEPT ![c] = 0]
           /\ fresh' = fresh \cup {c}
           /\ view' = [view EXCEPT ![c] = <<>>]
           /\ UNCHANGED log

\* the server loses its events
Forget == /\ fresh' = Clients
          /\ UNCHANGED <<log, at, view>>

Next == \/ Publish
        \/ Forget
        \/ \E c \in Clients : \/ Open(c)
                              \/ \E from, to \in 0 .. Len(log) : Show(c, from, to)

Spec == Init /\ [][Next]_vars
==============================================================================
