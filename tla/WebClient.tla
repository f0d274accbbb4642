------------------------------ MODULE WebClient ------------------------------
(***************************************************************************)
(* src/web/static/edy.js, the page that polls the server and lists the     *)
(* overs, together with the server (EventServer), the exporter that posts  *)
(* events to it, and a network that loses calls.                           *)
(***************************************************************************)
EXTENDS EventServer

CONSTANTS EventLimit,   \* bound: events the exporter sends
          BatchLimit,   \* bound: events in one batch
          RestartLimit  \* bound: restarts of the server

VARIABLES sent,      \* events the exporter sent so far
          seq,       \* seq[c]: evq.seq of page c
          ev,        \* ev[c]: the list of the page, newest first
          mode,      \* mode[c]: Live, Selected, or "stopped": polling ended
          got        \* history: the run of the latest answer page c dealt with,
                     \* and the length of the log it was made from

page == <<seq, ev, mode, got>>
vars == <<server, call, sent, page>>

IsEnd(e) == e % 2 = 0
Over(e) == (e + 1) \div 2

Nothing == [run |-> 0, pos |-> 0]

Init == /\ ServerInit
        /\ sent = 0
        /\ seq = [c \in Clients |-> 0] /\ ev = [c \in Clients |-> <<>>]
        /\ mode = [c \in Clients |-> "Live"] /\ got = [c \in Clients |-> Nothing]

\* The exporter posts its next events (JsonOut!InOrderExactlyOnce), some of
\* which may not parse; a batch that never arrives is one with good = 0.
Push == \E n \in 1 .. BatchLimit, good \in 0 .. BatchLimit :
            /\ sent + n <= EventLimit /\ good <= n
            /\ sent' = sent + n
            /\ handle_push([i \in 1 .. n |-> sent + i], good)
            /\ UNCHANGED page

ajax_update(c) ==
    /\ mode[c] # "stopped" /\ call[c].at = "none"
    /\ call' = [call EXCEPT ![c] = [at |-> "request", seq |-> seq[c]]]
    /\ UNCHANGED <<server, sent, page>>

\* What one event does to the list.
Listed(list, e) ==
    LET found == {i \in DOMAIN list : list[i].over = Over(e)}
    IN  IF ~ IsEnd(e) THEN <<[over |-> Over(e), done |-> FALSE]>> \o list
        ELSE IF found = {} THEN list
        ELSE [list EXCEPT ![Min(found)].done = TRUE]

\* The answer comes in.  A NULL event throws, and so does plotting the first
\* entry of an empty list: the next poll is then never set up.
Success(c) ==
    /\ call[c].at = "answer"
    /\ LET answer == call[c]
           list == FoldLeft(Listed, ev[c], answer.ev)
           late == \E i \in DOMAIN answer.ev : answer.ev[i] = NULL
           empty == mode[c] = "Live" /\ list = <<>>
       IN  /\ seq' = [seq EXCEPT ![c] = answer.seq]
           /\ IF late THEN UNCHANGED <<ev, got>>
              ELSE /\ ev' = [ev EXCEPT ![c] = list]
                   /\ got' = [got EXCEPT ![c] = [run |-> answer.run, pos |-> answer.pos]]
           /\ mode' = IF late \/ empty THEN [mode EXCEPT ![c] = "stopped"] ELSE mode
    /\ call' = [call EXCEPT ![c] = NoCall]
    /\ UNCHANGED <<server, sent>>

\* mutant: the error handler sets up no next poll
Error_NoTimer(c) == /\ call[c].at = "failed"
                    /\ call' = [call EXCEPT ![c].at = "gave up"]
                    /\ UNCHANGED <<server, sent, page>>

Error(c) == /\ call[c].at = "failed"
            /\ call' = [call EXCEPT ![c] = NoCall]
            /\ UNCHANGED <<server, sent, page>>

\* The buttons, and a click on a row, choose whether new overs are plotted.
activate(c) == /\ mode[c] # "stopped"
               /\ mode' = [mode EXCEPT ![c] = IF @ = "Live" THEN "Selected" ELSE "Live"]
               /\ UNCHANGED <<server, call, sent, seq, ev, got>>

\* The page is loaded again; the server forgets its long poll.
Reload(c) == /\ seq' = [seq EXCEPT ![c] = 0] /\ ev' = [ev EXCEPT ![c] = <<>>]
             /\ mode' = [mode EXCEPT ![c] = "Live"]
             /\ got' = [got EXCEPT ![c] = Nothing]
             /\ call' = [call EXCEPT ![c] = NoCall]
             /\ UNCHANGED <<server, sent>>

Next == \/ Push
        \/ Len(bases) <= RestartLimit /\ Restart /\ UNCHANGED <<sent, page>>
        \/ \E c \in Clients :
              \/ ajax_update(c) \/ Success(c) \/ Error(c) \/ activate(c) \/ Reload(c)
              \/ handle_upd(c) /\ UNCHANGED <<sent, page>>
              \/ Lose(c) /\ UNCHANGED <<sent, page>>

Spec == Init /\ [][Next]_vars

\* Pages keep polling, the server keeps answering, the network does not lose
\* every call.  Nothing makes the exporter send, or the server restart.
FairSpec == /\ Spec
            /\ \A c \in Clients : /\ WF_vars(ajax_update(c)) /\ WF_vars(Error(c))
                                  /\ SF_vars(handle_upd(c) /\ UNCHANGED <<sent, page>>)
                                  /\ SF_vars(Success(c))
------------------------------------------------------------------------------
\* The ring holds the latest events of this run of the server, and more of them
\* only after a batch that did not parse (app.js:42, 49).
RingHoldsLatest ==
    /\ evq = SubSeq(log, Len(log) - evq_len + 1, Len(log))
    /\ evq_len >= Min({RING, evq_seq}) /\ evq_seq = Len(log) - bases[Run]
    /\ evq_len > RING => unnoticed

\* A page stops polling only where more events came at once than the ring holds,
\* or where it lists no over: app.js:65 reads in front of the ring, edy.js:307
\* plots the first over.
StopsOnlyWhenBehind ==
    [][\A c \in Clients : mode[c] # "stopped" /\ mode'[c] = "stopped" =>
           Len(call[c].ev) > RING \/ ev'[c] = <<>>]_vars

UpToDate(c) == evq_seq = 0 \/ got[c] = [run |-> Run, pos |-> Len(log)]
HasOldSeq(c) == got[c].run \notin {0, Run}

\* A page that is not reloaded for ever gets to know the last event, unless it
\* stopped polling, still asks after a number from before the server restarted
\* (app.js:99), or the event came in a batch that did not parse (app.js:42).
CatchesUp ==
    \A c \in Clients :
        \/ []<><<Reload(c)>>_vars
        \/ []<>(UpToDate(c) \/ mode[c] = "stopped" \/ HasOldSeq(c) \/ unnoticed)

Feed == INSTANCE EventFeed WITH
            at <- [c \in Clients |-> got[c].pos],
            fresh <- {c \in Clients : got[c].run # Run},
            view <- ev

\* Server, network and pages together show the log in order: a page lists the newest
\* over at the top and none twice, with the ends that came for those it lists; events
\* are skipped only when the page or the server starts (edy.js event handling,
\* upd_response, notify_clients).
ImplementsFeed == Feed!Spec
------------------------------------------------------------------------------
\* The inductive invariant behind the safety properties: what the server keeps,
\* and what it may have answered.

Stored == Nat \ {NULL}
RingInv ==
    /\ sent \in Nat /\ evq_seq \in Nat /\ unnoticed \in BOOLEAN
    /\ log \in Seq(Stored) /\ evq \in Seq(Stored)
    /\ bases \in Seq(Nat) /\ bases # <<>>
    /\ evq_len <= evq_seq
    /\ RingHoldsLatest

\* Long polls are about numbers that were given out, and an answer with a NULL is
\* longer than the ring.
Answers == [at : {"answer"}, seq : Nat, run : Int, pos : Int, ev : Seq(Nat)]
Legal(x) ==
    \/ x \in {NoCall, Failed}
    \/ x \in [at : {"request"}, seq : Nat]
    \/ x \in [at : {"longpoll"}, seq : 0 .. evq_seq]
    \/ x \in Answers /\ \A i \in DOMAIN x.ev : x.ev[i] = NULL => Len(x.ev) > RING
CallInv == /\ DOMAIN call = Clients /\ \A c \in Clients : Legal(call[c])
           /\ seq \in [Clients -> Nat]

WebInv == RingInv /\ CallInv /\ DOMAIN mode = Clients /\ DOMAIN ev = Clients

\* Behind ImplementsFeed: the log is in order, a page knows where it is in the log
\* of this run and lists overs from before that point, the newest first, and what
\* it is sent goes on from there.
LogInv == /\ \A i \in DOMAIN log : log[i] <= sent
          /\ \A i, j \in DOMAIN log : i < j => log[i] < log[j]

Entries == [over : Nat, done : BOOLEAN]
PageInv(c) ==
    /\ got[c] \in [run : 0 .. Run, pos : 0 .. Len(log)]
    /\ got[c].run # Run => got[c].pos <= bases[Run]
    /\ got[c].run = Run /\ mode[c] # "stopped" =>
          seq[c] > 0 /\ got[c].pos = bases[Run] + seq[c]
    /\ mode[c] = "stopped" => call[c] = NoCall
    /\ ev[c] \in Seq(Entries) /\ Feed!NewestFirst(ev[c])
    /\ Feed!Shown(ev[c]) \subseteq {log[i] : i \in 1 .. got[c].pos}

\* What page c gets next of a run of the server begins behind `from'.
GoesOn(c, run, from) == /\ got[c].run <= run /\ got[c].pos <= from
                        /\ got[c].run = run => got[c].pos = from

AnswerInv(c, x) ==
    /\ x.run \in 1 .. Run /\ x.pos \in 0 .. Len(log)
    /\ x.run # Run => x.pos <= bases[Run]
    /\ x.run = Run => x.seq > 0 /\ x.pos = bases[Run] + x.seq
    /\ GoesOn(c, x.run, x.pos - Len(x.ev))
    /\ \/ \E i \in DOMAIN x.ev : x.ev[i] = NULL
       \/ \A i \in DOMAIN x.ev : x.ev[i] = log[x.pos - Len(x.ev) + i]

NextInv(c) ==
    /\ call[c].at = "request" => call[c].seq = seq[c]
    /\ call[c].at = "longpoll" => GoesOn(c, Run, bases[Run] + call[c].seq)
    /\ call[c].at = "answer" => AnswerInv(c, call[c])

FeedInv == /\ LogInv /\ DOMAIN got = Clients
           /\ \A c \in Clients : PageInv(c) /\ NextInv(c)
==============================================================================
