----------------------------- MODULE EventServer -----------------------------
(***************************************************************************)
(* src/web/app.js: the server that keeps the latest events and answers     *)
(* the pages that poll for them, at once or when the next event comes      *)
(* (long poll).                                                            *)
(*                                                                         *)
(* An event is its number among all the exporter sent, from 1; NULL is     *)
(* what JavaScript finds outside the array, null in the answer.  `call'    *)
(* holds the HTTP call each page has open, with the answer on its way;     *)
(* run and pos in an answer are history: the run of the server it is from  *)
(* and the length of the log then.  evq_len always is the length of evq.   *)
(***************************************************************************)
EXTENDS Integers, SequencesExt

CONSTANTS Clients,
          RING        \* events kept: 10 (app.js:49)

ASSUME RINGAssumption == RING \in Nat \ {0}

VARIABLES evq,        \* the events kept, oldest first
          evq_seq,    \* how many were stored since the server started
          call,       \* call[c]: the HTTP call of page c
          log,        \* history: every event stored
          bases,      \* history: the length of log at each start of the server
          unnoticed   \* history: events were stored and nobody was notified

server == <<evq, evq_seq, log, bases, unnoticed>>

NULL == 0
evq_len == Len(evq)
Run == Len(bases)     \* number of this run of the server

NoCall == [at |-> "none"]
Failed == [at |-> "failed"]

ServerInit == /\ evq = <<>> /\ evq_seq = 0
              /\ call = [c \in Clients |-> NoCall]
              /\ log = <<>> /\ bases = <<0>> /\ unnoticed = FALSE

\* the last n events of q; indices below the array yield NULL
last_events(q, n) ==
    [i \in 1 .. n |-> IF Len(q) - n + i \in DOMAIN q THEN q[Len(q) - n + i] ELSE NULL]

upd_response(q, last, seq) ==
    [at |-> "answer", seq |-> last, run |-> Run, pos |-> bases[Run] + last,
     ev |-> IF last > seq THEN last_events(q, last - seq) ELSE <<>>]

\* Mutants: the wrong end is cut; one event too many is cut; a long poll gets
\* one event more than it asked for, again.
Notify_CutsNewest(q, last) ==
    LET kept == SubSeq(q, 1, Min({Len(q), RING}))
    IN  /\ evq' = kept
        /\ call' = [c \in Clients |-> IF call[c].at = "longpoll"
                                      THEN upd_response(kept, last, call[c].seq)
                                      ELSE call[c]]
Notify_CutsOneMore(q, last) ==
    LET kept == SubSeq(q, Max({1, Len(q) - RING + 2}), Len(q))
    IN  /\ evq' = kept
        /\ call' = [c \in Clients |-> IF call[c].at = "longpoll"
                                      THEN upd_response(kept, last, call[c].seq)
                                      ELSE call[c]]
Notify_Resent(q, last) ==
    LET kept == SubSeq(q, Max({1, Len(q) - RING + 1}), Len(q))
    IN  /\ evq' = kept
        /\ call' = [c \in Clients |-> IF call[c].at = "longpoll"
                                      THEN upd_response(kept, last, call[c].seq - 1)
                                      ELSE call[c]]

\* The queue is cut to the ring's length, the long polls are answered.
Notify(q, last) ==
    LET kept == SubSeq(q, Max({1, Len(q) - RING + 1}), Len(q))
    IN  /\ evq' = kept
        /\ call' = [c \in Clients |-> IF call[c].at = "longpoll"
                                      THEN upd_response(kept, last, call[c].seq)
                                      ELSE call[c]]

\* A batch of events, of which the first `good' parse.  JSON.parse throws at
\* the next one: what was stored stays, nothing after the loop happens.
handle_push(batch, good) ==
    LET stored == SubSeq(batch, 1, good)
        q == evq \o stored
        last == evq_seq + good
    IN  /\ evq_seq' = last
        /\ log' = log \o stored
        /\ IF good = Len(batch) THEN Notify(q, last) /\ unnoticed' = FALSE
           ELSE /\ evq' = q /\ unnoticed' = (unnoticed \/ good > 0)
                /\ UNCHANGED call
        /\ UNCHANGED bases

\* The number a page asks after, if there is one and it was given out.
StartSeq(asked) ==
    IF asked # 0 /\ asked <= evq_seq THEN asked
    ELSE evq_seq - Min({RING, evq_len})

handle_upd(c) ==
    /\ call[c].at = "request"
    /\ LET seq == StartSeq(call[c].seq)
       IN  call' = [call EXCEPT ![c] =
                       IF seq = evq_seq THEN [at |-> "longpoll", seq |-> seq]
                       ELSE upd_response(evq, evq_seq, seq)]
    /\ UNCHANGED server

\* The server stops and starts: the queue is gone, open calls fail.
Restart ==
    /\ evq' = <<>> /\ evq_seq' = 0
    /\ call' = [c \in Clients |-> IF call[c].at \in {"request", "longpoll"}
                                  THEN Failed ELSE call[c]]
    /\ bases' = Append(bases, Len(log)) /\ unnoticed' = FALSE
    /\ UNCHANGED log

\* The network loses a request or an answer.
Lose(c) == /\ call[c].at \in {"request", "longpoll", "answer"}
           /\ call' = [call EXCEPT ![c] = Failed]
           /\ UNCHANGED server
==============================================================================
