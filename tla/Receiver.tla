----------------------------- MODULE Receiver -----------------------------
(***************************************************************************)
(* The receivers of receiver.c, run by the main loop of edysquelch.c.      *)
(*                                                                         *)
(* The main loop reads a chunk of frames and runs one or two receivers on  *)
(* it, each on its channel.  receiver_run keeps the samples in a buffer    *)
(* that it wraps around, and copy_buffer drives the squelch with every     *)
(* sample.  The squelch variables are static: both receivers share them.   *)
(* When the squelch opens, the samples before it are searched for a        *)
(* fingerprint and an event is queued; when it closes, the end of the over *)
(* is queued.                                                              *)
(*                                                                         *)
(* A sample is represented by its number in the stream of its channel      *)
(* (0 is what the buffer holds before), which tells where it came from; its*)
(* absolute value after the high-pass filter is any of Amps.  Nothing runs *)
(* concurrently here: the exporter sees only the queued events.            *)
(***************************************************************************)
EXTENDS Integers, Sequences

CONSTANTS Modes,            \* what is configured: "mono", "both", "left", "right"
          RECEIVER_BUFLEN,  \* size of buffer_sql and of buffer_txid
          SAMPLE_RATE,
          ULONG,            \* values of an unsigned long: 2^32 on i386
          DIV, THR_OPEN, THR_CLOSE, RED_STEP, AMax, Amps,  \* see Squelch
          ReadLens,         \* frames a read may return
          FrameLimit,       \* bound: frames read in one behaviour
          MaxClock          \* bound: the last millisecond of the clock

SQL_OPEN_SCAN_LEN == 2 * DIV
RECEIVER_BUF_COPY == RECEIVER_BUFLEN \div 4

ASSUME ReceiverAssumption ==
  /\ Modes \subseteq {"mono", "both", "left", "right"}
  /\ RECEIVER_BUFLEN \in Nat \ {0} /\ SAMPLE_RATE \in Nat \ {0}
  /\ ULONG \in Nat \ {0}
  /\ RECEIVER_BUFLEN % 4 = 0
  /\ SQL_OPEN_SCAN_LEN <= RECEIVER_BUF_COPY
  /\ DIV \in Nat \ {0} /\ RED_STEP \in Nat \ {0} /\ AMax \in Nat
  /\ Amps \subseteq 0..AMax
  /\ THR_OPEN \in Nat /\ THR_CLOSE \in Nat /\ THR_OPEN <= THR_CLOSE
  /\ THR_CLOSE < DIV * (AMax + 1)
  /\ ReadLens \subseteq Nat \ {0}
  /\ FrameLimit \in Nat /\ MaxClock \in Nat

VARIABLES
  mode,             \* sound_channels
  sql_absval_sum, sql_red_step, sql_open, cur_sql,   \* as in Squelch
  sql_pos,          \* samples copied, of either channel
  sql_open_at_pos,  \* sql_pos when the squelch opened last
  current_event_id,
  bufpos,           \* rx->bufpos of each receiver
  memory,           \* rx->buffer_sql and, behind it, rx->buffer_txid
  pc,               \* where the main loop is
  len,              \* frames of the chunk that was read
  todo,             \* the receivers still to be run on it
  od,               \* copy_buffer: samples done
  clock,            \* the time in milliseconds
  frames,           \* history: frames read so far
  heard,            \* history: samples of each channel copied so far
  scan,             \* history: the samples searched last, of each receiver
  opened,           \* history: where the over that is open started
  latest,           \* history: the event queued last
  previous          \* history: kind and id of the event before it

squelch == <<sql_absval_sum, sql_red_step, sql_open, cur_sql>>
statics == <<sql_pos, sql_open_at_pos, current_event_id>>
buffers == <<bufpos, memory>>
loop == <<pc, len, todo, od>>
history == <<frames, heard, scan, opened, latest, previous>>
vars == <<mode, squelch, statics, buffers, loop, clock, history>>

S == INSTANCE Squelch

Rx == {"A", "B"}

\* init_receiver is told how many channels are interleaved.
num_ch == IF mode = "mono" THEN 1 ELSE 2

\* The receivers the main loop runs on a chunk, in its order.
Order == CASE mode = "both" -> <<"A", "B">>
           [] mode = "left" -> <<"B">>
           [] OTHER -> <<"A">>

\* The samples of all channels so far; sql_pos counts them modulo ULONG.
copied == heard["A"] + heard["B"]

NoOver == [rx |-> "none", heard |-> 0, copied |-> 0]
NoEvent == [event |-> "none", id |-> 0]

Init == /\ mode \in Modes
        /\ S!Init
        /\ sql_pos = 0
        /\ sql_open_at_pos = 0
        /\ current_event_id = 0
        /\ bufpos = [r \in Rx |-> RECEIVER_BUF_COPY]
        /\ memory = [r \in Rx |-> [i \in 0..(2 * RECEIVER_BUFLEN - 1) |-> 0]]
        /\ pc = "read"
        /\ len = 0
        /\ todo = <<>>
        /\ od = 0
        /\ clock = 0
        /\ frames = 0
        /\ heard = [r \in Rx |-> 0]
        /\ scan = [r \in Rx |-> [i \in 1..SQL_OPEN_SCAN_LEN |-> 0]]
        /\ opened = NoOver
        /\ latest = NoEvent
        /\ previous = NoEvent

-----------------------------------------------------------------------------
\* The main loop reads a chunk.  A failed read changes nothing.
Read == /\ pc = "read"
        /\ \E n \in ReadLens : /\ frames + n <= FrameLimit
                               /\ frames' = frames + n
                               /\ len' = n
        /\ todo' = Order
        /\ pc' = "call"
        /\ UNCHANGED <<squelch, statics, buffers, od, clock, heard, scan,
                       opened, latest, previous>>

\* SIGINT, or the end of the sound file: main() leaves its loop.  An over that
\* is open stays without an end.
Finish == /\ pc = "read"
          /\ pc' = "done"
          /\ UNCHANGED <<squelch, statics, buffers, len, todo, od, clock,
                         history>>

\* Mutant: the samples kept are those from the start of the buffer.
KeptAtFront_FromStart(m, p) ==
  [i \in DOMAIN m |->
     IF i < RECEIVER_BUF_COPY THEN m[RECEIVER_BUF_COPY + i] ELSE m[i]]

\* The memcpy of receiver_run: the samples before p move to the front.
KeptAtFront(m, p) ==
  [i \in DOMAIN m |->
     IF i < RECEIVER_BUF_COPY THEN m[p - RECEIVER_BUF_COPY + i] ELSE m[i]]

\* Mutant: the buffer wraps around when half of it is full.
Wraps_Early(r) == bufpos[r] + len > RECEIVER_BUFLEN \div 2

\* Mutant: the buffer wraps around when it is already full.
Wraps_Late(r) == bufpos[r] >= RECEIVER_BUFLEN

\* The chunk does not fit any more, counting "len / num_ch" samples for it.
Wraps(r) == bufpos[r] + len \div num_ch > RECEIVER_BUFLEN

\* receiver_run up to the call of copy_buffer.
receiver_run ==
  /\ pc = "call"
  /\ IF len > RECEIVER_BUFLEN \div 2
       THEN pc' = "aborted" /\ UNCHANGED <<buffers, od>>
       ELSE LET r == Head(todo)
            IN  /\ IF Wraps(r)
                     THEN /\ memory' = [memory EXCEPT
                                          ![r] = KeptAtFront(@, bufpos[r])]
                          /\ bufpos' = [bufpos EXCEPT ![r] = RECEIVER_BUF_COPY]
                     ELSE UNCHANGED buffers
                /\ pc' = "copy"
                /\ od' = 0
  /\ UNCHANGED <<squelch, statics, len, todo, clock, history>>

\* The samples of r before position p that are searched when it opens.
Recent(r, p) == [i \in 1..SQL_OPEN_SCAN_LEN |->
                   memory[r][p - SQL_OPEN_SCAN_LEN + i - 1]]

\* notify_out and notify_out_sql: the event of an opening, with a new id; one
\* of the two is queued, depending on whether a fingerprint matches.
OverStart(id) == [event |-> "start", id |-> id]

\* The length of the over that ends with the current sample, in milliseconds.
over_length ==
  (((sql_pos + 1 - sql_open_at_pos) * 1000) % ULONG) \div SAMPLE_RATE

\* An end as it is queued; what follows the duration is history: the receiver
\* that opened the over and the one that ends it, the samples of the latter
\* since, and the samples the squelch was open for.
End(id, duration, r) ==
  [event |-> "sqlend", id |-> id, duration |-> duration,
   from |-> opened.rx, rx |-> r,
   aired |-> heard[r] + 1 - opened.heard,
   samples |-> copied + 1 - opened.copied]

\* Mutant: the end of an over gets an id of its own.
OverEnd_FreshId(r) == End(clock + 1, over_length, r)

\* Mutant: the length is counted from the start of the program.
OverEnd_FromStart(r) == End(current_event_id,
                            (((sql_pos + 1) * 1000) % ULONG) \div SAMPLE_RATE, r)

\* notify_out_over_end: the end carries the id of the latest opening.
OverEnd(r) == End(current_event_id, over_length, r)

\* The samples before the current one are searched, so it does not matter that
\* the current one is in the buffer by then.
ScanEnd(r) == bufpos[r] + od

\* One round of copy_buffer's loop, for a sample of absolute value a.  The
\* squelch cannot close and open in the same round: THR_OPEN <= THR_CLOSE.
copy_buffer(a) ==
  /\ pc = "copy"
  /\ od < len
  /\ LET r == Head(todo)
         sum == S!Integrate(sql_absval_sum, a)
         closes == S!Looks /\ S!Closes(sum)
         opens == S!Looks /\ S!Opens(sum)
     IN  /\ memory' = [memory EXCEPT ![r][bufpos[r] + od] = heard[r] + 1]
         /\ heard' = [heard EXCEPT ![r] = @ + 1]
         /\ \/ ~closes /\ ~opens
               /\ UNCHANGED <<clock, current_event_id, sql_open_at_pos, scan,
                              opened, latest, previous>>
            \/ closes /\ ~opens
               /\ latest' = OverEnd(r)
               /\ previous' = [event |-> latest.event, id |-> latest.id]
               /\ opened' = NoOver
               /\ UNCHANGED <<clock, current_event_id, sql_open_at_pos, scan>>
            \/ opens
               /\ \E t \in clock..MaxClock :
                    /\ clock' = t
                    /\ current_event_id' = t
                    /\ latest' = OverStart(t)
               /\ previous' = [event |-> latest.event, id |-> latest.id]
               /\ sql_open_at_pos' = (sql_pos + 1) % ULONG
               /\ opened' = [rx |-> r, heard |-> heard[r] + 1, copied |-> copied + 1]
               /\ scan' = [scan EXCEPT ![r] = Recent(r, ScanEnd(r))]
  /\ S!Sample(a)
  /\ sql_pos' = (sql_pos + 1) % ULONG
  /\ od' = od + 1
  /\ UNCHANGED <<bufpos, pc, len, todo, frames>>

\* Mutant: sql_red_step starts at 0 in each call.
Return_LocalStep ==
  /\ pc = "copy"
  /\ od = len
  /\ bufpos' = [bufpos EXCEPT ![Head(todo)] = @ + od]
  /\ todo' = Tail(todo)
  /\ pc' = IF Tail(todo) = <<>> THEN "read" ELSE "call"
  /\ sql_red_step' = 0
  /\ UNCHANGED <<sql_absval_sum, sql_open, cur_sql, statics, memory, len, od,
                 clock, history>>

\* copy_buffer is done: receiver_run moves on, and the next receiver follows.
Return ==
  /\ pc = "copy"
  /\ od = len
  /\ bufpos' = [bufpos EXCEPT ![Head(todo)] = @ + od]
  /\ todo' = Tail(todo)
  /\ pc' = IF Tail(todo) = <<>> THEN "read" ELSE "call"
  /\ UNCHANGED <<squelch, statics, memory, len, od, clock, history>>

\* main() has returned, or receiver_run has aborted it.
Stopped == pc \in {"done", "aborted"} /\ UNCHANGED vars

Next == /\ \/ Read \/ Finish \/ receiver_run \/ Return \/ Stopped
           \/ \E a \in Amps : copy_buffer(a)
        /\ UNCHANGED mode

Spec == Init /\ [][Next]_vars

-----------------------------------------------------------------------------
(***************************************************************************)
(* Properties.                                                             *)
(***************************************************************************)

\* Where the next sample of r goes.
Position(r) ==
  bufpos[r] + (IF pc = "copy" /\ r = Head(todo) THEN od ELSE 0)

\* Every access of receiver_run and copy_buffer is inside struct receiver
\* (buffer_sql and the unused buffer_txid behind it), and the two halves of
\* the memcpy do not overlap.
AccessInStruct ==
  /\ pc = "copy" /\ od < len =>
       Position(Head(todo)) \in SQL_OPEN_SCAN_LEN..(2 * RECEIVER_BUFLEN - 1)
  /\ pc = "call" /\ len <= RECEIVER_BUFLEN \div 2 /\ Wraps(Head(todo)) =>
       /\ bufpos[Head(todo)] >= 2 * RECEIVER_BUF_COPY
       /\ bufpos[Head(todo)] <= 2 * RECEIVER_BUFLEN

\* Samples are written into buffer_sql itself: "len is number of samples
\* available in buffer for each channels ..., regardless of number of
\* channels", so that the check of receiver_run sees whether they fit.
BufferSqlInBounds ==
  pc = "copy" /\ od < len => Position(Head(todo)) < RECEIVER_BUFLEN

\* With a mono card they do, whatever the sizes of the chunks.
MonoInBounds == mode = "mono" => BufferSqlInBounds

\* Openings and ends alternate, an end has the id of its opening, and the
\* squelch is open exactly while an opening has no end (copy_buffer,
\* notify_out, notify_out_sql, notify_out_over_end).
EventsPaired ==
  /\ sql_open <=> latest.event = "start"
  /\ latest.event = "start" => previous.event # "start"
  /\ latest.event = "sqlend" => /\ previous.event = "start"
                               /\ previous.id = latest.id

\* An over ends on the channel on which it started.
EndsOnItsChannel == latest.event = "sqlend" => latest.from = latest.rx

\* The length reported for an over ("SQL closed, over length %.3f s") is the
\* time its channel was on the air, if only one is decoded.  (With both, the
\* samples of both are counted.)
DurationIsAirTime ==
  latest.event = "sqlend" /\ mode # "both" =>
    latest.duration = (latest.aired * 1000) \div SAMPLE_RATE

\* The squelch does not chatter: the hysteresis keeps an over open for as many
\* samples as the sum needs to climb from one threshold to the other, however
\* loud they are.
NoChatter ==
  latest.event = "sqlend" => latest.samples * AMax > THR_CLOSE - THR_OPEN

\* However the samples are cut into chunks, and of whichever channel they are,
\* the state of the shared squelch follows the level within one round of the
\* decimation: the statics of copy_buffer carry over from call to call.
SquelchTracksLevel == S!StateTracksLevel

\* What each receiver searches when the squelch opens is the latest samples of
\* its own channel, in order and without a gap, however its buffer wrapped.
WindowA == INSTANCE SlidingWindow WITH
             W <- SQL_OPEN_SCAN_LEN, Samples <- 0..FrameLimit, Filler <- 0,
             win <- Recent("A", Position("A")), seen <- scan["A"]
WindowB == INSTANCE SlidingWindow WITH
             W <- SQL_OPEN_SCAN_LEN, Samples <- 0..FrameLimit, Filler <- 0,
             win <- Recent("B", Position("B")), seen <- scan["B"]
ImplementsWindows == WindowA!Spec /\ WindowB!Spec

-----------------------------------------------------------------------------
(***************************************************************************)
(* The inductive invariant behind the safety properties.                   *)
(***************************************************************************)

Decoded(r) == \/ mode = "both"
              \/ mode = "left" /\ r = "B"
              \/ mode \in {"mono", "right"} /\ r = "A"

\* The frames of this chunk that receiver r has still to copy.
Due(r) == CASE pc \in {"call", "copy"} /\ r = Head(todo) ->
                 IF pc = "copy" THEN len - od ELSE len
            [] pc \in {"call", "copy"} /\ todo = <<"A", "B">> /\ r = "B" -> len
            [] OTHER -> 0

\* The loop runs its receivers on a chunk one after the other, and none of them
\* hears more than was read.
LoopInv ==
  /\ mode \in Modes /\ pc \in {"read", "call", "copy", "done", "aborted"}
  /\ pc \in {"call", "copy"} => \/ todo = Order
                                \/ mode = "both" /\ todo = <<"B">>
  /\ len \in Nat /\ od \in Nat /\ frames \in 0..FrameLimit
  /\ pc = "copy" => od <= len /\ len <= RECEIVER_BUFLEN \div 2
  /\ heard \in [Rx -> Nat]
  /\ \A r \in Rx : /\ heard[r] + Due(r) <= frames
                   /\ ~ Decoded(r) => heard[r] = 0

\* Where bufpos may be: a chunk of two interleaved channels may pass the end of
\* buffer_sql, by a quarter of it at most.
Room == IF mode = "mono" THEN RECEIVER_BUFLEN ELSE RECEIVER_BUFLEN + RECEIVER_BUF_COPY

BufferInv ==
  /\ bufpos \in [Rx -> Nat]
  /\ memory \in [Rx -> [0..(2 * RECEIVER_BUFLEN - 1) -> Nat]]
  /\ \A r \in Rx : RECEIVER_BUF_COPY <= bufpos[r] /\ bufpos[r] <= Room
  /\ pc = "copy" => bufpos[Head(todo)] + len <= Room

\* An event that opened has the id that its end will get.
EventInv == /\ EventsPaired
            /\ latest.event = "start" => latest.id = current_event_id

\* The counters of the code agree, modulo ULONG, with the samples there were.
TimeInv ==
  /\ sql_pos = copied % ULONG
  /\ sql_open => /\ opened.rx \in Rx /\ Decoded(opened.rx)
                 /\ opened.heard \in Nat
                 /\ opened.copied \in 1..copied
                 /\ mode # "both" => opened.heard = opened.copied
                 /\ sql_open_at_pos = opened.copied % ULONG

\* What an over that is short enough for an unsigned long is reported to last.
AiredFits == latest.event = "sqlend" => latest.aired * 1000 < ULONG
LengthInv == AiredFits => DurationIsAirTime

\* The sum grows by a sample at most.
LevelInv ==
  /\ S!TypeOK
  /\ sql_open => sql_absval_sum < THR_OPEN + (copied - opened.copied) * AMax
  /\ NoChatter

RxInv == /\ LoopInv /\ BufferInv /\ EventInv /\ TimeInv /\ LengthInv /\ LevelInv
         /\ DOMAIN scan = Rx
=============================================================================
