# edysquelch in TLA+

edysquelch listens to radio channels through a sound card. A squelch decides
from the noise when somebody transmits; the start of the transmission is
compared with stored fingerprints of transmitters; the events that come out of
this are posted to one or more web servers, which keep the latest ones for
browsers that poll them.

This directory holds TLA+ models of the program, the TLC configurations that
check them on small instances, and proofs, checked by TLAPS, of the properties
that hold for every instance. `PROJECT.json` lists the components, the runs,
the lines of code each definition models (`map`), what can go wrong where
(`hazards`) and a deliberate bug for each property that the property catches
(`mutants`, written beside the definitions they change).

    tlc -config JsonOut.cfg MCJsonOut.tla
    tlapm JsonOutProofs.tla

## Inventory

```
 sound card / file                                         browser (edy.js)
       |  chunk of frames                                        ^  long poll
       v                                                         v
 main loop -> receiver_run A -+                              app.js: ring of 10 events
 edysquelch.c receiver_run B -+-> copy_buffer: squelch           ^  POST /api/push
              |                     | opens: search_fingerprints |
              v                     | event                      |
         FIR filter                 v                            |
                               jsonout_push -> list, mutex -> jsonout_thread (one per process)
```

| Component | State | Operations | What is hard | What makes it correct | Modelled |
|---|---|---|---|---|---|
| JSON exporter, `out_json.c` | linked list `out_json_que`/`out_json_tail` with a mutex, `jsonout_die` | `jsonout_init`, `jsonout_push`, `jsonout_thread`, `jsonout_post_all`, `jsonout_deinit` | two threads, a list taken in one go, a look at the list and the flag without the lock, failing uplinks, shutdown | every event offered once and in order, none lost between threads, shutdown ends | yes |
| Receivers and main loop, `receiver.c`, `edysquelch.c` | `bufpos`, `buffer_sql`, static squelch variables, `current_event_id` | `main`, `receiver_run`, `copy_buffer`, `notify_*` | buffers that wrap, one squelch for two receivers, arithmetic at the boundary | accesses in bounds, the samples searched are the latest, starts and ends pair up, durations are right | but for the level log and the recording |
| Squelch, part of `copy_buffer` | integrator, decimation counter, open or closed | one sample | unsigned arithmetic, truncating division, hysteresis | no overflow, opens on quiet, closes on noise, does not chatter | yes |
| Fingerprint search, `receiver.c` | list of five matches, best, worst | `match_single`, `search_fingerprints` | full list, signed index compared as unsigned | announces the best match | yes |
| FIR filter, `filter.c` | history buffer, pointer | `filter_run`, `filter_run_buf` | wraps in the middle of a chunk | taps meet the latest samples | yes |
| Fingerprint loading, `fingerpori.c` | list of fingerprints | `fingerprints_load`, `fingerprint_load` | five ways to fail, files that are too short | the list has what could be loaded, nothing else is left behind | yes |
| Configuration, `cfg.c`, `cfgfile.c` | globals, list of uplinks | command line, lines of the file, `read_config`, `free_config` | quotes and escapes, who owns which string, settings that contradict each other | arguments come through, no string is freed twice, one source of sound | but for numeric escapes and limits on lengths |
| Event server, `web/app.js` | ring `evq`, `evq_seq`, `evq_len`, waiting polls | push, upd, fp/create | malformed batches, restarts, slow clients | a client sees every event that is still in the ring, once | but for fp/create |
| Web client, `web/static/edy.js` | `evq`, `ev` | polling loop | lost and late answers, restart of the server | the list mirrors the feed, ends find their start | but for plots and the upload |
| Read/write lock, `rwlock.c` (compiled only where pthreads has none) | counters, mutex, conditions | lock, try, unlock, init, destroy | wake-ups that are lost, stolen or for nothing | readers and writers exclude each other, nobody sleeps for ever | yes |
| Log, `hlog.c` | log file and its name, the access log, their locks | open, write, reopen, close | what is read outside the lock, two halves of a reopen | no line is lost in a reopen | yes |
| Splay tree `splay.c`, symbol table `spsymbol.c`, vessel cache `cache.c` (not in the build) | blocks with links up and down, a free list | lookup, install, delete, scan; symbols; reports, rotation, export | every access turns the tree around; equal CRCs; a tree walked while it is emptied | a dictionary, whatever the shape of the tree; nothing leaks | yes |
| Memory allocation, `hmalloc.c` | none | | | | as used by `Config` |
| Sound input, `input.c` | none of its own | read a chunk | short reads, overruns | an input of `Receiver` | no |
| MySQL output, CRC, serial, pulseaudio, raw recording, cJSON | | | | not in the build (`src/src/CMakeLists.txt`), or third-party | no |

## What is modelled

**EventChannel** is what the exporter promises: events are numbered, and each
uplink is offered runs of consecutive events, each event once and in order; a
run arrives as a whole or not at all.

**JsonOut** is `out_json.c` at the level of single loads and stores of shared
words. A list node is a number, handed out in the order of allocation, so
that a node also names its event; `out_json_tail`, a pointer to a pointer, is
NULL when it points to `out_json_que` and `n` when it points to `n->next`.

| Code | Actions |
|---|---|
| `jsonout_push` | `PushAlloc`, `PushLock`, `PushLink`, `PushTail`, `PushUnlock` |
| `jsonout_thread` | `CheckDie`, `Peek`, `GrabLock`, `GrabOut`, `GrabTail`, `GrabQue`, `GrabUnlock` |
| `jsonout_post_all` | `FormAdd` for each node, `FormDone`, `jsonout_post_single` for each uplink, `PostDone` |
| `main`, `jsonout_init`, `jsonout_deinit` | `jsonout_init`, `jsonout_deinit`, `Join` |

A request is one step. It reaches the uplink or it does not, and as in the code
nothing depends on which. `offered` (what each request carried) and `received`
are history. An event offered and not received is lost: the code does not
retry.

**Squelch** is the part of `copy_buffer` that decides: a sum that decays by its
`DIV`-th part with each sample and gets the sample added, and two thresholds
that are looked at once in `RED_STEP` samples.

**SlidingWindow** is what a history buffer promises: the latest `W` samples.

**FirFilter** is the buffer of `filter.c`: filling, filtering, moving the tail
to the front, for single samples (`filter_run`) and for chunks
(`filter_run_buf`, with its copy of the pointer). What `mac` computes is left
out; `operands` is what it is given.

**Receiver** is the main loop with `receiver_run` and `copy_buffer`, one step
per sample. It uses the actions of Squelch for the squelch (`S!Sample`). A
sample stands for its number in its channel's stream, so that a sample found in
a buffer tells where it came from. `memory` is `buffer_sql` with `buffer_txid`,
which nothing else uses, behind it. The event that announces an opening is one
record, whichever of `notify_out` and `notify_out_sql` sends it; `End` has the
fields of `notify_out_over_end` and history that the properties compare it
with. `unsigned long` has `ULONG` values.

**FingerprintSearch** is `search_fingerprints`, one step per fingerprint, with
any differences at any offsets. A store in front of the list is where C says
nothing any more; the model stops there (`pc = "undefined"`).

**Startup** is `main` around its loop, up to the loop and after it. It extends
**Config** (`cfg.c`: options, directives, `read_config`, `free_config`), which
takes the lines of the file apart with **CfgLine** (`cfgfile.c`), and
**FingerprintLoad** (`fingerpori.c`). The author of the file is an actor:
`Write` adds an argument to the line, in quotes with escapes (`Quoted`) or as it
is (`Plain`), and `typed` remembers what was meant. Strings are pointers: `ptr`
has the variables of `cfg.c` that point to one, `heap` what was allocated and
not freed, and `Literal` stands for the constants nobody may free. `misfreed`
remembers that something was freed that was not allocated, be it a constant or
an object that had been freed before; `free_config` leaves all its pointers but
that to the uplinks as they are, and the process ends. Files are what becomes of
reading them: the call that fails, or a number of samples; they are numbered in
the order of their names, and `dir` and `namelist` hold numbers. `dir` has the
name of the directory too, because "unfiltered" is looked for in the whole path.
`held` is what `fingerprint_load` has to give back. Where C ends the program (an
uplink without URL, a division by zero samples) `pc` or `step` is `"crashed"`.

**EventFeed** is what the web part promises to a page: it goes through the
server's log in order, and its list has a row for each over that started there,
the newest first, none twice, with the end where that came; gaps only where the
page or the server starts. `view` is that list, row by row. **EventServer** is
`app.js`, one action per handler (JavaScript runs them one at a time);
**WebClient** adds the page, the exporter that posts and the network. An event
is its number; odd ones start overs, even ones end them. A batch has a prefix
that parses: `handle_push` throws at the first event that does not. An answer
carries, as history, the run of the server and the length of the log it was made
from; the refinement mapping is made of these.

**ReadersWriters** is what a read/write lock promises; **RwLock** is `rwlock.c`.
All of a call happens under its mutex, so it is one step, or two with
`pthread_cond_wait` between; `sleeping` has the threads that were not woken, and
whoever was woken competes with everybody else. **LogFile** is `hlog.c` on top
of it, with one of four users in a behaviour: threads that call the lock as they
like, or writers of `stderr`, syslog, the log file or the access log with one
thread that opens, reopens and closes.

**SplayTree** has `splay.c` as operators from one memory to the next, down to
single links; left and right are mirror images, and so the code's branches come
in pairs that are one here. **Dictionary** is what its users rely on. **Trees**
has three of them, one in a behaviour: anybody who calls `splay.c`, the symbol
table, and the vessel cache with its rotation and export. `dict` is history; the
actions of Dictionary are taken along with those of the code. A call is a step:
`cache.c` holds its mutex, except in `cache_free` of a tree that was taken away,
where a step means that its caller keeps the others out.

The loops of `splay.c` are rounds of a recursive function (`Loop`): none goes
round more often than there are blocks, which the proofs show, and a round that
finds the loop done changes nothing. `_sp_chop`, which is recursive in C, is the
loop that gives back the next leaf in its order.

`MC*` modules give TLC the sets it cannot get from a cfg.

## Runs

| Run | What it shows | Bounds |
|---|---|---|
| `JsonOut` | list, order, completeness, refinement of EventChannel, inductive invariant; events get offered, shutdown ends | 2 uplinks, 4 pushes: one batch of several events, one event pushed at each point of taking the list, two batches, and a second uplink that fails while the first does not |
| `Squelch` | range, tracking of the level, opens and closes for good | integrator over 4 samples, amplitudes below, between, at and above both thresholds; every reachable state, no bound on time |
| `FirFilter` | bounds, refinement of SlidingWindow | 2 taps, buffer of 5, chunks up to 4: a chunk wraps inside; no bound on time |
| `Receiver` | bounds of every access, events, lengths and the squelch, on one channel, on the left one of two, and on both; each receiver searches the latest samples of its channel, refinement of SlidingWindow | 29 frames in chunks of 5 and 12 and one that is too large (13), buffer of 24: with one channel it is filled up to 16, 18, 21 or 23 before it wraps, with two up to 21, 23, 26, 28 or 30, the last three in `buffer_txid`; silence and loudest sample; the hysteresis is wider than one sample can cross |
| `FingerprintSearch` | the list and the best match | 3 fingerprints, 2 lengths, 2 offsets, list of 2 |
| `LogFile` | exclusion, wake-ups, waiters get in; reopening loses no line | 4 threads, three of which can wait while one holds the lock; no bound on time |
| `WebClient` | ring, refinement of EventFeed (rows newest first, none twice), pages catch up or stop for a known reason | 2 pages, ring of 2, 4 events in batches up to 3 (longer than the ring), 1 restart; lost calls and reloads without bound |
| `Trees` | links, contents, leaks | 5 keys, which take the loops of `_splay`, `_sp_enq` and `_sp_deq` through two rounds and both sides, any number of operations; 4 names of which 2 have one CRC; 2 ships, 4 reports |
| `Startup` | arguments, owners, the source of sound, fingerprints | 2 options, 2 lines of up to 4 arguments out of all directives' kinds, one with special characters and escapes, 2 files out of 8 in a directory whose name has "unfiltered" in it or not |
| `Receiver_other_channel`, `Receiver_stereo_buffer`, `FingerprintSearch_full` | see Findings | buffer of 16, 2 channels; a list of 2 |

The bounds are named constants: `PushLimit`, `FrameLimit`, `MaxClock`, `MaxLen`,
`FpCount`, `EventLimit`, `BatchLimit`, `RestartLimit`, `ReportLimit`,
`OptionLimit`, `LineLimit`, `DirLimit`. Two runs do not check for deadlock:
`WebClient`, where the exporter ends and every page may have stopped polling,
and `Trees`, where the cache ends with `cache_deinit`.

**Fairness.** The exporting thread keeps running (weak fairness of
`jsonout_thread`), and so does the main thread while it is inside
`jsonout_push` and once the thread it joins has returned. The mutex is held for
three stores at a time; a thread that finds it free again and again gets it
(strong fairness of `GrabLock` and `PushLock`). That a request returns sooner or
later is part of it and is an assumption: `jsonout_post_single` sets no
timeout. Nothing makes `main` push an event or shut down. The squelch is given
samples for ever, as a sound card does.

A thread that holds the lock gives it back (`LogFile`), and one that was woken
gets the mutex some time (weak fairness: nothing takes the mutex for longer than a
step); the lock may be taken again by then, and it goes back to sleep. Nothing
else is assumed of the mutex, so `WaitersGetIn` says only what the code does for
those who wait: a reader gets in unless threads keep coming to write, a writer
unless threads keep coming at all. Pages set up the next poll
from a timer, and the network lets a call through now and then (strong fairness
of `handle_upd` and `Success`); nothing makes the exporter send, or the server
restart.

## Findings

- With `SoundChannels both`, the default of the example configuration, the two
  receivers share the squelch: `sql_open`, the integrator and
  `current_event_id` are one set of static variables. An over that starts on one
  channel is ended by noise on the other (`Receiver_other_channel`).
- The check for room in the buffer divides the chunk length by the number of
  channels although the length is already per channel. With full chunks of a
  quarter of the buffer it does no harm; after short reads a chunk passes the
  end of `buffer_sql` (`Receiver_stereo_buffer`). It lands in `buffer_txid`, which
  is unused, and stays inside it (`Receiver`), and so every sample searched is
  still right (`ImplementsWindows`; for all sizes, the theorems `InStruct` and
  `ReceiverRefinement`).
- The sixth fingerprint that matches is stored in front of the list of five:
  the branch that should drop it needs `matches_worst`, which is never set
  (`FingerprintSearch_full`).

Seen on the way, without a run:

- With both channels decoded the length of an over counts the samples of both:
  `DurationIsAirTime` says nothing of that mode, in which it does not hold.
- Where `unsigned long` has 32 bits, the length of an over wraps after 89.5
  seconds (`Receiver` with a small `ULONG` shows it).
- With no uplink configured, pushed events pile up. `SQL_ABSVAL_DIVIDER` is
  25 ms, its comment says 0.05 s. Comparisons are given up at two thirds of the
  weak threshold, so a mean difference between 733 and 1100 is never a match.
- A page stops polling for good when more events came since its last answer than
  the ring holds: `last_events` reads in front of the array, and a `null` event
  throws in the page before the next timer is set. So does an answer that leaves
  a live page without any over. After a restart of the server a page that asks
  with an old number waits for events it has already missed. A batch that does
  not parse leaves the ring longer than it should be and wakes nobody
  (`StopsOnlyWhenBehind` and `CatchesUp` name all of these as their exceptions).
- `hlog` to a file reads the log's name without the lock, while `close_log` may
  free it; the same `hlog` writes as many bytes as `snprintf` wanted to print.
- A fingerprint file without samples, or with too few to be filtered, ends the
  program, and so does an uplink without a URL.
- An argument `""` as directive fits the first command; a line that ends in a
  backslash is ignored; a character right behind a closing quote is lost.
- The escape `\x` of the configuration never works: `parse_string` steps back to the
  `x` and has `strtoul` read the number there, which finds none and stores 0
  (`cfgfile.c:148-152`).
- `open_log` keeps the pointer it is given as `log_name`; `close_log(1)` gives it a
  copy that it frees when the log is open again (`hlog.c:176`, `203`). The program
  only calls `close_log(0)`.
- `sp_free_freelist` leaves its list pointing to freed blocks.

## Proofs

**JsonOutProofs**, for any number of uplinks and events. `QueueWellFormed` is
not inductive: it says nothing while the mutex is held. `IndInv` says what is
true at each store: `TailInv` where the tail points in between (after `PushLink`
and before `PushTail`, between `GrabTail` and `GrabQue`), `BatchInv` that the
batch is a chain that ends right before the first event of the shared list,
`FormInv` what of it was walked, `OfferedInv` how much each uplink was offered.
Two parts are there for induction alone: that `out_json_que` never names a node
that is not linked, and that it is not NULL between `PushLink` and `PushTail`.
`Inductive` proves it; `InOrder`, `NoLoss`, `WellFormed`, `PrivateBatch` and
`NeverEmpty` follow from it, and `Refinement` shows with it that each step is a
step of `EventChannel` or none: `PushLink` is `Push`, `jsonout_post_single` is
`Offer`, and the end of the program is `Close`.

**SquelchProofs**, for any divider, thresholds and samples. The integrator
stays below `DIV * (AMax + 1)`, because the sum loses at least what it exceeds
the range by (`IntegrateRange`); `StateTracksLevel` is inductive together with
the types. The lemmas on `\div` are proved from its definition by multiplication.

**SignalProofs** has the filter and the search. The filter, for any number of
taps and any buffer at least twice as long: `FeedShifts` shows that a sample,
wrap or not, shifts the window; the two pointers agree whenever one takes over
from the other.

The search, for any number of fingerprints, any lengths, offsets and
differences, any length of the list: `Compared` says that giving a comparison
up early loses nothing, which needs that -1 as an unsigned number, divided by
three times the longest length, is not below the weak threshold:
`SearchAssumption` says so, as it does that there is an offset to try.
`SearchInv` says that the list is in the order of the search and complete, and
that the best index points at the first of the closest. It claims nothing once a
match was stored in front of the list (`pc = "undefined"`), and uses that
`matches_worst` is never set.

**ReceiverProofs**, for both modes, any sizes of chunks, buffers and card, any
thresholds and any width of `unsigned long`. `RxInv` is what the main loop, the
copy loop, the events and the squelch know of one another: the chunk that is
worked on lies in the stream that was read, the buffers hold the samples their
positions say, an opening is remembered until its end, the counters of samples
are the unwrapped ones modulo `ULONG`. The receiver uses Squelch's actions, so
what SquelchProofs proves of them is used as it is (`SP!`); `SharedSquelch` says
that both receivers together are one squelch. `AccessInStruct` needs the
struct's own layout, that `buffer_txid` follows `buffer_sql`;
`MonoStaysInside` does not. `NoChatter` counts: the sum grows by at most `AMax`
a sample, so an over lasts as long as the hysteresis is wide. `LengthIsRight`
has a hypothesis, `AiredFits`: 1000 times the samples of an over fit an
`unsigned long`. Without it the theorem would be false, and on a 32-bit system
the code is (see Findings).

**LogFileProofs**, for any number of threads. `LockInv` (counters are
cardinalities, writers exclude, nobody sleeps for a free lock) is inductive;
its one assumption is that there are finitely many threads
(`ThreadsAssumption`), without which no counter counts. `LogInv` adds what the
half-done reopen knows: the thread that does it has the write lock.
`LockRefinement` is the refinement of `ReadersWriters`. `NamesLive` leaves out
logging to a file as `NameIsAlive` does.

**WebClientProofs**, for any number of pages and any ring. `WebInv` is the ring
and its numbers, and for each call what it may be about: long polls about
numbers that were given out, answers with a NULL only if they are longer than
the ring. `StopsWhenBehind` follows from the second. `FeedInv` adds where in the
log a page is: an answer on its way goes on where the page is (`GoesOn`), and
unless it has a NULL it is a piece of the log of its run. `FeedRefinement` is the
refinement of `EventFeed`: a batch is `Publish` (or nothing, if none of it
parses), a restart is `Forget`, a reload `Open`, and an answer without a NULL is
`Show` of that piece. What the page then lists is a fold over the answer:
`FoldSteps` shows that the fold is a sequence of lists, each made of the one
before by one event, `ListedShows` what one event adds and that the newest over
stays at the top, and `FoldShows` puts them together; it needs that the log is
in order, so that no end comes before its start.

**StartupProofs**, for any directives, values, directories and files. `Owned`
says that until the end each allocated object has one owner (`OneOwnerEach`),
that nothing else was freed, and that the sound device is no constant while
lines are read, because `do_string` would free it. `OwnersMayFree` says why one
owner each is enough for every free, `NothingMisfreed` that these are the only
ones. New objects are free because a finite set cannot hold `1..n + 1` if it has
`n` elements (`FreshIsFree`). What the actions are made of (a pointer gets a new
object, forgets its old one, becomes a constant) is proved once for values
(`NewString`, `FreeString`, `LiteralDevice`, `NewUplink`) and put together for
the handlers: `do_string` is `FreeString` and then `NewString`. How a line is
parsed plays no part in it, so these theorems hold for whatever `parse_args`
returns. `LoadInv` is about the fingerprints: which files are in the list
(`FilesInv`: those behind the one that is loaded, and that one once it is
linked), and what is held at each step (`StepInv`), which is why every exit of
`fingerprint_load` gives back what it has to. `AllAreLoaded` follows; a file's
number stands for its name, so that the order of names is that of numbers.

That `ArgsAreWhatWasWritten` for lines and arguments of any length is proved in
three stages. A recursive function of TLA+ is a `CHOOSE`, and says nothing until
there is such a function: `Recursion` shows it for whatever depends on smaller
arguments only (`Descending`), and the four functions of CfgLine and the one
inside `FlattenSeq` depend on shorter lines (`ParseString`, `FoundToSpace`,
`SpacesSkipped`, `ArgsFound`, `Flattened`). Then, by induction on the length,
what stands for an argument is read as that argument, whatever is behind it
(`StringIsRead`, `PlainIsRead`). The invariant `LineInv` has to look ahead in
the same way, because the line grows at its end and is read from its start: the
text, a space and any line z are read as what was typed and the arguments of z.
It assumes that the special characters are characters (`CfgLineAssumption`) and
arguments sequences of characters (`ConfigAssumption`).

**TreesProofs**, for any keys, names, CRCs, ships, reports and any number of
blocks allocated at a time, and any `ReportLimit`; everything else may be called
without a bound.
`TreesWellFormed` speaks of the blocks that `Find` finds, and that is what has to
be derived: the invariant names them.

- `Tree` is a search tree with its shape kept out: a set of blocks, their links
  down and up, and for each block the nearest block above it on either side
  (`b`), which are the bounds its subtree lies between. No block is below itself,
  because its keys would have to be on both sides of its own. `Finds` follows:
  a search finds the block of a key, and only it.
- Each of the code's loops has an invariant of its own, over the rounds it has
  taken. In `_splay` (`Turning`) the block, with the two subtrees built so far as its
  children, hangs in a tree that the memory does not hold but stands for
  (`Virtual`); a round turns the block above below it, and a rotation before that
  is the same step one level up. In `_sp_enq` (`Splitting`) the blocks moved so
  far are a tree around the new one, with its sides exchanged, and what is not
  split yet fits between the last block of the left part and the first of the
  right one (`Gap`).
  `_sp_deq` (`Deqing`) goes down the left edge; `sp_delete` puts the block it
  returns, or the left subtree, in the root's place (`Removed`). That a loop ends
  in as many rounds as there are blocks is part of each: the set of blocks that
  can still come shrinks (`Rounds`).
- `Whole` puts both trees and the free list together: the trees are disjoint, all
  other blocks are in the free list, which is a chain (`Chained`), and the counts
  are the cardinalities. `LookedUp`, `Installed`, `Deleted`, `Nulled`,
  `RotatedAs` and `AllFreed` say what each operation does to it. For `sp_fnext`
  (`NextFirst`) the block after one is the leftmost of its right subtree or its
  bound on the right, and so `sp_scan` meets every block (`ScanGoes`), and
  `cache_free` deletes each, although deleting a block turns the tree around
  under the pointer to the next (`FreeAll`).
- `Sound` says what the blocks hold: for a caller of `splay.c` and the cache, the
  data of a key is what the dictionary has (`Kept`); in the symbol table, the
  names of a chain have its block's CRC, no chain is empty, a name is in one place
  with the pointer it was given, and pointers are distinct (`SymbolsKept`);
  the number allocated is the number in the trees.

`TreesInductive` is that this `TreesInv` holds always (`SplaysSound`,
`SymbolsSound`, `CacheSound` for the three users); `WellFormed`, `ContentsRight`
and `NoLeaks` follow from it. The assumptions are that keys, CRCs and ships are
natural numbers (`TreesAssumption`: `spkey_t` is unsigned) and that an allocation
gets at least one block (`SplayTreeAssumption`).

The least element of a set of numbers (`Minimum`, `Least`) comes from the
library's theorem that `<` is well-founded; from it, `Induction` for a set of
numbers, which stands in for the library's induction over an operator.

Only model-checked is liveness (`PushedIsOffered`, `ShutdownCompletes`,
`QuietOpens`, `NoiseCloses`, `WaitersGetIn`, `CatchesUp`), which is out of the
prover's reach. Every invariant and every action property that a passing run
checks is stated by a theorem, and so is every refinement.

## Not modelled

- What is not in the build and keeps no state of its own: the MySQL output (a
  counter and a connection, the rest is the database's), CRC, serial port,
  pulseaudio, raw recording. `input.c` calls the sound library; what it returns
  is an input of Receiver. cJSON is third-party.
- `fp/create` of `app.js`, which writes a file, and the plots, selections and
  uploads of `edy.js`.
- Numbers as values: the taps of the filter, the samples of a fingerprint and
  its amplitudes (which are only logged), intervals, levels, dates.
- In `cfgfile.c`, escapes with numbers (`\x`, `\0` to `\7`) and the limits on the
  length of a line and the number of its arguments; that escapes are decoded in
  place; lines whose author does not close a quote or goes on right behind one,
  which `parse_args` treats as the code does but `Write` never produces. In `cfg.c`, `prevp`, which is written and never
  read.
- Lines that the functions of `hlog.c` log themselves while they open and close the
  log, and what the syslog library keeps. That a name is alive where `hlog` writes
  to a file: it may not be (`NameIsAlive`).
- Lengths of overs with both channels decoded, which are wrong (`DurationIsAirTime`),
  and what is read in front of an array of samples: the search gets any value there.
- In the splay trees, the statistics, and what a freed block still contains.
- Cancellation of threads that wait for the lock, and calls of a lock that is
  destroyed meanwhile: the program does neither.

## Plan

1. `Pipeline`: Receiver's events through EventChannel to the server.
2. `fp/create` with two uploads of one name, and the fingerprints the receiver
   then loads.
