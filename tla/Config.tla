------------------------------- MODULE Config -------------------------------
(***************************************************************************)
(* cfg.c: the command line and the configuration file.  Somebody writes    *)
(* the file, line by line and argument by argument, with quotes or without;*)
(* the program reads it and ends at the first line it does not understand. *)
(*                                                                         *)
(* Strings are pointers: 0 is NULL, Literal a constant of the program, a   *)
(* number an object that malloc returned and that is freed some time.  A   *)
(* pointer that is not assigned to when its object is freed keeps pointing *)
(* to it.                                                                  *)
(* Settings no part of the program modelled here reads (intervals, the     *)
(* level log, log levels) are checked, but not kept; prevp of an uplink is *)
(* never read.                                                             *)
(***************************************************************************)
EXTENDS CfgLine, FiniteSets, FiniteSetsExt

CONSTANTS Directives,              \* first arguments of the lines of a file
          Values,                  \* other arguments
          OptionLimit, LineLimit   \* bounds: options, lines of the file

ASSUME ConfigAssumption == Directives \cup Values \subseteq Line

VARIABLES pc,              \* where main() is
          ptr,             \* the pointers to strings, by name
          heap,            \* what malloc returned and was not freed
          misfreed,        \* history: something else was freed
          sound_channels, fork_a_daemon,
          options,         \* options of the command line so far
          failed, to_file, \* parse_cmdline: an option was wrong; -o file
          uplinks,         \* new_uplink_config, and uplink_config in the end
          text,            \* the line of the file that is being written...
          typed,           \* history: ... and the arguments it is meant to have
          lines            \* lines so far

memory == <<ptr, heap, misfreed>>
settings == <<sound_channels, fork_a_daemon, uplinks>>
cmdline == <<options, failed, to_file>>
file == <<text, typed, lines>>
config == <<pc, memory, settings, cmdline, file>>

NULL == 0
Literal == -1
Owning == {"cfgfile", "logname", "logdir", "log_dir", "fpdir", "pidfile",
           "sound_device", "sound_in_file", "sound_out_file"}

ConfigInit ==
    /\ pc = "cmdline"
    /\ ptr = [p \in Owning |-> IF p \in {"cfgfile", "logname"} THEN Literal ELSE NULL]
    /\ heap = {} /\ misfreed = FALSE
    /\ sound_channels = "mono" /\ fork_a_daemon = FALSE /\ uplinks = <<>>
    /\ options = 0 /\ failed = FALSE /\ to_file = FALSE
    /\ text = <<>> /\ typed = <<>> /\ lines = 0

\* What malloc returns if h is allocated.
Fresh(h) == Min((1..(Cardinality(h) + 1)) \ h)

\* p gets a new string; what it pointed to is lost.
hstrdup(p) == /\ heap' = heap \cup {Fresh(heap)} /\ ptr' = [ptr EXCEPT ![p] = Fresh(heap)]
              /\ UNCHANGED misfreed

\* The frees of some pointers, one after the other, and of a list of objects, with the
\* heap h.  hfree ignores NULL.
Freed(names, list) == ({ptr[p] : p \in names} \cup Range(list)) \ {NULL}
MayFree(names, list, h) ==
    /\ Freed(names, list) \subseteq h
    /\ \A p, q \in names : ptr[p] = ptr[q] /\ ptr[p] # NULL => p = q
    /\ \A i, j \in DOMAIN list : list[i] = list[j] => i = j
    /\ \A p \in names, i \in DOMAIN list : ptr[p] # list[i]
hfree(names, list, h) == misfreed' = (misfreed \/ ~ MayFree(names, list, h))
------------------------------------------------------------------------------
\* An option of the command line.
Option ==
    /\ pc = "cmdline" /\ options < OptionLimit /\ options' = options + 1
    /\ \/ \E p \in {"cfgfile", "logname", "log_dir", "sound_in_file", "sound_out_file"} :
            hstrdup(p) /\ UNCHANGED <<failed, to_file, fork_a_daemon>>
       \/ fork_a_daemon' = TRUE /\ UNCHANGED <<memory, failed, to_file>>
       \/ \E file_dest \in BOOLEAN : to_file' = file_dest    \* -o, and -e
            /\ UNCHANGED <<memory, failed, fork_a_daemon>>
       \/ failed' = TRUE /\ UNCHANGED <<memory, to_file, fork_a_daemon>>
    /\ UNCHANGED <<pc, sound_channels, uplinks, file>>

\* The end of parse_cmdline, and open_log.
parse_cmdline ==
    /\ pc = "cmdline"
    /\ pc' = IF failed \/ (to_file /\ ptr["log_dir"] = NULL) THEN "exited" ELSE "config"
    /\ UNCHANGED <<memory, settings, cmdline, file>>
------------------------------------------------------------------------------
\* The author of the file writes an argument.
Write ==
    /\ pc = "config" /\ lines < LineLimit /\ Len(typed) < 4
    /\ \E arg \in IF typed = <<>> THEN Directives ELSE Values :
         /\ typed' = Append(typed, arg)
         /\ \E written \in {Quoted(arg)} \cup (IF Plain(arg) THEN {arg} ELSE {}) :
              text' = (IF text = <<>> THEN <<>> ELSE Append(text, Space)) \o written
    /\ UNCHANGED <<pc, memory, settings, cmdline, lines>>

cfg_cmds == << [name |-> "logdir", function |-> "do_string", dest |-> "logdir"],
               [name |-> "fingerprints", function |-> "do_string", dest |-> "fpdir"],
               [name |-> "statsinterval", function |-> "do_interval"],
               [name |-> "expiryinterval", function |-> "do_interval"],
               [name |-> "uplink", function |-> "do_uplink"],
               [name |-> "sounddevice", function |-> "do_string", dest |-> "sound_device"],
               [name |-> "soundinfile", function |-> "do_string", dest |-> "sound_in_file"],
               [name |-> "soundoutfile", function |-> "do_string", dest |-> "sound_out_file"],
               [name |-> "soundchannels", function |-> "do_sound_ch"],
               [name |-> "soundlevellog", function |-> "do_int"] >>

\* A directive may be abbreviated, to nothing at all: the first one that fits counts.
IsPrefixOf(word, name) == Len(word) <= Len(name) /\ SubSeq(name, 1, Len(word)) = word
Fitting(word) == {i \in DOMAIN cfg_cmds :
                     word = <<>> \/ (Len(word) = 1 /\ IsPrefixOf(word[1], cfg_cmds[i].name))}

\* The old string is freed, so that the new one may be where it was.
do_string(dest) ==
    LET freed == heap \ {ptr[dest]}
    IN  /\ heap' = freed \cup {Fresh(freed)}
        /\ ptr' = [ptr EXCEPT ![dest] = Fresh(freed)]
        /\ hfree({dest}, <<>>, heap)

\* One object stands for the uplink with its name and URL.
do_uplink == /\ heap' = heap \cup {Fresh(heap)}
             /\ uplinks' = <<Fresh(heap)>> \o uplinks
             /\ UNCHANGED misfreed

\* The command of a line, and what comes of it: it is ignored, refused, or done.
\* An uplink with three arguments has no URL, and copying that ends the program.
Command(argv) == cfg_cmds[Min(Fitting(argv[1]))]
Channels == {"mono", "both", "left", "right"}
Outcome(argv) ==
    IF argv = <<>> \/ (argv[1] # <<>> /\ argv[1][1] = "#") THEN "ignored"
    ELSE IF Fitting(argv[1]) = {} \/ Len(argv) < 2 THEN "refused"
    ELSE CASE Command(argv).function = "do_uplink" ->
                IF Len(argv) = 2 \/ argv[3] # <<"json">> THEN "refused"
                ELSE IF Len(argv) = 3 THEN "crashed" ELSE "do_uplink"
           [] Command(argv).function = "do_sound_ch" ->
                IF argv[2] \in {<<c>> : c \in Channels} THEN "do_sound_ch" ELSE "refused"
           [] OTHER -> Command(argv).function

Does(argv) ==
    LET outcome == Outcome(argv)
    IN  \/ outcome = "crashed" /\ pc' = "crashed" /\ UNCHANGED <<memory, settings>>
        \/ outcome = "refused" /\ pc' = "exited" /\ UNCHANGED <<memory, settings>>
        \/ /\ outcome \in {"ignored", "do_interval", "do_int"}
           /\ UNCHANGED <<pc, memory, settings>>
        \/ /\ outcome = "do_string" /\ do_string(Command(argv).dest)
           /\ UNCHANGED <<pc, settings>>
        \/ /\ outcome = "do_sound_ch" /\ sound_channels' = argv[2][1]
           /\ UNCHANGED <<pc, memory, fork_a_daemon, uplinks>>
        \/ /\ outcome = "do_uplink" /\ do_uplink
           /\ UNCHANGED <<pc, ptr, sound_channels, fork_a_daemon>>

\* The line is read.
cmdparse == /\ pc = "config" /\ typed # <<>>
            /\ \E argv \in {parse_args(Append(text, Newline))} : Does(argv)
            /\ text' = <<>> /\ typed' = <<>> /\ lines' = lines + 1
            /\ UNCHANGED cmdline
------------------------------------------------------------------------------
\* mutant: a device that is not used is freed, but not forgotten
Source_Kept(in, dev) ==
    IF in = NULL /\ dev = NULL THEN Literal ELSE dev

\* The sound device, if there is a device dev and a file `in' that were configured.
Source(in, dev) ==
    IF in = NULL /\ dev = NULL THEN Literal
    ELSE IF in # NULL THEN NULL ELSE dev

\* The end of read_config: the file was read (or could not be).
read_config ==
    LET logdir == ptr["log_dir"] # NULL \/ ptr["logdir"] = NULL
        device == ptr["sound_device"]
        source == Source(ptr["sound_in_file"], device)
        unused == IF ptr["sound_in_file"] # NULL /\ device # Literal THEN {"sound_device"} ELSE {}
        h1 == IF logdir THEN heap \cup {Fresh(heap)} ELSE heap
        h2 == h1 \ Freed(unused, <<>>)
    IN  /\ pc = "config" /\ typed = <<>>
        /\ \/ /\ pc' = "start"
              /\ ptr' = [ptr EXCEPT !["logdir"] = IF logdir THEN Fresh(heap) ELSE @,
                                    !["sound_device"] = source, !["pidfile"] = Fresh(h2)]
              /\ heap' = h2 \cup {Fresh(h2)} /\ hfree(unused, <<>>, h1)
           \/ lines = 0 /\ pc' = "exited" /\ UNCHANGED memory    \* there is no file
        /\ UNCHANGED <<settings, cmdline, file>>

\* mutant: the default names are freed like the others
freeing_Defaults == Owning \ {"fpdir", "log_dir"}

\* What free_config frees; fpdir and log_dir are not freed.
freeing == {p \in Owning \ {"fpdir", "log_dir"} :
               p \in {"cfgfile", "logname", "sound_device"} => ptr[p] # Literal}

\* free_config at the very end.  Of the pointers, only that to the uplinks is reset.
free_config ==
    /\ pc = "closing" /\ pc' = "exited"
    /\ heap' = heap \ Freed(freeing, uplinks) /\ hfree(freeing, uplinks, heap)
    /\ uplinks' = <<>>
    /\ UNCHANGED <<ptr, sound_channels, fork_a_daemon, cmdline, file>>

Configuring == Option \/ parse_cmdline \/ Write \/ cmdparse \/ read_config
==============================================================================
