------------------------------- MODULE Startup -------------------------------
(***************************************************************************)
(* main() of edysquelch.c around its loop: the command line, the log, the  *)
(* configuration, the fork, the fingerprints, the exporter, the source of  *)
(* the sound; and the end.                                                 *)
(***************************************************************************)
EXTENDS Config, FingerprintLoad

VARIABLE source           \* what the loop reads from

vars == <<config, loading, source>>

Init == ConfigInit /\ LoadInit /\ source = "none"

\* main() goes on to a place.
Main(from, to) == /\ pc = from /\ pc' \in to
                  /\ UNCHANGED <<memory, settings, cmdline, file, loading>>

\* The parent exits, and so does the process if there is no fork or no pid file.
fork == Main("start", {"load", "exited"}) /\ UNCHANGED source

\* A fingerprint without samples ends the program.
load == /\ step \in {"done", "crashed"}
        /\ Main("load", IF step = "done" THEN {"uplinks"} ELSE {"crashed"})
        /\ UNCHANGED source

\* jsonout_init fails if its thread cannot be created.
jsonout_init == /\ Main("uplinks", IF uplinks = <<>> THEN {"sound"} ELSE {"sound", "exited"})
                /\ UNCHANGED source

\* The device is opened, or the file.
open_sound ==
    /\ Main("sound", IF ptr["sound_device"] = NULL /\ ptr["sound_in_file"] = NULL
                     THEN {"exited"} ELSE {"running", "exited"})
    /\ source' = CASE pc' = "exited" -> "none"
                   [] ptr["sound_device"] # NULL -> "device"
                   [] OTHER -> "file"

\* The loop ends, the source is closed and the exporter stopped.
closedown == Main("running", {"closing"}) /\ source' = "none"

Next == \/ Configuring /\ UNCHANGED <<loading, source>>
        \/ pc = "load" /\ Loading /\ UNCHANGED <<config, source>>
        \/ fork \/ load \/ jsonout_init \/ open_sound \/ closedown
        \/ free_config /\ UNCHANGED <<loading, source>>
        \/ pc \in {"exited", "crashed"} /\ UNCHANGED vars

Spec == Init /\ [][Next]_vars
------------------------------------------------------------------------------
\* The arguments of a line are those its author had in mind, quotes, escapes and
\* spaces in them included ("honoring quotes and such", cfgfile.c:182).
ArgsAreWhatWasWritten == parse_args(Append(text, Newline)) = typed

\* Every string and every uplink has an object of its own that was not freed:
\* nothing is used after it was freed, and nothing is freed twice, no constant, and
\* nothing that was not allocated (cfgfile.c:68, cfg.c:184, 250, 274, 304), whatever
\* is left pointing at what free_config freed.
Owners == {p \in Owning : ptr[p] \notin {NULL, Literal}}
OwnersAreDistinct ==
    /\ ~ misfreed
    /\ pc # "exited" =>
         /\ {ptr[p] : p \in Owners} \cup Range(uplinks) \subseteq heap
         /\ Cardinality({ptr[p] : p \in Owners} \cup Range(uplinks))
              = Cardinality(Owners) + Len(uplinks)

\* However the command line and the file were written, the sound has one source
\* once read_config accepted them ("Neither sound device or sound file configured"
\* is never logged, edysquelch.c:125), and the loop reads it.
OneSource ==
    pc \in {"start", "load", "uplinks", "sound", "running"} =>
      /\ (ptr["sound_device"] = NULL) # (ptr["sound_in_file"] = NULL)
      /\ pc = "running" => source = IF ptr["sound_in_file"] = NULL THEN "device" ELSE "file"
------------------------------------------------------------------------------
\* The inductive invariant behind OwnersAreDistinct and OneSource: until free_config,
\* every object has one owner, so that what is freed is nobody else's, and a new
\* object nobody's; and a constant is only where it is known to be one, which
\* do_string relies on before read_config sets one.
OneOwnerEach ==
    /\ heap \subseteq Nat \ {0} /\ IsFiniteSet(heap)
    /\ ptr \in [Owning -> heap \cup {NULL, Literal}]
    /\ uplinks \in Seq(heap)
    /\ \A p, q \in Owners : ptr[p] = ptr[q] => p = q
    /\ \A i, j \in DOMAIN uplinks : uplinks[i] = uplinks[j] => i = j
    /\ \A p \in Owners, i \in DOMAIN uplinks : ptr[p] # uplinks[i]
    /\ \A p \in Owning : ptr[p] = Literal => p \in {"cfgfile", "logname", "sound_device"}

Owned == /\ ~ misfreed
         /\ pc # "exited" => OneOwnerEach
         /\ pc \in {"cmdline", "config"} => ptr["sound_device"] # Literal

StartupInv == Owned /\ OneSource
==============================================================================
