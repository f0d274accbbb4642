--------------------------- MODULE FingerprintLoad ---------------------------
(***************************************************************************)
(* fingerpori.c: the fingerprints of a directory are loaded into a list,   *)
(* whatever happens to some of the files.                                  *)
(*                                                                         *)
(* A directory has a name, and so has a file, taken apart where it         *)
(* matters, and what comes out of reading it: the step that fails, or the  *)
(* number of samples in it.  The values of samples, and the amplitudes     *)
(* that are only logged, are left out.                                     *)
(***************************************************************************)
EXTENDS Integers, Sequences, SequencesExt

CONSTANTS FILTER_AVG_LEN,
          Dirs,            \* names of directories
          Files,           \* in the order of their names
          DirLimit         \* bound: files of a directory

ASSUME FingerprintLoadAssumption ==
    /\ FILTER_AVG_LEN \in Nat /\ Dirs \subseteq Seq(STRING)
    /\ Files \in Seq([name : Seq(STRING), fails : {"nothing", "open", "stat", "read"},
                      samples : Nat])

VARIABLES step,            \* where fingerprints_load and fingerprint_load are
          dir,             \* the directory's name; and history: the numbers of its files
          namelist,        \* what scandir returned, less what was loaded
          held,            \* what the loading of one file holds, and has to give back
          len,             \* fp->len
          ret,             \* what fingerprint_load is about to return
          fingerprints     \* the list

loading == <<step, dir, namelist, held, len, ret, fingerprints>>

LoadInit == /\ step = "dir" /\ dir = [name |-> <<>>, files |-> {}] /\ namelist = {} /\ held = {}
            /\ len = 0 /\ ret = -1 /\ fingerprints = <<>>

\* The first .raw of the name has to be at its end.
fingerprint_filematch(f) ==
    /\ f.name[1] # "."
    /\ \E i \in DOMAIN f.name : f.name[i] = ".raw"
    /\ SelectInSeq(f.name, LAMBDA part : part = ".raw") = Len(f.name)

\* No directory, or one without a name, is an empty one.
scandir ==
    /\ step = "dir" /\ step' = "next"
    /\ \E d \in Dirs, files \in SUBSET DOMAIN Files :
          /\ Cardinality(files) <= DirLimit
          /\ dir' = [name |-> d, files |-> files]
          /\ namelist' = {f \in files : fingerprint_filematch(Files[f])}
    /\ UNCHANGED <<held, len, ret, fingerprints>>

\* From the last file to the first.
fingerprints_load ==
    /\ step = "next"
    /\ step' = IF namelist = {} THEN "done" ELSE "open"
    /\ ret' = -1 /\ len' = 0
    /\ held' = held \cup (IF namelist = {} THEN {} ELSE {"fn"})
    /\ UNCHANGED <<dir, namelist, fingerprints>>

File == Files[Max(namelist)]
Fails(at) == File.fails = at

\* The word is looked for in the directory's name and the file's, put together.
Unfiltered(f) == "unfiltered" \in Range(dir.name \o f.name)

Goes(label) == step' = label /\ UNCHANGED <<dir, namelist, ret, fingerprints>>

open == /\ step = "open"
        /\ \/ Fails("open") /\ Goes("end") /\ UNCHANGED <<held, len>>
           \/ ~ Fails("open") /\ Goes("stat") /\ held' = held \cup {"fd"} /\ UNCHANGED len

\* mutant: the file stays open
fstat_End == /\ step = "stat" /\ UNCHANGED len
             /\ \/ Fails("stat") /\ Goes("end") /\ UNCHANGED held
                \/ ~ Fails("stat") /\ Goes("read") /\ held' = held \cup {"fp"}

fstat == /\ step = "stat" /\ UNCHANGED len
         /\ \/ Fails("stat") /\ Goes("close") /\ UNCHANGED held
            \/ ~ Fails("stat") /\ Goes("read") /\ held' = held \cup {"fp"}

\* The read fails or is short, or there are samples to be filtered or linked.
read == /\ step = "read" /\ UNCHANGED held
        /\ \/ Fails("read") /\ Goes("close") /\ UNCHANGED len
           \/ /\ ~ Fails("read") /\ len' = File.samples
              /\ step' = IF Unfiltered(File) THEN "filter" ELSE "link"
              /\ ret' = 0
              /\ UNCHANGED <<dir, namelist, fingerprints>>

\* The samples left are those that have as many before them as are averaged.
sample_filter_avg == /\ step = "filter"
                     /\ Goes("link") /\ UNCHANGED held
                     /\ len' = IF len > FILTER_AVG_LEN THEN len - FILTER_AVG_LEN ELSE 0

\* The average amplitude is divided by the number of samples.
link == /\ step = "link" /\ UNCHANGED <<dir, namelist, len, ret>>
        /\ \/ len = 0 /\ step' = "crashed" /\ UNCHANGED <<held, fingerprints>>
           \/ /\ len > 0 /\ step' = "close"
              /\ fingerprints' = <<[name |-> File.name, len |-> len]>> \o fingerprints
              /\ held' = held \ {"fp"}

close == step = "close" /\ Goes("end") /\ held' = held \ {"fd"} /\ UNCHANGED len

\* fn is freed, and what there is of a fingerprint if it is not in the list.
end == /\ step = "end" /\ step' = "next"
       /\ held' = held \ (IF ret = 0 THEN {"fn"} ELSE {"fn", "fp"})
       /\ namelist' = namelist \ {Max(namelist)}
       /\ UNCHANGED <<dir, len, ret, fingerprints>>

Loading == \/ scandir \/ fingerprints_load \/ open \/ fstat \/ read
           \/ sample_filter_avg \/ link \/ close \/ end
------------------------------------------------------------------------------
Loadable(f) == fingerprint_filematch(f) /\ f.fails = "nothing"

Loaded(f) == [name |-> f.name,
              len |-> f.samples - IF Unfiltered(f) THEN FILTER_AVG_LEN ELSE 0]

\* The fingerprints are those of some files, in the order of their names.
AreOf(files) ==
    \E order \in [DOMAIN fingerprints -> files] :
        /\ \A f \in files : \E i \in DOMAIN order : order[i] = f
        /\ \A i, j \in DOMAIN order : i < j => order[i] < order[j]
        /\ \A i \in DOMAIN order : fingerprints[i] = Loaded(Files[order[i]])

\* Files that can be read and have samples, after they were filtered, are in the
\* list in the order of their names; the others leave nothing behind (fingerpori.c).
FingerprintsAreComplete ==
    step = "done" => held = {} /\ AreOf({f \in dir.files : Loadable(Files[f])})
------------------------------------------------------------------------------
\* The inductive invariant behind it: the files behind the one being loaded are in
\* the list, that one is once it is linked, and what is held depends on the step.
Fingerprints == [name : Seq(STRING), len : Int]
Matching == {f \in dir.files : fingerprint_filematch(Files[f])}
Linked == step \in {"close", "end"} /\ ret = 0

FilesInv ==
    /\ fingerprints \in Seq(Fingerprints)
    /\ dir.files \subseteq DOMAIN Files /\ namelist \subseteq Matching
    /\ \A f \in namelist, g \in Matching \ namelist : f < g
    /\ step \notin {"dir", "next", "done"} => namelist # {}
    /\ step = "done" => namelist = {}
    /\ step # "crashed" =>
          AreOf({f \in Matching \ namelist : Files[f].fails = "nothing"} \cup
                (IF Linked THEN {Max(namelist)} ELSE {}))

StepInv ==
    CASE step = "dir" -> held = {} /\ fingerprints = <<>> /\ dir.files = {}
      [] step \in {"next", "done"} -> held = {}
      [] step = "open" -> held = {"fn"} /\ ret = -1
      [] step = "stat" -> held = {"fn", "fd"} /\ ret = -1 /\ ~ Fails("open")
      [] step = "read" -> held = {"fn", "fd", "fp"} /\ ret = -1
                          /\ ~ Fails("open") /\ ~ Fails("stat")
      [] step = "filter" -> held = {"fn", "fd", "fp"} /\ ret = 0 /\ Fails("nothing")
                            /\ Unfiltered(File) /\ len = File.samples
      [] step = "link" -> held = {"fn", "fd", "fp"} /\ ret = 0 /\ Fails("nothing")
                          /\ len \in {0, Loaded(File).len}
      [] step = "close" -> IF ret = 0 THEN held = {"fn", "fd"} /\ Fails("nothing")
                           ELSE {"fn", "fd"} \subseteq held /\ held \subseteq {"fn", "fd", "fp"}
                                /\ ~ Fails("nothing")
      [] step = "end" -> IF ret = 0 THEN held = {"fn"} /\ Fails("nothing")
                         ELSE held \subseteq {"fn", "fp"} /\ ~ Fails("nothing")
      [] OTHER -> step = "crashed"

LoadInv == FilesInv /\ StepInv
==============================================================================
