--------------------------- MODULE ReadersWriters ---------------------------
(***************************************************************************)
(* What a read/write lock promises: any number of readers or one writer.   *)
(***************************************************************************)
CONSTANT Threads

VARIABLES readers, writer     \* sets of threads that hold the lock

Init == readers = {} /\ writer = {}

Read(t) == /\ writer = {} /\ t \notin readers
           /\ readers' = readers \cup {t} /\ UNCHANGED writer

EndRead(t) == /\ t \in readers
              /\ readers' = readers \ {t} /\ UNCHANGED writer

Write(t) == /\ writer = {} /\ readers = {}
            /\ writer' = {t} /\ UNCHANGED readers

EndWrite(t) == writer = {t} /\ writer' = {} /\ UNCHANGED readers

Next == \E t \in Threads : Read(t) \/ EndRead(t) \/ Write(t) \/ EndWrite(t)

Spec == Init /\ [][Next]_<<readers, writer>>
=============================================================================
