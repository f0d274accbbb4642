---------------------------- MODULE StartupProofs ----------------------------
(***************************************************************************)
(* Proofs about Startup, for any directives and arguments, files and       *)
(* command lines of any length: who owns what malloc returned, what the    *)
(* sound is read from, which fingerprints are loaded, and how the lines of *)
(* the configuration are understood.                                       *)
(***************************************************************************)
EXTENDS Startup, FiniteSetTheorems, SequenceTheorems, WellFoundedInduction, TLAPS

-----------------------------------------------------------------------------
(***************************************************************************)
(* New objects.                                                            *)
(***************************************************************************)

\* A set of natural numbers has a smallest element, which is what Min chooses.
LEMMA Minimum ==
  ASSUME NEW T \in SUBSET Nat, T # {}
  PROVE  Min(T) \in T /\ \A y \in T : Min(T) <= y
<1>1. PICK x \in T : \A y \in T : ~ (<<y, x>> \in OpToRel(<, Nat))
  BY WFMin, NatLessThanWellFounded
<1>2. \A y \in T : x <= y
  <2> SUFFICES ASSUME NEW y \in T, y < x PROVE FALSE
    OBVIOUS
  <2>1. <<y, x>> \in Nat \X Nat /\ <<y, x>>[1] < <<y, x>>[2]
    OBVIOUS
  <2> QED
    BY <1>1, <2>1 DEF OpToRel
<1> QED
  BY <1>2 DEF Min

\* malloc always finds an object that is not allocated.
LEMMA FreshIsFree ==
  ASSUME NEW h, h \subseteq Nat \ {0}, IsFiniteSet(h)
  PROVE  Fresh(h) \in Nat \ {0} /\ Fresh(h) \notin h
<1> DEFINE n == Cardinality(h) + 1
           free == (1..n) \ h
<1>1. n \in Nat /\ n - 1 = Cardinality(h)
  BY FS_CardinalityType
<1>2. free # {}
  <2> SUFFICES ASSUME free = {} PROVE FALSE
    OBVIOUS
  <2>1. (1..n) \in SUBSET h
    OBVIOUS
  <2>2. Cardinality(1..n) <= Cardinality(h)
    BY <2>1, FS_Subset
  <2>3. Cardinality(1..n) = IF 1 > n THEN 0 ELSE n - 1 + 1
    BY <1>1, FS_Interval
  <2> HIDE DEF n
  <2>4. n - 1 >= 0
    BY <1>1, FS_CardinalityType
  <2> QED
    BY <1>1, <2>2, <2>3, <2>4
<1>3. free \in SUBSET Nat
  BY <1>1
<1>4. Fresh(h) \in free
  BY <1>2, <1>3, Minimum DEF Fresh
<1> QED
  BY <1>1, <1>4

-----------------------------------------------------------------------------
(***************************************************************************)
(* OneOwnerEach, as an operator of the values it is about, and what the    *)
(* actions are made of.                                                    *)
(***************************************************************************)

OwnersOf(p) == {q \in Owning : p[q] \notin {NULL, Literal}}

Own(h, p, u) ==
  /\ h \subseteq Nat \ {0} /\ IsFiniteSet(h)
  /\ p \in [Owning -> h \cup {NULL, Literal}]
  /\ u \in Seq(h)
  /\ \A q, r \in OwnersOf(p) : p[q] = p[r] => q = r
  /\ \A i, j \in DOMAIN u : u[i] = u[j] => i = j
  /\ \A q \in OwnersOf(p), i \in DOMAIN u : p[q] # u[i]
  /\ \A q \in Owning : p[q] = Literal => q \in {"cfgfile", "logname", "sound_device"}

LEMMA OwnedIs == OneOwnerEach <=> Own(heap, ptr, uplinks)
  BY DEF OneOwnerEach, Own, Owners, OwnersOf

\* A pointer gets an object of its own.
LEMMA NewString ==
  ASSUME NEW h, NEW p, NEW u, Own(h, p, u), NEW q \in Owning
  PROVE  Own(h \cup {Fresh(h)}, [p EXCEPT ![q] = Fresh(h)], u)
<1> DEFINE f == Fresh(h)
           p1 == [p EXCEPT ![q] = f]
<1>1. f \in Nat \ {0} /\ f \notin h
  BY FreshIsFree DEF Own
<1> HIDE DEF f
<1>2. f \notin {NULL, Literal}
  BY <1>1 DEF NULL, Literal
<1>3. p1 \in [Owning -> (h \cup {f}) \cup {NULL, Literal}]
  BY DEF Own
<1>4. IsFiniteSet(h \cup {f})
  BY FS_AddElement DEF Own
<1>5. u \in Seq(h \cup {f}) /\ \A i \in DOMAIN u : u[i] \in h
  BY DEF Own
<1>6. \A r \in Owning : p1[r] = IF r = q THEN f ELSE p[r]
  BY DEF Own
<1>7. OwnersOf(p1) = OwnersOf(p) \cup {q}
  BY <1>2, <1>6 DEF OwnersOf
<1>8. \A r \in OwnersOf(p) : p[r] \in h
  BY DEF Own, OwnersOf
<1> HIDE DEF p1
<1>9. \A r, s \in OwnersOf(p1) : p1[r] = p1[s] => r = s
  BY <1>1, <1>6, <1>7, <1>8 DEF Own, OwnersOf
<1>10. \A r \in OwnersOf(p1), i \in DOMAIN u : p1[r] # u[i]
  BY <1>1, <1>5, <1>6, <1>7, <1>8 DEF Own, OwnersOf
<1>11. \A r \in Owning : p1[r] = Literal => r \in {"cfgfile", "logname", "sound_device"}
  BY <1>2, <1>6 DEF Own
<1>12. /\ h \cup {f} \subseteq Nat \ {0}
       /\ \A i, j \in DOMAIN u : u[i] = u[j] => i = j
  BY <1>1 DEF Own
<1>13. Own(h \cup {f}, p1, u)
  BY <1>3, <1>4, <1>5, <1>9, <1>10, <1>11, <1>12 DEF Own
<1> QED
  BY <1>13 DEF p1, f

\* What a pointer points to is freed, and it forgets it.
LEMMA FreeString ==
  ASSUME NEW h, NEW p, NEW u, Own(h, p, u), NEW q \in Owning
  PROVE  Own(h \ {p[q]}, [p EXCEPT ![q] = NULL], u)
<1> DEFINE p1 == [p EXCEPT ![q] = NULL]
           h1 == h \ {p[q]}
<1>1. \A r \in Owning : p1[r] = IF r = q THEN NULL ELSE p[r]
  BY DEF Own
<1>2. OwnersOf(p1) = OwnersOf(p) \ {q}
  BY <1>1 DEF OwnersOf
<1>3. \A r \in OwnersOf(p) : p[r] \in h
  BY DEF Own, OwnersOf
<1>4. NULL \notin h /\ Literal \notin h
  BY DEF Own, NULL, Literal
<1>5. ASSUME NEW r \in Owning PROVE p1[r] \in h1 \cup {NULL, Literal}
  <2>1. p[r] \in h \cup {NULL, Literal}
    BY DEF Own
  <2>2. CASE r = q
    BY <1>1, <2>2
  <2>3. CASE r # q /\ p[r] = p[q] /\ p[q] \in h
    <3>1. q \in OwnersOf(p) /\ r \in OwnersOf(p)
      BY <1>4, <2>3 DEF OwnersOf
    <3> QED
      BY <2>3, <3>1 DEF Own
  <2>4. CASE r # q /\ ~ (p[r] = p[q] /\ p[q] \in h)
    BY <1>1, <2>1, <2>4
  <2> QED
    BY <2>2, <2>3, <2>4
<1>6. p1 \in [Owning -> h1 \cup {NULL, Literal}]
  BY <1>5 DEF Own
<1>7. h1 \subseteq Nat \ {0} /\ IsFiniteSet(h1)
  BY FS_RemoveElement DEF Own
<1>8. \A i \in DOMAIN u : u[i] \in h1
  <2> SUFFICES ASSUME NEW i \in DOMAIN u PROVE u[i] \in h /\ u[i] # p[q]
    OBVIOUS
  <2>1. u[i] \in h
    BY DEF Own
  <2>2. CASE q \in OwnersOf(p)
    BY <2>1, <2>2 DEF Own
  <2>3. CASE q \notin OwnersOf(p)
    BY <1>4, <2>1, <2>3 DEF OwnersOf
  <2> QED
    BY <2>1, <2>2, <2>3
<1>9. u \in Seq(h1)
  <2>1. u \in [1..Len(u) -> h1] /\ Len(u) \in Nat /\ DOMAIN u = 1..Len(u)
    BY <1>8 DEF Own
  <2> QED
    BY <2>1
<1> HIDE DEF p1, h1
<1>10. \A r, s \in OwnersOf(p1) : p1[r] = p1[s] => r = s
  BY <1>1, <1>2 DEF Own, OwnersOf
<1>11. \A r \in OwnersOf(p1), i \in DOMAIN u : p1[r] # u[i]
  BY <1>1, <1>2 DEF Own, OwnersOf
<1>12. \A r \in Owning : p1[r] = Literal => r \in {"cfgfile", "logname", "sound_device"}
  BY <1>1 DEF Own, NULL, Literal
<1>13. Own(h1, p1, u)
  BY <1>6, <1>7, <1>9, <1>10, <1>11, <1>12 DEF Own
<1> QED
  BY <1>13 DEF p1, h1

\* The sound device may be a constant of the program.
LEMMA LiteralDevice ==
  ASSUME NEW h, NEW p, NEW u, Own(h, p, u)
  PROVE  Own(h, [p EXCEPT !["sound_device"] = Literal], u)
<1> DEFINE p1 == [p EXCEPT !["sound_device"] = Literal]
<1>1. \A r \in Owning : p1[r] = IF r = "sound_device" THEN Literal ELSE p[r]
  BY DEF Own
<1>2. OwnersOf(p1) = OwnersOf(p) \ {"sound_device"}
  BY <1>1 DEF OwnersOf
<1>3. p1 \in [Owning -> h \cup {NULL, Literal}]
  BY DEF Own
<1> HIDE DEF p1
<1>4. \A r, s \in OwnersOf(p1) : p1[r] = p1[s] => r = s
  BY <1>1, <1>2 DEF Own, OwnersOf
<1>5. \A r \in OwnersOf(p1), i \in DOMAIN u : p1[r] # u[i]
  BY <1>1, <1>2 DEF Own, OwnersOf
<1>6. \A r \in Owning : p1[r] = Literal => r \in {"cfgfile", "logname", "sound_device"}
  BY <1>1 DEF Own
<1>7. Own(h, p1, u)
  BY <1>3, <1>4, <1>5, <1>6 DEF Own
<1> QED
  BY <1>7 DEF p1

\* An uplink is a new object at the head of the list.
LEMMA NewUplink ==
  ASSUME NEW h, NEW p, NEW u, Own(h, p, u)
  PROVE  Own(h \cup {Fresh(h)}, p, <<Fresh(h)>> \o u)
<1> DEFINE f == Fresh(h)
           u1 == <<f>> \o u
<1>1. f \in Nat \ {0} /\ f \notin h
  BY FreshIsFree DEF Own
<1> HIDE DEF f
<1>2. /\ u \in Seq(h) /\ Len(u) \in Nat /\ DOMAIN u = 1..Len(u)
      /\ \A i \in DOMAIN u : u[i] \in h
  BY DEF Own
<1>3. u1 \in Seq(h \cup {f}) /\ DOMAIN u1 = 1..(Len(u) + 1)
  BY <1>2
<1>4. \A i \in DOMAIN u1 : i \in Nat \ {0} /\ (i # 1 => i - 1 \in DOMAIN u)
  BY <1>2, <1>3
<1>5. \A i \in DOMAIN u1 : u1[i] = IF i = 1 THEN f ELSE u[i - 1]
  BY <1>2
<1> HIDE DEF u1
<1>6. \A i, j \in DOMAIN u1 : u1[i] = u1[j] => i = j
  <2> SUFFICES ASSUME NEW i \in DOMAIN u1, NEW j \in DOMAIN u1, u1[i] = u1[j]
               PROVE  i = j
    OBVIOUS
  <2>1. CASE i = 1 /\ j # 1
    BY <1>1, <1>2, <1>4, <1>5, <2>1
  <2>2. CASE i # 1 /\ j = 1
    BY <1>1, <1>2, <1>4, <1>5, <2>2
  <2>3. CASE i # 1 /\ j # 1
    <3>1. i - 1 = j - 1
      BY <1>4, <1>5, <2>3 DEF Own
    <3> QED
      BY <1>4, <3>1
  <2> QED
    BY <2>1, <2>2, <2>3
<1>7. \A q \in OwnersOf(p) : p[q] \in h
  BY DEF Own, OwnersOf
<1>8. \A q \in OwnersOf(p), i \in DOMAIN u1 : p[q] # u1[i]
  BY <1>1, <1>4, <1>5, <1>7 DEF Own
<1>9. h \cup {f} \subseteq Nat \ {0} /\ IsFiniteSet(h \cup {f})
  BY <1>1, FS_AddElement DEF Own
<1>10. Own(h \cup {f}, p, u1)
  BY <1>3, <1>6, <1>8, <1>9 DEF Own
<1> QED
  BY <1>10 DEF u1, f

\* Owned counts: as many objects as there are owners, all of them allocated.
LEMMA OwnedCounts == Owned => OwnersAreDistinct
<1> SUFFICES ASSUME OneOwnerEach, ~ misfreed PROVE OwnersAreDistinct
  BY DEF Owned, OwnersAreDistinct
<1> DEFINE strings == {ptr[p] : p \in Owners}
           names == [p \in Owners |-> ptr[p]]
           ups == Range(uplinks)
<1>1. \A p \in Owners : ptr[p] \in heap
  BY DEF OneOwnerEach, Owners
<1>2. /\ IsFiniteSet(heap) /\ NULL \notin heap
      /\ uplinks \in Seq(heap) /\ Len(uplinks) \in Nat /\ DOMAIN uplinks = 1..Len(uplinks)
  BY DEF OneOwnerEach, NULL
<1>3. names \in Injection(Owners, heap)
  BY <1>1 DEF OneOwnerEach, Injection, IsInjective
<1>4. IsFiniteSet(Owners)
  BY <1>2, <1>3, FS_Injection
<1>5. names \in Surjection(Owners, strings) /\ names \in Injection(Owners, strings)
  <2>1. names \in [Owners -> strings]
    OBVIOUS
  <2>2. \A t \in strings : \E p \in Owners : names[p] = t
    OBVIOUS
  <2>3. \A p, q \in Owners : names[p] = names[q] => p = q
    BY DEF OneOwnerEach
  <2> QED
    BY <2>1, <2>2, <2>3 DEF Surjection, Injection, IsInjective
<1>6. IsFiniteSet(strings) /\ Cardinality(strings) = Cardinality(Owners)
  BY <1>4, <1>5, FS_Surjection
<1>7. uplinks \in Surjection(1..Len(uplinks), ups) /\ uplinks \in Injection(1..Len(uplinks), ups)
  <2>1. uplinks \in [1..Len(uplinks) -> ups]
    BY <1>2 DEF Range
  <2>2. \A t \in ups : \E i \in 1..Len(uplinks) : uplinks[i] = t
    BY <1>2 DEF Range
  <2>3. \A i, j \in 1..Len(uplinks) : uplinks[i] = uplinks[j] => i = j
    BY <1>2 DEF OneOwnerEach
  <2> QED
    BY <2>1, <2>2, <2>3 DEF Surjection, Injection, IsInjective
<1>8. IsFiniteSet(1..Len(uplinks)) /\ Cardinality(1..Len(uplinks)) = Len(uplinks)
  <2>1. /\ IsFiniteSet(1..Len(uplinks))
        /\ Cardinality(1..Len(uplinks)) = IF 1 > Len(uplinks) THEN 0
                                          ELSE Len(uplinks) - 1 + 1
    BY <1>2, FS_Interval
  <2> QED
    BY <1>2, <2>1
<1>9. IsFiniteSet(ups) /\ Cardinality(ups) = Len(uplinks)
  BY <1>7, <1>8, FS_Surjection
<1>10. strings \cap ups = {}
  BY <1>2 DEF OneOwnerEach, Range
<1>11. strings \cup ups \subseteq heap
  BY <1>1, <1>2 DEF Range
<1>12. Cardinality(strings \cup ups) = Cardinality(Owners) + Len(uplinks)
  <2>1. Cardinality(strings \cup ups) =
          Cardinality(strings) + Cardinality(ups) - Cardinality(strings \cap ups)
    BY <1>6, <1>9, FS_Union
  <2>2. Cardinality(strings \cap ups) = 0
    BY <1>10, FS_EmptySet
  <2>3. Cardinality(Owners) \in Nat
    BY <1>4, FS_CardinalityType
  <2> QED
    BY <1>2, <1>6, <1>9, <2>1, <2>2, <2>3
<1> QED
  BY <1>11, <1>12 DEF OwnersAreDistinct

-----------------------------------------------------------------------------
(***************************************************************************)
(* The actions.                                                            *)
(***************************************************************************)

LEMMA OwnedInit == Init => OneOwnerEach
<1> SUFFICES ASSUME Init PROVE OneOwnerEach
  OBVIOUS
<1> USE DEF Init, ConfigInit
<1>1. heap = {} /\ IsFiniteSet(heap) /\ uplinks = <<>>
  BY FS_EmptySet
<1>2. ptr = [p \in Owning |-> IF p \in {"cfgfile", "logname"} THEN Literal ELSE NULL]
  OBVIOUS
<1>3. Owners = {}
  BY <1>2 DEF Owners
<1>4. \A p \in Owning : ptr[p] = Literal => p \in {"cfgfile", "logname", "sound_device"}
  BY <1>2 DEF NULL, Literal
<1> QED
  BY <1>1, <1>2, <1>3, <1>4 DEF OneOwnerEach

LEMMA OwnedOption == OneOwnerEach /\ Option => OneOwnerEach'
<1> SUFFICES ASSUME OneOwnerEach, Option PROVE OneOwnerEach'
  OBVIOUS
<1>1. Own(heap, ptr, uplinks) /\ uplinks' = uplinks
  BY OwnedIs DEF Option
<1>2. \/ UNCHANGED <<ptr, heap>>
      \/ \E p \in {"cfgfile", "logname", "log_dir", "sound_in_file", "sound_out_file"} : hstrdup(p)
  BY DEF Option, memory
<1>3. Own(heap', ptr', uplinks')
  <2>1. CASE UNCHANGED <<ptr, heap>>
    BY <1>1, <2>1
  <2>2. ASSUME NEW p \in {"cfgfile", "logname", "log_dir", "sound_in_file", "sound_out_file"},
               hstrdup(p)
        PROVE  Own(heap', ptr', uplinks')
    <3>1. p \in Owning
      BY DEF Owning
    <3>2. heap' = heap \cup {Fresh(heap)} /\ ptr' = [ptr EXCEPT ![p] = Fresh(heap)]
      BY <2>2 DEF hstrdup
    <3> QED
      BY <1>1, <3>1, <3>2, NewString
  <2> QED
    BY <1>2, <2>1, <2>2
<1>4. (OneOwnerEach <=> Own(heap, ptr, uplinks))'
  BY OwnedIs, PTL
<1> QED
  BY <1>3, <1>4

\* A directive that sets a string names one of the strings.
LEMMA StringsAreNamed ==
  ASSUME NEW argv, Outcome(argv) = "do_string"
  PROVE  Command(argv).dest \in {"logdir", "fpdir", "sound_device", "sound_in_file",
                                 "sound_out_file"}
<1>1. Fitting(argv[1]) # {} /\ Command(argv).function = "do_string"
  BY DEF Outcome
<1>2. DOMAIN cfg_cmds = 1..10
  BY DEF cfg_cmds
<1>3. Fitting(argv[1]) \in SUBSET Nat /\ Fitting(argv[1]) \subseteq 1..10
  BY <1>2 DEF Fitting
<1>4. PICK i \in 1..10 : Command(argv) = cfg_cmds[i]
  BY <1>1, <1>3, Minimum DEF Command
<1>5. cfg_cmds[i].function = "do_string"
  BY <1>1, <1>4
<1>6. i \in {1, 2, 6, 7, 8}
  BY <1>5 DEF cfg_cmds
<1>7. cfg_cmds[i].dest \in {"logdir", "fpdir", "sound_device", "sound_in_file",
                            "sound_out_file"}
  BY <1>6 DEF cfg_cmds
<1> QED
  BY <1>4, <1>7

LEMMA OwnedLine == OneOwnerEach /\ cmdparse => OneOwnerEach'
<1> SUFFICES ASSUME OneOwnerEach, cmdparse PROVE OneOwnerEach'
  OBVIOUS
<1>1. Own(heap, ptr, uplinks)
  BY OwnedIs
<1>2. PICK argv : Does(argv)
  BY DEF cmdparse
<1>3. Own(heap', ptr', uplinks')
  <2>1. CASE UNCHANGED <<ptr, heap, uplinks>>
    BY <1>1, <2>1
  <2>2. ASSUME Outcome(argv) = "do_string", do_string(Command(argv).dest), UNCHANGED uplinks
        PROVE  Own(heap', ptr', uplinks')
    <3> DEFINE q == Command(argv).dest
               h == heap \ {ptr[q]}
               p == [ptr EXCEPT ![q] = NULL]
    <3>1. q \in Owning
      BY <2>2, StringsAreNamed DEF Owning
    <3>2. Own(h, p, uplinks)
      BY <1>1, <3>1, FreeString
    <3>3. heap' = h \cup {Fresh(h)} /\ ptr' = [ptr EXCEPT ![q] = Fresh(h)]
      BY <2>2 DEF do_string
    <3>4. ptr' = [p EXCEPT ![q] = Fresh(h)]
      BY <3>3
    <3> HIDE DEF q, h, p
    <3> QED
      <4>1. Own(h \cup {Fresh(h)}, [p EXCEPT ![q] = Fresh(h)], uplinks)
        BY <3>1, <3>2, NewString
      <4> QED
        BY <2>2, <3>3, <3>4, <4>1
  <2>3. CASE do_uplink /\ UNCHANGED ptr
    BY <1>1, <2>3, NewUplink DEF do_uplink
  <2> QED
    BY <1>2, <2>1, <2>2, <2>3 DEF Does, settings, memory
<1>4. (OneOwnerEach <=> Own(heap, ptr, uplinks))'
  BY OwnedIs, PTL
<1> QED
  BY <1>3, <1>4

\* The log directory, the sound device and the pid file: three pointers in a row.
LEMMA OwnedRead == OneOwnerEach /\ read_config => OneOwnerEach'
<1> SUFFICES ASSUME OneOwnerEach, read_config PROVE OneOwnerEach'
  OBVIOUS
<1> DEFINE logdir == ptr["log_dir"] # NULL \/ ptr["logdir"] = NULL
           device == ptr["sound_device"]
           in == ptr["sound_in_file"]
           h1 == IF logdir THEN heap \cup {Fresh(heap)} ELSE heap
           unused == IF in # NULL /\ device # Literal THEN {"sound_device"} ELSE {}
           h2 == h1 \ Freed(unused, <<>>)
           p1 == [ptr EXCEPT !["logdir"] = IF logdir THEN Fresh(heap) ELSE @]
           p2 == [p1 EXCEPT !["sound_device"] = Source(in, device)]
           p3 == [p2 EXCEPT !["pidfile"] = Fresh(h2)]
<1>1. Own(heap, ptr, uplinks) /\ uplinks' = uplinks /\ DOMAIN ptr = Owning
  BY OwnedIs DEF read_config, settings, OneOwnerEach
<1>2. CASE UNCHANGED <<ptr, heap>>
  <2>1. (OneOwnerEach <=> Own(heap, ptr, uplinks))'
    BY OwnedIs, PTL
  <2> QED
    BY <1>1, <1>2, <2>1
<1>3. ASSUME heap' = h2 \cup {Fresh(h2)},
             ptr' = [ptr EXCEPT !["logdir"] = IF logdir THEN Fresh(heap) ELSE @,
                                !["sound_device"] = Source(in, device),
                                !["pidfile"] = Fresh(h2)]
      PROVE  OneOwnerEach'
  <2>1. {"logdir", "log_dir", "sound_device", "sound_in_file", "pidfile"} \subseteq Owning
    BY DEF Owning
  <2>2. Own(h1, p1, uplinks)
    <3>1. CASE logdir
      BY <1>1, <2>1, <3>1, NewString
    <3>2. CASE ~ logdir
      <4>1. p1 = ptr
        BY <1>1, <3>2 DEF Own
      <4> QED
        BY <1>1, <3>2, <4>1
    <3> QED
      BY <3>1, <3>2
  <2>3. p1["sound_device"] = device /\ DOMAIN p1 = Owning
    BY <1>1, <2>1
  <2> HIDE DEF p1, h1, logdir
  <2>4. Own(h2, p2, uplinks)
    <3> DEFINE none == <<>>
    <3>1. Range(none) = {}
      BY DEF Range
    <3>2. NULL \notin h1 /\ Literal \notin h1
      BY <2>2 DEF Own, NULL, Literal
    <3>3. h2 = IF in # NULL THEN h1 \ {device} ELSE h1
      BY <3>1, <3>2 DEF Freed
    <3> HIDE DEF h2
    <3>4. CASE in # NULL
      BY <2>1, <2>2, <2>3, <3>3, <3>4, FreeString DEF Source
    <3>5. CASE in = NULL /\ device = NULL
      BY <2>2, <3>3, <3>5, LiteralDevice DEF Source
    <3>6. CASE in = NULL /\ device # NULL
      <4>1. p2 = p1
        BY <2>2, <2>3, <3>6 DEF Own, Source
      <4> QED
        BY <2>2, <3>3, <3>6, <4>1
    <3> QED
      BY <3>4, <3>5, <3>6
  <2>5. Own(h2 \cup {Fresh(h2)}, p3, uplinks)
    BY <2>1, <2>4, NewString
  <2>6. p3 = ptr'
    BY <1>1, <1>3, <2>1 DEF p1
  <2>7. (OneOwnerEach <=> Own(heap, ptr, uplinks))'
    BY OwnedIs, PTL
  <2> QED
    BY <1>1, <1>3, <2>5, <2>6, <2>7
<1> QED
  BY <1>2, <1>3 DEF read_config, memory

\* What only moves on leaves the strings alone.
LEMMA OwnedKept == OneOwnerEach /\ UNCHANGED <<ptr, heap, uplinks>> => OneOwnerEach'
<1> SUFFICES ASSUME OneOwnerEach, UNCHANGED <<ptr, heap, uplinks>> PROVE OneOwnerEach'
  OBVIOUS
<1>1. (OneOwnerEach <=> Own(heap, ptr, uplinks))'
  BY OwnedIs, PTL
<1> QED
  BY <1>1, OwnedIs

\* The owner of an object may free it, and so may some owners and the list of uplinks.
LEMMA OwnersMayFree ==
  ASSUME OneOwnerEach, NEW names \in SUBSET Owning, \A p \in names : ptr[p] # Literal,
         NEW list, list = <<>> \/ list = uplinks,
         NEW h, heap \subseteq h
  PROVE  MayFree(names, list, h)
<1>1. \A p \in names : ptr[p] \in heap \cup {NULL} /\ (ptr[p] # NULL => p \in Owners)
  BY DEF OneOwnerEach, Owners
<1>2. /\ uplinks \in Seq(heap) /\ NULL \notin heap
      /\ \A i \in DOMAIN list : list[i] \in heap /\ i \in DOMAIN uplinks /\ list[i] = uplinks[i]
  BY DEF OneOwnerEach, NULL
<1>3. Freed(names, list) \subseteq h
  BY <1>1, <1>2 DEF Freed, Range
<1>4. \A p, q \in names : ptr[p] = ptr[q] /\ ptr[p] # NULL => p = q
  BY <1>1 DEF OneOwnerEach
<1>5. \A i, j \in DOMAIN list : list[i] = list[j] => i = j
  BY <1>2 DEF OneOwnerEach
<1>6. \A p \in names, i \in DOMAIN list : ptr[p] # list[i]
  BY <1>1, <1>2 DEF OneOwnerEach
<1> QED
  BY <1>3, <1>4, <1>5, <1>6 DEF MayFree

\* do_string, read_config and free_config free only what was allocated, once.
LEMMA NothingMisfreed ==
  ASSUME Owned, OneOwnerEach, Option \/ cmdparse \/ read_config \/ free_config
  PROVE  ~ misfreed'
<1>1. CASE UNCHANGED misfreed
  BY <1>1 DEF Owned
<1>2. ASSUME NEW names \in SUBSET Owning, \A p \in names : ptr[p] # Literal,
             NEW list, list = <<>> \/ list = uplinks,
             NEW h, heap \subseteq h, hfree(names, list, h)
      PROVE  ~ misfreed'
  BY <1>2, OwnersMayFree DEF hfree, Owned
<1>3. CASE Option
  BY <1>1, <1>3 DEF Option, hstrdup, memory
<1>4. CASE cmdparse
  <2>1. PICK argv : Does(argv)
    BY <1>4 DEF cmdparse
  <2>2. CASE UNCHANGED misfreed
    BY <1>1, <2>2
  <2>3. ASSUME Outcome(argv) = "do_string", do_string(Command(argv).dest)
        PROVE  ~ misfreed'
    <3> DEFINE q == Command(argv).dest
    <3>1. q \in Owning /\ q \notin {"cfgfile", "logname"}
      BY <2>3, StringsAreNamed DEF Owning
    <3>2. hfree({q}, <<>>, heap)
      BY <2>3 DEF do_string
    <3> HIDE DEF q
    <3>3. ptr[q] # Literal
      <4>1. pc = "config"
        BY <1>4 DEF cmdparse
      <4> QED
        BY <3>1, <4>1 DEF Owned, OneOwnerEach
    <3> QED
      BY <1>2, <3>1, <3>2, <3>3
  <2> QED
    BY <2>1, <2>2, <2>3 DEF Does, do_uplink, memory
<1>5. CASE read_config
  <2> DEFINE unused == IF ptr["sound_in_file"] # NULL /\ ptr["sound_device"] # Literal
                       THEN {"sound_device"} ELSE {}
  <2>1. UNCHANGED misfreed \/ \E h : heap \subseteq h /\ hfree(unused, <<>>, h)
    BY <1>5 DEF read_config, memory
  <2>2. unused \in SUBSET Owning /\ \A p \in unused : ptr[p] # Literal
    BY DEF Owning
  <2> HIDE DEF unused
  <2> QED
    BY <1>1, <1>2, <2>1, <2>2
<1>6. CASE free_config
  <2>1. hfree(freeing, uplinks, heap) /\ freeing \in SUBSET Owning
    BY <1>6 DEF free_config, freeing
  <2>2. \A p \in freeing : ptr[p] # Literal
    BY DEF freeing, OneOwnerEach
  <2> QED
    BY <1>2, <2>1, <2>2
<1> QED
  BY <1>3, <1>4, <1>5, <1>6

\* Until the end of read_config, the sound device is no constant.
LEMMA DeviceIsNoConstant ==
  ASSUME OneOwnerEach, ptr["sound_device"] # Literal, Option \/ cmdparse
  PROVE  ptr'["sound_device"] # Literal
<1>1. /\ heap \subseteq Nat \ {0} /\ IsFiniteSet(heap)
      /\ ptr \in [Owning -> heap \cup {NULL, Literal}] /\ "sound_device" \in Owning
  BY DEF OneOwnerEach, Owning
<1>2. ASSUME NEW q, NEW h \in SUBSET heap, ptr' = [ptr EXCEPT ![q] = Fresh(h)]
      PROVE  ptr'["sound_device"] # Literal
  <2>1. Fresh(h) \in Nat \ {0}
    BY <1>1, FreshIsFree, FS_Subset
  <2> QED
    BY <1>1, <1>2, <2>1 DEF Literal
<1>3. CASE UNCHANGED ptr
  BY <1>3
<1>4. CASE Option
  <2>1. UNCHANGED ptr \/ \E p : hstrdup(p)
    BY <1>4 DEF Option, memory
  <2> QED
    BY <1>2, <1>3, <2>1 DEF hstrdup
<1>5. CASE cmdparse
  <2>1. UNCHANGED ptr \/ \E q : do_string(q)
    BY <1>5 DEF cmdparse, Does, memory
  <2> QED
    BY <1>2, <1>3, <2>1 DEF do_string
<1> QED
  BY <1>4, <1>5

LEMMA OwnedStep == Owned /\ [Next]_vars => Owned'
<1> SUFFICES ASSUME Owned, [Next]_vars PROVE Owned'
  OBVIOUS
<1>1. CASE Option \/ cmdparse \/ read_config
  <2>1. pc \in {"cmdline", "config"} /\ OneOwnerEach
    BY <1>1 DEF Option, cmdparse, read_config, Owned
  <2>2. OneOwnerEach'
    BY <1>1, <2>1, OwnedOption, OwnedLine, OwnedRead
  <2>3. read_config => pc' \notin {"cmdline", "config"}
    BY DEF read_config
  <2>4. pc' \in {"cmdline", "config"} => ptr'["sound_device"] # Literal
    BY <1>1, <2>1, <2>3, DeviceIsNoConstant DEF Owned
  <2>5. ~ misfreed'
    BY <1>1, <2>1, NothingMisfreed
  <2> QED
    BY <2>2, <2>4, <2>5 DEF Owned
<1>2. CASE free_config
  <2>1. pc # "exited" /\ pc' = "exited" /\ OneOwnerEach
    BY <1>2 DEF free_config, Owned
  <2> QED
    BY <1>2, <2>1, NothingMisfreed DEF Owned
<1>3. ASSUME UNCHANGED <<ptr, heap, misfreed, uplinks>>, pc # "exited" \/ UNCHANGED pc,
             pc' \in {"cmdline", "config"} => pc \in {"cmdline", "config"}
      PROVE  Owned'
  BY <1>3, OwnedKept DEF Owned
<1>4. CASE parse_cmdline \/ Write
  BY <1>3, <1>4 DEF parse_cmdline, Write, settings, memory
<1>5. CASE fork \/ load \/ jsonout_init \/ open_sound \/ closedown
  <2>1. /\ pc # "exited" /\ pc' \notin {"cmdline", "config"}
        /\ UNCHANGED <<ptr, heap, misfreed, uplinks>>
    BY <1>5 DEF fork, load, jsonout_init, open_sound, closedown, Main, settings, memory
  <2> QED
    BY <1>3, <2>1
<1>6. CASE UNCHANGED config \/ UNCHANGED vars
  BY <1>3, <1>6 DEF vars, config, settings, memory
<1> QED
  BY <1>1, <1>2, <1>4, <1>5, <1>6 DEF Next, Configuring

\* read_config drops the device when there is a file, and takes the default device
\* when there is neither.
LEMMA OneSourceRead ==
  ASSUME OneOwnerEach, read_config
  PROVE  OneSource'
<1>1. CASE pc' = "exited"
  BY <1>1 DEF OneSource
<1>2. ASSUME pc' = "start" PROVE (ptr'["sound_device"] = NULL) # (ptr'["sound_in_file"] = NULL)
  <2> DEFINE device == ptr["sound_device"]
             in == ptr["sound_in_file"]
  <2>1. DOMAIN ptr = Owning /\ {"logdir", "sound_device", "sound_in_file", "pidfile"} \subseteq Owning
    BY DEF OneOwnerEach, Owning
  <2>2. ptr'["sound_in_file"] = in /\ ptr'["sound_device"] = Source(in, device)
    BY <1>2, <2>1 DEF read_config
  <2> HIDE DEF in, device
  <2>3. (Source(in, device) = NULL) # (in = NULL)
    BY DEF Source, NULL, Literal
  <2> QED
    BY <2>2, <2>3
<1> QED
  BY <1>1, <1>2 DEF read_config, OneSource

LEMMA OneSourceStep == Owned /\ OneSource /\ [Next]_vars => OneSource'
<1> SUFFICES ASSUME Owned, OneSource, [Next]_vars PROVE OneSource'
  OBVIOUS
<1>1. CASE pc' \in {"cmdline", "config", "closing", "exited", "crashed"}
  BY <1>1 DEF OneSource
<1>2. CASE Option \/ Write \/ parse_cmdline
  BY <1>1, <1>2 DEF Option, Write, parse_cmdline
<1>3. CASE cmdparse
  <2>1. pc' \in {pc, "crashed", "exited"} /\ pc = "config"
    BY <1>3 DEF cmdparse, Does
  <2> QED
    BY <1>1, <2>1
<1>4. CASE read_config
  BY <1>4, OneSourceRead DEF Owned, read_config
<1>5. CASE fork \/ load \/ jsonout_init
  BY <1>5 DEF fork, load, jsonout_init, Main, OneSource, memory
<1>6. CASE open_sound
  BY <1>6 DEF open_sound, Main, OneSource, memory
<1>7. CASE closedown \/ free_config
  BY <1>1, <1>7 DEF closedown, free_config, Main
<1>8. CASE UNCHANGED <<config, source>> \/ UNCHANGED vars
  BY <1>8 DEF OneSource, config, memory, vars
<1> QED
  BY <1>2, <1>3, <1>4, <1>5, <1>6, <1>7, <1>8 DEF Next, Configuring

-----------------------------------------------------------------------------
(***************************************************************************)
(* The fingerprints that are loaded.                                       *)
(***************************************************************************)

\* The last file is one, and no other is behind it.
LEMMA Largest ==
  ASSUME NEW n \in Nat, NEW T \in SUBSET (1 .. n), T # {}
  PROVE  Max(T) \in T /\ \A y \in T : y <= Max(T)
<1> DEFINE D == {n - x : x \in T}
<1>1. D \in SUBSET Nat /\ D # {}
  <2>1. \A x \in T : n - x \in Nat
    OBVIOUS
  <2> QED
    BY <2>1
<1>2. Min(D) \in D /\ \A y \in D : Min(D) <= y
  BY <1>1, Minimum
<1> DEFINE d == Min(D)
<1> HIDE DEF d
<1>3. d \in D /\ \A y \in D : d <= y
  BY <1>2 DEF d
<1>4. PICK m \in T : d = n - m
  BY <1>3
<1>5. \A y \in T : m >= y
  <2> SUFFICES ASSUME NEW y \in T PROVE m >= y
    OBVIOUS
  <2>1. n - m <= n - y
    BY <1>3, <1>4
  <2>2. y \in Int /\ m \in Int /\ n \in Int
    OBVIOUS
  <2> QED
    BY ONLY <2>1, <2>2
<1>6. Max(T) \in T /\ \A y \in T : Max(T) >= y
  BY <1>5 DEF Max
<1>7. \A y \in T : y \in Int
  OBVIOUS
<1> QED
  BY <1>6, <1>7

\* A file in front of all others is put in front of their fingerprints.
LEMMA LinkedInFront ==
  ASSUME NEW files \in SUBSET Nat, AreOf(files), fingerprints \in Seq(Fingerprints),
         NEW m \in Nat, \A f \in files : m < f,
         NEW x \in Fingerprints, x = Loaded(Files[m]),
         fingerprints' = <<x>> \o fingerprints, UNCHANGED dir
  PROVE  AreOf(files \cup {m})'
<1> DEFINE n == Len(fingerprints)
<1>1. PICK order \in [DOMAIN fingerprints -> files] :
        /\ \A f \in files : \E i \in DOMAIN order : order[i] = f
        /\ \A i, j \in DOMAIN order : i < j => order[i] < order[j]
        /\ \A i \in DOMAIN order : fingerprints[i] = Loaded(Files[order[i]])
  BY DEF AreOf
<1>2. /\ n \in Nat /\ DOMAIN fingerprints = 1 .. n
      /\ DOMAIN fingerprints' = 1 .. (n + 1) /\ fingerprints'[1] = x
      /\ \A i \in 2 .. (n + 1) : fingerprints'[i] = fingerprints[i - 1]
  OBVIOUS
<1> HIDE DEF n
<1> DEFINE longer == [i \in 1 .. (n + 1) |-> IF i = 1 THEN m ELSE order[i - 1]]
<1>3. /\ DOMAIN order = 1 .. n /\ \A i \in 1 .. n : order[i] \in files /\ order[i] \in Nat
  BY <1>1, <1>2
<1>4. \A i \in 2 .. (n + 1) : i - 1 \in 1 .. n
  BY <1>2
<1>5. DOMAIN longer = 1 .. (n + 1) /\ 1 \in 1 .. (n + 1) /\ longer[1] = m
      /\ \A i \in 2 .. (n + 1) : longer[i] = order[i - 1]
  BY <1>2
<1>6. \A i \in 1 .. (n + 1) : i = 1 \/ i \in 2 .. (n + 1)
  BY <1>2
<1>7. longer \in [DOMAIN fingerprints' -> files \cup {m}]
  BY <1>2, <1>3, <1>4, <1>6
<1> HIDE DEF longer
<1>8. ASSUME NEW f \in files \cup {m} PROVE \E i \in DOMAIN longer : longer[i] = f
  <2>1. CASE f = m
    BY <1>5, <2>1
  <2>2. CASE f \in files
    <3>1. PICK i \in 1 .. n : order[i] = f
      BY <1>1, <1>3, <2>2
    <3>2. i + 1 \in 2 .. (n + 1) /\ i + 1 \in 1 .. (n + 1) /\ (i + 1) - 1 = i
      BY <1>2
    <3> QED
      BY <1>5, <3>1, <3>2
  <2> QED
    BY <2>1, <2>2
<1>9. ASSUME NEW i \in DOMAIN longer, NEW j \in DOMAIN longer, i < j
      PROVE  longer[i] < longer[j]
  <2>1. i \in 1 .. (n + 1) /\ j \in 2 .. (n + 1)
    BY <1>2, <1>5, <1>9
  <2>2. CASE i = 1
    BY <1>3, <1>4, <1>5, <2>1, <2>2
  <2>3. CASE i \in 2 .. (n + 1)
    <3>1. i - 1 \in 1 .. n /\ j - 1 \in 1 .. n /\ i - 1 < j - 1
      BY <1>2, <1>9, <2>1, <2>3
    <3> QED
      BY <1>1, <1>3, <1>5, <2>1, <2>3, <3>1
  <2> QED
    BY <1>6, <2>1, <2>2, <2>3
<1>10. ASSUME NEW i \in DOMAIN longer
       PROVE  fingerprints'[i] = Loaded(Files[longer[i]])
  <2>1. CASE i = 1
    BY <1>2, <1>5, <2>1
  <2>2. CASE i \in 2 .. (n + 1)
    <3>1. /\ i - 1 \in DOMAIN order /\ longer[i] = order[i - 1]
          /\ fingerprints'[i] = fingerprints[i - 1]
      BY <1>2, <1>3, <1>4, <1>5, <2>2
    <3> QED
      BY <1>1, <3>1
  <2> QED
    BY <1>5, <1>6, <2>1, <2>2
<1> QED
  BY <1>7, <1>8, <1>9, <1>10 DEF AreOf, Loaded, Unfiltered

\* The list and the files stay as they are.
LEMMA FilesKept ==
  ASSUME FilesInv, step # "crashed", UNCHANGED <<dir, namelist, fingerprints>>,
         step' \notin {"dir", "next", "done"} => namelist # {}, step' # "done",
         step' # "crashed" => Linked' = Linked
  PROVE  FilesInv'
<1>1. Matching' = Matching
  BY DEF Matching
<1> QED
  BY <1>1 DEF FilesInv, AreOf, Loaded, Unfiltered

\* The file that is loaded.
LEMMA TheFile ==
  ASSUME FilesInv, namelist # {}
  PROVE  /\ Max(namelist) \in namelist /\ \A f \in namelist : f <= Max(namelist)
         /\ Max(namelist) \in DOMAIN Files /\ DOMAIN Files \subseteq Nat
         /\ Max(namelist) \in Matching
         /\ File.fails \in {"nothing", "open", "stat", "read"} /\ File.samples \in Nat
         /\ File.name \in Seq(STRING)
<1> DEFINE R == [name : Seq(STRING), fails : {"nothing", "open", "stat", "read"},
                 samples : Nat]
<1>1. Files \in Seq(R)
  BY FingerprintLoadAssumption DEF FingerprintLoadAssumption
<1> HIDE DEF R
<1>2. DOMAIN Files = 1 .. Len(Files) /\ Len(Files) \in Nat /\ DOMAIN Files \subseteq Nat
  BY <1>1
<1>3. namelist \in SUBSET (1 .. Len(Files)) /\ namelist \subseteq Matching
  BY <1>2 DEF FilesInv, Matching
<1>4. Max(namelist) \in namelist /\ \A f \in namelist : f <= Max(namelist)
  BY <1>2, <1>3, Largest
<1> DEFINE m == Max(namelist)
<1> HIDE DEF m
<1>5. m \in DOMAIN Files
  BY <1>2, <1>3, <1>4 DEF m
<1>6. Files[m] \in R
  BY <1>1, <1>5
<1>7. File = Files[m]
  BY DEF File, m
<1>8. /\ File.fails \in {"nothing", "open", "stat", "read"} /\ File.samples \in Nat
      /\ File.name \in Seq(STRING)
  BY <1>6, <1>7 DEF R
<1> QED
  BY <1>2, <1>3, <1>4, <1>5, <1>8 DEF m

LEMMA LoadStep == ASSUME LoadInv, Loading PROVE LoadInv'
<1>1. FilesInv /\ StepInv
  BY DEF LoadInv
<1>2. CASE scandir
  <2>1. /\ step = "dir" /\ step' = "next" /\ dir'.files \subseteq DOMAIN Files
        /\ namelist' = Matching' /\ UNCHANGED <<held, len, ret, fingerprints>>
    BY <1>2 DEF scandir, Matching
  <2>2. held = {} /\ fingerprints = <<>>
    BY <1>1, <2>1 DEF StepInv
  <2>3. Matching' \ namelist' = {} /\ Linked' = FALSE
    BY <2>1 DEF Linked
  <2>4. AreOf({})'
    <3>1. fingerprints' = <<>> /\ DOMAIN fingerprints' = {}
      BY <2>1, <2>2
    <3> DEFINE none == [i \in {} |-> 0]
    <3>2. none \in [DOMAIN fingerprints' -> {}] /\ DOMAIN none = {}
      BY <3>1
    <3> QED
      BY <3>1, <3>2 DEF AreOf
  <2>5. {f \in Matching' \ namelist' : Files[f].fails = "nothing"} \cup
          (IF Linked' THEN {Max(namelist')} ELSE {}) = {}
    BY <2>3
  <2>6. AreOf({f \in Matching \ namelist : Files[f].fails = "nothing"} \cup
                (IF Linked THEN {Max(namelist)} ELSE {}))'
    BY <2>4, <2>5 DEF AreOf
  <2>7. FilesInv'
    BY <1>1, <2>1, <2>3, <2>6 DEF FilesInv
  <2>8. StepInv'
    BY <2>1, <2>2 DEF StepInv
  <2> QED
    BY <2>7, <2>8 DEF LoadInv
<1>3. CASE fingerprints_load
  <2>1. /\ step = "next" /\ step' = IF namelist = {} THEN "done" ELSE "open"
        /\ ret' = -1 /\ held' = held \cup (IF namelist = {} THEN {} ELSE {"fn"})
        /\ UNCHANGED <<dir, namelist, fingerprints>>
    BY <1>3 DEF fingerprints_load
  <2>2. held = {}
    BY <1>1, <2>1 DEF StepInv
  <2>3. Linked' = FALSE /\ Linked = FALSE /\ Matching' = Matching
    BY <2>1 DEF Linked, Matching
  <2>4. FilesInv'
    BY <1>1, <2>1, <2>3 DEF FilesInv, AreOf, Loaded, Unfiltered
  <2>5. StepInv'
    BY <2>1, <2>2 DEF StepInv
  <2> QED
    BY <2>4, <2>5 DEF LoadInv
<1>4. ASSUME step \notin {"dir", "next", "done", "crashed"},
             step' \notin {"dir", "next", "done"},
             UNCHANGED <<dir, namelist, fingerprints>>, Linked' = Linked
      PROVE  FilesInv'
  BY <1>1, <1>4, FilesKept DEF FilesInv
<1>5. ASSUME namelist' = namelist PROVE File' = File
  BY <1>5 DEF File
<1>6. CASE open
  <2>1. step = "open" /\ held = {"fn"} /\ ret = -1
    BY <1>1, <1>6 DEF open, StepInv
  <2>2. UNCHANGED <<dir, namelist, ret, fingerprints>> /\ File' = File
    BY <1>5, <1>6 DEF open, Goes
  <2>3. FilesInv'
    BY <1>4, <1>6, <2>1, <2>2 DEF open, Goes, Linked
  <2>4. StepInv'
    BY <1>6, <2>1, <2>2 DEF open, Goes, StepInv, Fails
  <2> QED
    BY <2>3, <2>4 DEF LoadInv
<1>7. CASE fstat
  <2>1. step = "stat" /\ held = {"fn", "fd"} /\ ret = -1 /\ ~ Fails("open")
    BY <1>1, <1>7 DEF fstat, StepInv
  <2>2. UNCHANGED <<dir, namelist, ret, fingerprints>> /\ File' = File
    BY <1>5, <1>7 DEF fstat, Goes
  <2>3. FilesInv'
    BY <1>4, <1>7, <2>1, <2>2 DEF fstat, Goes, Linked
  <2>4. StepInv'
    BY <1>7, <2>1, <2>2 DEF fstat, Goes, StepInv, Fails
  <2> QED
    BY <2>3, <2>4 DEF LoadInv
<1>8. CASE read
  <2>1. /\ step = "read" /\ held = {"fn", "fd", "fp"} /\ ret = -1
        /\ ~ Fails("open") /\ ~ Fails("stat")
    BY <1>1, <1>8 DEF read, StepInv
  <2>2. /\ UNCHANGED <<dir, namelist, fingerprints, held>> /\ File' = File
        /\ \/ Fails("read") /\ step' = "close" /\ ret' = ret
           \/ /\ ~ Fails("read") /\ len' = File.samples /\ ret' = 0
              /\ step' = IF Unfiltered(File) THEN "filter" ELSE "link"
    BY <1>5, <1>8 DEF read, Goes
  <2>3. FilesInv'
    BY <1>4, <2>1, <2>2 DEF Linked
  <2>4. namelist # {}
    BY <1>1, <2>1 DEF FilesInv
  <2>5. ~ Fails("read") => Fails("nothing")
    BY <1>1, <2>1, <2>4, TheFile DEF Fails
  <2>6. CASE Fails("read")
    BY <2>1, <2>2, <2>3, <2>6 DEF LoadInv, StepInv, Fails
  <2>7. CASE ~ Fails("read") /\ Unfiltered(File)
    BY <2>1, <2>2, <2>3, <2>5, <2>7 DEF LoadInv, StepInv, Fails, Unfiltered
  <2>8. CASE ~ Fails("read") /\ ~ Unfiltered(File)
    <3>1. File.samples \in Nat
      BY <1>1, <2>4, TheFile
    <3>2. len' = Loaded(File).len
      BY <2>2, <2>8, <3>1 DEF Loaded
    <3> QED
      BY <2>1, <2>2, <2>3, <2>5, <2>8, <3>2 DEF LoadInv, StepInv, Fails, Loaded, Unfiltered
  <2> QED
    BY <2>6, <2>7, <2>8
<1>9. CASE sample_filter_avg
  <2>1. /\ step = "filter" /\ held = {"fn", "fd", "fp"} /\ ret = 0 /\ Fails("nothing")
        /\ Unfiltered(File) /\ len = File.samples
    BY <1>1, <1>9 DEF sample_filter_avg, StepInv
  <2>2. /\ UNCHANGED <<dir, namelist, fingerprints, held, ret>> /\ File' = File
        /\ step' = "link"
        /\ len' = IF len > FILTER_AVG_LEN THEN len - FILTER_AVG_LEN ELSE 0
    BY <1>5, <1>9 DEF sample_filter_avg, Goes
  <2>3. FilesInv'
    BY <1>4, <2>1, <2>2 DEF Linked
  <2>4. Loaded(File).len = len - FILTER_AVG_LEN
    BY <2>1 DEF Loaded
  <2>5. len' \in {0, Loaded(File).len}
    BY <2>2, <2>4
  <2>6. StepInv'
    BY <2>1, <2>2, <2>5 DEF StepInv, Fails, Loaded, Unfiltered
  <2> QED
    BY <2>3, <2>6 DEF LoadInv
<1>10. CASE link
  <2>1. /\ step = "link" /\ held = {"fn", "fd", "fp"} /\ ret = 0 /\ Fails("nothing")
        /\ len \in {0, Loaded(File).len}
    BY <1>1, <1>10 DEF link, StepInv
  <2>2. /\ UNCHANGED <<dir, namelist, ret>> /\ File' = File /\ Matching' = Matching
        /\ \/ step' = "crashed" /\ fingerprints' = fingerprints
           \/ /\ len > 0 /\ step' = "close" /\ held' = held \ {"fp"}
              /\ fingerprints' = <<[name |-> File.name, len |-> len]>> \o fingerprints
    BY <1>5, <1>10 DEF link, Matching
  <2>3. CASE step' = "crashed" /\ fingerprints' = fingerprints
    <3>1. FilesInv'
      BY <1>1, <2>1, <2>2, <2>3 DEF FilesInv
    <3>2. StepInv'
      BY <2>3 DEF StepInv
    <3> QED
      BY <3>1, <3>2 DEF LoadInv
  <2>4. CASE /\ len > 0 /\ step' = "close" /\ held' = held \ {"fp"}
             /\ fingerprints' = <<[name |-> File.name, len |-> len]>> \o fingerprints
    <3>1. PICK files : files = {f \in Matching \ namelist : Files[f].fails = "nothing"}
      OBVIOUS
    <3>2. PICK m : m = Max(namelist)
      OBVIOUS
    <3>3. namelist # {}
      BY <1>1, <2>1 DEF FilesInv
    <3>4. /\ m \in namelist /\ m \in DOMAIN Files /\ DOMAIN Files \subseteq Nat
          /\ File.samples \in Nat /\ File.name \in Seq(STRING)
      BY <1>1, <3>2, <3>3, TheFile
    <3>5. files \in SUBSET Nat /\ \A f \in files : m < f
      BY <1>1, <3>1, <3>4 DEF FilesInv, Matching
    <3>6. AreOf(files)
      <4>1. Linked = FALSE
        BY <2>1 DEF Linked
      <4> QED
        BY <1>1, <2>1, <3>1, <4>1 DEF FilesInv
    <3> DEFINE x == [name |-> File.name, len |-> len]
    <3>7. x = Loaded(Files[m])
      <4>1. len = Loaded(File).len
        BY <2>1, <2>4
      <4> QED
        BY <3>2, <4>1 DEF Loaded, File
    <3>8. x \in Fingerprints
      <4>1. len \in Int
        BY <2>1, <3>4, FingerprintLoadAssumption
           DEF Loaded, FingerprintLoadAssumption
      <4> QED
        BY <3>4, <4>1 DEF Fingerprints
    <3>9. PICK y : y = x
      OBVIOUS
    <3>10. fingerprints \in Seq(Fingerprints) /\ fingerprints' = <<y>> \o fingerprints
      BY <1>1, <2>4, <3>9 DEF FilesInv
    <3>11. AreOf(files \cup {m})'
      BY <3>4, <3>5, <3>6, <3>7, <3>8, <3>9, <3>10, <2>2, LinkedInFront
    <3>12. Linked' = TRUE
      BY <2>1, <2>2, <2>4 DEF Linked
    <3>13. files \cup {m} = {f \in Matching' \ namelist' : Files[f].fails = "nothing"} \cup
                            (IF Linked' THEN {Max(namelist')} ELSE {})
      BY <2>2, <3>1, <3>2, <3>12
    <3>14. AreOf({f \in Matching \ namelist : Files[f].fails = "nothing"} \cup
                  (IF Linked THEN {Max(namelist)} ELSE {}))'
      BY <3>11, <3>13 DEF AreOf
    <3>15. fingerprints' \in Seq(Fingerprints)
      BY <3>8, <3>9, <3>10
    <3>16. FilesInv'
      BY <1>1, <2>2, <2>4, <3>3, <3>14, <3>15 DEF FilesInv
    <3>17. StepInv'
      BY <2>1, <2>2, <2>4 DEF StepInv, Fails
    <3> QED
      BY <3>16, <3>17 DEF LoadInv
  <2> QED
    BY <2>2, <2>3, <2>4
<1>11. CASE close
  <2>1. step = "close" /\ step' = "end" /\ held' = held \ {"fd"}
        /\ UNCHANGED <<dir, namelist, ret, fingerprints>> /\ File' = File
    BY <1>5, <1>11 DEF close, Goes
  <2>2. FilesInv'
    BY <1>4, <2>1 DEF Linked
  <2>3. StepInv'
    BY <1>1, <2>1 DEF StepInv, Fails
  <2> QED
    BY <2>2, <2>3 DEF LoadInv
<1>12. CASE end
  <2>1. /\ step = "end" /\ step' = "next"
        /\ held' = held \ (IF ret = 0 THEN {"fn"} ELSE {"fn", "fp"})
        /\ namelist' = namelist \ {Max(namelist)}
        /\ UNCHANGED <<dir, len, ret, fingerprints>> /\ Matching' = Matching
    BY <1>12 DEF end, Matching
  <2>2. held' = {}
    BY <1>1, <2>1 DEF StepInv
  <2>3. PICK m : m = Max(namelist)
    OBVIOUS
  <2>4. namelist # {}
    BY <1>1, <2>1 DEF FilesInv
  <2>5. /\ m \in namelist /\ m \in DOMAIN Files /\ DOMAIN Files \subseteq Nat
        /\ m \in Matching /\ \A f \in namelist : f <= m
    BY <1>1, <2>3, <2>4, TheFile
  <2>6. ret = 0 <=> Files[m].fails = "nothing"
    BY <1>1, <2>1, <2>3 DEF StepInv, Fails, File
  <2>7. {f \in Matching \ namelist : Files[f].fails = "nothing"} \cup
          (IF Linked THEN {Max(namelist)} ELSE {})
        = {f \in Matching' \ namelist' : Files[f].fails = "nothing"} \cup
          (IF Linked' THEN {Max(namelist')} ELSE {})
    <3>1. Linked' = FALSE /\ (Linked <=> ret = 0)
      BY <2>1 DEF Linked
    <3>2. Matching' \ namelist' = (Matching \ namelist) \cup {m}
      BY <2>1, <2>3, <2>5
    <3> QED
      BY <2>3, <2>6, <3>1, <3>2
  <2>8. AreOf({f \in Matching \ namelist : Files[f].fails = "nothing"} \cup
                (IF Linked THEN {Max(namelist)} ELSE {}))'
    <3>1. PICK files : files = {f \in Matching \ namelist : Files[f].fails = "nothing"} \cup
                               (IF Linked THEN {Max(namelist)} ELSE {})
      OBVIOUS
    <3>2. AreOf(files)
      BY <1>1, <2>1, <3>1 DEF FilesInv
    <3>3. AreOf(files)'
      BY <2>1, <3>2 DEF AreOf, Loaded, Unfiltered
    <3> QED
      BY <2>7, <3>1, <3>3 DEF AreOf
  <2>9. \A f \in namelist', g \in Matching' \ namelist' : f < g
    <3>1. \A f \in namelist : f \in Nat
      BY <1>1, <2>5 DEF FilesInv, Matching
    <3>2. \A f \in namelist' : f \in namelist /\ f < m
      BY <2>1, <2>3, <2>5, <3>1
    <3> QED
      BY <1>1, <2>1, <2>3, <2>5, <3>2 DEF FilesInv
  <2>10. FilesInv'
    BY <1>1, <2>1, <2>8, <2>9 DEF FilesInv
  <2>11. StepInv'
    BY <2>1, <2>2 DEF StepInv
  <2> QED
    BY <2>10, <2>11 DEF LoadInv
<1> QED
  BY <1>2, <1>3, <1>6, <1>7, <1>8, <1>9, <1>10, <1>11, <1>12 DEF Loading

-----------------------------------------------------------------------------
(***************************************************************************)
(* The theorems.                                                           *)
(***************************************************************************)

\* Whatever options and lines there are, and however the start goes on, each
\* allocated string and uplink has one owner, and the sound one source: cfg.c and
\* edysquelch.c.
THEOREM StartupInductive == Spec => []StartupInv
<1>1. Init => StartupInv
  <2>1. Init => ~ misfreed /\ pc = "cmdline" /\ ptr["sound_device"] = NULL
    BY DEF Init, ConfigInit, Owning
  <2> QED
    BY <2>1, OwnedInit DEF StartupInv, Owned, OneSource, NULL, Literal
<1>2. StartupInv /\ [Next]_vars => StartupInv'
  BY OwnedStep, OneSourceStep DEF StartupInv
<1> QED
  BY <1>1, <1>2, PTL DEF Spec

\* No string is used after it was freed or freed twice, by do_string, read_config or
\* free_config, and nothing is freed that was not allocated.
THEOREM DistinctOwners == Spec => []OwnersAreDistinct
<1>1. StartupInv => OwnersAreDistinct
  BY OwnedCounts DEF StartupInv
<1> QED
  BY <1>1, StartupInductive, PTL

\* Once the configuration was read, there is a device or a file to read the sound
\* from, never both, and the loop reads that one.
THEOREM SoundHasOneSource == Spec => []OneSource
<1>1. StartupInv => OneSource
  BY DEF StartupInv
<1> QED
  BY <1>1, StartupInductive, PTL

\* The invariant behind the next theorem: what of the directory is in the list, and
\* what the loading of a file holds at each of its steps.
THEOREM LoadInductive == Spec => []LoadInv
<1>1. Init => LoadInv
  <2> SUFFICES ASSUME Init PROVE LoadInv
    OBVIOUS
  <2>1. step = "dir" /\ dir.files = {} /\ namelist = {} /\ held = {} /\ fingerprints = <<>>
    BY DEF Init, LoadInit
  <2>2. Matching = {} /\ Linked = FALSE
    BY <2>1 DEF Matching, Linked
  <2>3. AreOf({})
    <3> DEFINE none == [i \in {} |-> 0]
    <3>1. none \in [DOMAIN fingerprints -> {}] /\ DOMAIN none = {}
      BY <2>1
    <3> QED
      BY <2>1, <3>1 DEF AreOf
  <2>4. {f \in Matching \ namelist : Files[f].fails = "nothing"} \cup
          (IF Linked THEN {Max(namelist)} ELSE {}) = {}
    BY <2>2
  <2>5. FilesInv
    BY <2>1, <2>2, <2>3, <2>4 DEF FilesInv
  <2>6. StepInv
    BY <2>1 DEF StepInv
  <2> QED
    BY <2>5, <2>6 DEF LoadInv
<1>2. LoadInv /\ [Next]_vars => LoadInv'
  <2> SUFFICES ASSUME LoadInv, [Next]_vars PROVE LoadInv'
    OBVIOUS
  <2>1. CASE Loading
    BY <2>1, LoadStep
  <2>2. CASE UNCHANGED loading
    BY <2>2 DEF loading, LoadInv, FilesInv, StepInv, Matching, Linked, AreOf, Loaded,
           Unfiltered, Fails, File
  <2> QED
    BY <2>1, <2>2 DEF Next, fork, load, jsonout_init, open_sound, closedown, Main, vars
<1> QED
  BY <1>1, <1>2, PTL DEF Spec

\* fingerprints_load: files that can be read and have samples, after they were filtered,
\* end up in the list in the order of their names, whatever else is in the directory,
\* and no file leaves anything behind.
THEOREM AllAreLoaded == Spec => []FingerprintsAreComplete
<1>1. LoadInv => FingerprintsAreComplete
  <2> SUFFICES ASSUME LoadInv, step = "done"
               PROVE  held = {} /\ AreOf({f \in dir.files : Loadable(Files[f])})
    BY DEF FingerprintsAreComplete
  <2>1. namelist = {} /\ Linked = FALSE /\ held = {}
    BY DEF LoadInv, FilesInv, StepInv, Linked
  <2>2. {f \in Matching \ namelist : Files[f].fails = "nothing"} \cup
          (IF Linked THEN {Max(namelist)} ELSE {}) = {f \in dir.files : Loadable(Files[f])}
    BY <2>1 DEF Matching, Loadable
  <2>3. AreOf({f \in Matching \ namelist : Files[f].fails = "nothing"} \cup
                (IF Linked THEN {Max(namelist)} ELSE {}))
    BY DEF LoadInv, FilesInv
  <2> QED
    BY <2>1, <2>2, <2>3
<1> QED
  BY <1>1, LoadInductive, PTL

-----------------------------------------------------------------------------
(***************************************************************************)
(* Recursive functions exist.                                              *)
(***************************************************************************)

\* A set of numbers that has 0 and the number after each of its own has them all.
LEMMA Induct ==
  ASSUME NEW T \in SUBSET Nat, 0 \in T, \A n \in T : n + 1 \in T
  PROVE  T = Nat
<1> SUFFICES ASSUME Nat \ T # {} PROVE FALSE
  OBVIOUS
<1>1. Nat \ T \in SUBSET Nat
  OBVIOUS
<1> DEFINE m == Min(Nat \ T)
<1>2. m \in Nat \ T /\ \A y \in Nat \ T : m <= y
  BY <1>1, Minimum
<1> HIDE DEF m
<1>3. m # 0 /\ m - 1 \in Nat /\ ~ (m <= m - 1)
  BY <1>2
<1>4. m - 1 \in T
  BY <1>2, <1>3
<1> QED
  BY <1>2, <1>3, <1>4

\* What G makes of a function at a point depends on its values for what is smaller.
Descending(D, R, size, G) ==
    /\ size \in [D -> Nat] /\ G \in [[D -> R] -> [D -> R]]
    /\ \A f, g \in [D -> R], x \in D :
          (\A y \in D : size[y] < size[x] => f[y] = g[y]) => G[f][x] = G[g][x]

\* Then there is a function that is defined in terms of itself by G.
LEMMA Recursion ==
  ASSUME NEW D, NEW R, NEW some \in R, NEW size, NEW G, Descending(D, R, size, G)
  PROVE  \E f \in [D -> R] : f = G[f]
<1>0. /\ size \in [D -> Nat] /\ G \in [[D -> R] -> [D -> R]]
      /\ \A f, g \in [D -> R], x \in D :
            (\A y \in D : size[y] < size[x] => f[y] = g[y]) => G[f][x] = G[g][x]
  BY DEF Descending
<1> USE <1>0
<1> DEFINE Upto(f, n) == \A x \in D : size[x] < n => f[x] = G[f][x]
<1>1. \A n \in Nat : \E f \in [D -> R] : Upto(f, n)
  <2> DEFINE T == {n \in Nat : \E f \in [D -> R] : Upto(f, n)}
  <2>1. 0 \in T
    <3>1. [x \in D |-> some] \in [D -> R]
      OBVIOUS
    <3>2. \A x \in D : size[x] \in Nat /\ ~ (size[x] < 0)
      OBVIOUS
    <3>3. \A f \in [D -> R] : Upto(f, 0)
      BY <3>2
    <3> QED
      BY <3>1, <3>3
  <2>2. ASSUME NEW n \in T PROVE n + 1 \in T
    <3>1. PICK f \in [D -> R] : Upto(f, n)
      OBVIOUS
    <3>2. G[f] \in [D -> R]
      OBVIOUS
    <3>3. ASSUME NEW x \in D, size[x] < n + 1 PROVE G[f][x] = G[G[f]][x]
      <4>1. ASSUME NEW y \in D, size[y] < size[x] PROVE f[y] = G[f][y]
        <5>1. size[y] \in Nat /\ size[x] \in Nat /\ n \in Nat
          OBVIOUS
        <5>2. size[y] < n
          BY <3>3, <4>1, <5>1
        <5> QED
          BY <3>1, <5>2
      <4> QED
        BY <3>2, <4>1
    <3> QED
      BY <3>2, <3>3
  <2>3. T \in SUBSET Nat
    OBVIOUS
  <2> HIDE DEF T
  <2>4. T = Nat
    BY <2>1, <2>2, <2>3, Induct
  <2> QED
    BY <2>4 DEF T
<1>2. ASSUME NEW f \in [D -> R], NEW g \in [D -> R], NEW k \in Nat, Upto(f, k), Upto(g, k)
      PROVE  \A x \in D : size[x] < k => f[x] = g[x]
  <2> DEFINE T == {n \in Nat : \A x \in D : size[x] < n /\ size[x] < k => f[x] = g[x]}
  <2>1. 0 \in T
    OBVIOUS
  <2>2. ASSUME NEW n \in T PROVE n + 1 \in T
    <3> SUFFICES ASSUME NEW x \in D, size[x] < n + 1, size[x] < k PROVE f[x] = g[x]
      OBVIOUS
    <3>1. ASSUME NEW y \in D, size[y] < size[x] PROVE f[y] = g[y]
      <4>1. size[y] \in Nat /\ size[x] \in Nat /\ n \in Nat
        OBVIOUS
      <4>2. size[y] < n /\ size[y] < k
        BY <3>1, <4>1
      <4> QED
        BY <4>2
    <3>2. G[f][x] = G[g][x]
      BY <3>1
    <3> QED
      BY <1>2, <3>2
  <2>3. T \in SUBSET Nat
    OBVIOUS
  <2> HIDE DEF T
  <2>4. T = Nat
    BY <2>1, <2>2, <2>3, Induct
  <2>5. k \in T
    BY <2>4
  <2> QED
    BY <2>5 DEF T
<1> DEFINE F(n) == CHOOSE f \in [D -> R] : Upto(f, n)
           h == [x \in D |-> F(size[x] + 1)[x]]
<1>3. ASSUME NEW n \in Nat PROVE F(n) \in [D -> R] /\ Upto(F(n), n)
  BY <1>1
<1>4. h \in [D -> R]
  <2> SUFFICES ASSUME NEW x \in D PROVE F(size[x] + 1)[x] \in R
    OBVIOUS
  <2>1. size[x] + 1 \in Nat
    OBVIOUS
  <2> QED
    BY <1>3, <2>1
<1>5. ASSUME NEW x \in D PROVE h[x] = G[h][x]
  <2> DEFINE n == size[x] + 1
  <2>1. n \in Nat /\ size[x] \in Nat /\ size[x] < n
    OBVIOUS
  <2>2. ASSUME NEW y \in D, size[y] < size[x] PROVE h[y] = F(n)[y]
    <3> DEFINE k == size[y] + 1
    <3>1. k \in Nat /\ size[y] < k /\ k <= n
      BY <2>2
    <3>2. Upto(F(n), n) /\ F(n) \in [D -> R]
      BY <1>3, <2>1
    <3>3. Upto(F(n), k)
      <4> SUFFICES ASSUME NEW w \in D, size[w] < k PROVE size[w] < n
        BY <3>2
      <4>1. size[w] \in Nat
        OBVIOUS
      <4> QED
        BY <4>1, <3>1, <2>1
    <3>4. Upto(F(k), k) /\ F(k) \in [D -> R]
      BY <1>3, <3>1
    <3> HIDE DEF Upto, F
    <3>5. F(k)[y] = F(n)[y]
      BY <1>2, <3>1, <3>2, <3>3, <3>4
    <3> QED
      BY <3>5
  <2>3. F(n) \in [D -> R] /\ F(n)[x] = G[F(n)][x]
    BY <1>3, <2>1
  <2>4. h[x] = F(n)[x]
    OBVIOUS
  <2> HIDE DEF h, F, n
  <2>5. G[h][x] = G[F(n)][x]
    BY <1>4, <2>2, <2>3
  <2> QED
    BY <2>3, <2>4, <2>5
<1> HIDE DEF h
<1>6. G[h] \in [D -> R]
  BY <1>4
<1>7. h = G[h]
  BY <1>4, <1>5, <1>6
<1> QED
  BY <1>4, <1>7

-----------------------------------------------------------------------------
(***************************************************************************)
(* Lines of characters, and parse_string.                                  *)
(***************************************************************************)

\* What parse_string and ToSpace return.
Piece == [arg : Line, rest : Line, ok : BOOLEAN]

\* For lines, the shorter ones are smaller.
LEMMA LineRecursion ==
  ASSUME NEW R, NEW some \in R, NEW G \in [[Line -> R] -> [Line -> R]],
         \A f, g \in [Line -> R], x \in Line :
            (\A y \in Line : Len(y) < Len(x) => f[y] = g[y]) => G[f][x] = G[g][x]
  PROVE  \E f \in [Line -> R] : f = G[f]
<1> DEFINE size == [x \in Line |-> Len(x)]
<1>1. size \in [Line -> Nat] /\ \A x \in Line : size[x] = Len(x)
  BY LenProperties DEF Line
<1> HIDE DEF size
<1>2. \A f, g \in [Line -> R], x \in Line :
            (\A y \in Line : size[y] < size[x] => f[y] = g[y]) => G[f][x] = G[g][x]
  <2> SUFFICES ASSUME NEW f \in [Line -> R], NEW g \in [Line -> R], NEW x \in Line,
                      \A y \in Line : size[y] < size[x] => f[y] = g[y]
               PROVE  \A y \in Line : Len(y) < Len(x) => f[y] = g[y]
    OBVIOUS
  <2> SUFFICES ASSUME NEW y \in Line, Len(y) < Len(x) PROVE f[y] = g[y]
    OBVIOUS
  <2>1. size[y] < size[x]
    BY <1>1
  <2> QED
    BY <2>1
<1>3. size \in [Line -> Nat]
  BY <1>1
<1>4. Descending(Line, R, size, G)
  BY <1>2, <1>3 DEF Descending
<1> QED
  BY <1>4, Recursion

\* A set of lines that has each line of which it has the shorter ones has them all.
LEMMA LineInduction ==
  ASSUME NEW T, \A x \in Line : (\A y \in Line : Len(y) < Len(x) => y \in T) => x \in T
  PROVE  \A x \in Line : x \in T
<1> DEFINE N == {n \in Nat : \A x \in Line : Len(x) < n => x \in T}
<1>1. \A x \in Line : Len(x) \in Nat
  BY LenProperties DEF Line
<1> HIDE DEF Line
<1>2. 0 \in N
  BY <1>1
<1>3. ASSUME NEW n \in N PROVE n + 1 \in N
  <2> SUFFICES ASSUME NEW x \in Line, Len(x) < n + 1 PROVE x \in T
    OBVIOUS
  <2>1. ASSUME NEW y \in Line, Len(y) < Len(x) PROVE y \in T
    <3>1. Len(y) < n
      BY <1>1, <2>1
    <3> QED
      BY <3>1
  <2> QED
    BY <2>1
<1>4. N \in SUBSET Nat
  OBVIOUS
<1> HIDE DEF N
<1>5. N = Nat
  BY <1>2, <1>3, <1>4, Induct
<1> SUFFICES ASSUME NEW x \in Line PROVE x \in T
  OBVIOUS
<1>6. Len(x) + 1 \in N /\ Len(x) < Len(x) + 1
  BY <1>1, <1>5
<1> QED
  BY <1>6 DEF N

\* What is left of a line.
LEMMA Cut ==
  ASSUME NEW s \in Line, s # <<>>
  PROVE  /\ Len(s) \in Nat \ {0} /\ Head(s) \in Characters /\ s[1] \in Characters /\ Head(s) = s[1]
         /\ Tail(s) \in Line /\ Len(Tail(s)) = Len(s) - 1
         /\ SubSeq(s, 2, Len(s)) = Tail(s)
         /\ Len(s) # 1 => /\ s[2] \in Characters
                          /\ SubSeq(s, 3, Len(s)) \in Line
                          /\ Len(SubSeq(s, 3, Len(s))) = Len(s) - 2
<1>1. Len(s) \in Nat \ {0} /\ \A i \in 1..Len(s) : s[i] \in Characters
  BY EmptySeq, ElementOfSeq DEF Line
<1>2. /\ Head(s) \in Characters /\ Tail(s) \in Line /\ Len(Tail(s)) = Len(s) - 1
      /\ SubSeq(s, 2, Len(s)) = Tail(s)
  BY HeadTailProperties, TailIsSubSeq DEF Line
<1>3. Head(s) = s[1] /\ s[1] \in Characters
  BY <1>1 DEF Line
<1>4. ASSUME Len(s) # 1 PROVE /\ s[2] \in Characters
                              /\ SubSeq(s, 3, Len(s)) \in Line
                              /\ Len(SubSeq(s, 3, Len(s))) = Len(s) - 2
  <2>1. 2 \in 1..Len(s) /\ \A i \in 3..Len(s) : s[i] \in Characters
    <3> DEFINE n == Len(s)
    <3>1. n \in Nat \ {0} /\ n # 1 /\ \A i \in 1..n : s[i] \in Characters
      BY <1>1, <1>4
    <3> HIDE DEF n
    <3>2. 2 \in 1..n /\ \A i \in 3..n : i \in 1..n
      BY <3>1
    <3>3. 2 \in 1..n /\ \A i \in 3..n : s[i] \in Characters
      BY <3>1, <3>2
    <3> QED
      BY <3>3 DEF n
  <2>2. /\ SubSeq(s, 3, Len(s)) \in Seq(Characters)
        /\ Len(SubSeq(s, 3, Len(s))) = IF 3 <= Len(s) THEN Len(s) - 3 + 1 ELSE 0
    BY <2>1, <1>1, SubSeqProperties
  <2>3. Len(s) # 1 /\ Len(s) \in Nat \ {0}
    BY <1>1, <1>4
  <2>4. (IF 3 <= Len(s) THEN Len(s) - 3 + 1 ELSE 0) = Len(s) - 2
    <3> DEFINE n == Len(s)
    <3> HIDE DEF n
    <3>1. n # 1 /\ n \in Nat \ {0}
      BY <2>3 DEF n
    <3>2. (IF 3 <= n THEN n - 3 + 1 ELSE 0) = n - 2
      BY <3>1
    <3> QED
      BY <3>2 DEF n
  <2>5. s[2] \in Characters
    BY <1>1, <2>1
  <2> QED
    BY <2>2, <2>4, <2>5 DEF Line
<1> QED
  BY <1>1, <1>2, <1>3, <1>4

\* Every line has a length, the empty one 0.
LEMMA EmptyLine == <<>> \in Line /\ Len(<<>>) = 0 /\ \A s \in Line : Len(s) \in Nat
  BY EmptySeq, LenProperties DEF Line

\* A line with a character put in front of it is a line.
LEMMA InFront ==
  ASSUME NEW c \in Characters, NEW s \in Line
  PROVE  <<c>> \o s \in Line /\ <<c>> \in Line
<1>1. <<c>> \in Seq(Characters)
  OBVIOUS
<1> QED
  BY <1>1, ConcatProperties DEF Line

\* One round of parse_string.
StringStep(f, str) ==
    IF str = <<>> \/ Head(str) = Quote THEN AtEnd(str)
    ELSE LET escape == Head(str) = Backslash
             after == f[SubSeq(str, IF escape THEN 3 ELSE 2, Len(str))]
             char == IF escape THEN Escaped(str[2]) ELSE str[1]
         IN  IF escape /\ Len(str) = 1 THEN [NoArg EXCEPT !.ok = FALSE]
             ELSE [after EXCEPT !.arg = <<char>> \o @]

\* parse_string is what its definition says.
LEMMA ParseString ==
  /\ parse_string \in [Line -> Piece]
  /\ \A str \in Line : parse_string[str] = StringStep(parse_string, str)
<1> DEFINE G == [f \in [Line -> Piece] |-> [str \in Line |-> StringStep(f, str)]]
<1>1. NoArg \in Piece /\ [NoArg EXCEPT !.ok = FALSE] \in Piece
  BY EmptyLine DEF NoArg, Piece
<1>2. ASSUME NEW str \in Line, str = <<>> \/ Head(str) = Quote PROVE AtEnd(str) \in Piece
  <2>1. (IF str = <<>> THEN <<>> ELSE Tail(str)) \in Line
    BY Cut, EmptyLine
  <2> QED
    BY <2>1, <1>1 DEF AtEnd, Piece, NoArg
<1>3. ASSUME NEW str \in Line, ~ (str = <<>> \/ Head(str) = Quote), 
             NEW f, \A y \in Line : Len(y) < Len(str) => f[y] \in Piece,
             ~ (Head(str) = Backslash /\ Len(str) = 1)
      PROVE  LET escape == Head(str) = Backslash
                 rest == SubSeq(str, IF escape THEN 3 ELSE 2, Len(str))
                 char == IF escape THEN Escaped(str[2]) ELSE str[1]
             IN  /\ rest \in Line /\ Len(rest) < Len(str) /\ char \in Characters
                 /\ [f[rest] EXCEPT !.arg = <<char>> \o @] \in Piece
  <2> DEFINE escape == Head(str) = Backslash
             rest == SubSeq(str, IF escape THEN 3 ELSE 2, Len(str))
             char == IF escape THEN Escaped(str[2]) ELSE str[1]
  <2>1. rest \in Line /\ Len(rest) < Len(str)
    <3>1. CASE escape
      <4>1. Len(str) # 1
        BY <1>3, <3>1
      <4>2. SubSeq(str, 3, Len(str)) \in Line /\ Len(SubSeq(str, 3, Len(str))) = Len(str) - 2
        BY <1>3, <4>1, Cut
      <4>3. Len(str) \in Nat
        BY <1>3, Cut
      <4> QED
        BY <3>1, <4>2, <4>3
    <3>2. CASE ~ escape
      <4>1. SubSeq(str, 2, Len(str)) \in Line /\ Len(SubSeq(str, 2, Len(str))) = Len(str) - 1
        BY <1>3, Cut
      <4>2. Len(str) \in Nat
        BY <1>3, Cut
      <4> QED
        BY <3>2, <4>1, <4>2
    <3> QED
      BY <3>1, <3>2
  <2>2. char \in Characters
    <3>1. str[1] \in Characters /\ (escape => str[2] \in Characters)
      BY <1>3, Cut
    <3>2. Escaped(str[2]) \in {str[2]} \cup {Escapes[e] : e \in Letters}
      BY DEF Escaped
    <3>3. \A e \in Letters : Escapes[e] \in Characters
      BY CfgLineAssumption
    <3> QED
      BY <3>1, <3>2, <3>3
  <2> HIDE DEF rest, char
  <2>3. f[rest] \in Piece
    BY <2>1, <1>3
  <2>4. f[rest].arg \in Line
    BY <2>3 DEF Piece
  <2>5. <<char>> \o f[rest].arg \in Line
    BY <2>2, <2>4, InFront
  <2>6. [f[rest] EXCEPT !.arg = <<char>> \o @] \in Piece
    <3>1. PICK p \in Piece : p = f[rest]
      BY <2>3
    <3>2. PICK a \in Line : a = <<char>> \o p.arg
      BY <2>5, <3>1
    <3>3. [p EXCEPT !.arg = a] \in Piece
      BY <3>1 DEF Piece
    <3> QED
      BY <3>1, <3>2, <3>3
  <2> QED
    BY <2>1, <2>2, <2>6 DEF rest, char
<1>4. ASSUME NEW str \in Line, NEW f, \A y \in Line : Len(y) < Len(str) => f[y] \in Piece
      PROVE  StringStep(f, str) \in Piece
  BY <1>1, <1>2, <1>3, <1>4 DEF StringStep
<1>5. G \in [[Line -> Piece] -> [Line -> Piece]]
  BY <1>4
<1>6. ASSUME NEW f \in [Line -> Piece], NEW g \in [Line -> Piece], NEW x \in Line,
             \A y \in Line : Len(y) < Len(x) => f[y] = g[y]
      PROVE  G[f][x] = G[g][x]
  <2>1. StringStep(f, x) = StringStep(g, x)
    BY <1>3, <1>6 DEF StringStep
  <2> QED
    BY <2>1
<1>7. PICK p \in [Line -> Piece] : p = G[p]
  <2> HIDE DEF G
  <2> QED
    BY ONLY <1>1, <1>5, <1>6, LineRecursion
<1>8. p = [str \in Line |-> StringStep(p, str)]
  BY <1>7
<1>9. parse_string = [str \in Line |-> StringStep(parse_string, str)]
  BY <1>8 DEF StringStep, parse_string
<1>10. \A str \in Line : parse_string[str] = StringStep(parse_string, str)
  BY <1>9
<1>11. \A str \in Line : parse_string[str] \in Piece
  <2> DEFINE T == {str \in Line : parse_string[str] \in Piece}
  <2>1. ASSUME NEW x \in Line, \A y \in Line : Len(y) < Len(x) => y \in T PROVE x \in T
    <3>1. \A y \in Line : Len(y) < Len(x) => parse_string[y] \in Piece
      BY <2>1
    <3>2. StringStep(parse_string, x) \in Piece
      BY ONLY <1>4, <3>1
    <3> QED
      BY <1>10, <3>2
  <2> HIDE DEF T
  <2>2. \A x \in Line : x \in T
    BY ONLY <2>1, LineInduction
  <2> QED
    BY <2>2 DEF T
<1> QED
  BY <1>9, <1>10, <1>11

-----------------------------------------------------------------------------
(***************************************************************************)
(* ToSpace and SkipSpaces.                                                 *)
(***************************************************************************)

\* One character more in front of what was found.
LEMMA Prefixed ==
  ASSUME NEW p \in Piece, NEW c \in Characters
  PROVE  /\ [p EXCEPT !.arg = <<c>> \o @] \in Piece
         /\ [p EXCEPT !.arg = <<c>> \o @] = [arg |-> <<c>> \o p.arg, rest |-> p.rest, ok |-> p.ok]
<1>1. p.arg \in Line /\ p.rest \in Line /\ p.ok \in BOOLEAN
  BY DEF Piece
<1>2. <<c>> \o p.arg \in Line
  BY <1>1, InFront
<1>3. PICK a \in Line : a = <<c>> \o p.arg
  BY <1>2
<1>4. [p EXCEPT !.arg = a] = [arg |-> a, rest |-> p.rest, ok |-> p.ok]
  BY DEF Piece
<1>5. [arg |-> a, rest |-> p.rest, ok |-> p.ok] \in Piece
  BY <1>1 DEF Piece
<1> QED
  BY <1>3, <1>4, <1>5

\* One round of ToSpace.
SpaceStep(f, cmd) ==
    IF cmd = <<>> \/ isspace(Head(cmd)) THEN [NoArg EXCEPT !.rest = cmd]
    ELSE LET after == f[Tail(cmd)] IN [after EXCEPT !.arg = <<Head(cmd)>> \o @]

\* ToSpace is what its definition says.
LEMMA FoundToSpace ==
  /\ ToSpace \in [Line -> Piece]
  /\ \A cmd \in Line : ToSpace[cmd] = SpaceStep(ToSpace, cmd)
<1> DEFINE G == [f \in [Line -> Piece] |-> [cmd \in Line |-> SpaceStep(f, cmd)]]
<1>1. ASSUME NEW cmd \in Line PROVE [NoArg EXCEPT !.rest = cmd] \in Piece
  BY EmptyLine DEF NoArg, Piece
<1>2. ASSUME NEW cmd \in Line, ~ (cmd = <<>> \/ isspace(Head(cmd)))
      PROVE  Tail(cmd) \in Line /\ Len(Tail(cmd)) < Len(cmd) /\ Head(cmd) \in Characters
  BY <1>2, Cut
<1>3. ASSUME NEW cmd \in Line, NEW f, \A y \in Line : Len(y) < Len(cmd) => f[y] \in Piece
      PROVE  SpaceStep(f, cmd) \in Piece
  <2>1. CASE cmd = <<>> \/ isspace(Head(cmd))
    BY <1>1, <2>1 DEF SpaceStep
  <2>2. CASE ~ (cmd = <<>> \/ isspace(Head(cmd)))
    <3>1. f[Tail(cmd)] \in Piece
      BY <1>2, <1>3, <2>2
    <3>2. [f[Tail(cmd)] EXCEPT !.arg = <<Head(cmd)>> \o @] \in Piece
      BY <3>1, <1>2, <2>2, Prefixed
    <3> QED
      BY <2>2, <3>2 DEF SpaceStep
  <2> QED
    BY <2>1, <2>2
<1>4. G \in [[Line -> Piece] -> [Line -> Piece]]
  BY <1>3
<1>5. ASSUME NEW f \in [Line -> Piece], NEW g \in [Line -> Piece], NEW x \in Line,
             \A y \in Line : Len(y) < Len(x) => f[y] = g[y]
      PROVE  G[f][x] = G[g][x]
  <2>1. SpaceStep(f, x) = SpaceStep(g, x)
    BY <1>2, <1>5 DEF SpaceStep
  <2> QED
    BY <2>1
<1>6. PICK p \in [Line -> Piece] : p = G[p]
  <2>1. <<>> \in Line
    BY EmptyLine
  <2> HIDE DEF G
  <2> QED
    BY ONLY <1>1, <1>4, <1>5, <2>1, LineRecursion
<1>7. p = [cmd \in Line |-> SpaceStep(p, cmd)]
  BY <1>6
<1>8. ToSpace = [cmd \in Line |-> SpaceStep(ToSpace, cmd)]
  BY <1>7 DEF SpaceStep, ToSpace
<1>9. \A cmd \in Line : ToSpace[cmd] = SpaceStep(ToSpace, cmd)
  BY <1>8
<1>10. \A cmd \in Line : ToSpace[cmd] \in Piece
  <2> DEFINE T == {cmd \in Line : ToSpace[cmd] \in Piece}
  <2>1. ASSUME NEW x \in Line, \A y \in Line : Len(y) < Len(x) => y \in T PROVE x \in T
    <3>1. \A y \in Line : Len(y) < Len(x) => ToSpace[y] \in Piece
      BY <2>1
    <3>2. SpaceStep(ToSpace, x) \in Piece
      BY ONLY <1>3, <3>1
    <3> QED
      BY <1>9, <3>2
  <2> HIDE DEF T
  <2>2. \A x \in Line : x \in T
    BY ONLY <2>1, LineInduction
  <2> QED
    BY <2>2 DEF T
<1> QED
  BY <1>8, <1>9, <1>10

\* One round of SkipSpaces.
SkipStep(f, cmd) == IF cmd = <<>> \/ ~ isspace(Head(cmd)) THEN cmd ELSE f[Tail(cmd)]

\* SkipSpaces is what its definition says.
LEMMA SpacesSkipped ==
  /\ SkipSpaces \in [Line -> Line]
  /\ \A cmd \in Line : SkipSpaces[cmd] = SkipStep(SkipSpaces, cmd)
<1> DEFINE G == [f \in [Line -> Line] |-> [cmd \in Line |-> SkipStep(f, cmd)]]
<1>1. ASSUME NEW cmd \in Line, cmd # <<>>
      PROVE  Tail(cmd) \in Line /\ Len(Tail(cmd)) < Len(cmd)
  BY <1>1, Cut
<1>2. ASSUME NEW cmd \in Line, NEW f, \A y \in Line : Len(y) < Len(cmd) => f[y] \in Line
      PROVE  SkipStep(f, cmd) \in Line
  BY <1>1, <1>2 DEF SkipStep
<1>3. G \in [[Line -> Line] -> [Line -> Line]]
  BY <1>2
<1>4. ASSUME NEW f \in [Line -> Line], NEW g \in [Line -> Line], NEW x \in Line,
             \A y \in Line : Len(y) < Len(x) => f[y] = g[y]
      PROVE  G[f][x] = G[g][x]
  <2>1. SkipStep(f, x) = SkipStep(g, x)
    BY <1>1, <1>4 DEF SkipStep
  <2> QED
    BY <2>1
<1>5. PICK p \in [Line -> Line] : p = G[p]
  <2>1. <<>> \in Line
    BY EmptyLine
  <2> HIDE DEF G
  <2> QED
    BY ONLY <1>3, <1>4, <2>1, LineRecursion
<1>6. p = [cmd \in Line |-> SkipStep(p, cmd)]
  BY <1>5
<1>7. SkipSpaces = [cmd \in Line |-> SkipStep(SkipSpaces, cmd)]
  BY <1>6 DEF SkipStep, SkipSpaces
<1>8. \A cmd \in Line : SkipSpaces[cmd] = SkipStep(SkipSpaces, cmd)
  BY <1>7
<1>9. \A cmd \in Line : SkipSpaces[cmd] \in Line
  <2> DEFINE T == {cmd \in Line : SkipSpaces[cmd] \in Line}
  <2>1. ASSUME NEW x \in Line, \A y \in Line : Len(y) < Len(x) => y \in T PROVE x \in T
    <3>1. \A y \in Line : Len(y) < Len(x) => SkipSpaces[y] \in Line
      BY <2>1
    <3>2. SkipStep(SkipSpaces, x) \in Line
      BY ONLY <1>2, <3>1
    <3> QED
      BY <1>8, <3>2
  <2> HIDE DEF T
  <2>2. \A x \in Line : x \in T
    BY ONLY <2>1, LineInduction
  <2> QED
    BY <2>2 DEF T
<1> QED
  BY <1>7, <1>8, <1>9

\* What follows is not longer than the line.
LEMMA NotLonger ==
  ASSUME NEW s \in Line
  PROVE  /\ Len(SkipSpaces[s]) <= Len(s) /\ Len(ToSpace[s].rest) <= Len(s)
         /\ Len(parse_string[s].rest) <= Len(s)
<1> DEFINE Short(x) == /\ Len(SkipSpaces[x]) <= Len(x)
                       /\ Len(ToSpace[x].rest) <= Len(x)
                       /\ Len(parse_string[x].rest) <= Len(x)
           T == {x \in Line : Short(x)}
<1>1. ASSUME NEW x \in Line, \A y \in Line : Len(y) < Len(x) => y \in T PROVE x \in T
  <2>0. Len(x) \in Nat /\ \A y \in Line : Len(y) < Len(x) => Short(y)
    BY <1>1, EmptyLine
  <2> HIDE DEF T
  <2>1. Len(SkipSpaces[x]) <= Len(x)
    <3>1. CASE x = <<>> \/ ~ isspace(Head(x))
      <4>1. SkipSpaces[x] = x
        BY <3>1, SpacesSkipped DEF SkipStep
      <4> QED
        BY <4>1, <2>0
    <3>2. CASE x # <<>> /\ isspace(Head(x))
      <4>1. SkipSpaces[x] = SkipSpaces[Tail(x)]
        BY <3>2, SpacesSkipped DEF SkipStep
      <4>2. Tail(x) \in Line /\ Len(Tail(x)) = Len(x) - 1
        BY <3>2, Cut
      <4>3. Len(SkipSpaces[Tail(x)]) <= Len(Tail(x))
        <5>1. Len(Tail(x)) < Len(x)
          <6>1. \A m, n \in Int : m = n - 1 => m < n
            OBVIOUS
          <6>2. Len(x) \in Int /\ Len(Tail(x)) \in Int
            BY <4>2, EmptyLine
          <6> HIDE DEF Short
          <6> QED
            BY <4>2, <6>1, <6>2
        <5> QED
          BY <4>2, <5>1, <2>0
      <4>4. Len(SkipSpaces[Tail(x)]) \in Nat
        BY <4>2, SpacesSkipped, EmptyLine
      <4> QED
        BY <4>1, <4>2, <4>3, <4>4, <2>0
    <3> QED
      BY <3>1, <3>2
  <2>2. Len(ToSpace[x].rest) <= Len(x)
    <3>1. CASE x = <<>> \/ isspace(Head(x))
      <4>1. ToSpace[x] = [NoArg EXCEPT !.rest = x]
        BY <3>1, FoundToSpace DEF SpaceStep
      <4>2. ToSpace[x].rest = x
        BY <4>1 DEF NoArg
      <4> QED
        BY <4>2, <2>0
    <3>2. CASE ~ (x = <<>> \/ isspace(Head(x)))
      <4>1. Tail(x) \in Line /\ Len(Tail(x)) = Len(x) - 1 /\ Head(x) \in Characters
        BY <3>2, Cut
      <4>2. ToSpace[x] = [ToSpace[Tail(x)] EXCEPT !.arg = <<Head(x)>> \o @]
        BY <3>2, FoundToSpace DEF SpaceStep
      <4>3. ToSpace[Tail(x)] \in Piece
        BY <4>1, FoundToSpace
      <4>4. ToSpace[x].rest = ToSpace[Tail(x)].rest
        BY <4>1, <4>2, <4>3, Prefixed
      <4>5. Len(ToSpace[Tail(x)].rest) <= Len(Tail(x))
        <5>1. Len(Tail(x)) < Len(x)
          BY <4>1, EmptyLine
        <5> QED
          BY <4>1, <5>1, <2>0
      <4>6. Len(ToSpace[Tail(x)].rest) \in Nat
        BY <4>3, EmptyLine DEF Piece
      <4> QED
        BY <4>1, <4>4, <4>5, <4>6, <2>0
    <3> QED
      BY <3>1, <3>2
  <2>3. Len(parse_string[x].rest) <= Len(x)
    <3>1. CASE x = <<>>
      <4>1. parse_string[x].rest = <<>>
        BY <3>1, ParseString DEF StringStep, AtEnd, NoArg
      <4> QED
        BY <4>1, <3>1, EmptyLine
    <3>2. CASE x # <<>> /\ Head(x) = Quote
      <4>1. parse_string[x].rest = Tail(x)
        BY <3>2, ParseString DEF StringStep, AtEnd, NoArg
      <4>2. Len(Tail(x)) = Len(x) - 1
        BY <3>2, Cut
      <4> QED
        BY <4>1, <4>2, <2>0
    <3>3. CASE x # <<>> /\ Head(x) # Quote /\ Head(x) = Backslash /\ Len(x) = 1
      <4>1. parse_string[x].rest = <<>>
        BY <3>3, ParseString DEF StringStep, NoArg
      <4> QED
        BY <4>1, <3>3, EmptyLine
    <3>4. CASE x # <<>> /\ Head(x) # Quote /\ ~ (Head(x) = Backslash /\ Len(x) = 1)
      <4>1. PICK z \in Line, c \in Characters :
               /\ Len(z) < Len(x)
               /\ parse_string[x] = [parse_string[z] EXCEPT !.arg = <<c>> \o @]
        <5>1. CASE Head(x) = Backslash
          <6>1. /\ x[2] \in Characters
                /\ SubSeq(x, 3, Len(x)) \in Line /\ Len(SubSeq(x, 3, Len(x))) = Len(x) - 2
            BY <3>4, <5>1, Cut
          <6>2. parse_string[x] = [parse_string[SubSeq(x, 3, Len(x))] EXCEPT !.arg = <<Escaped(x[2])>> \o @]
            BY <3>4, <5>1, ParseString DEF StringStep
          <6>3. Escaped(x[2]) \in Characters
            BY <6>1, CfgLineAssumption DEF Escaped
          <6>4. Len(SubSeq(x, 3, Len(x))) < Len(x)
            BY <6>1, <2>0
          <6> QED
            BY <6>1, <6>2, <6>3, <6>4
        <5>2. CASE Head(x) # Backslash
          <6>1. /\ x[1] \in Characters /\ Tail(x) = SubSeq(x, 2, Len(x))
                /\ Tail(x) \in Line /\ Len(Tail(x)) = Len(x) - 1
            BY <3>4, Cut
          <6>2. parse_string[x] = [parse_string[Tail(x)] EXCEPT !.arg = <<x[1]>> \o @]
            BY <3>4, <5>2, <6>1, ParseString DEF StringStep
          <6>3. Len(Tail(x)) < Len(x)
            BY <6>1, <2>0
          <6> QED
            BY <6>1, <6>2, <6>3
        <5> QED
          BY <5>1, <5>2
      <4>2. parse_string[z] \in Piece
        BY ParseString
      <4>3. parse_string[x].rest = parse_string[z].rest
        BY <4>1, <4>2, Prefixed
      <4>4. Len(parse_string[z].rest) <= Len(z) /\ Len(z) \in Nat
        BY <4>1, <2>0, EmptyLine
      <4>5. Len(parse_string[z].rest) \in Nat
        BY <4>2, EmptyLine DEF Piece
      <4> QED
        BY <4>1, <4>3, <4>4, <4>5, <2>0
    <3> QED
      BY <3>1, <3>2, <3>3, <3>4
  <2> QED
    BY <2>1, <2>2, <2>3 DEF T
<1> HIDE DEF T
<1>2. s \in T
  BY <1>1, LineInduction
<1> QED
  BY <1>2 DEF T

-----------------------------------------------------------------------------
(***************************************************************************)
(* How a character is written and read.                                    *)
(***************************************************************************)

\* A character in front of a line.
LEMMA Fronted ==
  ASSUME NEW c \in Characters, NEW z \in Line
  PROVE  /\ <<c>> \o z \in Line /\ <<c>> \o z # <<>> /\ Len(<<c>> \o z) = 1 + Len(z)
         /\ Head(<<c>> \o z) = c /\ Tail(<<c>> \o z) = z
         /\ SubSeq(<<c>> \o z, 2, Len(<<c>> \o z)) = z
<1> DEFINE s == <<c>> \o z
<1>1. <<c>> \in Seq(Characters) /\ z \in Seq(Characters) /\ Len(<<c>>) = 1 /\ <<c>>[1] = c
      /\ Len(z) \in Nat
  BY LenProperties DEF Line
<1>2. /\ s \in Seq(Characters) /\ Len(s) = 1 + Len(z)
      /\ \A i \in 1 .. 1 + Len(z) : s[i] = IF i <= 1 THEN <<c>>[i] ELSE z[i - 1]
  BY <1>1, ConcatProperties
<1> HIDE DEF s
<1>3. s # <<>>
  BY <1>1, <1>2, EmptyLine
<1>4. s[1] = c /\ \A i \in 1..Len(z) : s[i + 1] = z[i]
  <2>1. 1 \in 1 .. 1 + Len(z) /\ 1 <= 1
    BY <1>1
  <2>2. ASSUME NEW i \in 1..Len(z) PROVE s[i + 1] = z[i]
    <3>1. i + 1 \in 1 .. 1 + Len(z) /\ ~ (i + 1 <= 1) /\ (i + 1) - 1 = i
      BY <1>1
    <3> QED
      BY <3>1, <1>2
  <2> QED
    BY <2>1, <2>2, <1>1, <1>2
<1>5. Head(s) = s[1]
  BY <1>2, <1>3
<1>6. /\ Tail(s) \in Seq(Characters) /\ Len(Tail(s)) = Len(s) - 1
      /\ \A i \in 1 .. Len(Tail(s)) : Tail(s)[i] = s[i + 1]
      /\ Tail(s) = SubSeq(s, 2, Len(s))
  BY <1>2, <1>3, HeadTailProperties, TailIsSubSeq
<1>7. Tail(s) = z
  <2>1. Len(Tail(s)) = Len(z)
    BY <1>1, <1>2, <1>6
  <2>2. \A i \in 1..Len(Tail(s)) : Tail(s)[i] = z[i]
    BY <2>1, <1>4, <1>6
  <2> QED
    BY <1>1, <1>6, <2>1, <2>2, SeqEqual
<1> QED
  BY <1>2, <1>3, <1>4, <1>5, <1>6, <1>7 DEF s, Line

\* Two characters in front of a line.
LEMMA Escape ==
  ASSUME NEW b \in Characters, NEW c \in Characters, NEW z \in Line
  PROVE  LET s == <<b, c>> \o z
         IN  /\ s \in Line /\ s # <<>> /\ Head(s) = b /\ s[2] = c /\ Len(s) # 1
             /\ SubSeq(s, 3, Len(s)) = z
<1> DEFINE s == <<b, c>> \o z
           t == <<c>> \o z
<1>1. s = <<b>> \o t
  <2>1. <<b, c>> = <<b>> \o <<c>>
    <3>1. <<b>> \in Seq(Characters) /\ <<c>> \in Seq(Characters) /\ <<b, c>> \in Seq(Characters)
      OBVIOUS
    <3>2. Len(<<b>>) = 1 /\ Len(<<c>>) = 1 /\ Len(<<b, c>>) = 2
      OBVIOUS
    <3> DEFINE w == <<b>> \o <<c>>
    <3>3. /\ w \in Seq(Characters) /\ Len(w) = Len(<<b>>) + Len(<<c>>)
          /\ \A i \in 1 .. Len(<<b>>) + Len(<<c>>) :
                w[i] = IF i <= Len(<<b>>) THEN <<b>>[i] ELSE <<c>>[i - Len(<<b>>)]
      BY <3>1, ConcatProperties
    <3> HIDE DEF w
    <3>4. Len(w) = 2 /\ w[1] = <<b>>[1] /\ w[2] = <<c>>[1]
      BY <3>2, <3>3
    <3>5. w[1] = b /\ w[2] = c
      BY <3>4
    <3>6. \A i \in 1..Len(<<b, c>>) : <<b, c>>[i] = w[i]
      <4>1. ASSUME NEW i \in 1..2 PROVE <<b, c>>[i] = w[i]
        <5>1. i = 1 \/ i = 2
          OBVIOUS
        <5>2. <<b, c>>[1] = b /\ <<b, c>>[2] = c
          OBVIOUS
        <5> QED
          BY <3>5, <5>1, <5>2
      <4> QED
        BY <3>2, <4>1
    <3>7. Len(<<b, c>>) = Len(w)
      BY <3>2, <3>4
    <3> QED
      BY <3>1, <3>3, <3>6, <3>7, SeqEqual DEF w
  <2>2. <<b>> \in Seq(Characters) /\ <<c>> \in Seq(Characters) /\ z \in Seq(Characters)
    BY DEF Line
  <2> QED
    BY <2>1, <2>2, ConcatAssociative
<1>2. t \in Line /\ t # <<>> /\ Len(t) = 1 + Len(z) /\ Head(t) = c /\ Tail(t) = z
  BY Fronted
<1> HIDE DEF t
<1>3. /\ <<b>> \o t \in Line /\ <<b>> \o t # <<>> /\ Len(<<b>> \o t) = 1 + Len(t)
      /\ Head(<<b>> \o t) = b /\ Tail(<<b>> \o t) = t
  BY <1>2, Fronted
<1>4. s \in Line /\ s # <<>> /\ Len(s) = 1 + Len(t) /\ Head(s) = b /\ Tail(s) = t
  BY <1>1, <1>3
<1> HIDE DEF s
<1>5. Len(z) \in Nat /\ Len(s) = 2 + Len(z)
  BY <1>2, <1>4, EmptyLine
<1>6. s \in Seq(Characters) /\ 2 \in 1 .. Len(s) /\ Len(s) \in 2 .. Len(s) /\ Len(s) # 1
  BY <1>4, <1>5 DEF Line
<1>7. Tail(SubSeq(s, 2, Len(s))) = SubSeq(s, 2 + 1, Len(s)) /\ Head(SubSeq(s, 2, Len(s))) = s[2]
  BY <1>6, HeadTailOfSubSeq
<1>8. SubSeq(s, 2, Len(s)) = t
  BY <1>4, <1>6, TailIsSubSeq
<1>9. SubSeq(s, 3, Len(s)) = z /\ s[2] = c
  <2>1. 2 + 1 = 3
    OBVIOUS
  <2>2. Tail(t) = SubSeq(s, 3, Len(s)) /\ Head(t) = s[2]
    BY <1>7, <1>8, <2>1
  <2> QED
    BY <1>2, <2>2
<1> QED
  BY <1>4, <1>6, <1>9 DEF s

\* What the letters stand for.
LEMMA Letter ==
  /\ Escapes["n"] = "newline" /\ Escapes["t"] = "tab" /\ Escapes["v"] = "vertical tab"
  /\ Escapes["b"] = "backspace" /\ Escapes["r"] = "return" /\ Escapes["f"] = "form feed"
  /\ Escapes["a"] = "bell"
  BY DEF Escapes, Newline

\* The special characters are different characters.
LEMMA Special ==
  /\ Quote \in Characters /\ Backslash \in Characters /\ Space \in Characters
  /\ Newline \in Characters /\ Letters \subseteq Characters
  /\ Quote # Backslash /\ Quote # Space
  /\ Quote \notin Letters /\ Backslash \notin Letters
  /\ \A e \in Letters : Escapes[e] \in Characters /\ Escapes[e] \notin {Quote, Backslash}
  /\ Newline = Escapes["n"]
<1>1. Newline = Escapes["n"] /\ "n" \in Letters
  BY DEF Escapes, Letters
<1>2. \A e \in Letters : Escapes[e] \notin {Quote, Backslash}
  BY Letter DEF Quote, Backslash, Letters
<1>3. Quote # Backslash /\ Quote # Space /\ Quote \notin Letters /\ Backslash \notin Letters
  BY DEF Quote, Backslash, Space, Letters
<1>4. /\ {Quote, Backslash, Space} \cup Letters \subseteq Characters
      /\ \A e \in Letters : Escapes[e] \in Characters
  BY CfgLineAssumption
<1> QED
  BY <1>1, <1>2, <1>3, <1>4

\* The closing quote.
LEMMA StringEnds ==
  ASSUME NEW z \in Line
  PROVE  parse_string[<<Quote>> \o z] = [arg |-> <<>>, rest |-> z, ok |-> TRUE]
<1>1. /\ <<Quote>> \o z \in Line /\ <<Quote>> \o z # <<>> /\ Head(<<Quote>> \o z) = Quote
      /\ Tail(<<Quote>> \o z) = z
  BY Fronted, Special
<1>2. parse_string[<<Quote>> \o z] = AtEnd(<<Quote>> \o z)
  BY <1>1, ParseString DEF StringStep
<1>3. AtEnd(<<Quote>> \o z) = [arg |-> <<>>, rest |-> z, ok |-> TRUE]
  <2> DEFINE s == <<Quote>> \o z
  <2> HIDE DEF s
  <2>1. s # <<>> /\ Tail(s) = z
    BY <1>1 DEF s
  <2>2. AtEnd(s) = [arg |-> <<>>, rest |-> z, ok |-> TRUE]
    <3>1. AtEnd(s) = [NoArg EXCEPT !.rest = Tail(s)]
      BY <2>1 DEF AtEnd
    <3>2. [NoArg EXCEPT !.rest = z] = [arg |-> <<>>, rest |-> z, ok |-> TRUE]
      <4>1. NoArg \in Piece /\ NoArg.arg = <<>> /\ NoArg.ok = TRUE
        BY EmptyLine DEF NoArg, Piece
      <4>2. \A p \in Piece : [p EXCEPT !.rest = z] = [arg |-> p.arg, rest |-> z, ok |-> p.ok]
        BY DEF Piece
      <4> QED
        BY <4>1, <4>2
    <3> QED
      BY <2>1, <3>1, <3>2
  <2> QED
    BY <2>2 DEF s
<1> QED
  BY <1>2, <1>3

\* What stands for a character is read as that character.
LEMMA CharacterIsRead ==
  ASSUME NEW c \in Characters, NEW z \in Line
  PROVE  /\ Written(c) \in Line
         /\ parse_string[Written(c) \o z] =
              [arg |-> <<c>> \o parse_string[z].arg, rest |-> parse_string[z].rest,
               ok |-> parse_string[z].ok]
<1>1. parse_string[z] \in Piece
  BY ParseString
<1>2. [parse_string[z] EXCEPT !.arg = <<c>> \o @] =
        [arg |-> <<c>> \o parse_string[z].arg, rest |-> parse_string[z].rest,
         ok |-> parse_string[z].ok]
  BY <1>1, Prefixed
<1>3. ASSUME NEW e \in Characters, Written(c) = <<Backslash, e>>, Escaped(e) = c
      PROVE  /\ Written(c) \in Line
             /\ parse_string[Written(c) \o z] = [parse_string[z] EXCEPT !.arg = <<c>> \o @]
  <2> DEFINE s == <<Backslash, e>> \o z
  <2>1. /\ s \in Line /\ s # <<>> /\ Head(s) = Backslash /\ s[2] = e /\ Len(s) # 1
        /\ SubSeq(s, 3, Len(s)) = z
    BY Special, Escape
  <2> HIDE DEF s
  <2>2. parse_string[s] = [parse_string[z] EXCEPT !.arg = <<c>> \o @]
    BY <1>3, <2>1, ParseString, Special DEF StringStep
  <2>3. <<Backslash, e>> \in Line
    BY Special DEF Line
  <2> QED
    BY <1>3, <2>2, <2>3 DEF s
<1>4. CASE c \in {Quote, Backslash}
  <2>1. Written(c) = <<Backslash, c>> /\ Escaped(c) = c
    BY <1>4, Special DEF Written, Escaped
  <2> QED
    BY <1>2, <1>3, <2>1
<1>5. CASE \E e \in Letters : Escapes[e] = c
  <2> DEFINE e == CHOOSE e \in Letters : Escapes[e] = c
  <2>1. e \in Letters /\ Escapes[e] = c
    BY <1>5
  <2>2. Written(c) = <<Backslash, e>>
    BY <1>5, <2>1, Special DEF Written
  <2> HIDE DEF e
  <2>3. Escaped(e) = c /\ e \in Characters
    BY <2>1, Special DEF Escaped
  <2> QED
    BY <1>2, <1>3, <2>2, <2>3
<1>6. CASE c \notin {Quote, Backslash} /\ ~ \E e \in Letters : Escapes[e] = c
  <2>1. Written(c) = <<c>>
    BY <1>6 DEF Written
  <2> DEFINE s == <<c>> \o z
  <2>2. s \in Line /\ s # <<>> /\ Head(s) = c /\ SubSeq(s, 2, Len(s)) = z /\ s[1] = c /\ <<c>> \in Line
    BY Fronted, InFront, Cut
  <2> HIDE DEF s
  <2>3. parse_string[s] = [parse_string[z] EXCEPT !.arg = <<c>> \o @]
    BY <1>6, <2>2, ParseString DEF StringStep
  <2> QED
    BY <1>2, <2>1, <2>2, <2>3 DEF s
<1> QED
  BY <1>4, <1>5, <1>6

-----------------------------------------------------------------------------
(***************************************************************************)
(* How an argument is written in quotes and read.                          *)
(***************************************************************************)

\* One round of FlattenSeq.
FlatStep(f, seqs, i) == IF i = 1 THEN seqs[i] ELSE f[i - 1] \o seqs[i]

\* FlattenSeq puts one sequence behind the other.
LEMMA Flattened ==
  ASSUME NEW seqs \in Seq(Line), NEW n \in Nat \ {0}, n = Len(seqs)
  PROVE  \E f \in [1..n -> Line] : /\ f[n] = FlattenSeq(seqs)
                                   /\ \A i \in 1..n : f[i] = FlatStep(f, seqs, i)
<1> DEFINE D == 1..n
           size == [i \in D |-> i]
           G == [f \in [D -> Line] |-> [i \in D |-> FlatStep(f, seqs, i)]]
<1>1. ASSUME NEW f, NEW i \in D, i # 1 => f[i - 1] \in Line
      PROVE  FlatStep(f, seqs, i) \in Line
  <2>1. seqs[i] \in Line
    BY ElementOfSeq
  <2>2. \A s, t \in Line : s \o t \in Line
    BY ConcatProperties DEF Line
  <2> QED
    BY <1>1, <2>1, <2>2 DEF FlatStep
<1>2. \A i \in D : i # 1 => i - 1 \in D /\ i - 1 < i
  OBVIOUS
<1>3. G \in [[D -> Line] -> [D -> Line]]
  BY <1>1, <1>2
<1>4. ASSUME NEW f \in [D -> Line], NEW g \in [D -> Line], NEW x \in D,
             \A y \in D : size[y] < size[x] => f[y] = g[y]
      PROVE  G[f][x] = G[g][x]
  <2>1. x # 1 => f[x - 1] = g[x - 1]
    BY <1>2, <1>4
  <2>2. FlatStep(f, seqs, x) = FlatStep(g, seqs, x)
    BY <2>1 DEF FlatStep
  <2> QED
    BY <2>2
<1>5. size \in [D -> Nat]
  OBVIOUS
<1>6. PICK p \in [D -> Line] : p = G[p]
  <2> HIDE DEF G, size, D
  <2>1. Descending(D, Line, size, G)
    BY <1>3, <1>4, <1>5 DEF Descending
  <2>2. <<>> \in Line
    BY EmptyLine
  <2> QED
    BY ONLY <2>1, <2>2, Recursion
<1>7. p = [i \in 1..Len(seqs) |-> FlatStep(p, seqs, i)]
  BY <1>6
<1> DEFINE flatten == CHOOSE flatten : flatten = [i \in 1..Len(seqs) |-> FlatStep(flatten, seqs, i)]
<1>8. flatten = [i \in 1..Len(seqs) |-> FlatStep(flatten, seqs, i)]
  BY <1>7
<1>9. FlattenSeq(seqs) = flatten[Len(seqs)]
  BY DEF FlattenSeq, FlatStep
<1> HIDE DEF flatten
<1>10. \A i \in 1..n : flatten[i] = FlatStep(flatten, seqs, i)
  BY <1>8
<1>11. \A i \in 1..n : flatten[i] \in Line
  <2> DEFINE T == {k \in Nat : k \in 1..n => flatten[k] \in Line}
  <2>1. 0 \in T
    OBVIOUS
  <2>2. ASSUME NEW k \in T PROVE k + 1 \in T
    <3> SUFFICES ASSUME k + 1 \in 1..n PROVE flatten[k + 1] \in Line
      OBVIOUS
    <3>1. k + 1 # 1 => flatten[(k + 1) - 1] \in Line
      <4>1. k \in Nat /\ (k + 1) - 1 = k /\ (k + 1 # 1 => k \in 1..n)
        OBVIOUS
      <4> QED
        BY <4>1
    <3>2. FlatStep(flatten, seqs, k + 1) \in Line
      BY <3>1, <1>1
    <3> QED
      BY <1>10, <3>2
  <2>3. T \in SUBSET Nat
    OBVIOUS
  <2> HIDE DEF T
  <2>4. T = Nat
    BY <2>1, <2>2, <2>3, Induct
  <2> QED
    BY <2>4 DEF T
<1>12. flatten = [i \in 1..n |-> flatten[i]]
  BY <1>8
<1>13. flatten \in [1..n -> Line]
  BY <1>11, <1>12
<1> QED
  BY <1>9, <1>10, <1>13

\* Lines behind each other are a line...
LEMMA Behind ==
  ASSUME NEW s \in Line, NEW t \in Line
  PROVE  s \o t \in Line
  BY ConcatProperties DEF Line

\* ... wherever one begins.
LEMMA InTurn ==
  ASSUME NEW s \in Line, NEW t \in Line, NEW u \in Line
  PROVE  (s \o t) \o u = s \o (t \o u)
  BY ConcatAssociative DEF Line

\* What stands for an argument, and the quote behind it, is read as the argument.
LEMMA StringIsRead ==
  ASSUME NEW arg \in Line, NEW z \in Line
  PROVE  LET flat == FlattenSeq([i \in DOMAIN arg |-> Written(arg[i])])
         IN  /\ flat \in Line
             /\ parse_string[flat \o (<<Quote>> \o z)] = [arg |-> arg, rest |-> z, ok |-> TRUE]
<1> DEFINE n == Len(arg)
           seqs == [i \in DOMAIN arg |-> Written(arg[i])]
           ending == <<Quote>> \o z
<1>1. n \in Nat /\ DOMAIN arg = 1..n /\ \A i \in 1..n : arg[i] \in Characters
  BY LenProperties, ElementOfSeq DEF Line
<1>2. ending \in Line /\ parse_string[ending] = [arg |-> <<>>, rest |-> z, ok |-> TRUE]
  BY StringEnds, Fronted, Special
<1> HIDE DEF n, ending
<1>3. seqs \in Seq(Line) /\ Len(seqs) = n /\ \A i \in 1..n : seqs[i] = Written(arg[i])
  <2>1. seqs = [i \in 1..n |-> Written(arg[i])]
    BY <1>1
  <2>2. \A i \in 1..n : Written(arg[i]) \in Line
    BY <1>1, CharacterIsRead, EmptyLine
  <2>3. seqs \in [1..n -> Line]
    BY <2>1, <2>2
  <2> HIDE DEF seqs
  <2>4. seqs \in Seq(Line) /\ Len(seqs) = n
    BY <1>1, <2>1, <2>3
  <2> QED
    BY <2>1, <2>4
<1> HIDE DEF seqs
<1>4. CASE n = 0
  <2>1. FlattenSeq(seqs) = <<>>
    <3>1. seqs = <<>>
      BY <1>3, <1>4, EmptySeq
    <3> QED
      BY <3>1, <1>3, <1>4 DEF FlattenSeq
  <2>2. arg = <<>>
    BY <1>4, EmptySeq DEF n, Line
  <2>3. <<>> \o ending = ending
    BY <1>2, ConcatEmptySeq DEF Line
  <2> QED
    BY <1>2, <2>1, <2>2, <2>3, EmptyLine DEF seqs, ending
<1>5. CASE n # 0
  <2>1. PICK f \in [1..n -> Line] : /\ f[n] = FlattenSeq(seqs)
                                    /\ \A i \in 1..n : f[i] = FlatStep(f, seqs, i)
    BY <1>1, <1>3, <1>5, Flattened
  <2> DEFINE Read(i) == \A y \in Line :
               parse_string[f[i] \o y] = [arg |-> SubSeq(arg, 1, i) \o parse_string[y].arg,
                                          rest |-> parse_string[y].rest, ok |-> parse_string[y].ok]
             T == {k \in Nat : k \in 1..n => Read(k)}
  <2>2. ASSUME NEW k \in Nat, k \in 1..n => Read(k), k + 1 \in 1..n PROVE Read(k + 1)
    <3>0. SUFFICES ASSUME NEW y \in Line
                 PROVE  parse_string[f[k + 1] \o y] =
                          [arg |-> SubSeq(arg, 1, k + 1) \o parse_string[y].arg,
                           rest |-> parse_string[y].rest, ok |-> parse_string[y].ok]
      OBVIOUS
    <3> DEFINE c == arg[k + 1]
               p == parse_string[y]
    <3>1. k \in Nat /\ (k + 1) - 1 = k /\ k + 1 \in 1..n /\ (k # 0 => k + 1 # 1 /\ k \in 1..n)
      BY <2>2, <1>1
    <3>2. c \in Characters /\ seqs[k + 1] = Written(c)
      BY <1>1, <1>3, <3>1
    <3>3. /\ Written(c) \in Line /\ Written(c) \o y \in Line
          /\ parse_string[Written(c) \o y] = [arg |-> <<c>> \o p.arg, rest |-> p.rest, ok |-> p.ok]
      BY <3>2, CharacterIsRead, Behind
    <3>4. p.arg \in Line /\ <<c>> \in Line
      BY <3>2, ParseString, InFront DEF Piece
    <3> HIDE DEF c, p
    <3>5. CASE k = 0
      <4>1. f[k + 1] = Written(c)
        <5>1. k + 1 = 1 /\ f[k + 1] = FlatStep(f, seqs, k + 1)
          BY <2>1, <3>1, <3>5
        <5> QED
          BY <3>2, <5>1 DEF FlatStep
      <4>2. SubSeq(arg, 1, k + 1) = <<c>>
        <5>1. 1 \in 1..Len(arg) /\ arg \in Seq(Characters)
          <6>1. 1 \in 1..n
            BY <1>1, <3>1, <3>5
          <6> QED
            BY <6>1 DEF n, Line
        <5>2. SubSeq(arg, 1, 1) = <<arg[1]>> \o SubSeq(arg, 1 + 1, 1)
          BY <5>1, SubSeqRecursiveFirst
        <5>3. SubSeq(arg, 1 + 1, 1) = <<>>
          BY SubSeqEmpty
        <5>4. <<c>> \o <<>> = <<c>>
          BY <3>4, ConcatEmptySeq DEF Line
        <5> QED
          <6>1. k + 1 = 1
            BY <3>5
          <6>2. SubSeq(arg, 1, k + 1) = <<c>> \o <<>>
            BY <5>2, <5>3, <6>1 DEF c
          <6> QED
            BY <5>4, <6>2
      <4> QED
        BY <3>3, <4>1, <4>2 DEF p
    <3>6. CASE k # 0
      <4>1. Read(k) /\ k \in 1..n
        BY <3>1, <3>6, <2>2
      <4>2. f[k + 1] = f[k] \o Written(c)
        BY <2>1, <3>1, <3>2, <3>6 DEF FlatStep
      <4>3. f[k] \in Line
        BY <4>1
      <4>4. f[k + 1] \o y = f[k] \o (Written(c) \o y)
        <5>1. (f[k] \o Written(c)) \o y = f[k] \o (Written(c) \o y)
          BY ONLY <3>3, <4>3, y \in Line, InTurn
        <5> QED
          BY <4>2, <5>1
      <4>5. parse_string[f[k] \o (Written(c) \o y)] =
              [arg |-> SubSeq(arg, 1, k) \o (<<c>> \o p.arg), rest |-> p.rest, ok |-> p.ok]
        <5> DEFINE q == Written(c) \o y
        <5> HIDE DEF q
        <5>1. q \in Line /\ parse_string[q] = [arg |-> <<c>> \o p.arg, rest |-> p.rest, ok |-> p.ok]
          BY <3>3 DEF q
        <5>2. parse_string[f[k] \o q] = [arg |-> SubSeq(arg, 1, k) \o parse_string[q].arg,
                                         rest |-> parse_string[q].rest, ok |-> parse_string[q].ok]
          BY <4>1, <5>1
        <5>3. /\ parse_string[q].arg = <<c>> \o p.arg /\ parse_string[q].rest = p.rest
              /\ parse_string[q].ok = p.ok
          BY <5>1
        <5> QED
          BY <5>2, <5>3 DEF q
      <4>6. SubSeq(arg, 1, k) \o (<<c>> \o p.arg) = SubSeq(arg, 1, k + 1) \o p.arg
        <5>1. 1 \in 1..Len(arg) /\ k + 1 \in 1..Len(arg) /\ arg \in Seq(Characters)
          BY <3>1 DEF n, Line
        <5>2. SubSeq(arg, 1, k + 1) = SubSeq(arg, 1, (k + 1) - 1) \o <<arg[k + 1]>>
          BY <5>1, SubSeqRecursiveSecond
        <5>3. SubSeq(arg, 1, k + 1) = SubSeq(arg, 1, k) \o <<c>>
          BY <3>1, <5>2 DEF c
        <5>4. SubSeq(arg, 1, k) \in Line
          <6>1. \A i \in 1..k : arg[i] \in Characters
            BY <1>1, <3>1
          <6> QED
            BY <3>1, <6>1, SubSeqProperties DEF Line
        <5> QED
          <6>1. (SubSeq(arg, 1, k) \o <<c>>) \o p.arg = SubSeq(arg, 1, k) \o (<<c>> \o p.arg)
            BY ONLY <3>4, <5>4, InTurn
          <6> QED
            BY <5>3, <6>1
      <4> QED
        BY <4>4, <4>5, <4>6 DEF p
    <3> QED
      BY <3>5, <3>6
  <2> HIDE DEF Read
  <2>3. 0 \in T /\ T \in SUBSET Nat
    BY <1>1
  <2>4. ASSUME NEW k \in T PROVE k + 1 \in T
    <3>1. k \in Nat /\ (k \in 1..n => Read(k)) /\ k + 1 \in Nat
      OBVIOUS
    <3>2. k + 1 \in 1..n => Read(k + 1)
      BY <2>2, <3>1
    <3> QED
      BY <3>1, <3>2
  <2> HIDE DEF T
  <2>5. T = Nat
    BY <2>3, <2>4, Induct
  <2>6. Read(n)
    <3>1. n \in T /\ n \in 1..n
      BY <1>1, <1>5, <2>5
    <3> QED
      BY <3>1 DEF T
  <2>7. SubSeq(arg, 1, n) = arg /\ arg \o <<>> = arg
    BY SubSeqFull, ConcatEmptySeq DEF n, Line
  <2>8. parse_string[f[n] \o ending] = [arg |-> SubSeq(arg, 1, n) \o <<>>, rest |-> z, ok |-> TRUE]
    <3>1. parse_string[f[n] \o ending] = [arg |-> SubSeq(arg, 1, n) \o parse_string[ending].arg,
                                         rest |-> parse_string[ending].rest,
                                         ok |-> parse_string[ending].ok]
      BY <1>2, <2>6 DEF Read
    <3>2. /\ parse_string[ending].arg = <<>> /\ parse_string[ending].rest = z
          /\ parse_string[ending].ok = TRUE
      BY <1>2
    <3> QED
      BY <3>1, <3>2
  <2>9. f[n] \in Line
    BY <1>1, <1>5
  <2> QED
    BY <2>1, <2>7, <2>8, <2>9 DEF seqs, ending
<1> QED
  BY <1>4, <1>5

-----------------------------------------------------------------------------
(***************************************************************************)
(* How a plain argument is read, and all arguments.                        *)
(***************************************************************************)

\* A line begins with its head.
LEMMA HeadFirst ==
  ASSUME NEW s \in Line, s # <<>>
  PROVE  s = <<Head(s)>> \o Tail(s)
<1>1. s \in Seq(Characters) /\ Len(s) \in Nat \ {0}
  BY Cut DEF Line
<1>2. 1 \in 1..Len(s) /\ Len(s) \in 1..Len(s)
  BY <1>1
<1>3. SubSeq(s, 1, Len(s)) = <<s[1]>> \o SubSeq(s, 1 + 1, Len(s))
  BY <1>1, <1>2, SubSeqRecursiveFirst
<1>4. SubSeq(s, 1, Len(s)) = s
  BY <1>1, SubSeqFull
<1>5. 1 + 1 = 2 /\ Head(s) = s[1] /\ SubSeq(s, 2, Len(s)) = Tail(s)
  BY Cut
<1> QED
  BY <1>3, <1>4, <1>5

\* An argument without spaces is read up to the space behind it.
LEMMA PlainIsRead ==
  ASSUME NEW rest \in Line, rest # <<>>, isspace(Head(rest)),
         NEW arg \in Line, \A i \in DOMAIN arg : ~ isspace(arg[i])
  PROVE  ToSpace[arg \o rest] = [arg |-> arg, rest |-> rest, ok |-> TRUE]
<1> DEFINE Solid(w) == \A i \in DOMAIN w : ~ isspace(w[i])
           Read(w) == ToSpace[w \o rest] = [arg |-> w, rest |-> rest, ok |-> TRUE]
           T == {w \in Line : Solid(w) => Read(w)}
<1>1. ASSUME NEW w \in Line, \A y \in Line : Len(y) < Len(w) => y \in T PROVE w \in T
  <2> SUFFICES ASSUME Solid(w) PROVE Read(w)
    OBVIOUS
  <2>1. CASE w = <<>>
    <3>1. w \o rest = rest
      BY <2>1, ConcatEmptySeq DEF Line
    <3>2. ToSpace[rest] = [NoArg EXCEPT !.rest = rest]
      BY FoundToSpace DEF SpaceStep
    <3>3. NoArg \in Piece /\ NoArg.arg = <<>> /\ NoArg.ok = TRUE
      BY EmptyLine DEF NoArg, Piece
    <3>4. \A p \in Piece : [p EXCEPT !.rest = rest] = [arg |-> p.arg, rest |-> rest, ok |-> p.ok]
      BY DEF Piece
    <3> QED
      BY <2>1, <3>1, <3>2, <3>3, <3>4
  <2>2. CASE w # <<>>
    <3> DEFINE c == Head(w)
               v == Tail(w)
               s == <<c>> \o (v \o rest)
    <3>1. c \in Characters /\ v \in Line /\ w = <<c>> \o v /\ c = w[1] /\ Len(v) = Len(w) - 1
          /\ Len(w) \in Nat \ {0}
      BY <2>2, Cut, HeadFirst
    <3>2. DOMAIN w = 1..Len(w) /\ DOMAIN v = 1..Len(v) /\ Len(v) \in Nat
      BY <3>1, LenProperties DEF Line
    <3>3. \A i \in 1..Len(v) : v[i] = w[i + 1]
      BY <2>2, HeadTailProperties DEF Line
    <3> HIDE DEF c, v
    <3>4. ~ isspace(c)
      <4>1. 1 \in DOMAIN w
        BY <3>1, <3>2
      <4> QED
        BY <3>1, <4>1
    <3>5. Solid(v)
      <4> SUFFICES ASSUME NEW i \in DOMAIN v PROVE ~ isspace(v[i])
        OBVIOUS
      <4>1. i \in 1..Len(v) /\ i + 1 \in 1..Len(w)
        BY <3>1, <3>2
      <4>2. v[i] = w[i + 1] /\ i + 1 \in DOMAIN w
        BY <3>2, <3>3, <4>1
      <4> QED
        BY <4>2
    <3>6. Len(v) < Len(w)
      BY <3>1, <3>2
    <3>7. Read(v)
      BY <1>1, <3>1, <3>5, <3>6
    <3> HIDE DEF Solid
    <3>8. v \o rest \in Line
      BY <3>1, Behind
    <3>9. w \o rest = s
      <4>1. <<c>> \in Line
        BY <3>1, EmptyLine, InFront
      <4> QED
        BY <3>1, <4>1, InTurn
    <3>10. s \in Line /\ s # <<>> /\ Head(s) = c /\ Tail(s) = v \o rest
      BY <3>1, <3>8, Fronted
    <3> HIDE DEF s
    <3>11. ToSpace[s] = [ToSpace[v \o rest] EXCEPT !.arg = <<c>> \o @]
      BY <3>4, <3>10, FoundToSpace DEF SpaceStep
    <3>12. ToSpace[v \o rest] \in Piece
      BY <3>8, FoundToSpace
    <3>13. ToSpace[s] = [arg |-> <<c>> \o ToSpace[v \o rest].arg, rest |-> ToSpace[v \o rest].rest,
                         ok |-> ToSpace[v \o rest].ok]
      BY <3>1, <3>11, <3>12, Prefixed
    <3>14. /\ ToSpace[v \o rest].arg = v /\ ToSpace[v \o rest].rest = rest
           /\ ToSpace[v \o rest].ok = TRUE
      BY <3>7
    <3> QED
      BY <3>1, <3>9, <3>13, <3>14
  <2> QED
    BY <2>1, <2>2
<1> HIDE DEF T
<1>2. arg \in T
  BY <1>1, LineInduction
<1> QED
  BY <1>2 DEF T

\* What Args returns.
Result == [argv : Seq(Line), ok : BOOLEAN]

\* The first argument of a line, where it starts; and what comes behind it.
Next1(start) == IF Head(start) = Quote THEN parse_string[Tail(start)] ELSE ToSpace[start]
Following(next) == IF next.rest = <<>> THEN <<>> ELSE Tail(next.rest)

\* One round of Args.
ArgsStep(f, cmd) ==
    LET start == SkipSpaces[cmd]
        next == Next1(start)
        more == f[Following(next)]
    IN  IF start = <<>> THEN [argv |-> <<>>, ok |-> TRUE]
        ELSE IF ~ next.ok THEN [argv |-> <<>>, ok |-> FALSE]
        ELSE [more EXCEPT !.argv = <<next.arg>> \o @]

\* One argument more in front of what was found.
LEMMA Counted ==
  ASSUME NEW r \in Result, NEW a \in Line
  PROVE  /\ [r EXCEPT !.argv = <<a>> \o @] \in Result
         /\ [r EXCEPT !.argv = <<a>> \o @] = [argv |-> <<a>> \o r.argv, ok |-> r.ok]
<1>1. r.argv \in Seq(Line) /\ r.ok \in BOOLEAN
  BY DEF Result
<1>2. <<a>> \in Seq(Line)
  OBVIOUS
<1>3. PICK b \in Seq(Line) : b = <<a>> \o r.argv
  BY <1>1, <1>2, ConcatProperties
<1>4. [r EXCEPT !.argv = b] = [argv |-> b, ok |-> r.ok]
  BY DEF Result
<1>5. [argv |-> b, ok |-> r.ok] \in Result
  BY <1>1 DEF Result
<1> QED
  BY <1>3, <1>4, <1>5

\* Args is what its definition says.
LEMMA ArgsFound ==
  /\ Args \in [Line -> Result]
  /\ \A cmd \in Line : Args[cmd] = ArgsStep(Args, cmd)
<1> DEFINE G == [f \in [Line -> Result] |-> [cmd \in Line |-> ArgsStep(f, cmd)]]
<1>1. ASSUME NEW cmd \in Line, SkipSpaces[cmd] # <<>>
      PROVE  /\ Next1(SkipSpaces[cmd]) \in Piece
             /\ Following(Next1(SkipSpaces[cmd])) \in Line
             /\ Len(Following(Next1(SkipSpaces[cmd]))) < Len(cmd)
  <2> DEFINE start == SkipSpaces[cmd]
             next == Next1(start)
  <2>1. start \in Line /\ Len(start) <= Len(cmd) /\ Len(cmd) \in Nat
    BY SpacesSkipped, NotLonger, EmptyLine
  <2>2. start # <<>>
    BY <1>1
  <2> HIDE DEF start
  <2>3. Tail(start) \in Line /\ Len(Tail(start)) = Len(start) - 1 /\ Len(start) \in Nat \ {0}
    BY <2>1, <2>2, Cut
  <2>4. next \in Piece /\ Len(next.rest) <= Len(start)
    <3>1. CASE Head(start) = Quote
      <4>1. next = parse_string[Tail(start)]
        BY <3>1 DEF Next1
      <4>2. parse_string[Tail(start)] \in Piece
        BY <2>3, ParseString
      <4>3. Len(parse_string[Tail(start)].rest) <= Len(Tail(start))
        BY <2>3, NotLonger
      <4>4. Len(parse_string[Tail(start)].rest) \in Nat
        BY <4>2, EmptyLine DEF Piece
      <4>5. Len(parse_string[Tail(start)].rest) <= Len(start)
        BY <2>3, <4>3, <4>4
      <4> QED
        BY <4>1, <4>2, <4>5
    <3>2. CASE Head(start) # Quote
      <4>1. next = ToSpace[start]
        BY <3>2 DEF Next1
      <4> QED
        BY <2>1, <4>1, FoundToSpace, NotLonger
    <3> QED
      BY <3>1, <3>2
  <2> HIDE DEF next
  <2>5. next.rest \in Line
    BY <2>4 DEF Piece
  <2>6. Following(next) \in Line /\ Len(Following(next)) < Len(cmd)
    <3>1. CASE next.rest = <<>>
      <4>1. Following(next) = <<>>
        BY <3>1 DEF Following
      <4>2. Len(cmd) > 0
        BY <2>1, <2>3
      <4> QED
        BY <4>1, <4>2, EmptyLine
    <3>2. CASE next.rest # <<>>
      <4>1. Following(next) = Tail(next.rest)
        BY <3>2 DEF Following
      <4>2. /\ Tail(next.rest) \in Line /\ Len(Tail(next.rest)) = Len(next.rest) - 1
            /\ Len(next.rest) \in Nat
        BY <2>5, <3>2, Cut
      <4>3. Len(Tail(next.rest)) < Len(cmd)
        BY <2>1, <2>3, <2>4, <4>2
      <4> QED
        BY <4>1, <4>2, <4>3
    <3> QED
      BY <3>1, <3>2
  <2> QED
    BY <2>4, <2>6 DEF start, next
<1>2. [argv |-> <<>>, ok |-> TRUE] \in Result /\ [argv |-> <<>>, ok |-> FALSE] \in Result
  BY DEF Result
<1>3. ASSUME NEW cmd \in Line, NEW f, \A y \in Line : Len(y) < Len(cmd) => f[y] \in Result
      PROVE  ArgsStep(f, cmd) \in Result
  <2>1. CASE SkipSpaces[cmd] = <<>> \/ ~ Next1(SkipSpaces[cmd]).ok
    BY <1>2, <2>1 DEF ArgsStep
  <2>2. CASE ~ (SkipSpaces[cmd] = <<>> \/ ~ Next1(SkipSpaces[cmd]).ok)
    <3> DEFINE next == Next1(SkipSpaces[cmd])
    <3>1. next \in Piece /\ f[Following(next)] \in Result
      BY <1>1, <1>3, <2>2
    <3>2. ArgsStep(f, cmd) = [f[Following(next)] EXCEPT !.argv = <<next.arg>> \o @]
      BY <2>2 DEF ArgsStep
    <3> HIDE DEF next
    <3>3. next.arg \in Line
      BY <3>1 DEF Piece
    <3> QED
      <4>1. PICK r \in Result : r = f[Following(next)]
        BY <3>1
      <4>2. [r EXCEPT !.argv = <<next.arg>> \o @] \in Result
        BY <3>3, Counted
      <4> QED
        BY <3>2, <4>1, <4>2
  <2> QED
    BY <2>1, <2>2
<1>4. G \in [[Line -> Result] -> [Line -> Result]]
  BY <1>3
<1>5. ASSUME NEW f \in [Line -> Result], NEW g \in [Line -> Result], NEW x \in Line,
             \A y \in Line : Len(y) < Len(x) => f[y] = g[y]
      PROVE  G[f][x] = G[g][x]
  <2>1. ArgsStep(f, x) = ArgsStep(g, x)
    BY <1>1, <1>5 DEF ArgsStep
  <2> QED
    BY <2>1
<1>6. PICK p \in [Line -> Result] : p = G[p]
  <2> HIDE DEF G
  <2> QED
    BY ONLY <1>2, <1>4, <1>5, LineRecursion
<1>7. p = [cmd \in Line |-> ArgsStep(p, cmd)]
  BY <1>6
<1>8. Args = [cmd \in Line |-> ArgsStep(Args, cmd)]
  BY <1>7 DEF ArgsStep, Args, Next1, Following
<1>9. \A cmd \in Line : Args[cmd] = ArgsStep(Args, cmd)
  BY <1>8
<1>10. \A cmd \in Line : Args[cmd] \in Result
  <2> DEFINE T == {cmd \in Line : Args[cmd] \in Result}
  <2>1. ASSUME NEW x \in Line, \A y \in Line : Len(y) < Len(x) => y \in T PROVE x \in T
    <3>1. \A y \in Line : Len(y) < Len(x) => Args[y] \in Result
      BY <2>1
    <3>2. ArgsStep(Args, x) \in Result
      BY ONLY <1>3, <3>1
    <3> QED
      BY <1>9, <3>2
  <2> HIDE DEF T
  <2>2. \A x \in Line : x \in T
    BY ONLY <2>1, LineInduction
  <2> QED
    BY <2>2 DEF T
<1> QED
  BY <1>8, <1>9, <1>10

-----------------------------------------------------------------------------
(***************************************************************************)
(* Lines are read as they were meant.                                      *)
(***************************************************************************)

\* Whatever comes behind w and a space, the arguments in w are found in front of its own.
Takes(w, args) ==
    \A c \in {Space, Newline}, z \in Line :
       Args[w \o (<<c>> \o z)] = [argv |-> args \o Args[z].argv, ok |-> Args[z].ok]

\* What is a space.
LEMMA Spaces ==
  /\ isspace(Space) /\ isspace(Newline) /\ ~ isspace(Quote)
  /\ {Space, Newline} \subseteq Characters
<1>1. Escapes["n"] = Newline /\ Quote \notin {Escapes[e] : e \in {"n", "t", "v", "r", "f"}}
  BY Letter DEF Quote, Newline
<1> QED
  BY <1>1, Special DEF isspace

\* One argument, with the space behind it.
LEMMA OneArgument ==
  ASSUME NEW arg \in Line, NEW c \in {Space, Newline}, NEW z \in Line,
         NEW cmd \in Line, cmd # <<>>, ~ isspace(Head(cmd)),
         Next1(cmd) = [arg |-> arg, rest |-> <<c>> \o z, ok |-> TRUE]
  PROVE  Args[cmd] = [argv |-> <<arg>> \o Args[z].argv, ok |-> Args[z].ok]
<1>1. SkipSpaces[cmd] = cmd
  BY SpacesSkipped DEF SkipStep
<1>2. c \in Characters
  BY Spaces
<1>3. <<c>> \o z # <<>> /\ Tail(<<c>> \o z) = z
  BY <1>2, Fronted
<1>4. Following(Next1(cmd)) = z /\ Next1(cmd).ok /\ Next1(cmd).arg = arg
  BY <1>3 DEF Following
<1>5. Args[cmd] = ArgsStep(Args, cmd)
  BY ArgsFound
<1>6. ArgsStep(Args, cmd) = [Args[z] EXCEPT !.argv = <<arg>> \o @]
  BY <1>1, <1>4 DEF ArgsStep
<1>7. PICK r \in Result : r = Args[z]
  BY ArgsFound
<1>8. [r EXCEPT !.argv = <<arg>> \o @] = [argv |-> <<arg>> \o r.argv, ok |-> r.ok]
  BY Counted
<1> QED
  BY <1>5, <1>6, <1>7, <1>8

\* An argument in quotes is found.
LEMMA QuotedIsTaken ==
  ASSUME NEW arg \in Line
  PROVE  Quoted(arg) \in Line /\ Quoted(arg) # <<>> /\ Takes(Quoted(arg), <<arg>>)
<1> DEFINE flat == FlattenSeq([i \in DOMAIN arg |-> Written(arg[i])])
<1>1. flat \in Line /\ \A z \in Line : parse_string[flat \o (<<Quote>> \o z)]
                                         = [arg |-> arg, rest |-> z, ok |-> TRUE]
  BY StringIsRead, EmptyLine
<1>2. Quoted(arg) = <<Quote>> \o flat \o <<Quote>>
  BY DEF Quoted
<1> HIDE DEF flat
<1>3. <<Quote>> \in Line
  BY Special, EmptyLine, InFront
<1>4. Quoted(arg) = <<Quote>> \o (flat \o <<Quote>>) /\ flat \o <<Quote>> \in Line
  BY <1>1, <1>2, <1>3, InTurn, Behind
<1>5. Quoted(arg) \in Line /\ Quoted(arg) # <<>>
  BY <1>4, Special, Fronted
<1>6. ASSUME NEW c \in {Space, Newline}, NEW z \in Line
      PROVE  Args[Quoted(arg) \o (<<c>> \o z)] = [argv |-> <<arg>> \o Args[z].argv, ok |-> Args[z].ok]
  <2> DEFINE y == <<c>> \o z
             t == flat \o (<<Quote>> \o y)
             cmd == <<Quote>> \o t
  <2>1. y \in Line
    BY Spaces, Fronted
  <2> HIDE DEF y
  <2>2. <<Quote>> \o y \in Line
    BY <2>1, <1>3, Behind
  <2>3. t \in Line /\ parse_string[t] = [arg |-> arg, rest |-> y, ok |-> TRUE]
    BY <1>1, <2>1, <2>2, Behind
  <2>4. Quoted(arg) \o y = cmd
    <3>1. (<<Quote>> \o (flat \o <<Quote>>)) \o y = <<Quote>> \o ((flat \o <<Quote>>) \o y)
      BY ONLY <1>3, <1>4, <2>1, InTurn
    <3>2. (flat \o <<Quote>>) \o y = t
      BY ONLY <1>1, <1>3, <2>1, InTurn
    <3> QED
      BY <1>4, <3>1, <3>2
  <2> HIDE DEF t
  <2>5. cmd \in Line /\ cmd # <<>> /\ Head(cmd) = Quote /\ Tail(cmd) = t
    BY <2>3, Special, Fronted
  <2> HIDE DEF cmd
  <2>6. Next1(cmd) = [arg |-> arg, rest |-> <<c>> \o z, ok |-> TRUE]
    BY <2>3, <2>5 DEF Next1, y
  <2>7. ~ isspace(Head(cmd))
    BY <2>5, Spaces
  <2>8. Args[cmd] = [argv |-> <<arg>> \o Args[z].argv, ok |-> Args[z].ok]
    BY <2>5, <2>6, <2>7, OneArgument
  <2> QED
    BY <2>4, <2>8 DEF y
<1> QED
  BY <1>5, <1>6 DEF Takes

\* An argument as it is is found.
LEMMA PlainIsTaken ==
  ASSUME NEW arg \in Line, Plain(arg)
  PROVE  arg # <<>> /\ Takes(arg, <<arg>>)
<1>1. arg # <<>> /\ arg[1] # Quote /\ \A i \in DOMAIN arg : ~ isspace(arg[i])
  BY DEF Plain
<1>2. ASSUME NEW c \in {Space, Newline}, NEW z \in Line
      PROVE  Args[arg \o (<<c>> \o z)] = [argv |-> <<arg>> \o Args[z].argv, ok |-> Args[z].ok]
  <2> DEFINE y == <<c>> \o z
             cmd == arg \o y
  <2>1. y \in Line /\ y # <<>> /\ Head(y) = c
    BY Spaces, Fronted
  <2>2. isspace(Head(y))
    BY <2>1, Spaces
  <2> HIDE DEF y
  <2>3. ToSpace[cmd] = [arg |-> arg, rest |-> y, ok |-> TRUE]
    BY <1>1, <2>1, <2>2, PlainIsRead
  <2>4. cmd \in Line /\ cmd # <<>> /\ Head(cmd) = arg[1]
    <3>1. arg \in Seq(Characters) /\ y \in Seq(Characters) /\ Len(arg) \in Nat \ {0} /\ Len(y) \in Nat
      BY <1>1, <2>1, Cut DEF Line
    <3>2. /\ cmd \in Seq(Characters) /\ Len(cmd) = Len(arg) + Len(y)
          /\ \A i \in 1 .. Len(arg) + Len(y) : cmd[i] = IF i <= Len(arg) THEN arg[i] ELSE y[i - Len(arg)]
      BY <3>1, ConcatProperties
    <3> HIDE DEF cmd
    <3>3. Len(cmd) # 0 /\ 1 \in 1 .. Len(arg) + Len(y) /\ 1 <= Len(arg)
      BY <3>1, <3>2
    <3>4. cmd # <<>> /\ cmd[1] = arg[1]
      BY <3>2, <3>3, EmptyLine
    <3> QED
      BY <3>2, <3>4, Cut DEF Line
  <2>5. ~ isspace(arg[1]) /\ arg[1] # Quote
    <3>1. 1 \in DOMAIN arg
      <4>1. DOMAIN arg = 1..Len(arg) /\ Len(arg) \in Nat \ {0}
        BY <1>1, Cut, LenProperties DEF Line
      <4> QED
        BY <4>1
    <3> QED
      BY <1>1, <3>1
  <2> HIDE DEF cmd
  <2>6. Next1(cmd) = [arg |-> arg, rest |-> <<c>> \o z, ok |-> TRUE]
    BY <2>3, <2>4, <2>5 DEF Next1, y
  <2>7. Args[cmd] = [argv |-> <<arg>> \o Args[z].argv, ok |-> Args[z].ok]
    <3>1. cmd \in Line /\ cmd # <<>> /\ ~ isspace(Head(cmd))
      BY <2>4, <2>5
    <3> QED
      BY <2>6, <3>1, OneArgument
  <2> QED
    BY <2>7 DEF cmd, y
<1> QED
  BY <1>1, <1>2 DEF Takes

\* There is no argument in nothing.
LEMMA NothingIsRead ==
  /\ Args[<<>>] = [argv |-> <<>>, ok |-> TRUE]
  /\ Args[<<Newline>>] = [argv |-> <<>>, ok |-> TRUE]
<1>1. <<>> \in Line /\ <<Newline>> \in Line
  BY EmptyLine, Special, InFront
<1>2. SkipSpaces[<<>>] = <<>>
  BY <1>1, SpacesSkipped DEF SkipStep
<1>3. <<Newline>> # <<>> /\ Head(<<Newline>>) = Newline /\ Tail(<<Newline>>) = <<>>
  OBVIOUS
<1>4. SkipSpaces[<<Newline>>] = <<>>
  BY <1>1, <1>2, <1>3, Spaces, SpacesSkipped DEF SkipStep
<1> QED
  BY <1>1, <1>2, <1>4, ArgsFound DEF ArgsStep

\* Two texts with a space between them.
LEMMA BothAreTaken ==
  ASSUME NEW w \in Line, NEW args \in Seq(Line), Takes(w, args),
         NEW v \in Line, NEW arg \in Line, Takes(v, <<arg>>)
  PROVE  Takes(Append(w, Space) \o v, Append(args, arg)) /\ Append(w, Space) \o v \in Line
         /\ Append(args, arg) \in Seq(Line)
<1>1. Append(w, Space) = w \o <<Space>> /\ <<Space>> \in Line
  BY Special, EmptyLine, InFront, AppendIsConcat DEF Line
<1>2. Append(args, arg) = args \o <<arg>> /\ <<arg>> \in Seq(Line) /\ Append(args, arg) \in Seq(Line)
  BY AppendIsConcat
<1>3. Append(w, Space) \o v \in Line
  BY <1>1, Behind
<1>4. ASSUME NEW c \in {Space, Newline}, NEW z \in Line
      PROVE  Args[(Append(w, Space) \o v) \o (<<c>> \o z)] =
               [argv |-> Append(args, arg) \o Args[z].argv, ok |-> Args[z].ok]
  <2> DEFINE y == <<c>> \o z
  <2>1. y \in Line
    BY Spaces, Fronted
  <2>2. v \o y \in Line
    BY <2>1, Behind
  <2>3. Args[v \o y] = [argv |-> <<arg>> \o Args[z].argv, ok |-> Args[z].ok]
    BY DEF Takes
  <2> HIDE DEF y
  <2>4. (Append(w, Space) \o v) \o y = w \o (<<Space>> \o (v \o y))
    <3>1. ((w \o <<Space>>) \o v) \o y = (w \o <<Space>>) \o (v \o y)
      <4>1. w \o <<Space>> \in Line
        BY <1>1, Behind
      <4> DEFINE s == w \o <<Space>>
      <4> HIDE DEF s
      <4>2. (s \o v) \o y = s \o (v \o y)
        BY <2>1, <4>1, InTurn DEF s
      <4> QED
        BY <4>2 DEF s
    <3>2. (w \o <<Space>>) \o (v \o y) = w \o (<<Space>> \o (v \o y))
      BY ONLY <1>1, <2>2, InTurn, w \in Line
    <3> QED
      BY <1>1, <3>1, <3>2
  <2>5. Args[w \o (<<Space>> \o (v \o y))] =
          [argv |-> args \o Args[v \o y].argv, ok |-> Args[v \o y].ok]
    BY <2>2 DEF Takes
  <2>6. Args[v \o y].argv = <<arg>> \o Args[z].argv /\ Args[v \o y].ok = Args[z].ok
    BY <2>3
  <2>7. Args[z].argv \in Seq(Line)
    BY ArgsFound DEF Result
  <2>8. args \o (<<arg>> \o Args[z].argv) = Append(args, arg) \o Args[z].argv
    <3> DEFINE more == Args[z].argv
    <3> HIDE DEF more
    <3>1. more \in Seq(Line)
      BY <2>7 DEF more
    <3>2. (args \o <<arg>>) \o more = args \o (<<arg>> \o more)
      BY <1>2, <3>1, ConcatAssociative
    <3> QED
      BY <1>2, <3>2 DEF more
  <2> QED
    BY <2>4, <2>5, <2>6, <2>8 DEF y
<1> QED
  BY <1>2, <1>3, <1>4 DEF Takes
-----------------------------------------------------------------------------
\* The text of a line, however it goes on, is read as the arguments that were typed:
\* the invariant behind ArgsAreWhatWasWritten, for the next argument is put behind it.
LineInv ==
    /\ text \in Line /\ typed \in Seq(Line)
    /\ text = <<>> <=> typed = <<>>
    /\ typed # <<>> => Takes(text, typed)

\* It says what is read if nothing but the end of the line comes behind it.
LEMMA LineIsRead == LineInv => ArgsAreWhatWasWritten
<1> SUFFICES ASSUME LineInv PROVE parse_args(Append(text, Newline)) = typed
  BY DEF ArgsAreWhatWasWritten
<1>1. text \in Line /\ typed \in Seq(Line) /\ (text = <<>> <=> typed = <<>>)
  BY DEF LineInv
<1>2. <<Newline>> \in Line
  BY Special, EmptyLine, InFront
<1>3. CASE typed = <<>>
  <2>1. Append(text, Newline) = <<Newline>>
    BY <1>1, <1>3
  <2> QED
    BY <1>3, <2>1, NothingIsRead DEF parse_args
<1>4. CASE typed # <<>>
  <2>1. Append(text, Newline) = text \o <<Newline>>
    BY <1>1, Special, AppendIsConcat DEF Line
  <2>2. <<Newline>> \o <<>> = <<Newline>>
    BY <1>2, ConcatEmptySeq DEF Line
  <2>3. Args[text \o (<<Newline>> \o <<>>)] = [argv |-> typed \o Args[<<>>].argv, ok |-> Args[<<>>].ok]
    BY <1>4, EmptyLine DEF LineInv, Takes
  <2>4. Args[<<>>].argv = <<>> /\ Args[<<>>].ok = TRUE /\ typed \o <<>> = typed
    BY <1>1, NothingIsRead, ConcatEmptySeq
  <2> QED
    BY <2>1, <2>2, <2>3, <2>4 DEF parse_args
<1> QED
  BY <1>3, <1>4

\* One argument more keeps it.
LEMMA LineWrite == LineInv /\ Write => LineInv'
<1> SUFFICES ASSUME LineInv, Write PROVE LineInv'
  OBVIOUS
<1>1. text \in Line /\ typed \in Seq(Line) /\ (text = <<>> <=> typed = <<>>)
      /\ (typed # <<>> => Takes(text, typed))
  BY DEF LineInv
<1>2. PICK arg \in IF typed = <<>> THEN Directives ELSE Values :
        /\ typed' = Append(typed, arg)
        /\ \E written \in {Quoted(arg)} \cup (IF Plain(arg) THEN {arg} ELSE {}) :
              text' = (IF text = <<>> THEN <<>> ELSE Append(text, Space)) \o written
  BY DEF Write
<1>3. arg \in Line
  BY <1>2, ConfigAssumption
<1>4. PICK w \in Line : /\ w # <<>> /\ Takes(w, <<arg>>)
                        /\ text' = (IF text = <<>> THEN <<>> ELSE Append(text, Space)) \o w
  BY <1>2, <1>3, QuotedIsTaken, PlainIsTaken
<1>5. PICK t, a : t = text' /\ a = typed'
  OBVIOUS
<1>6. /\ t \in Line /\ a \in Seq(Line) /\ t # <<>> /\ a # <<>> /\ Takes(t, a)
  <2>1. CASE typed = <<>>
    <3>1. t = <<>> \o w /\ <<>> \o w = w
      BY <1>1, <1>4, <1>5, <2>1, ConcatEmptySeq DEF Line
    <3>2. a = <<arg>>
      BY <1>2, <1>5, <2>1
    <3> QED
      BY <1>3, <1>4, <3>1, <3>2
  <2>2. CASE typed # <<>>
    <3>1. t = Append(text, Space) \o w /\ a = Append(typed, arg)
      BY <1>1, <1>2, <1>4, <1>5, <2>2
    <3>2. Takes(t, a) /\ t \in Line /\ a \in Seq(Line)
      BY <1>1, <1>3, <1>4, <2>2, <3>1, BothAreTaken
    <3>3. a # <<>>
      BY <1>1, <1>3, <3>1
    <3>4. t # <<>>
      <4>1. Append(text, Space) \in Line
        BY <1>1, Special, AppendProperties DEF Line
      <4> QED
        BY <1>4, <3>1, <4>1, ConcatSimplifications DEF Line
    <3> QED
      BY <3>2, <3>3, <3>4
  <2> QED
    BY <2>1, <2>2
<1>7. Takes(t, a) => Takes(text', typed')
  BY <1>5
<1> QED
  BY <1>5, <1>6, <1>7 DEF LineInv, Takes

\* Every step does.
LEMMA LineStep == LineInv /\ [Next]_vars => LineInv'
<1> SUFFICES ASSUME LineInv, [Next]_vars PROVE LineInv'
  OBVIOUS
<1>1. CASE Write
  BY <1>1, LineWrite
<1>2. CASE text' = <<>> /\ typed' = <<>>
  BY <1>2, EmptyLine DEF LineInv
<1>3. CASE UNCHANGED <<text, typed>>
  BY <1>3 DEF LineInv, Takes
<1>4. Write \/ (text' = <<>> /\ typed' = <<>>) \/ UNCHANGED <<text, typed>>
  BY DEF Next, vars, Configuring, Option, parse_cmdline, cmdparse, read_config, config, file,
         fork, load, jsonout_init, open_sound, closedown, Main, free_config
<1> QED
  BY <1>1, <1>2, <1>3, <1>4

\* The invariant behind the next theorem: the line that is being written, with anything
\* behind it, would be read as what was typed, and then the rest.
THEOREM LineInductive == Spec => []LineInv
<1>1. Init => LineInv
  BY EmptyLine DEF Init, ConfigInit, LineInv
<1> QED
  BY <1>1, LineStep, PTL DEF Spec

\* However a line is written, with quotes, escapes and spaces, the arguments read
\* from it are those its author had in mind (parse_args and parse_string).
THEOREM LinesAreUnderstood == Spec => []ArgsAreWhatWasWritten
  BY LineInductive, LineIsRead, PTL
=============================================================================
