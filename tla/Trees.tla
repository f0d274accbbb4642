-------------------------------- MODULE Trees --------------------------------
(***************************************************************************)
(* The two users of the splay trees: the symbol table of spsymbol.c, where *)
(* names with the same CRC share a block, and the vessel cache of cache.c, *)
(* where reports are merged until the tree is taken away to be exported;   *)
(* and a user that calls splay.c as it likes.  A behaviour has one of them.*)
(*                                                                         *)
(* cache.c calls the trees with a mutex held, but for cache_free, so that  *)
(* a call is a step.  cache_free of a tree that was taken away shares the  *)
(* free list with the cache: it is a step too, which says that its caller  *)
(* keeps the other threads out (nothing in the program calls it).          *)
(***************************************************************************)
EXTENDS SplayTree, FiniteSets, FiniteSetsExt

CONSTANTS Keys,           \* of the user that calls splay.c
          Names, Crc(_),  \* the strings that become symbols, and their CRCs
          Mmsis, Reports, \* ships, and the values that are reported of them
          ReportLimit     \* bound: reports in a behaviour

\* spkey_t is unsigned.
ASSUME TreesAssumption == /\ Keys \subseteq Nat /\ Mmsis \subseteq Nat
                          /\ \A s \in Names : Crc(s) \in Nat

VARIABLES user,
          mem,            \* the memory of SplayTree
          entries,        \* symbols, or entries of the cache, that are allocated
          exporting,      \* "got" is a tree that cache_rotate returned
          released,       \* the blocks sp_free_freelist gave back at the end
          reports,
          dict            \* history: what the trees ought to hold

vars == <<user, mem, entries, exporting, released, reports, dict>>

\* The user's tree, and the one that is exported.
AllTrees == {"spt", "got"}

D == INSTANCE Dictionary WITH Trees <- AllTrees

Init == /\ user \in {"splay", "symbols", "cache"}
        /\ mem = NoTrees(AllTrees) /\ entries = 0
        /\ exporting = FALSE /\ released = {} /\ reports = 0
        /\ D!Init

\* The block that was found or installed last is the root of the tree.
WithData(m, v) == [m EXCEPT !.data[m.root["spt"]] = v]
------------------------------------------------------------------------------
Install(k) == /\ mem' = WithData(sp_install(mem, "spt", k), k)
              /\ D!Put("spt", k, k)

Lookup(k) == mem' = sp_lookup(mem, "spt", k) /\ D!Same

Delete(n) == mem' = sp_delete(mem, "spt", n) /\ D!Delete("spt", mem.key[n])

Null == mem' = sp_null(mem, "spt") /\ D!Clear("spt")

Splays == /\ user = "splay"
          /\ \/ \E k \in Keys : Install(k) \/ Lookup(k)
             \/ \E n \in 1..Len(mem.key) : Find(mem, "spt", mem.key[n]) = n /\ Delete(n)
             \/ Null
          /\ UNCHANGED <<entries, exporting, released, reports>>
------------------------------------------------------------------------------
\* A symbol is a pointer that malloc returns, and that fits into spkey_t, to its
\* name; those with one CRC are in a list.
Chain(s) == LET n == Find(mem, "spt", Crc(s)) IN IF n = NULL THEN <<>> ELSE mem.data[n]
Without(chain, i) == [j \in 1..(Len(chain) - 1) |-> chain[IF j < i THEN j ELSE j + 1]]
Found(s) == {i \in DOMAIN Chain(s) : Chain(s)[i].name = s}
Unused == Min({i \in 1..(entries + 1) : \A s \in Names : \A j \in DOMAIN Chain(s) :
                                            Chain(s)[j].id # i})

symbol_lookup_db_mem(s) == mem' = sp_lookup(mem, "spt", Crc(s)) /\ D!Same /\ UNCHANGED entries

symbol_db_mem(s) ==
    \/ Found(s) # {} /\ symbol_lookup_db_mem(s)
    \/ /\ Found(s) = {}
       /\ mem' = WithData(sp_install(mem, "spt", Crc(s)),
                          Append(Chain(s), [id |-> Unused, name |-> s]))
       /\ entries' = entries + 1
       /\ D!Put("spt", s, Unused)

\* A block without symbols is deleted.
symbol_free_db_mem(s) ==
    LET left == IF Found(s) = {} THEN Chain(s) ELSE Without(Chain(s), Min(Found(s)))
        found == sp_lookup(mem, "spt", Crc(s))
    IN  /\ mem' = IF Chain(s) = <<>> THEN found
                  ELSE IF left = <<>> THEN sp_delete(found, "spt", found.root["spt"])
                  ELSE WithData(found, left)
        /\ entries' = entries - Cardinality(Found(s))
        /\ D!Delete("spt", s)

\* The symbols of a list of blocks.
Symbols(blocks) ==
    Cardinality(UNION {{i} \X DOMAIN mem.data[blocks[i]] : i \in DOMAIN blocks})

symbol_null_db == /\ entries' = entries - Symbols(sp_scan(mem, "spt"))
                  /\ mem' = sp_null(mem, "spt")
                  /\ D!Clear("spt")

SymbolTable == /\ user = "symbols"
               /\ \/ \E s \in Names : \/ symbol_lookup_db_mem(s) \/ symbol_db_mem(s)
                                      \/ symbol_free_db_mem(s)
                  \/ symbol_null_db
               /\ UNCHANGED <<exporting, released, reports>>
------------------------------------------------------------------------------
\* What is known of a ship nobody reported.  Members that are set together are
\* one: the position, the type and the sizes, the name and the destination.
NewEntry == [position |-> 0, imo |-> -1, callsign |-> 0, name |-> 0,
             shiptype |-> -1, persons_on_board |-> -1]

cache_get(mmsi) == LET n == Find(mem, "spt", mmsi)
                   IN  IF n = NULL THEN NewEntry ELSE mem.data[n]

Overwritten(entry, new) ==
    [p \in DOMAIN entry |-> IF p \in DOMAIN new THEN new[p] ELSE entry[p]]

\* The members in `new' are overwritten, in the entry found or made.
Report(mmsi, new) ==
    LET known == mmsi \in DOMAIN dict["spt"]
    IN  /\ mem' = WithData(sp_install(mem, "spt", mmsi), Overwritten(cache_get(mmsi), new))
        /\ entries' = entries + (IF Find(mem, "spt", mmsi) = NULL THEN 1 ELSE 0)
        /\ reports' = reports + 1
        /\ D!Put("spt", mmsi, Overwritten(IF known THEN dict["spt"][mmsi] ELSE NewEntry, new))
        /\ UNCHANGED exporting

cache_position(mmsi, v) == Report(mmsi, [position |-> v])
cache_vesseldata(mmsi, v) == Report(mmsi, [imo |-> v, callsign |-> v, name |-> v, shiptype |-> v])
cache_vesseldatab(mmsi, v) == Report(mmsi, [imo |-> 0, callsign |-> v, shiptype |-> v])
cache_vesseldatabb(mmsi, v) == Report(mmsi, [imo |-> 0, shiptype |-> v])
cache_vesselname(mmsi, v) == Report(mmsi, [name |-> v])
cache_vessel_persons(mmsi, v) == Report(mmsi, [persons_on_board |-> v])

cache_rotate ==
    /\ ~ exporting
    /\ mem' = sp_init([mem EXCEPT !.root["got"] = mem.root["spt"],
                                  !.eltscnt["got"] = mem.eltscnt["spt"]], "spt")
    /\ exporting' = TRUE
    /\ D!Move("spt", "got")
    /\ UNCHANGED <<entries, released, reports>>

\* cache_free's loop deletes x, and what comes after it; freed counts the rounds.
FreeRound(q, s) ==
    IF s.x = NULL THEN s
    ELSE [m |-> sp_delete(s.m, q, s.x), x |-> sp_fnext(s.m, s.x), freed |-> s.freed + 1]

cache_free(q) == Loop(LAMBDA s : FreeRound(q, s),
                      [m |-> mem, x |-> sp_fhead(mem, q), freed |-> 0], mem)

cache_export == /\ exporting
                /\ mem' = cache_free("got").m
                /\ entries' = entries - cache_free("got").freed
                /\ exporting' = FALSE
                /\ D!Clear("got")
                /\ UNCHANGED <<released, reports>>

\* The blocks of the free list go back to malloc.  The head of the list still
\* points to them: nothing may be installed after that.
cache_deinit == /\ mem' = cache_free("spt").m
                /\ entries' = entries - cache_free("spt").freed
                /\ released' = FreeBlocks(mem')
                /\ user' = "ended"
                /\ D!Clear("spt")
                /\ UNCHANGED <<exporting, reports>>

Cache == \/ /\ user = "cache" /\ UNCHANGED <<user, released>>
            /\ \/ /\ reports < ReportLimit
                  /\ \E mmsi \in Mmsis, v \in Reports :
                       \/ cache_position(mmsi, v) \/ cache_vesseldata(mmsi, v)
                       \/ cache_vesseldatab(mmsi, v) \/ cache_vesseldatabb(mmsi, v)
                       \/ cache_vesselname(mmsi, v) \/ cache_vessel_persons(mmsi, v)
               \/ cache_rotate
         \/ user = "cache" /\ cache_deinit
         \/ user \in {"cache", "ended"} /\ cache_export /\ UNCHANGED user
------------------------------------------------------------------------------
Next == \/ (Splays \/ SymbolTable) /\ UNCHANGED user
        \/ Cache

Spec == Init /\ [][Next]_vars
------------------------------------------------------------------------------
\* The blocks of a tree, of both, and of the free list.
Blocks(q) == {n \in 1..Len(mem.key) : Find(mem, q, mem.key[n]) = n}
InTrees == Blocks("spt") \cup Blocks("got")

\* Uplinks mirror the links down, children are on their side of their parent, a
\* tree has as many blocks as it counts, and every block is in one tree or in the
\* free list; none of a tree was given back (splay.c, all of it).
TreesWellFormed ==
    /\ \A q \in AllTrees :
          /\ Cardinality(Blocks(q)) = mem.eltscnt[q]
          /\ mem.root[q] # NULL => mem.u[mem.root[q]] = NULL
          /\ \A n \in Blocks(q) :
                /\ mem.u[n] # NULL => mem.u[n] \in Blocks(q)
                /\ \A d \in Sides :
                      LET c == mem.kid[d][n]
                      IN  c # NULL => /\ c \in Blocks(q) /\ mem.u[c] = n
                                      /\ IF d = "l" THEN mem.key[c] < mem.key[n]
                                                   ELSE mem.key[n] < mem.key[c]
    /\ Blocks("spt") \cap Blocks("got") = {}
    /\ InTrees \cup FreeBlocks(mem) = 1..Len(mem.key)
    /\ InTrees \cap (FreeBlocks(mem) \cup released) = {}

\* What a tree holds: blocks, symbols or entries.
Contents(q) ==
    IF user = "symbols"
    THEN [s \in {s \in Names : q = "spt" /\ Found(s) # {}} |-> Chain(s)[Min(Found(s))].id]
    ELSE [k \in {mem.key[n] : n \in Blocks(q)} |-> mem.data[Find(mem, q, k)]]

\* However the tree was turned around, every key that was put in is found with
\* what was put there last, and no other: a symbol stays the same pointer until it
\* is freed, an entry has the latest of each report since the tree was rotated.
ContentsAreRight == \A q \in AllTrees : Contents(q) = dict[q]

\* Each symbol, and each entry of the cache, that is allocated is in a tree, and
\* where sp_scan and cache_free's loop get to it.
NothingLeaks ==
    entries = CASE user = "splay" -> 0
                [] user = "symbols" -> Symbols(sp_scan(mem, "spt"))
                [] OTHER -> Cardinality(InTrees)
==============================================================================
