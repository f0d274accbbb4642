------------------------------ MODULE SplayTree ------------------------------
(***************************************************************************)
(* src/src/splay.c: sorted dictionaries in trees of blocks with links up   *)
(* and down, reorganised by every access; the blocks of all trees come     *)
(* from one free list.                                                     *)
(*                                                                         *)
(* A block is a number.  The operators take a memory m and return the next *)
(* one: m.kid["l"], m.kid["r"] (leftlink, rightlink), m.u, m.key and       *)
(* m.data are the members of the blocks, m.root and m.eltscnt those of the *)
(* trees, m.free is sp_free_list.  Left and right are sides, so that a     *)
(* branch of the code and its mirror image are one.  The statistics are    *)
(* left out.                                                               *)
(***************************************************************************)
EXTENDS Integers, Sequences

CONSTANT SP_ALLOC_N     \* blocks allocated at a time

ASSUME SplayTreeAssumption == SP_ALLOC_N \in Nat \ {0}

NULL == 0
Sides == {"l", "r"}
Other(d) == IF d = "l" THEN "r" ELSE "l"

\* A loop that takes at most one round for each block; a round that finds it
\* done changes nothing.
Loop(Round(_), start, m) ==
    LET rounds[i \in 0..Len(m.key)] == IF i = 0 THEN start ELSE Round(rounds[i - 1])
    IN  rounds[Len(m.key)]

\* c becomes the child of p on side d.
Link(m, p, d, c) == LET linked == [m EXCEPT !.kid[d][p] = c]
                    IN  IF c = NULL THEN linked ELSE [linked EXCEPT !.u[c] = p]

NoTrees(Trees) == [kid |-> [d \in Sides |-> <<>>], u |-> <<>>, key |-> <<>>, data |-> <<>>,
                   root |-> [q \in Trees |-> NULL], eltscnt |-> [q \in Trees |-> 0],
                   free |-> NULL]

sp_init(m, q) == [m EXCEPT !.root[q] = NULL, !.eltscnt[q] = 0]
------------------------------------------------------------------------------
\* What is left in the other members, which is not read any more, is forgotten.
sp_free_blk(m, n) == [m EXCEPT !.kid["l"][n] = NULL, !.kid["r"][n] = NULL, !.u[n] = m.free,
                               !.key[n] = 0, !.data[n] = 0, !.free = n]

\* The free list, filled if it is empty; its head is the block that is allocated.
Filled(m) ==
    LET new == [i \in 1..SP_ALLOC_N |-> NULL]
        n == Len(m.key)
    IN  IF m.free # NULL THEN m
        ELSE [m EXCEPT !.kid = [d \in Sides |-> m.kid[d] \o new],
                       !.key = @ \o new, !.data = @ \o new,
                       !.u = @ \o [i \in 1..SP_ALLOC_N |-> IF i = 1 THEN NULL ELSE n + i - 1],
                       !.free = n + SP_ALLOC_N]

\* The blocks sp_free_freelist goes through.
FreeBlocks(m) == Loop(LAMBDA blocks : blocks \cup ({m.u[n] : n \in blocks} \ {NULL}),
                      {m.free} \ {NULL}, m)
------------------------------------------------------------------------------
\* mutant: the grandparent gets it on the wrong side
Rotate_OtherSide(m, q, up, upup, d) ==
    LET turned == Link(Link(m, upup, d, m.kid[Other(d)][up]), up, Other(d), upup)
        upupup == m.u[upup]
        side == IF turned.kid["l"][upupup] = upup THEN "l" ELSE "r"
    IN  IF upupup = NULL THEN [turned EXCEPT !.root[q] = up, !.u[up] = NULL]
        ELSE [turned EXCEPT !.kid[Other(side)][upupup] = up, !.u[up] = upupup]

\* up, on side d of upup, takes its place; upup gets up's child on the other side.
Rotate(m, q, up, upup, d) ==
    LET turned == Link(Link(m, upup, d, m.kid[Other(d)][up]), up, Other(d), upup)
        upupup == m.u[upup]
        side == IF turned.kid["l"][upupup] = upup THEN "l" ELSE "r"
        below == IF upupup = NULL THEN [turned EXCEPT !.root[q] = up]
                                  ELSE [turned EXCEPT !.kid[side][upupup] = up]
    IN  [below EXCEPT !.u[up] = upupup]

\* A round of _splay's loop: top has the subtrees built so far from what is to the
\* left and to the right of the block.
SplayRound(q, s) ==
    LET m == s.m
        up == s.up
        d == IF m.kid["l"][up] = s.prev THEN "l" ELSE "r"
        upup == m.u[up]
        rotates == upup # NULL /\ m.kid[d][upup] = up
    IN  IF up = NULL THEN s
        ELSE [m |-> Link(IF rotates THEN Rotate(m, q, up, upup, d) ELSE m,
                         up, d, s.top[Other(d)]),
              prev |-> up,
              up |-> IF rotates THEN m.u[upup] ELSE upup,
              top |-> [s.top EXCEPT ![Other(d)] = up]]

_splay(m, q, n) ==
    LET s == Loop(LAMBDA t : SplayRound(q, t),
                  [m |-> m, prev |-> n, up |-> m.u[n], top |-> [d \in Sides |-> m.kid[d][n]]], m)
    IN  [Link(Link(s.m, n, "l", s.top["l"]), n, "r", s.top["r"]) EXCEPT !.root[q] = n,
                                                                      !.u[n] = NULL]

\* A round of _sp_enq's loops: what is below `next' goes to the two trees split at
\* n's key.  end["l"] is the last block of the left tree, end["r"] the first of the
\* right one.  A block goes to one of them with its child on that side, turned
\* around, if the child goes there too.
SplitRound(n, s) ==
    LET m == s.m
        next == s.next
        d == IF m.key[next] < m.key[n] THEN "r" ELSE "l"
        e == Other(d)
        temp == m.kid[d][next]
        alone == temp = NULL \/ (m.key[temp] < m.key[n]) # (m.key[next] < m.key[n])
        turned == Link(Link(Link(m, next, d, m.kid[e][temp]), s.end[e], d, temp), temp, e, next)
        moved == IF alone THEN Link(m, s.end[e], d, next) ELSE turned
        rest == IF alone THEN temp ELSE m.kid[d][temp]
    IN  IF next = NULL THEN s
        ELSE [m |-> IF rest = NULL THEN [moved EXCEPT !.kid[e][s.end[d]] = NULL] ELSE moved,
              next |-> rest,
              end |-> [s.end EXCEPT ![e] = IF alone THEN next ELSE temp]]

\* n, a block that is not in a tree, becomes the root.
_sp_enq(m, q, n) ==
    LET next == m.root[q]
        root == [m EXCEPT !.root[q] = n, !.u[n] = NULL,
                          !.kid["l"][n] = NULL, !.kid["r"][n] = NULL]
        split == Loop(LAMBDA s : SplitRound(n, s),
                      [m |-> root, next |-> next, end |-> [d \in Sides |-> n]], m).m
    IN  [split EXCEPT !.kid["l"][n] = split.kid["r"][n], !.kid["r"][n] = split.kid["l"][n]]

\* A round of _sp_deq's loop.
DeqRound(s) ==
    LET m == s.m
        farleft == m.kid["l"][s.left]
        farfarleft == m.kid["l"][farleft]
    IN  IF s.deq # NULL THEN s
        ELSE IF farleft = NULL
        THEN [s EXCEPT !.m = Link(m, s.next, "l", m.kid["r"][s.left]), !.deq = s.left]
        ELSE IF farfarleft = NULL
        THEN [s EXCEPT !.m = Link(m, s.left, "l", m.kid["r"][farleft]), !.deq = farleft]
        ELSE [s EXCEPT !.m = Link(Link(Link(m, s.next, "l", farleft),
                                       s.left, "l", m.kid["r"][farleft]), farleft, "r", s.left),
                       !.next = farleft, !.left = farfarleft]

\* The first block of p's right subtree is taken out.
_sp_deq(m, p) ==
    LET next == m.kid["r"][p]
        left == m.kid["l"][next]
        cut == [m EXCEPT !.kid["r"][p] = m.kid["r"][next]]
    IN  IF next = NULL THEN [m |-> m, deq |-> NULL]
        ELSE IF left # NULL
        THEN Loop(DeqRound, [m |-> m, next |-> next, left |-> left, deq |-> NULL], m)
        ELSE [m |-> IF m.kid["r"][next] = NULL THEN cut
                    ELSE [cut EXCEPT !.u[m.kid["r"][next]] = NULL],
              deq |-> next]
------------------------------------------------------------------------------
Find(m, q, key) ==
    Loop(LAMBDA n : IF n = NULL \/ m.key[n] = key THEN n
                    ELSE m.kid[IF key < m.key[n] THEN "l" ELSE "r"][n], m.root[q], m)

\* The block that is found becomes the root; if there is none, nothing happens.
sp_lookup(m, q, key) ==
    LET n == Find(m, q, key) IN IF n = NULL THEN m ELSE _splay(m, q, n)

\* The block installed, with the data it had when it was freed, is the root.
sp_install(m, q, key) ==
    LET filled == Filled(m)
        n == filled.free
    IN  IF Find(m, q, key) # NULL THEN sp_lookup(m, q, key)
        ELSE _sp_enq([filled EXCEPT !.free = filled.u[n], !.key[n] = key, !.eltscnt[q] = @ + 1],
                     q, n)

\* mutant: a block without a right subtree leaves its left one without a root
sp_delete_NoSuccessor(m, q, n) ==
    LET cut == _sp_deq(_splay(m, q, n), n)
        x == cut.deq
        joined == IF x = NULL THEN [cut.m EXCEPT !.root[q] = NULL]
                  ELSE [Link(Link(cut.m, x, "l", cut.m.kid["l"][n]), x, "r", cut.m.kid["r"][n])
                           EXCEPT !.u[x] = NULL, !.root[q] = x]
    IN  [sp_free_blk(joined, n) EXCEPT !.eltscnt[q] = @ - 1]

sp_delete(m, q, n) ==
    LET cut == _sp_deq(_splay(m, q, n), n)
        x == cut.deq
        left == cut.m.kid["l"][n]
        joined == IF x # NULL
                  THEN [Link(Link(cut.m, x, "l", left), x, "r", cut.m.kid["r"][n])
                           EXCEPT !.u[x] = NULL, !.root[q] = x]
                  ELSE IF left = NULL THEN [cut.m EXCEPT !.root[q] = NULL]
                  ELSE [cut.m EXCEPT !.root[q] = left, !.u[left] = NULL]
    IN  [sp_free_blk(joined, n) EXCEPT !.eltscnt[q] = @ - 1]

------------------------------------------------------------------------------
Leftmost(m, n) == Loop(LAMBDA x : IF x = NULL \/ m.kid["l"][x] = NULL THEN x
                                  ELSE m.kid["l"][x], n, m)

sp_fhead(m, q) == Leftmost(m, m.root[q])

\* mutant: the first block above n that has n in its right subtree
Above_OtherSide(m, n) ==
    m.u[Loop(LAMBDA x : IF m.u[x] = NULL \/ m.kid["r"][m.u[x]] = x THEN x ELSE m.u[x], n, m)]

\* The first block above n that has n in its left subtree.
Above(m, n) == m.u[Loop(LAMBDA x : IF m.u[x] = NULL \/ m.kid["l"][m.u[x]] = x THEN x
                                   ELSE m.u[x], n, m)]

sp_fnext(m, n) == IF m.kid["r"][n] # NULL THEN Leftmost(m, m.kid["r"][n]) ELSE Above(m, n)

\* The blocks sp_scan goes through.
sp_scan(m, q) ==
    LET Next(s) == IF s = <<>> THEN sp_fhead(m, q) ELSE sp_fnext(m, s[Len(s)])
    IN  Loop(LAMBDA s : IF Next(s) = NULL THEN s ELSE Append(s, Next(s)), <<>>, m)

\* _sp_chop frees a block after its right and its left subtree: the next one that
\* goes has neither any more, and its parent is done with it.
ChopRound(q, m) ==
    LET n == Loop(LAMBDA x : IF m.kid["r"][x] # NULL THEN m.kid["r"][x]
                             ELSE IF m.kid["l"][x] # NULL THEN m.kid["l"][x] ELSE x,
                  m.root[q], m)
        up == m.u[n]
        d == IF m.kid["r"][up] = n THEN "r" ELSE "l"
    IN  IF m.root[q] = NULL THEN m
        ELSE sp_free_blk(IF up = NULL THEN [m EXCEPT !.root[q] = NULL]
                         ELSE [m EXCEPT !.kid[d][up] = NULL], n)

sp_null(m, q) == [Loop(LAMBDA t : ChopRound(q, t), m, m) EXCEPT !.eltscnt[q] = 0]
==============================================================================
