------------------------------ MODULE TLBStorage ------------------------------
(***************************************************************************)
(* The two stores inside a TLB, as values: a set of mem/vm/tlb/internal     *)
(* (blocks, the map from page to way, and the ways in order of their last   *)
(* visit, oldest first) and the MSHR of mem/vm/tlb/tlbmshr.go (the requests *)
(* that wait for each page being fetched).                                  *)
(***************************************************************************)
EXTENDS Naturals, Sequences, SequencesExt

CONSTANT NumWays

\* The zero device.Page of a block that was never filled.
NoPage == [v |-> 0, ver |-> 0, valid |-> FALSE]

NewSet == [blocks |-> [w \in 1..NumWays |-> NoPage],
           ways   |-> <<>>,
           order  |-> [w \in 1..NumWays |-> w]]

Found(set, v)  == v \in DOMAIN set.ways
Lookup(set, v) == set.blocks[set.ways[v]]

Drop(f, x) == Restrict(f, DOMAIN f \ {x})

\* The key of the page that leaves the block is deleted, whichever way it leads to.
KeysAfterUpdate(set, w, page) == (page.v :> w) @@ Drop(set.ways, set.blocks[w].v)

Update(set, w, page) ==
    [set EXCEPT !.blocks[w] = page, !.ways = KeysAfterUpdate(set, w, page)]

Evict(set) == Head(set.order)

\* The way becomes the last to be evicted.
Visit(set, w) == [set EXCEPT !.order = Append(SelectSeq(@, LAMBDA x : x # w), w)]

\* What parseBottom does with a page that arrives: Evict, Update, Visit.
Fill(set, page) == Visit(Update(set, Evict(set), page), Evict(set))

\* What a flush does with a page it finds.
Invalidate(set, v) ==
    IF Found(set, v)
    THEN Update(set, set.ways[v], [Lookup(set, v) EXCEPT !.valid = FALSE])
    ELSE set

Hit_AlsoInvalid(set, v) == Found(set, v)
Hit(set, v) == Found(set, v) /\ Lookup(set, v).valid

Entries(mshr) == DOMAIN mshr
Add(mshr, v, r) == (v :> <<r>>) @@ mshr
Join(mshr, v, r) == [mshr EXCEPT ![v] = Append(@, r)]
WaitingIn(mshr) == UNION {ToSet(mshr[v]) : v \in DOMAIN mshr}
=============================================================================
