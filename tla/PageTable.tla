------------------------------ MODULE PageTable ------------------------------
(***************************************************************************)
(* The page table of one process (mem/device/pagetable.go), as a value: a   *)
(* radix tree whose nodes are named by the indices that lead to them, and   *)
(* the table of entries that find answers from. A page is named by its      *)
(* virtual page number. A node's value is the address of the physical page  *)
(* that holds it; a leaf's is the address of the page it maps to.           *)
(***************************************************************************)
EXTENDS Integers, Sequences, FiniteSetsExt, Functions, TLC

CONSTANTS numLevels, bitsPerLevel

NumChildren == 2 ^ bitsPerLevel

Digit(x, i) == (x \div NumChildren ^ i) % NumChildren

\* The page number with its digits reversed, so that the root's index comes first.
Rearranged ==
    [vpn \in 0..(NumChildren ^ numLevels - 1) |->
        MapThenSumSet(LAMBDA i : Digit(vpn, i) * NumChildren ^ (numLevels - 1 - i),
                      0..(numLevels - 1))]
rearrange(vpn) == Rearranged[vpn]

nextLevel(r) == r \div NumChildren
MoveToLevel(r, level) == r \div NumChildren ^ level
indexOfChild(r) == r % NumChildren

\* The first k indices on the way from the root to a page.
Paths ==
    [vpn \in DOMAIN Rearranged |->
        [i \in 1..numLevels |-> indexOfChild(MoveToLevel(Rearranged[vpn], i - 1))]]
Path(vpn, k) == SubSeq(Paths[vpn], 1, k)

EmptyTable == [tree |-> <<>>, entries |-> <<>>]

Node(t, vpn, k) == t.tree[Path(vpn, k)]
HasNode(t, vpn, k) == Path(vpn, k) \in DOMAIN t.tree

\* The levels at which insert has to make a node, the root being level 0.
Missing(t, vpn) ==
    LET path == Path(vpn, numLevels)
    IN  {k \in 0..(numLevels - 1) : SubSeq(path, 1, k) \notin DOMAIN t.tree}

\* What newTreeNode passes to the allocator in place of the address.
Prefix(vpn, k) == IF k = 0 THEN 0 ELSE vpn \div NumChildren ^ (numLevels - k)

\* insert, once the nodes it makes have their physical pages.
CanInsert(t, vpn) == ~HasNode(t, vpn, numLevels) /\ vpn \notin DOMAIN t.entries
insert(t, vpn, page, nodes) ==
    [tree    |-> (Path(vpn, numLevels) :> page.p)
                 @@ [n \in {Path(vpn, k) : k \in DOMAIN nodes} |-> nodes[Len(n)]]
                 @@ t.tree,
     entries |-> (vpn :> page) @@ t.entries]

\* Only the leaf goes: the nodes above it, and their pages, stay.
remove(t, vpn) ==
    [tree    |-> Restrict(t.tree, DOMAIN t.tree \ {Path(vpn, numLevels)}),
     entries |-> Restrict(t.entries, DOMAIN t.entries \ {vpn})]

update(t, vpn, page) ==
    [t EXCEPT !.tree[Path(vpn, numLevels)] = page.p, !.entries[vpn] = page]

find(t, vpn) == t.entries[vpn]

\* The words the driver writes to memory: for each node, the address of each child.
Inner(t) == {n \in DOMAIN t.tree : Len(n) < numLevels}
PageTablePagesAsBytes(t) ==
    LET inner == Inner(t)
    IN  [w \in {t.tree[n] : n \in inner} \X (0..(NumChildren - 1)) |->
            LET child == Append(CHOOSE n \in inner : t.tree[n] = w[1], w[2])
            IN  IF child \in DOMAIN t.tree THEN t.tree[child] ELSE 0]

\* addOffset: the word of a table page that the next index selects.
addOffset(root, r) == <<root, indexOfChild(r)>>

\* The address a walk arrives at from level k, reading one word per level.
Walk(image, root, r, k) ==
    LET at[j \in k..numLevels] ==
            IF j = k THEN root ELSE image[addOffset(at[j - 1], MoveToLevel(r, j - 1))]
    IN  at[numLevels]
==============================================================================
