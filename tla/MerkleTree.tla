----------------------------- MODULE MerkleTree -----------------------------
(***************************************************************************)
(* The Merkle tree over the events of sovereign/ledger/event.go: how it is *)
(* built, what Proof() returns for a leaf and what VerifyProof() accepts.  *)
(* A node's hash is the pair of the hashes it covers, and no node has the  *)
(* hash of an event, which is what a leaf holds.  Leaves are numbered from *)
(* 0, as in the code.                                                      *)
(***************************************************************************)
EXTENDS Integers, Sequences

Leaf(hash) == <<hash>>
Node(left, right) == <<left, right>>

\* The next level: an odd node at the end is combined with itself.
Parents(level) ==
    [k \in 1..(Len(level) + 1) \div 2 |->
        Node(level[2 * k - 1], level[IF 2 * k <= Len(level) THEN 2 * k ELSE 2 * k - 1])]

\* All levels, from the leaves up to the single root.
Tree(leaves) ==
    LET level[h \in 0..Len(leaves)] == IF h = 0 THEN leaves ELSE Parents(level[h - 1])
        height == CHOOSE h \in 0..Len(leaves) :
                     Len(level[h]) <= 1 /\ \A g \in 0..h - 1 : Len(level[g]) > 1
    IN  [k \in 1..height + 1 |-> level[k - 1]]

Root(tree) == tree[Len(tree)][1]

\* The place, on the level of that height, of the node above a leaf.
Place(index, height) ==
    LET place[h \in 0..height] == IF h = 0 THEN index ELSE place[h - 1] \div 2
    IN  place[height]

\* Variant: the next place, also for a node that is itself on the right.
NextPlace(position) == position + 1

Sibling(position) == IF position % 2 = 0 THEN position + 1 ELSE position - 1

HasSibling(tree, index, height) == Sibling(Place(index, height)) < Len(tree[height + 1])

\* The siblings on the way up; a level on which there is none adds nothing.
Proof(tree, index) ==
    LET walk[h \in 0..Len(tree) - 1] ==
          IF h = 0 THEN <<>>
          ELSE IF HasSibling(tree, index, h - 1)
                 THEN Append(walk[h - 1], tree[h][Sibling(Place(index, h - 1)) + 1])
                 ELSE walk[h - 1]
    IN  walk[Len(tree) - 1]

\* One level up for each element of the proof, left or right by the place on that level.
VerifyProof(tree, index, proof, leaf) ==
    LET hash[k \in 0..Len(proof)] ==
          IF k = 0 THEN leaf
          ELSE IF Place(index, k - 1) % 2 = 0 THEN Node(hash[k - 1], proof[k])
               ELSE Node(proof[k], hash[k - 1])
    IN  hash[Len(proof)] = Root(tree)

\* No node on the way from a leaf to the root stands alone on its level.
Paired(tree, index) == \A h \in 0..Len(tree) - 2 : HasSibling(tree, index, h)
=============================================================================
