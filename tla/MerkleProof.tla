------------------------------ MODULE MerkleProof ------------------------------
(***************************************************************************)
(* The inclusion proof of a transparency log entry, as verifyMerkleProof   *)
(* and verifyCheckpoint of scripts/verify-provenance-evidence.mjs walk it, *)
(* against the tree hash of RFC 6962 that a log computes.  A hash is its   *)
(* preimage, so no two differ only by collision.                           *)
(***************************************************************************)
EXTENDS Naturals, Sequences

CONSTANT MaxTree    \* the largest tree a proof is read for

ASSUME MaxTreeAssumption == MaxTree \in Nat \ {0}

VARIABLE proof      \* the proof being verified and how far it was walked

hashLeaf(entry) == <<"leaf", entry>>

hashChildren(left, right) == <<"node", left, right>>

-----------------------------------------------------------------------------
(* The log: entry i of a tree of n is i itself. *)

\* The largest power of two below n.
Split(n) == CHOOSE k \in {2 ^ e : e \in 0 .. n} : k < n /\ n <= 2 * k

TreeHash[lo \in 0 .. MaxTree, hi \in 0 .. MaxTree] ==
    IF hi = lo + 1 THEN hashLeaf(lo)
    ELSE LET mid == lo + Split(hi - lo)
         IN  hashChildren(TreeHash[lo, mid], TreeHash[mid, hi])

\* The siblings of entry m, from the leaf up.
Path[m \in 0 .. MaxTree, lo \in 0 .. MaxTree, hi \in 0 .. MaxTree] ==
    IF hi = lo + 1 THEN <<>>
    ELSE LET mid == lo + Split(hi - lo)
         IN  IF m < mid THEN Append(Path[m, lo, mid], TreeHash[mid, hi])
                        ELSE Append(Path[m, mid, hi], TreeHash[lo, mid])

-----------------------------------------------------------------------------
(* The verifier. *)

Bit(n, level) == (n \div 2 ^ level) % 2

\* bitLength(a ^ b): the levels below which a and b differ.
bitLength(a, b) ==
    CHOOSE k \in 0 .. MaxTree :
        /\ a \div 2 ^ k = b \div 2 ^ k
        /\ \A j \in 0 .. (k - 1) : a \div 2 ^ j # b \div 2 ^ j

onesCount[n \in Nat] == IF n = 0 THEN 0 ELSE (n % 2) + onesCount[n \div 2]

\* The mutated form: the last index of the tree is taken to be its size.
InnerOfSize(index, size) == bitLength(index, size)

Inner(index, size) == bitLength(index, size - 1)

Border(index, size) == onesCount[index \div 2 ^ Inner(index, size)]

MerkleInit == proof = [at |-> "idle"]

\* An entry's claims: the index and size the proof states, the hashes of
\* whatever proof the log gave, and the checkpoint of some tree.
readMerkleProof ==
    /\ proof.at = "idle"
    /\ \E index \in 0 .. MaxTree, size, tree, checkpoint \in 1 .. MaxTree,
          body, of \in 0 .. (MaxTree - 1) :
          /\ of < tree
          /\ LET hashes == Path[of, 0, tree]
                 counted ==
                     /\ index < size
                     /\ Len(hashes) = Inner(index, size) + Border(index, size)
             IN  proof' = [at |-> IF counted THEN "walk" ELSE "refused",
                           index |-> index, size |-> size, body |-> body,
                           hashes |-> hashes, level |-> 0,
                           root |-> hashLeaf(body), checkpoint |-> checkpoint]

\* Below the inner levels the index says on which side the sibling is.
hashInnerLevel ==
    /\ proof.at = "walk"
    /\ proof.level < Inner(proof.index, proof.size)
    /\ LET sibling == proof.hashes[proof.level + 1] IN
       proof' = [proof EXCEPT
                   !.root = IF Bit(proof.index, proof.level) = 1
                            THEN hashChildren(sibling, @)
                            ELSE hashChildren(@, sibling),
                   !.level = @ + 1]

\* Above them the entry is on the tree's right edge.
hashBorderLevel ==
    /\ proof.at = "walk"
    /\ proof.level >= Inner(proof.index, proof.size)
    /\ proof.level < Len(proof.hashes)
    /\ proof' = [proof EXCEPT
                   !.root = hashChildren(proof.hashes[proof.level + 1], @),
                   !.level = @ + 1]

\* The checkpoint is of a tree of that size with that root.
verifyCheckpoint ==
    /\ proof.at = "walk"
    /\ proof.level = Len(proof.hashes)
    /\ proof' = [proof EXCEPT
                   !.at = IF /\ proof.checkpoint = proof.size
                             /\ TreeHash[0, proof.checkpoint] = proof.root
                          THEN "included" ELSE "refused"]

MerkleNext ==
    \/ readMerkleProof
    \/ hashInnerLevel
    \/ hashBorderLevel
    \/ verifyCheckpoint

(***************************************************************************)
(* At every size up to the bound, and for a proof the log gave for any     *)
(* entry of any tree: the walk reaches the checkpoint's root exactly when  *)
(* the body is the entry at the stated index of the checkpoint's own tree  *)
(* and the hashes are that entry's siblings there.                         *)
(***************************************************************************)
InclusionIsExact ==
    proof.at \in {"included", "refused"} =>
        (proof.at = "included"
            <=> /\ proof.index < proof.size
                /\ proof.checkpoint = proof.size
                /\ proof.body = proof.index
                /\ proof.hashes = Path[proof.index, 0, proof.size])

=============================================================================
