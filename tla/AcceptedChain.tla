------------------------------ MODULE AcceptedChain ----------------------------
(***************************************************************************)
(* What a deployer is promised: the accepted generations form an           *)
(* append-only chain, each linked to the one before it.  Nothing is ever   *)
(* removed, replaced or inserted, and no generation is skipped.            *)
(***************************************************************************)
EXTENDS Naturals, Sequences

CONSTANTS
    Digest,         \* content addresses of the catalogs that exist
    NoDigest,       \* the predecessor of a first generation
    Previous        \* the predecessor that each catalog names

VARIABLE chain      \* the accepted digests, oldest first

Newest(c) == IF c = <<>> THEN NoDigest ELSE c[Len(c)]

Init == chain = <<>>

Extend(d) ==
    /\ Previous[d] = Newest(chain)
    /\ chain' = Append(chain, d)

Next == \E d \in Digest : Extend(d)

Spec == Init /\ [][Next]_chain
================================================================================
