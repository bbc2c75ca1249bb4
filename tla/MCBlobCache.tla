---------------------------- MODULE MCBlobCache -----------------------------
(* An instance of BlobCache for TLC: three hashes, one of them shared by   *)
(* two keys; each key with blobs of its own, among them a small, a medium, *)
(* an oversized and an empty one for the shared hash.  Two small entries   *)
(* or a small and a medium one fit the budget, two medium ones and three   *)
(* small ones do not.                                                      *)
EXTENDS BlobCache

CONSTANTS k1, k2, k3, k4, h1, h2, h3, small, medium, big, empty

MCHash == [k \in Keys |-> CASE k = k1 -> h1 [] k = k2 -> h1 [] k = k3 -> h2 [] k = k4 -> h3]

MCValues == {<<k1, small>>, <<k1, medium>>, <<k1, big>>, <<k2, medium>>, <<k2, empty>>,
             <<k3, small>>, <<k3, medium>>, <<k3, big>>, <<k4, small>>, <<k4, medium>>}
MCOwner == [v \in Values |-> v[1]]
MCSize == [v \in Values |-> CASE v[2] = small -> 1 [] v[2] = medium -> 3
                             [] v[2] = big -> 6 [] v[2] = empty -> 0]
=============================================================================
