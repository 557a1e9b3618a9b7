-------------------------- MODULE MCAgReplayLedger --------------------------
(***************************************************************************)
(* Three sessions share a ledger with room for two entries, so that misses *)
(* and writes evict; three requests, which may all be of one session; and  *)
(* chains of at most two signatures, enough to grow, to fork and to start  *)
(* anew.  Sessions, requests and signatures are interchangeable.           *)
(***************************************************************************)
EXTENDS AgReplayLedger, TLC

CONSTANTS k1, k2, k3, r1, r2, r3, a, b

MCKeys == {k1, k2, k3}
MCRequests == {r1, r2, r3}
MCItems == {a, b}
Symmetry == Permutations(MCKeys) \cup Permutations(MCRequests)
              \cup Permutations(MCItems)
=============================================================================
