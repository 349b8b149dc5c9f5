---------------------------- MODULE MCRateLimiter ----------------------------
(***************************************************************************)
(* Small instances of RateLimiter for TLC.                                 *)
(***************************************************************************)
EXTENDS RateLimiter, TLC

CONSTANTS r1, r2, r3, alice

MCRequests == {r1, r2, r3}
MCClients == {alice}
MCClientOf == [r \in Requests |-> alice]
RequestSymmetry == Permutations(Requests)
=============================================================================
