------------------------------- MODULE Hasher -------------------------------
(***************************************************************************)
(* What force_hash promises to the miner, whatever hardware it runs on: a  *)
(* search for a nonce of one commit ends with a nonce whose digest starts  *)
(* with nine zero digits, or without one only after the miner has set the  *)
(* stop flag.                                                              *)
(***************************************************************************)
EXTENDS Integers

CONSTANTS Nonces,     \* pairs of nonce words <<idx, id>>
          Digests     \* the digests that occur

VARIABLES phase,      \* "idle" between two calls of force_hash, or "search"
          hash,       \* the digest of the commit under each nonce
          stop,       \* *args->stop
          found,      \* args->found
          nonce       \* the two nonce words of the commit

hvars == <<phase, hash, stop, found, nonce>>

\* The first two words of a digest are h0 and h1.  (res >> 28) < 1, where res is
\* the 64-bit number h0 h1: 36 leading bits are 0.
Winning(d) == d[1] = 0 /\ d[2] < 2 ^ 28

HInit ==
    /\ phase = "idle" /\ found = FALSE
    /\ hash \in [Nonces -> Digests] /\ stop \in BOOLEAN /\ nonce \in Nonces

\* The miner has a new commit: found = 0, and the flag is as it is by then.
Call ==
    /\ phase = "idle" /\ phase' = "search" /\ found' = FALSE
    /\ hash' \in [Nonces -> Digests] /\ stop' \in BOOLEAN
    /\ UNCHANGED nonce

\* The other thread reports an update of the repository.
SetStop ==
    /\ phase = "search" /\ ~stop /\ stop' = TRUE
    /\ UNCHANGED <<phase, hash, found, nonce>>

Find ==
    /\ phase = "search" /\ phase' = "idle" /\ found' = TRUE
    /\ nonce' \in {n \in Nonces : Winning(hash[n])}
    /\ UNCHANGED <<hash, stop>>

GiveUp ==
    /\ phase = "search" /\ stop /\ phase' = "idle"
    /\ UNCHANGED <<hash, stop, found, nonce>>

HNext == Call \/ SetStop \/ Find \/ GiveUp

HSpec == HInit /\ [][HNext]_hvars
=============================================================================
