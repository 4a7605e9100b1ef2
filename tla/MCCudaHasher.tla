---------------------------- MODULE MCCudaHasher ----------------------------
(* Two threads, two rounds, two grids; the largest digest that the kernel  *)
(* takes, and the smallest that it does not.                               *)
EXTENDS CudaHasherProofs

Above == <<0, 2 ^ 28, 0>>

TwoDigests == {LargestHit, Above}

\* Around the kernel's threshold, DifficultiesServed holds of these digests.
ASSUME LET near == {0} \X {0, 2 ^ 28 - 1, 2 ^ 28} \X (0 .. RestMax)
       IN  \A target \in near : (\A d \in near : H!Winning(d) => Meets(d, target))
                                <=> Meets(LargestHit, target)
=============================================================================
