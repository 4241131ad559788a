---------------------------- MODULE MCUpdateClient ----------------------------
(* Values for checking UpdateClient.                                           *)
EXTENDS UpdateClient

CONSTANTS imageA, imageB, c1

installed == <<1, 1, 0>>

Release(v, h, i) == [version |-> v, hardware_version |-> h, image |-> i]

(* Two versions newer than the installed one, of which the greater has the     *)
(* smaller second part and comes with either image; one for other hardware.    *)
SomeReleases ==
    {Release(<<1, 2, 0>>, "revA", imageA), Release(<<2, 0, 0>>, "revA", imageA),
     Release(<<2, 0, 0>>, "revA", imageB), Release(<<2, 0, 0>>, "revB", imageA)}

TwoBlocks == [i \in Images |-> 2]
================================================================================
