---------------------------- MODULE MCSendQueue ----------------------------
(***************************************************************************)
(* Small instances of SendQueue.                                           *)
(***************************************************************************)
EXTENDS SendQueue, TLC

\* Workers are interchangeable.
MCSymmetry == Permutations(Workers)
=============================================================================
