--------------------------- MODULE MCLockResource ---------------------------
(* Instances of LockResource for TLC.                                        *)
EXTENDS LockResource, TLC

CONSTANTS l1, l2, l3

AllModes == Modes
(* The modes of table and page locking without LK_N and LK_U.              *)
ClassicModes == {IS, IX, S, X}
(* LK_N holders beside converting readers.                                 *)
NullModes == {N, IS, S, X}

(* Lists that may neither die nor be handed over are interchangeable in    *)
(* the safety properties.                                                  *)
Interchangeable == Permutations(Lists \ (Mortal \cup Handed))

(* Every lock that waits, for a new lock or for a conversion, is granted,  *)
(* refused or taken back in the end: LK_do_unlock and LK_do_cancel leave   *)
(* nobody asleep whom no later release would awaken.                       *)
EveryWaitEnds == \A l \in Lists : WaitEnds(l)
=============================================================================
