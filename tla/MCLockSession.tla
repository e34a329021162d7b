---------------------------- MODULE MCLockSession ----------------------------
(* Instances of LockSession for TLC.                                          *)
EXTENDS LockSession, TLC

CONSTANTS l1, l2, l3

SharedExclusive == {S, X}
IntentRead == {IX, S}
(* A lock held in LK_IX that is asked for in LK_S converts to LK_SIX.      *)
IntentShared == {IX, S, X}

(* Lists with the same flags are interchangeable in the safety properties. *)
Interchangeable == Permutations(Lists \ (Undetected \cup Impatient \cup Rogue))

(* Every request returns: no session is left in CSsuspend, or repeats its  *)
(* request for ever in the loop of LKrequestWithCallback.                  *)
RequestReturns == \A s \in Lists : Returns(s)
=============================================================================
