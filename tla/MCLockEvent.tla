----------------------------- MODULE MCLockEvent -----------------------------
(* Instances of LockEvent for TLC.                                            *)
EXTENDS LockEvent, TLC

CONSTANTS s1, s2, s3, p1, p2, e1, e2

(* Two sessions in one process, the third in another.                      *)
TwoAndOne == s1 :> p1 @@ s2 :> p1 @@ s3 :> p2
(* Two sessions, each in a process of its own.                             *)
OneEach == s1 :> p1 @@ s2 :> p2
=============================================================================
