----------------------------- MODULE MCBufferWait -----------------------------
(* Instances of BufferWait for TLC.                                           *)
EXTENDS BufferWait, TLC

CONSTANTS s1, s2, s3, p1, p2, b1, b2

(* Two sessions in one process, the third in another.                      *)
TwoAndOne == s1 :> p1 @@ s2 :> p1 @@ s3 :> p2
=============================================================================
