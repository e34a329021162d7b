----------------------------- MODULE MCLogForce ------------------------------
(* Instances of LogForce for TLC.                                             *)
EXTENDS LogForce, TLC

CONSTANTS s1, s2, w1, w2, b1, b2, b3

(* No logwriter: the sessions write.                                          *)
NoPool(writers, stray, span) ==
  [pool |-> {}, group |-> TRUE, optim |-> TRUE, span |-> span,
   writers |-> writers, forcers |-> {s2}, stray |-> stray]

(* The default: one logwriter, optimized writes.                              *)
OnePool(writers) ==
  [pool |-> {w1}, group |-> FALSE, optim |-> TRUE, span |-> 1,
   writers |-> writers, forcers |-> {s2}, stray |-> {}]

(* One logwriter and the group commit thread.                                 *)
GroupPool ==
  [pool |-> {w1}, group |-> TRUE, optim |-> FALSE, span |-> 1,
   writers |-> {s1, s2}, forcers |-> {}, stray |-> {}]

(* Two logwriters.                                                            *)
TwoPool(span) ==
  [pool |-> {w1, w2}, group |-> FALSE, optim |-> FALSE, span |-> span,
   writers |-> {s1}, forcers |-> {s2}, stray |-> {}]

Orders   == {NoPool({s1, s2}, {}, 2), OnePool({s1, s2}), GroupPool, TwoPool(1)}
Progress == {NoPool({s1}, {s2}, 1), OnePool({s1}), GroupPool}
Pair     == {TwoPool(2)}

Interchangeable == Permutations(Buffers)
=============================================================================
