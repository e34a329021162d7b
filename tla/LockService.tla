----------------------------- MODULE LockService -----------------------------
(***************************************************************************)
(* What the lock manager promises the sessions that share a resource.      *)
(* A session asks for a mode and is answered, at once or later; the lock   *)
(* it owns changes only when it asks, when the mode it waits for is        *)
(* granted, or when it releases; the locks owned never exclude each other. *)
(* LockSession is shown to implement this specification.                   *)
(***************************************************************************)
EXTENDS LockModes

CONSTANT Lists     \* the lock lists of the sessions

VARIABLES
  owned,    \* the mode each session owns, or NoLock
  asked,    \* the mode of its last request
  kept,     \* the mode it owned when it asked
  answer    \* the answer, "pending" while it waits for one

vars == <<owned, asked, kept, answer>>

Pending(s) == answer[s] = "pending"

Init ==
  /\ owned = [s \in Lists |-> NoLock]
  /\ asked = [s \in Lists |-> NoLock]
  /\ kept = [s \in Lists |-> NoLock]
  /\ answer = [s \in Lists |-> "none"]

(* An OK is about a lock that is owned, a deadlock victim gets nothing.    *)
Answers(s) ==
  \/ answer'[s] = "ok" /\ owned'[s] = asked'[s]
  \/ answer'[s] = "deadlock" /\ owned'[s] = kept'[s]

Ask(s) ==
  /\ ~Pending(s)
  /\ asked'[s] \in Modes /\ kept'[s] = owned[s]
  /\ \/ Answers(s)
     \/ answer'[s] = "pending" /\ owned'[s] = owned[s]

(* The lock of a request that timed out may have been granted meanwhile.   *)
Proceed(s) ==
  /\ Pending(s)
  /\ asked'[s] = asked[s] /\ kept'[s] = kept[s]
  /\ \/ Answers(s)
     \/ answer'[s] = "timeout" /\ owned'[s] \in {kept[s], asked[s]}
     \/ answer'[s] = "pending" /\ owned'[s] \in {owned[s], asked[s]}

Release(s) ==
  /\ ~Pending(s)
  /\ owned'[s] = NoLock /\ answer'[s] = "none"
  /\ asked'[s] = NoLock /\ kept'[s] = NoLock

(* Meanwhile the others may be granted what they wait for.                 *)
Served(s) ==
  \A t \in Lists \ {s} :
     /\ asked'[t] = asked[t] /\ kept'[t] = kept[t] /\ answer'[t] = answer[t]
     /\ \/ owned'[t] = owned[t]
        \/ Pending(t) /\ owned'[t] = asked[t]

Exclusive ==
  \A s, t \in Lists :
     s # t /\ owned[s] # NoLock /\ owned[t] # NoLock => Coexist(owned[s], owned[t])

Next ==
  \E s \in Lists :
    /\ Ask(s) \/ Proceed(s) \/ Release(s)
    /\ Served(s)
    /\ Exclusive'

Spec == Init /\ [][Next]_vars
=============================================================================
