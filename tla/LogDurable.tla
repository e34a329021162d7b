----------------------------- MODULE LogDurable ------------------------------
(***************************************************************************)
(* What the log promises the sessions that write and force it.  Records    *)
(* get consecutive LSNs; the records on disk are a prefix of the log that  *)
(* only grows; a call that asks for records to be on disk returns only     *)
(* when that prefix covers them.  LogForce is shown to implement this.     *)
(***************************************************************************)
EXTENDS Naturals

CONSTANT Sessions

VARIABLES
  logged,     \* the last LSN given to a record
  durable,    \* every record up to this LSN is on disk
  promise     \* the LSN each session waits to see on disk, 0 for none

vars == <<logged, durable, promise>>

Init == logged = 0 /\ durable = 0 /\ promise = [s \in Sessions |-> 0]

(* A record is logged; its session may want it on disk before it goes on.  *)
Log(s) ==
  /\ promise[s] = 0
  /\ logged' = logged + 1
  /\ promise' \in {promise, [promise EXCEPT ![s] = logged']}
  /\ UNCHANGED durable

(* A session asks for the records up to one that was logged before.        *)
Ask(s) ==
  /\ promise[s] = 0
  /\ \E lsn \in 1..logged : promise' = [promise EXCEPT ![s] = lsn]
  /\ UNCHANGED <<logged, durable>>

(* An I/O completes: more of the log is on disk.                           *)
Harden ==
  /\ durable' \in (durable + 1)..logged
  /\ UNCHANGED <<logged, promise>>

(* The call returns, its promise kept.                                     *)
Answer(s) ==
  /\ promise[s] # 0 /\ promise[s] <= durable
  /\ promise' = [promise EXCEPT ![s] = 0]
  /\ UNCHANGED <<logged, durable>>

Next == Harden \/ \E s \in Sessions : Log(s) \/ Ask(s) \/ Answer(s)

Spec == Init /\ [][Next]_vars
=============================================================================
