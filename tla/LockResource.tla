----------------------------- MODULE LockResource -----------------------------
(***************************************************************************)
(* The lock lists that share one resource of the Ingres lock manager: what *)
(* they may ask of the handlers of ResourceBlock, which sessions call      *)
(* again and again, and what becomes of the list of a dead process.        *)
(***************************************************************************)
EXTENDS ResourceBlock

CONSTANTS
  Wanted,     \* the modes the sessions ask for
  Mortal,     \* lists whose process may die
  Handed      \* lists that live sessions hand to the recovery process

ASSUME ListsAssumption ==
  /\ Wanted \subseteq Modes
  /\ Mortal \subseteq Lists
  /\ Handed \subseteq Lists

VARIABLES
  orphaned,   \* lists left by a dead process (LLB_ORPHANED)
  recovery    \* lists the recovery process has adopted (LLB_RECOVER)

owners == <<orphaned, recovery>>
vars == <<rsb, orphaned, recovery>>

-------------------------------------------------------------------------------
(* Actions.                                                                *)

Init == rsb = FreshRsb /\ orphaned = {} /\ recovery = {}

(* An orphaned list makes no requests until it is adopted; it is still     *)
(* marked LLB_ORPHANED then.                                               *)
Asks(l) == l \in orphaned => l \in recovery

(* A recovery list never waits beside a lock of an orphaned list, which    *)
(* only the recovery process can release: LK_RETRY.  The test made for a   *)
(* conversion looks at the status of the list that asks.                   *)
RetriesRequest(l)    == l \in recovery /\ Holders(rsb) \cap orphaned # {}
RetriesConversion(l) == l \in recovery /\ l \in orphaned

RequestGranted(l, m) ==
  /\ Asks(l)
  /\ NewGranted(l, m)
  /\ UNCHANGED owners

RequestWaits(l, m) ==
  /\ Asks(l)
  /\ ~RetriesRequest(l)
  /\ NewWaits(l, m)
  /\ UNCHANGED owners

ConvertGranted(l, m) ==
  /\ Asks(l)
  /\ Converted(l, m)
  /\ UNCHANGED owners

(* LK_BUSY: the caller said LK_NOWAIT.                                     *)
ConvertBusy(l, m) ==
  /\ Asks(l)
  /\ Converts(l, m) /\ ~Convertible(rsb, l, m)
  /\ rsb' = [rsb EXCEPT !.request[l] = rsb.grant[l]]
  /\ UNCHANGED owners

ConvertRefused(l, m) ==
  /\ Asks(l)
  /\ RefusesConversion(l) \/ RetriesConversion(l)
  /\ ConversionRefused(l, m)
  /\ UNCHANGED owners

ConvertWaits(l, m) ==
  /\ Asks(l)
  /\ ~RetriesConversion(l)
  /\ ConversionWaits(l, m)
  /\ UNCHANGED owners

Release(l) ==
  /\ Asks(l)
  /\ Unlocked(l)
  /\ UNCHANGED owners

(* The session timed out, was interrupted, or found its request marked as  *)
(* a deadlock victim, and takes it back (LK_cancel, LK_do_cancel).         *)
CancelWaiting(l) == WaitCancelled(l) /\ UNCHANGED owners

CancelConversion(l) == ConversionCancelled(l) /\ UNCHANGED owners

DeadlockSearch(l, victim) == Searched(l, victim) /\ UNCHANGED owners

(* LK_rundown of a dead process: its waits were cancelled before, the list *)
(* is left with its locks.                                                 *)
Idle(l) == rsb.state[l] \in {"free", "granted"}

Orphan(l) ==
  /\ l \in Mortal \ (orphaned \cup recovery) /\ Idle(l)
  /\ orphaned' = orphaned \cup {l}
  /\ UNCHANGED <<rsb, recovery>>

(* LKcreate_list with LK_RECOVER: the recovery process takes over the list *)
(* of a dead process, or one whose session passed its abort on.            *)
Adopt(l) ==
  /\ l \in (orphaned \cup Handed) \ recovery /\ Idle(l)
  /\ recovery' = recovery \cup {l}
  /\ UNCHANGED <<rsb, orphaned>>

(* LKrelease with LK_ALL ends the list; its block is used for a new one.   *)
ListEnds(l) ==
  /\ l \in recovery /\ rsb.state[l] = "free"
  /\ orphaned' = orphaned \ {l} /\ recovery' = recovery \ {l}
  /\ UNCHANGED rsb

Next ==
  \E l \in Lists :
    \/ \E m \in Wanted :
         \/ RequestGranted(l, m)
         \/ ConvertGranted(l, m)
         \/ ConvertBusy(l, m)
         \/ ConvertRefused(l, m)
         \/ RequestWaits(l, m)
         \/ ConvertWaits(l, m)
    \/ Release(l)
    \/ CancelWaiting(l)
    \/ CancelConversion(l)
    \/ \E victim \in BOOLEAN : DeadlockSearch(l, victim)
    \/ Orphan(l)
    \/ Adopt(l)
    \/ ListEnds(l)

Spec == Init /\ [][Next]_vars

-------------------------------------------------------------------------------
(* Properties                                                              *)

OwnersOK ==
  /\ orphaned \subseteq Mortal
  /\ recovery \subseteq Mortal \cup Handed

TypeOK ==
  /\ rsb \in RsbType
  /\ OwnersOK
  /\ Quiet(rsb)

(* The grant queue links every granted or converting lock once, the wait   *)
(* queue every waiting one, whatever sequence of grants, conversions,      *)
(* cancellations and releases moved the lock blocks between them.          *)
QueuesAgree ==
  /\ Links(rsb.grant_q, Holders(rsb))
  /\ Links(rsb.wait_q, Waiters(rsb))

(* Mutual exclusion: two lists never hold the resource in modes that       *)
(* exclude each other, converting locks included.                          *)
HoldersCompatible == CompatibleHolders(rsb)

(* The group mode stands for all the modes held.                           *)
GroupModeCovers == Covered(rsb)

(* Sound lock blocks: the inductive invariant behind HoldersCompatible.    *)
LocksSound == TypeOK /\ GroupModeCovers /\ HoldersCompatible

(* First come, first served: while a request that is no deadlock victim    *)
(* waits, nobody who asks after it is granted a new lock.                  *)
StillWaits(x) ==
  rsb.search[x] # "dead" /\ x \in Waiters(rsb) /\ x \in Waiters(rsb)'

NoOvertaking ==
  [][\A x, y \in Lists :
       StillWaits(x) /\ (rsb.state[y] = "free" \/ Behind(rsb.wait_q, x, y))
         => rsb'.state[y] # "granted"]_vars

(* Conversions come first: no waiting request is granted by a step that    *)
(* leaves a conversion waiting.                                            *)
ConversionsFirst ==
  [][\A y \in Lists : rsb.state[y] = "waiting" /\ rsb'.state[y] = "granted"
       => Converters(rsb') = {}]_vars

(* rsb_grant_mode is the summary grant mode of all granted and converting  *)
(* locks (lkdef.h), not an older, stronger one that would keep requests    *)
(* waiting for a lock nobody holds.                                        *)
SummaryGrantMode == rsb.grant_mode = GroupMode(rsb, {})

(* No lost wakeup on the wait queue: when no conversion waits, the first   *)
(* waiting request is a deadlock victim or is excluded by a lock held.     *)
NoMissedGrant ==
  Converters(rsb) = {} /\ Waiters(rsb) # {} =>
    LET first == Head(rsb.wait_q)
    IN  \/ rsb.search[first] = "dead"
        \/ ~Compatible(GroupMode(rsb, {}), rsb.request[first])

(* No lost wakeup on the convert queue: while no deadlock victim is to be  *)
(* cleaned up, the first conversion is excluded by a lock of another list. *)
FirstConverter ==
  LET at == CHOOSE i \in DOMAIN rsb.grant_q :
              /\ rsb.state[rsb.grant_q[i]] = "convert"
              /\ \A j \in 1..(i - 1) : rsb.state[rsb.grant_q[j]] # "convert"
  IN  rsb.grant_q[at]

NoMissedConversion ==
  Converters(rsb) # {} /\ (\A l \in Lists : rsb.search[l] # "dead") =>
    LET c == FirstConverter
    IN  ~Compatible(GroupMode(rsb, {c}), rsb.request[c])

(* Sessions, and the recovery process for them, release their locks at the *)
(* end of their transactions; a deadlock victim, which is awakened, takes  *)
(* its request back; the recovery process adopts orphaned lists unless it  *)
(* waits itself.                                                           *)
Waits(l) == rsb.state[l] \in {"waiting", "convert"}

RecoveryWaits == \E l \in recovery : Waits(l)

SessionsFinish ==
  /\ \A l \in Lists :
       /\ []<>(Asks(l) /\ rsb.state[l] = "granted") => []<><<Release(l)>>_vars
       /\ []<>(rsb.search[l] # "dead")
  /\ \A l \in Mortal :
       []<>(l \in orphaned \ recovery /\ ~RecoveryWaits) => []<><<Adopt(l)>>_vars

FairSpec == Spec /\ SessionsFinish

(* A list of the recovery process does not begin to wait on a resource on  *)
(* which an orphaned list of another transaction holds a lock ("this would *)
(* be an undetected deadlock", LK_do_convert).                             *)
RecoveryAvoidsOrphans ==
  [][\A l \in recovery :
       ~Waits(l) /\ Waits(l)' => Holders(rsb) \cap orphaned \subseteq {l}]_vars

(* Every wait ends: with a grant, or by the deadlock thread.               *)
WaitEnds(l) == Waits(l) ~> ~Waits(l)
=============================================================================
