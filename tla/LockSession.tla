------------------------------ MODULE LockSession ------------------------------
(***************************************************************************)
(* Sessions that request a lock, sleep, are awakened, time out and cancel  *)
(* (LKrequestWithCallback, LK_cancel, LK_do_cancel,                        *)
(* LK_get_completion_status of back/dmf/lk), and the deadlock thread that  *)
(* awakens its victims (LKdeadlock_thread), around one resource            *)
(* block (ResourceBlock).                                                  *)
(*                                                                         *)
(* What runs under the resource's rsb_mutex is one step; everything a      *)
(* session or the deadlock thread does outside it is a step of its own:    *)
(* the test of the lock state in LK_cancel, which holds the lock list's    *)
(* mutex only, and the LK_resume of a victim, which holds neither.         *)
(***************************************************************************)
EXTENDS ResourceBlock

CONSTANTS
  Wanted,     \* the modes the sessions ask for
  Impatient,  \* lists whose requests may time out or be interrupted
  Rogue,      \* lists whose sessions may be sent resumes not meant for LK
  NoList      \* no lock list

ASSUME SessionAssumption ==
  /\ Wanted \subseteq Modes
  /\ Impatient \subseteq Lists
  /\ Rogue \subseteq Lists
  /\ NoList \notin Lists

VARIABLES
  pc,       \* where each session is in LKrequestWithCallback
  want,     \* the mode of its request
  held,     \* the mode it held when it asked, or NoLock
  linked,   \* its LKB is on its lock list's wait queue (LKB_ON_LLB_WAIT)
  resumed,  \* a resume that CS keeps for the session
  cause,    \* why it takes its request back
  result,   \* the status its last request returned
  rousing   \* the victim the deadlock thread is about to resume

vars == <<rsb, pc, want, held, linked, resumed, cause, result, rousing>>

(* idle       outside the lock manager                                     *)
(* asleep     about to call, or in, CSsuspend                              *)
(* awake      resumed; about to read its lock block                        *)
(* leaving    about to call LK_cancel                                      *)
(* cancelling LK_cancel saw a lock not granted; about to call LK_do_cancel *)
(* late       LK_cancel saw a granted lock; waits for the resume           *)
(* again      LK_PHANTOM: about to repeat the request                      *)
Places == {"idle", "asleep", "awake", "leaving", "cancelling", "late", "again"}
Causes  == {"none", "timeout", "deadlock", "phantom"}
Results == {"none", "ok", "timeout", "deadlock"}

Init ==
  /\ rsb = FreshRsb
  /\ pc = [s \in Lists |-> "idle"]
  /\ want = [s \in Lists |-> NoLock]
  /\ held = [s \in Lists |-> NoLock]
  /\ linked = [s \in Lists |-> FALSE]
  /\ resumed = [s \in Lists |-> FALSE]
  /\ cause = [s \in Lists |-> "none"]
  /\ result = [s \in Lists |-> "none"]
  /\ rousing = NoList

-------------------------------------------------------------------------------
(* LK_resume of the locks that a step grants to sleeping sessions: off the *)
(* wait queue, and a resume for the session.                               *)
Awakened == {s \in Lists : /\ rsb.state[s] \in {"waiting", "convert"}
                           /\ rsb'.state[s] = "granted"}

(* The mode in which s holds the resource, also while it converts it.      *)
Holds(s) ==
  IF rsb.state[s] \in {"granted", "convert"} THEN rsb.grant[s] ELSE NoLock

(* The resource changes by a step of session actor, whose own LKB is       *)
(* linked to the wait queue or not after it, its resume kept or not.       *)
Others(actor, itsLink, itsResume) ==
  /\ linked'  = [s \in Lists |->
                   IF s = actor THEN itsLink ELSE linked[s] /\ s \notin Awakened]
  /\ resumed' = [s \in Lists |->
                   IF s = actor THEN itsResume ELSE resumed[s] \/ s \in Awakened]

Return(s, status) ==
  /\ pc' = [pc EXCEPT ![s] = "idle"]
  /\ result' = [result EXCEPT ![s] = status]
  /\ cause' = [cause EXCEPT ![s] = "none"]

-------------------------------------------------------------------------------
(* LK_request, its decision under the resource's mutex: granted, queued to *)
(* wait, or refused as a deadlock of conversions.                          *)

Granted(s, m, kept) ==
  /\ \/ NewGranted(s, m)
     \/ Converted(s, m)
     \/ rsb.state[s] = "granted" /\ rsb.grant[s] = m /\ UNCHANGED rsb
  /\ Others(s, FALSE, kept)
  /\ Return(s, "ok")

Queued(s, m, kept) ==
  /\ NewWaits(s, m) \/ ConversionWaits(s, m)
  /\ Others(s, TRUE, kept)
  /\ pc' = [pc EXCEPT ![s] = "asleep"]
  /\ cause' = [cause EXCEPT ![s] = "none"]
  /\ result' = [result EXCEPT ![s] = "none"]

Refused(s, m, kept) ==
  /\ RefusesConversion(s) /\ ConversionRefused(s, m)
  /\ Others(s, FALSE, kept)
  /\ Return(s, "deadlock")

(* kept: a resume that CS keeps for the session from before.               *)
LK_request(s, m, kept) ==
  Granted(s, m, kept) \/ Queued(s, m, kept) \/ Refused(s, m, kept)

(* The mode a request for m asks of LK_do_convert: m itself for LK_CONVERT,*)
(* for an implicit conversion the mode that covers m and the lock held.    *)
Target(s, m, explicit) ==
  IF explicit \/ rsb.state[s] = "free" THEN m ELSE ConvertMode[rsb.grant[s]][m]

(* LKrequest: CSnoresnow drops a resume left over, then LK_request.        *)
Ask(s, m, explicit) ==
  /\ pc[s] = "idle"
  /\ want' = [want EXCEPT ![s] = Target(s, m, explicit)]
  /\ held' = [held EXCEPT ![s] = Holds(s)]
  /\ LK_request(s, Target(s, m, explicit), FALSE)
  /\ UNCHANGED rousing

(* The loop of LKrequest on LK_PHANTOM, which keeps a resume.              *)
AskAgain(s) ==
  /\ pc[s] = "again"
  /\ LK_request(s, want[s], resumed[s])
  /\ UNCHANGED <<want, held, rousing>>

(* CSsuspend returns OK on a resume, also on one that came before it.      *)
Wake(s) ==
  /\ pc[s] = "asleep" /\ resumed[s]
  /\ pc' = [pc EXCEPT ![s] = "awake"]
  /\ resumed' = [resumed EXCEPT ![s] = FALSE]
  /\ UNCHANGED <<rsb, want, held, linked, cause, result, rousing>>

(* A timeout, an interrupt, or a force abort noticed before CSsuspend.     *)
Expire(s) ==
  /\ pc[s] = "asleep" /\ s \in Impatient
  /\ pc' = [pc EXCEPT ![s] = "leaving"]
  /\ cause' = [cause EXCEPT ![s] = "timeout"]
  /\ UNCHANGED <<rsb, want, held, linked, resumed, result, rousing>>

(* A resume that another facility of the server sent late.                 *)
RogueResume(s) ==
  /\ s \in Rogue /\ ~resumed[s]
  /\ resumed' = [resumed EXCEPT ![s] = TRUE]
  /\ UNCHANGED <<rsb, pc, want, held, linked, cause, result, rousing>>

(* Faulty variant of Unfinished: the victim's mark is not looked at.       *)
UnfinishedUnmarked(s) == linked[s]

(* LK_get_completion_status: a lock block that is still queued, or marked  *)
(* as deadlocked, is cancelled; else the request is complete.              *)
Unfinished(s) == linked[s] \/ rsb.search[s] # "off"

(* Faulty variant of Complete: a session believes every resume.            *)
CompleteBlindly(s) ==
  /\ pc[s] = "awake"
  /\ Return(s, "ok")
  /\ UNCHANGED <<rsb, want, held, linked, resumed, rousing>>

Complete(s) ==
  /\ pc[s] = "awake" /\ ~Unfinished(s)
  /\ Return(s, "ok")
  /\ UNCHANGED <<rsb, want, held, linked, resumed, rousing>>

Incomplete(s) ==
  /\ pc[s] = "awake" /\ Unfinished(s)
  /\ pc' = [pc EXCEPT ![s] = "leaving"]
  /\ cause' = [cause EXCEPT ![s] =
                 IF rsb.search[s] = "dead" THEN "deadlock" ELSE "phantom"]
  /\ UNCHANGED <<rsb, want, held, linked, resumed, result, rousing>>

(* LK_cancel under the lock list's mutex: a lock it sees granted is not    *)
(* cancelled (LK_CANCEL).                                                  *)
CancelTooLate(s) ==
  /\ pc[s] = "leaving" /\ rsb.state[s] = "granted"
  /\ IF cause[s] = "timeout"
       THEN pc' = [pc EXCEPT ![s] = "late"] /\ UNCHANGED <<cause, result>>
       ELSE Return(s, "ok")
  /\ UNCHANGED <<rsb, want, held, linked, resumed, rousing>>

CancelStarts(s) ==
  /\ pc[s] = "leaving" /\ rsb.state[s] # "granted"
  /\ pc' = [pc EXCEPT ![s] = "cancelling"]
  /\ UNCHANGED <<rsb, want, held, linked, resumed, cause, result, rousing>>

(* After LK_CANCEL the session waits for the resume that the grant sends,  *)
(* then CScancelled drops it and the request has completed.                *)
CollectLate(s) ==
  /\ pc[s] = "late" /\ resumed[s]
  /\ resumed' = [resumed EXCEPT ![s] = FALSE]
  /\ Return(s, "ok")
  /\ UNCHANGED <<rsb, want, held, linked, rousing>>

(* Faulty variant of Cancel: the LKB stays on the list's wait queue.       *)
CancelStillLinked(s) ==
  /\ pc[s] = "cancelling"
  /\ WaitCancelled(s) \/ ConversionCancelled(s)
  /\ Others(s, linked[s], FALSE)
  /\ Return(s, cause[s])
  /\ UNCHANGED <<want, held, rousing>>

(* LK_do_cancel under the resource's mutex, which the lock may have been   *)
(* granted before; LK_cancel returns OK in both cases.  A session that     *)
(* timed out drops its resume (CScancelled).                               *)
Cancel(s) ==
  /\ pc[s] = "cancelling"
  /\ \/ WaitCancelled(s)
     \/ ConversionCancelled(s)
     \/ rsb.state[s] = "granted" /\ UNCHANGED rsb
  /\ Others(s, FALSE, resumed[s] /\ cause[s] # "timeout")
  /\ IF cause[s] = "phantom"
       THEN pc' = [pc EXCEPT ![s] = "again"] /\ UNCHANGED <<cause, result>>
       ELSE Return(s, cause[s])
  /\ UNCHANGED <<want, held, rousing>>

(* The session ends its transaction and releases the lock.                 *)
Release(s) ==
  /\ pc[s] = "idle"
  /\ Unlocked(s)
  /\ Others(s, FALSE, resumed[s])
  /\ want' = [want EXCEPT ![s] = NoLock]
  /\ held' = [held EXCEPT ![s] = NoLock]
  /\ result' = [result EXCEPT ![s] = "none"]
  /\ UNCHANGED <<pc, cause, rousing>>

-------------------------------------------------------------------------------
(* LKdeadlock_thread.                                                      *)

SearchClears(l) ==
  /\ rousing = NoList
  /\ Searched(l, FALSE)
  /\ UNCHANGED <<pc, want, held, linked, resumed, cause, result, rousing>>

(* The victim is marked under the resource's mutex, which is then released.*)
SearchFinds(l) ==
  /\ rousing = NoList
  /\ Searched(l, TRUE)
  /\ rousing' = l
  /\ UNCHANGED <<pc, want, held, linked, resumed, cause, result>>

(* Faulty variant of Rouse: the victim's session is not awakened.          *)
RouseSilently(l) ==
  /\ rousing = l
  /\ rousing' = NoList
  /\ linked' = [linked EXCEPT ![l] = FALSE]
  /\ UNCHANGED <<rsb, pc, want, held, resumed, cause, result>>

(* LK_resume of the victim takes whatever its lock block is queued on now  *)
(* from the queues and awakens the session.                                *)
Rouse(l) ==
  /\ rousing = l
  /\ rousing' = NoList
  /\ linked' = [linked EXCEPT ![l] = FALSE]
  /\ resumed' = [resumed EXCEPT ![l] = TRUE]
  /\ IF rsb.search[l] = "listed" THEN Searched(l, FALSE) ELSE UNCHANGED rsb
  /\ UNCHANGED <<pc, want, held, cause, result>>

Step(s) ==
  \/ AskAgain(s)
  \/ Wake(s)
  \/ Complete(s)
  \/ Incomplete(s)
  \/ CancelTooLate(s)
  \/ CancelStarts(s)
  \/ CollectLate(s)
  \/ Cancel(s)

DeadlockThread ==
  \E l \in Lists : SearchClears(l) \/ SearchFinds(l) \/ Rouse(l)

Next ==
  \/ \E s \in Lists :
       \/ \E m \in Wanted, explicit \in BOOLEAN : Ask(s, m, explicit)
       \/ Step(s)
       \/ Expire(s)
       \/ RogueResume(s)
       \/ Release(s)
  \/ DeadlockThread

Spec == Init /\ [][Next]_vars

-------------------------------------------------------------------------------
(* Properties                                                              *)

(* Outside the lock manager a session's lock is on no wait queue and no    *)
(* request of its is left half done.                                       *)
AtRest(s) ==
  /\ rsb.state[s] \in {"free", "granted"}
  /\ ~linked[s] /\ cause[s] = "none"

TypeOK ==
  /\ rsb \in RsbType
  /\ pc \in [Lists -> Places]
  /\ want \in [Lists -> Modes \cup {NoLock}]
  /\ held \in [Lists -> Modes \cup {NoLock}]
  /\ linked \in [Lists -> BOOLEAN] /\ resumed \in [Lists -> BOOLEAN]
  /\ cause \in [Lists -> Causes] /\ result \in [Lists -> Results]
  /\ rousing \in Lists \cup {NoList}
  /\ \A s \in Lists : pc[s] = "idle" => AtRest(s)

(* A session whose request returned OK holds the mode it asked for,        *)
(* whatever resumes it was sent.                                           *)
OkMeansHeld ==
  \A s \in Lists : pc[s] = "idle" /\ result[s] = "ok" => Holds(s) = want[s]

(* A request that returned LK_DEADLOCK left the session with the lock it   *)
(* had before, or with none: no grant slips in between the choice of the   *)
(* victim and its cancellation.                                            *)
DeadlockTakesNothing ==
  \A s \in Lists : pc[s] = "idle" /\ result[s] = "deadlock" => Holds(s) = held[s]

(* A request that returned LK_TIMEOUT or LK_INTERRUPT was taken back       *)
(* (comment in LKrequestWithCallback).                                     *)
TimeoutTakesNothing ==
  \A s \in Lists : pc[s] = "idle" /\ result[s] = "timeout" => Holds(s) = held[s]

(* No session sleeps on a lock it has been granted, or on a request that   *)
(* was chosen as a deadlock victim: a resume is there or on its way.       *)
Expectant(s) ==
  \/ pc[s] = "late"
  \/ /\ pc[s] = "asleep"
     /\ rsb.state[s] = "granted" \/ rsb.search[s] = "dead"

NoLostResume == \A s \in Lists : Expectant(s) => resumed[s] \/ rousing = s

(* The lock manager's promise to its sessions.                             *)
Service ==
  INSTANCE LockService WITH
    owned  <- [s \in Lists |-> Holds(s)],
    asked  <- want,
    kept   <- held,
    answer <- [s \in Lists |-> IF pc[s] = "idle" THEN result[s] ELSE "pending"]

ImplementsService == Service!Spec

(* Fairness: the operating system runs a session that is not blocked, and  *)
(* the deadlock thread; a session that holds a lock and is outside the     *)
(* lock manager again and again ends its transactions.                     *)
SessionsRun ==
  \A s \in Lists :
    /\ WF_vars(Step(s))
    /\ WF_vars(Rouse(s))
    /\ []<>(rsb.state[s] = "granted" /\ pc[s] = "idle") => []<><<Release(s)>>_vars

FairSpec == Spec /\ SessionsRun

(* Every request returns.                                                  *)
Returns(s) == pc[s] # "idle" ~> pc[s] = "idle"
=============================================================================
