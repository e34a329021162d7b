------------------------------- MODULE BufferWait -------------------------------
(***************************************************************************)
(* Sessions that wait for a page buffer's I/O, the main client of the lock *)
(* events (LockEvent): under the buffer's mutex a session that finds the   *)
(* buffer busy sets the event (dm0p_eset) and, the mutex released, waits   *)
(* for it (dm0p_ewait); who ends the I/O signals it (dm0p_erelease),       *)
(* likewise under the mutex (back/dmf/dmp/dm0p.c).                         *)
(*                                                                         *)
(* The events are the buffers, for all processes; the waits are not        *)
(* interruptible.                                                          *)
(***************************************************************************)
EXTENDS LockEvent

Buffers == Events

VARIABLES
  busy,    \* buffers with BUF_RBUSY or BUF_WBUSY
  iowait,  \* buffers with BUF_IOWAIT
  mutex,   \* of each buffer who holds buf_mutex from step to step
  job      \* what each session does, on which buffer

bufVars == <<busy, iowait, mutex, job>>
allVars == <<vars, bufVars>>

(* none     nothing                                                        *)
(* arm      found the buffer busy, has its mutex; about to set the event   *)
(* wait     waits for the event, then looks at the buffer again            *)
(* io       reads or writes the buffer, which is busy                      *)
(* rouse    has ended the I/O, has the mutex; about to signal              *)
(* rousing  signals                                                        *)
JobType == [step : {"none", "arm", "wait", "io", "rouse", "rousing"},
            buf  : Buffers \cup {None}]
NoJob == [step |-> "none", buf |-> None]
Job(p, b) == [step |-> p, buf |-> b]

BufferInit ==
  /\ Init
  /\ busy = {} /\ iowait = {}
  /\ mutex = [b \in Buffers |-> None]
  /\ job = [s \in Sessions |-> NoJob]

Does(s, p) == job' = [job EXCEPT ![s] = p]

-------------------------------------------------------------------------------
(* A session looks at b: for the first time, or after its wait.            *)
Looks(s, b) ==
  /\ At(s, "idle") /\ mutex[b] = None
  /\ job[s] = NoJob \/ job[s] = Job("wait", b)

(* Faulty variant of FindBusy: the mutex is released before dm0p_eset.     *)
FindBusyUnlocked(s, b) ==
  /\ Looks(s, b) /\ b \in busy
  /\ iowait' = iowait \cup {b}
  /\ Does(s, Job("arm", b))
  /\ UNCHANGED <<vars, busy, mutex>>

(* It is busy: BUF_IOWAIT, and the mutex is kept.                          *)
FindBusy(s, b) ==
  /\ Looks(s, b) /\ b \in busy
  /\ iowait' = iowait \cup {b}
  /\ mutex' = [mutex EXCEPT ![b] = s]
  /\ Does(s, Job("arm", b))
  /\ UNCHANGED <<vars, busy>>

(* It is not: the session makes it busy to read or write it, or leaves it. *)
FindReady(s, b) ==
  /\ Looks(s, b) /\ b \notin busy
  /\ \/ busy' = busy \cup {b} /\ Does(s, Job("io", b))
     \/ job[s] # NoJob /\ Does(s, NoJob) /\ UNCHANGED busy
  /\ UNCHANGED <<vars, iowait, mutex>>

(* Faulty variant of SetWait: the session waits with the mutex.            *)
SetWaitHolding(s) ==
  /\ job[s].step = "arm"
  /\ SetEvent(s, job[s].buf, TRUE)
  /\ Does(s, Job("wait", job[s].buf))
  /\ UNCHANGED <<busy, iowait, mutex>>

(* dm0p_eset, and the mutex is released.                                   *)
SetWait(s) ==
  /\ job[s].step = "arm"
  /\ SetEvent(s, job[s].buf, TRUE)
  /\ mutex' = [mutex EXCEPT ![job[s].buf] = None]
  /\ Does(s, Job("wait", job[s].buf))
  /\ UNCHANGED <<busy, iowait>>

(* dm0p_ewait.                                                             *)
WaitForIo(s) ==
  /\ job[s].step = "wait" /\ (Wait(s) \/ Wake(s))
  /\ UNCHANGED bufVars

(* The I/O is over; those who wait for it are awakened before the mutex is *)
(* released.                                                               *)
IoEnds(s) ==
  LET b == job[s].buf
  IN  /\ job[s].step = "io" /\ mutex[b] = None
      /\ busy' = busy \ {b}
      /\ \/ /\ b \in iowait
            /\ mutex' = [mutex EXCEPT ![b] = s]
            /\ Does(s, Job("rouse", b))
         \/ /\ b \notin iowait
            /\ Does(s, NoJob) /\ UNCHANGED mutex
      /\ UNCHANGED <<vars, iowait>>

(* Faulty variant of Rouse: LK_E_CROSS_PROCESS is not given.               *)
RouseNear(s) ==
  /\ job[s].step = "rouse"
  /\ BeginClear(s, job[s].buf, FALSE)
  /\ Does(s, Job("rousing", job[s].buf))
  /\ UNCHANGED <<busy, iowait, mutex>>

(* dm0p_erelease: LK_E_CLR for all processes.                              *)
Rouse(s) ==
  /\ job[s].step = "rouse"
  /\ BeginClear(s, job[s].buf, TRUE)
  /\ Does(s, Job("rousing", job[s].buf))
  /\ UNCHANGED <<busy, iowait, mutex>>

(* The signal comes to the list of s, a resume from another process to s.  *)
SignalAt(s)  == Look(s) /\ UNCHANGED bufVars
ResumeFor(s) == Deliver(s) /\ UNCHANGED bufVars

RouseEnds(s) ==
  LET b == job[s].buf
  IN  /\ job[s].step = "rousing" /\ clear.by = s /\ EndClear
      /\ iowait' = iowait \ {b}
      /\ mutex' = [mutex EXCEPT ![b] = None]
      /\ Does(s, NoJob)
      /\ UNCHANGED busy

GoesOn(s) ==
  \/ SetWait(s) \/ WaitForIo(s) \/ IoEnds(s) \/ Rouse(s) \/ RouseEnds(s)
  \/ \E b \in Buffers : job[s] = Job("wait", b) /\ (FindBusy(s, b) \/ FindReady(s, b))

BufferNext ==
  \E s \in Sessions :
    \/ GoesOn(s) \/ SignalAt(s) \/ ResumeFor(s)
    \/ \E b \in Buffers : FindBusy(s, b) \/ FindReady(s, b)

BufferSpec == BufferInit /\ [][BufferNext]_allVars

(* Sessions run and I/Os end, a signal goes through the queue, resumes     *)
(* arrive.                                                                 *)
BufferFairSpec ==
  /\ BufferSpec
  /\ \A s \in Sessions : WF_allVars(GoesOn(s)) /\ WF_allVars(ResumeFor(s))
  /\ WF_allVars(\E s \in Sessions : SignalAt(s))

-------------------------------------------------------------------------------
(* Properties.                                                             *)

(* Types; the mutex of a buffer is held from step to step by the session   *)
(* that arms or signals its event, and by nobody else.                     *)
BufferTypeOK ==
  /\ TypeOK
  /\ busy \subseteq Buffers /\ iowait \subseteq Buffers
  /\ mutex \in [Buffers -> Sessions \cup {None}]
  /\ job \in [Sessions -> JobType]
  /\ \A b \in Buffers, s \in Sessions :
       mutex[b] = s <=> job[s] \in {Job("arm", b), Job("rouse", b), Job("rousing", b)}

(* A session that has set the event of a buffer's I/O is not forgotten:    *)
(* BUF_IOWAIT is on, and the I/O is still going on or its end is being     *)
(* signalled.  ("Retain buf_mutex until all dm0p_erelease() calls have     *)
(* been made to prevent race condition with LKevent()", awaken_buf_waiters.)*)
SleepersKnown ==
  \A s \in Sessions : llb[s].eset =>
    LET b == job[s].buf
    IN  /\ job[s].step = "wait" /\ llb[s].event = b /\ b \in iowait
        /\ \/ b \in busy
           \/ \E u \in Sessions : job[u] \in {Job("rouse", b), Job("rousing", b)}

(* Every wait for an I/O ends: the event that dm0p_eset has set comes, and *)
(* dm0p_ewait returns.                                                     *)
WaitsEnd ==
  \A s \in Sessions : pc[s] \in {"set", "asleep"} ~> pc[s] = "idle"
=============================================================================
