------------------------------- MODULE LockEvent -------------------------------
(***************************************************************************)
(* Lock events: sessions that set an event, wait for it and signal it      *)
(* (LKevent, LK_event and LK_cancel_event_wait of back/dmf/lk/lkevent.c,   *)
(* the event part of LK_cancel and LK_release in lkrlse.c, and of          *)
(* LK_rundown in lkinit.c).                                                *)
(*                                                                         *)
(* Each session has a lock list (LLB) of its own.  What runs under         *)
(* llb_mutex is one step; lkd_ew_q_mutex is held from step to step by the  *)
(* session that signals, which looks at the waiting lists one by one.      *)
(***************************************************************************)
EXTENDS Naturals, FiniteSets

CONSTANTS
  Sessions,       \* sessions
  Procs,          \* processes (servers)
  Proc,           \* the process of each session
  Events,         \* event types and values
  Interruptible,  \* sessions that wait with LK_E_INTERRUPT
  Mortal,         \* processes that may die
  Rogue,          \* sessions that resumes not meant for LKevent may hit
  None            \* no session, no event

ASSUME EventAssumption ==
  /\ Proc \in [Sessions -> Procs]
  /\ Interruptible \subseteq Sessions /\ Rogue \subseteq Sessions
  /\ Mortal \subseteq Procs
  /\ None \notin Sessions \cup Events

VARIABLES
  llb,      \* of each lock list what concerns events
  ewq,      \* the lists on the event wait queue (lkd_ew_next)
  clear,    \* the LK_E_CLR in progress: it holds lkd_ew_q_mutex
  pc,       \* where each session is
  resumed,  \* a resume that CS keeps for the session
  posted,   \* a resume from another process that has not arrived
  dead      \* the processes that have died

vars == <<llb, ewq, clear, pc, resumed, posted, dead>>

LlbType ==
  [eset      : BOOLEAN,    \* LLB_ESET
   ewait     : BOOLEAN,    \* LLB_EWAIT
   edone     : BOOLEAN,    \* LLB_EDONE
   cancelled : BOOLEAN,    \* LLB_CANCELLED_EVENT
   event     : Events \cup {None},   \* llb_event, while LLB_ESET is on
   cross     : BOOLEAN]    \* llb_evflags & LK_CROSS_PROCESS_EVENT, too

NewLlb == [eset |-> FALSE, ewait |-> FALSE, edone |-> FALSE,
           cancelled |-> FALSE, event |-> None, cross |-> FALSE]

(* idle     outside LKevent, no event set                                  *)
(* doubt    finds its event still set from before; waits a while           *)
(* set      has set an event, not yet waiting                              *)
(* asleep   about to call, or in, CSsuspend                                *)
(* leaving  interrupted; about to call LK_cancel                           *)
(* relock   in LK_cancel_event_wait, between the mutexes                   *)
(* late     LK_cancel found the event signalled: waits for the resume      *)
(* ended    its wait is cancelled; about to return LK_INTERRUPT            *)
(* unhook   its list is being released, between the mutexes                *)
(* gone     the session has ended, its lock list is released               *)
Places == {"idle", "doubt", "set", "asleep", "leaving", "relock", "late",
           "ended", "unhook", "gone"}

ClearType == [by : Sessions \cup {None}, event : Events \cup {None},
              cross : BOOLEAN, rest : SUBSET Sessions]
NoClear == [by |-> None, event |-> None, cross |-> FALSE, rest |-> {}]

Init ==
  /\ llb = [s \in Sessions |-> NewLlb]
  /\ ewq = {} /\ clear = NoClear
  /\ pc = [s \in Sessions |-> "idle"]
  /\ resumed = [s \in Sessions |-> FALSE]
  /\ posted = [s \in Sessions |-> FALSE]
  /\ dead = {}

-------------------------------------------------------------------------------
(* The event wait queue is free, that is, nobody signals.                  *)
QueueFree == clear.by = None

(* Session s runs and is at place p.                                       *)
Alive(s) == Proc[s] \notin dead
At(s, p) == Alive(s) /\ clear.by # s /\ pc[s] = p

Goes(s, p) == pc' = [pc EXCEPT ![s] = p]

(* The list of s is on the queue for event e.                              *)
Armed(l, e, x) ==
  [l EXCEPT !.eset = TRUE, !.ewait = FALSE, !.edone = FALSE,
            !.cancelled = FALSE, !.event = e, !.cross = x]

Hooked(s, e, x) ==
  /\ QueueFree
  /\ llb' = [llb EXCEPT ![s] = Armed(@, e, x)]
  /\ ewq' = ewq \cup {s}

-------------------------------------------------------------------------------
(* LKevent(LK_E_SET).  Rogue resumes are dropped (CSnoresnow).             *)
SetEvent(s, e, x) ==
  /\ At(s, "idle") /\ ~llb[s].eset
  /\ Hooked(s, e, x)
  /\ Goes(s, "set")
  /\ resumed' = [resumed EXCEPT ![s] = FALSE]
  /\ UNCHANGED <<clear, posted, dead>>

(* An event is still set: the session suspends for up to ten seconds.      *)
StillSet(s) ==
  /\ At(s, "idle") /\ llb[s].eset
  /\ Goes(s, "doubt")
  /\ resumed' = [resumed EXCEPT ![s] = FALSE]
  /\ UNCHANGED <<llb, ewq, clear, posted, dead>>

(* Then LK_event looks again: the event is set, or LK_BADPARAM.            *)
SetLate(s, e, x) ==
  /\ At(s, "doubt")
  /\ \/ ~llb[s].eset /\ Hooked(s, e, x) /\ Goes(s, "set")
     \/ llb[s].eset /\ QueueFree /\ Goes(s, "idle") /\ UNCHANGED <<llb, ewq>>
  /\ resumed' = [resumed EXCEPT ![s] = FALSE]
  /\ UNCHANGED <<clear, posted, dead>>

-------------------------------------------------------------------------------
(* LKevent(LK_E_WAIT).                                                     *)

(* Faulty variant of Wait: the session sleeps also if the event has come.  *)
WaitAnyway(s) ==
  /\ At(s, "set")
  /\ llb' = [llb EXCEPT ![s].ewait = TRUE, ![s].edone = FALSE]
  /\ Goes(s, "asleep")
  /\ UNCHANGED <<ewq, clear, resumed, posted, dead>>

Wait(s) ==
  /\ At(s, "set")
  /\ \/ /\ llb[s].edone
        /\ llb' = [llb EXCEPT ![s].edone = FALSE] /\ Goes(s, "idle")
     \/ /\ ~llb[s].edone
        /\ llb' = [llb EXCEPT ![s].ewait = TRUE] /\ Goes(s, "asleep")
  /\ UNCHANGED <<ewq, clear, resumed, posted, dead>>

(* CSsuspend returns OK on a resume, also on one that came before it, and  *)
(* so does LKevent.                                                        *)
Wake(s) ==
  /\ At(s, "asleep") /\ resumed[s]
  /\ Goes(s, "idle")
  /\ resumed' = [resumed EXCEPT ![s] = FALSE]
  /\ UNCHANGED <<llb, ewq, clear, posted, dead>>

(* CSsuspend is interrupted: the thread is to terminate.                   *)
Interrupt(s) ==
  /\ s \in Interruptible /\ At(s, "asleep")
  /\ Goes(s, "leaving")
  /\ UNCHANGED <<llb, ewq, clear, resumed, posted, dead>>

(* LK_cancel: a session that is no longer waiting (LK_CANCEL) will get a   *)
(* resume; else llb_mutex is given up to take lkd_ew_q_mutex first.        *)
Cancel(s) ==
  /\ At(s, "leaving")
  /\ Goes(s, IF llb[s].ewait THEN "relock" ELSE "late")
  /\ UNCHANGED <<llb, ewq, clear, resumed, posted, dead>>

(* Faulty variant of CancelWait: the list stays on the event wait queue.   *)
CancelWaitHooked(s) ==
  /\ At(s, "relock") /\ QueueFree
  /\ llb' = [llb EXCEPT ![s] = [NewLlb EXCEPT !.cancelled = TRUE]]
  /\ Goes(s, "ended")
  /\ UNCHANGED <<ewq, clear, resumed, posted, dead>>

(* With both mutexes the list leaves the queue, if it still is on it.      *)
CancelWait(s) ==
  /\ At(s, "relock") /\ QueueFree
  /\ ewq' = ewq \ {s}
  /\ llb' = [llb EXCEPT ![s] = [NewLlb EXCEPT !.cancelled = TRUE]]
  /\ Goes(s, "ended")
  /\ UNCHANGED <<clear, resumed, posted, dead>>

(* LKevent returns LK_INTERRUPT: without a further look if the wait was    *)
(* cancelled, else when the resume came or ten seconds have passed.  A     *)
(* resume that is there is dropped (CScancelled).                          *)
ReturnInterrupted(s) ==
  /\ At(s, "ended") \/ At(s, "late")
  /\ llb' = [llb EXCEPT ![s] = NewLlb]
  /\ Goes(s, "gone")
  /\ resumed' = [resumed EXCEPT ![s] = FALSE]
  /\ UNCHANGED <<ewq, clear, posted, dead>>

-------------------------------------------------------------------------------
(* LKevent(LK_E_CLR).                                                      *)

BeginClear(s, e, x) ==
  /\ QueueFree
  /\ At(s, "idle") \/ At(s, "set")
  /\ clear' = [by |-> s, event |-> e, cross |-> x, rest |-> ewq]
  /\ UNCHANGED <<llb, ewq, pc, resumed, posted, dead>>

(* Faulty variant of Reaches: the waiter alone decides on its reach.       *)
ReachesAll(s) ==
  /\ llb[s].event = clear.event
  /\ Proc[s] = Proc[clear.by] \/ llb[s].cross

(* The signal reaches the list of s.                                       *)
Reaches(s) ==
  /\ llb[s].event = clear.event
  /\ Proc[s] = Proc[clear.by] \/ (llb[s].cross /\ clear.cross)

(* Faulty variant of Resumes: other processes are not told.                *)
ResumesOwn(s) ==
  /\ resumed' = [resumed EXCEPT ![s] = @ \/ Proc[s] = Proc[clear.by]]
  /\ UNCHANGED posted

(* LKcp_resume: at once within a process; a message to another one, unless *)
(* it is not alive.                                                        *)
Resumes(s) ==
  /\ resumed' = [resumed EXCEPT ![s] = @ \/ Proc[s] = Proc[clear.by]]
  /\ posted' = [posted EXCEPT ![s] = @ \/ (Proc[s] # Proc[clear.by] /\ Alive(s))]

(* Its session has been waiting, or will find that the event has come.     *)
Signalled(l) == [NewLlb EXCEPT !.edone = ~l.ewait]

(* Faulty variant of Look: the signal comes back to a list it has left.    *)
LookAgain(s) ==
  /\ ~QueueFree /\ s \in clear.rest
  /\ \/ /\ Reaches(s)
        /\ ewq' = ewq \ {s}
        /\ llb' = [llb EXCEPT ![s] = Signalled(@)]
        /\ IF llb[s].ewait THEN Resumes(s) ELSE UNCHANGED <<resumed, posted>>
        /\ UNCHANGED clear
     \/ /\ ~Reaches(s)
        /\ clear' = [clear EXCEPT !.rest = @ \ {s}]
        /\ UNCHANGED <<llb, ewq, resumed, posted>>
  /\ UNCHANGED <<pc, dead>>

(* The next list on the queue.  One that the signal reaches leaves it,     *)
(* its session is resumed if it waits.                                     *)
Look(s) ==
  /\ ~QueueFree /\ s \in clear.rest
  /\ clear' = [clear EXCEPT !.rest = @ \ {s}]
  /\ \/ /\ Reaches(s)
        /\ ewq' = ewq \ {s}
        /\ llb' = [llb EXCEPT ![s] = Signalled(@)]
        /\ IF llb[s].ewait THEN Resumes(s) ELSE UNCHANGED <<resumed, posted>>
     \/ ~Reaches(s) /\ UNCHANGED <<llb, ewq, resumed, posted>>
  /\ UNCHANGED <<pc, dead>>

EndClear ==
  /\ ~QueueFree /\ clear.rest = {}
  /\ clear' = NoClear
  /\ UNCHANGED <<llb, ewq, pc, resumed, posted, dead>>

(* A resume from another process arrives.                                  *)
Deliver(s) ==
  /\ Alive(s) /\ posted[s]
  /\ posted' = [posted EXCEPT ![s] = FALSE]
  /\ resumed' = [resumed EXCEPT ![s] = TRUE]
  /\ UNCHANGED <<llb, ewq, clear, pc, dead>>

(* A resume that another facility sent late.                               *)
RogueResume(s) ==
  /\ s \in Rogue /\ Alive(s) /\ pc[s] # "gone" /\ ~resumed[s]
  /\ resumed' = [resumed EXCEPT ![s] = TRUE]
  /\ UNCHANGED <<llb, ewq, clear, pc, posted, dead>>

-------------------------------------------------------------------------------
(* The end of a lock list, and of a process.                               *)

(* LK_cancel_event_wait of a list that is being released.                  *)
Unhooked(s) ==
  IF llb[s].eset
    THEN Goes(s, "unhook") /\ UNCHANGED llb
    ELSE Goes(s, "gone") /\ llb' = [llb EXCEPT ![s] = NewLlb]

(* A session ends without having waited for the event it may have set.     *)
LK_release(s) ==
  /\ At(s, "idle") \/ At(s, "set")
  /\ Unhooked(s)
  /\ UNCHANGED <<ewq, clear, resumed, posted, dead>>

(* A process dies, the event wait queue not in its hands.                  *)
Die(p) ==
  /\ p \in Mortal \ dead
  /\ \A s \in Sessions : clear.by = s => Proc[s] # p
  /\ dead' = dead \cup {p}
  /\ UNCHANGED <<llb, ewq, clear, pc, resumed, posted>>

LK_rundown(s) ==
  /\ ~Alive(s) /\ pc[s] \notin {"unhook", "gone"}
  /\ Unhooked(s)
  /\ UNCHANGED <<ewq, clear, resumed, posted, dead>>

Unhook(s) ==
  /\ pc[s] = "unhook" /\ QueueFree
  /\ ewq' = ewq \ {s}
  /\ llb' = [llb EXCEPT ![s] = NewLlb]
  /\ Goes(s, "gone")
  /\ UNCHANGED <<clear, resumed, posted, dead>>

(* Another session takes the place of one that has ended.                  *)
Connect(s) ==
  /\ pc[s] = "gone"
  /\ \/ Alive(s) /\ UNCHANGED dead
     \/ /\ ~Alive(s) /\ \A u \in Sessions : Proc[u] = Proc[s] => pc[u] = "gone"
        /\ dead' = dead \ {Proc[s]}
  /\ Goes(s, "idle")
  /\ resumed' = [resumed EXCEPT ![s] = FALSE]
  /\ posted' = [posted EXCEPT ![s] = FALSE]
  /\ UNCHANGED <<llb, ewq, clear>>

-------------------------------------------------------------------------------
(* What goes on without a new call.                                        *)
Step(s) ==
  \/ Wake(s) \/ Cancel(s) \/ CancelWait(s) \/ ReturnInterrupted(s)
  \/ LK_rundown(s) \/ Unhook(s)

Call(s) ==
  \/ \E e \in Events, x \in BOOLEAN :
       SetEvent(s, e, x) \/ SetLate(s, e, x) \/ BeginClear(s, e, x)
  \/ StillSet(s) \/ Wait(s) \/ LK_release(s) \/ Connect(s)

Next ==
  \/ \E s \in Sessions :
       \/ Step(s) \/ Call(s) \/ Look(s) \/ Deliver(s)
       \/ Interrupt(s) \/ RogueResume(s)
  \/ EndClear
  \/ \E p \in Procs : Die(p)

Spec == Init /\ [][Next]_vars

(* Sessions run, a signal is sent to the end, and resumes arrive.          *)
FairSpec ==
  /\ Spec
  /\ \A s \in Sessions : WF_vars(Step(s)) /\ WF_vars(Deliver(s))
  /\ WF_vars(EndClear \/ \E s \in Sessions : Look(s))

-------------------------------------------------------------------------------
(* Properties.                                                             *)

(* Every variable has its type; a signal in progress looks at lists that   *)
(* are on the queue.                                                       *)
TypeOK ==
  /\ llb \in [Sessions -> LlbType]
  /\ ewq \subseteq Sessions
  /\ clear \in ClearType /\ clear.rest \subseteq ewq
  /\ pc \in [Sessions -> Places]
  /\ resumed \in [Sessions -> BOOLEAN] /\ posted \in [Sessions -> BOOLEAN]
  /\ dead \subseteq Procs

(* "ESET means the LLB is on the wait queue, EWAIT means the LLB is        *)
(* waiting on an event, EDONE means the event arrived before the thread    *)
(* suspended" (comment in LK_event): the flags and the queue agree, also   *)
(* when signals, interrupts and the death of processes meet.               *)
FlagsTell ==
  \A s \in Sessions :
    /\ s \in ewq <=> llb[s].eset
    /\ llb[s].ewait => llb[s].eset
    /\ llb[s].edone => pc[s] \in {"set", "unhook"} /\ ~llb[s].eset /\ ~llb[s].ewait

(* An event is not lost: a session that sleeps on after its event was      *)
(* signalled has a resume, or one is on its way; so that also a session    *)
(* interrupted too late to cancel its wait does not wait in vain.          *)
NoLostEvent ==
  \A s \in Sessions :
    pc[s] \in {"asleep", "leaving", "late"} /\ ~llb[s].eset /\ Alive(s)
      => resumed[s] \/ posted[s]

(* LKevent keeps its promise, whatever the order of the mutexes.           *)
Stage(s) ==
  CASE pc[s] \in {"idle", "doubt"} -> "out"
    [] pc[s] \in {"set", "asleep"} -> IF llb[s].eset THEN "armed" ELSE "due"
    [] OTHER -> "left"
Aim(s) ==
  IF Stage(s) = "armed"
    THEN [event |-> llb[s].event, cross |-> llb[s].cross]
    ELSE [event |-> None, cross |-> FALSE]

Events_ == INSTANCE EventService WITH
             Misled <- Rogue,
             stage  <- [s \in Sessions |-> Stage(s)],
             aim    <- [s \in Sessions |-> Aim(s)],
             signal <- [by |-> clear.by, event |-> clear.event,
                        cross |-> clear.cross]

ImplementsEvents == Events_!Spec

(* A session that waits for an event that was signalled goes on.           *)
SignalledGoesOn ==
  \A s \in Sessions :
    pc[s] = "asleep" /\ ~llb[s].eset /\ Alive(s)
      ~> pc[s] # "asleep" \/ ~Alive(s)

(* "Indicate that the event has been cancelled, so no resumes expected"    *)
(* (LK_cancel_event_wait): a session whose wait is marked as cancelled has *)
(* no resume, nor is one on its way.                                       *)
NoResumeExpected ==
  \A s \in Sessions : llb[s].cancelled => ~resumed[s] /\ ~posted[s]

(* "This will suspend the caller until the event is signalled by some      *)
(* other thread" (description of LK_event): who has returned from the wait *)
(* has no event set any more.                                              *)
WaitedToTheEnd ==
  \A s \in Sessions : pc[s] = "idle" => ~llb[s].eset
=============================================================================
