------------------------------ MODULE EventService ------------------------------
(***************************************************************************)
(* What LKevent promises (the description of LK_event in back/dmf/lk/      *)
(* lkevent.c): a session that has set an event and waits for it goes on    *)
(* when the event has been signalled, and not before; a signal is meant    *)
(* for all who have set the event and are in its reach.                    *)
(***************************************************************************)
EXTENDS Naturals

CONSTANTS
  Sessions,   \* the sessions
  Proc,       \* the process of each session
  Misled,     \* sessions that resumes not meant for LKevent may hit
  None        \* no session, no event

VARIABLES
  stage,      \* how far each session is
  aim,        \* the event it waits to come, and whether across processes
  signal      \* the signal being sent: by whom, of what, across processes

vars == <<stage, aim, signal>>

(* out   outside LKevent                                                   *)
(* armed has set its event, which is still to come                         *)
(* due   its event has come                                                *)
(* left  was interrupted, released its lock list, or died                  *)
Stages == {"out", "armed", "due", "left"}

Sending == signal.by # None

InReach(s) ==
  /\ aim[s].event = signal.event
  /\ Proc[s] = Proc[signal.by] \/ (aim[s].cross /\ signal.cross)

OthersAim(s) == \A u \in Sessions \ {s} : aim'[u] = aim[u]

Init ==
  /\ stage = [s \in Sessions |-> "out"]
  /\ signal.by = None

Arm(s) ==
  /\ stage[s] = "out"
  /\ stage' = [stage EXCEPT ![s] = "armed"]
  /\ OthersAim(s)
  /\ UNCHANGED signal

Send ==
  /\ ~Sending /\ signal'.by \in Sessions
  /\ UNCHANGED <<stage, aim>>

Occur(s) ==
  /\ Sending /\ stage[s] = "armed" /\ InReach(s)
  /\ stage' = [stage EXCEPT ![s] = "due"]
  /\ OthersAim(s)
  /\ UNCHANGED signal

(* Nobody in reach who has set the event is left out.                      *)
Sent ==
  /\ Sending
  /\ \A s \in Sessions : stage[s] = "armed" => ~InReach(s)
  /\ signal'.by = None
  /\ UNCHANGED <<stage, aim>>

Return(s) ==
  /\ stage[s] = "due" \/ (stage[s] = "armed" /\ s \in Misled)
  /\ stage' = [stage EXCEPT ![s] = "out"]
  /\ OthersAim(s)
  /\ UNCHANGED signal

GiveUp(s) ==
  /\ stage' = [stage EXCEPT ![s] = "left"]
  /\ OthersAim(s)
  /\ UNCHANGED signal

Begin(s) ==
  /\ stage[s] = "left"
  /\ stage' = [stage EXCEPT ![s] = "out"]
  /\ UNCHANGED <<aim, signal>>

Next ==
  \/ \E s \in Sessions : Arm(s) \/ Occur(s) \/ Return(s) \/ GiveUp(s) \/ Begin(s)
  \/ Send \/ Sent

Spec == Init /\ [][Next]_vars
=============================================================================
