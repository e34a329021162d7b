--------------------------- MODULE LockEvent_proofs ---------------------------
(***************************************************************************)
(* Proofs about LockEvent, the lock events, and about BufferWait, the page *)
(* cache as their client, for any sets of sessions, processes and events.  *)
(*                                                                         *)
(* EventSound is the inductive invariant of LockEvent: what each session's *)
(* flags, place and resumes say of each other (Told), and what a signal in *)
(* progress has behind it (SignalSound).                                   *)
(***************************************************************************)
EXTENDS BufferWait, TLAPS

(* The flags, the queue and the place of s agree, its event is not lost,   *)
(* and only who may be misled has a resume that LKevent did not send for   *)
(* the wait it is in.                                                      *)
FlagsOf(s) ==
  /\ s \in ewq <=> llb[s].eset
  /\ llb[s].ewait => llb[s].eset
  /\ llb[s].edone => pc[s] \in {"set", "unhook"} /\ ~llb[s].eset /\ ~llb[s].ewait
PlaceOf(s) ==
  /\ llb[s].eset /\ ~llb[s].ewait => pc[s] \in {"set", "unhook"}
  /\ pc[s] = "set" => ~llb[s].ewait /\ (llb[s].eset \/ llb[s].edone)
  /\ pc[s] \in {"late", "ended", "gone"} => ~llb[s].eset
ResumeOf(s) ==
  /\ pc[s] \in {"asleep", "leaving", "late"} /\ ~llb[s].eset /\ Alive(s)
       => resumed[s] \/ posted[s]
  /\ s \notin Rogue /\ (resumed[s] \/ posted[s])
       => ~llb[s].eset /\ pc[s] \notin {"idle", "doubt", "set"}
  /\ s \notin Rogue =>
       ~(resumed[s] /\ posted[s]) /\ (pc[s] \in {"idle", "doubt"} => ~llb[s].eset)
Told(s) == FlagsOf(s) /\ PlaceOf(s) /\ ResumeOf(s)

(* Who has been looked at and is still on the queue is out of reach.       *)
SignalSound ==
  /\ QueueFree => clear.rest = {}
  /\ ~QueueFree => \A s \in ewq \ clear.rest : ~Reaches(s)

EventSound == TypeOK /\ (\A s \in Sessions : Told(s)) /\ SignalSound

-------------------------------------------------------------------------------
(* What a step leaves alone.                                               *)

(* The actions whose only session is s.                                    *)
Act(s) ==
  \/ Step(s) \/ Call(s) \/ Look(s) \/ Deliver(s) \/ Interrupt(s) \/ RogueResume(s)

(* Nothing of u changes, and u is not brought back to life.                *)
Same(u) ==
  /\ llb'[u] = llb[u] /\ pc'[u] = pc[u]
  /\ resumed'[u] = resumed[u] /\ posted'[u] = posted[u]
  /\ (u \in ewq') = (u \in ewq)
  /\ Alive(u)' => Alive(u)

LEMMA SameTold ==
  ASSUME NEW u \in Sessions, Told(u), Same(u) PROVE Told(u)'
  BY SMTT(30) DEF Told, FlagsOf, PlaceOf, ResumeOf, Same

(* The types of the signals and of the new values.                         *)
LEMMA NewLlbTyped ==
  /\ NewLlb \in LlbType /\ [NewLlb EXCEPT !.cancelled = TRUE] \in LlbType
  /\ \A l \in LlbType : Signalled(l) \in LlbType
  /\ \A l \in LlbType, e \in Events, x \in BOOLEAN : Armed(l, e, x) \in LlbType
  /\ \A l \in LlbType : [l EXCEPT !.edone = FALSE] \in LlbType
  /\ \A l \in LlbType : [l EXCEPT !.ewait = TRUE] \in LlbType
  BY DEF NewLlb, LlbType, Signalled, Armed

LEMMA EventTypesHold ==
  ASSUME TypeOK, SignalSound, [Next]_vars PROVE TypeOK'
<1> USE EventAssumption
<1>1. CASE UNCHANGED vars
  BY <1>1 DEF TypeOK, vars
<1>2. ASSUME NEW s \in Sessions, Step(s) PROVE TypeOK'
  <2>1. CASE Wake(s) \/ Cancel(s)
    BY <2>1 DEF TypeOK, Wake, Cancel, Goes, Places
  <2>2. CASE CancelWait(s) \/ Unhook(s)
    <3>1. llb' \in [Sessions -> LlbType]
      BY <2>2, NewLlbTyped DEF TypeOK, CancelWait, Unhook
    <3>2. pc' \in [Sessions -> Places]
      BY <2>2 DEF TypeOK, CancelWait, Unhook, Goes, Places
    <3>3. /\ ewq' \subseteq Sessions /\ clear' = clear /\ clear.rest = {}
          /\ resumed' = resumed /\ posted' = posted /\ dead' = dead
      BY <2>2 DEF TypeOK, CancelWait, Unhook, SignalSound
    <3>4. QED BY <3>1, <3>2, <3>3 DEF TypeOK
  <2>3. CASE ReturnInterrupted(s)
    BY <2>3, NewLlbTyped DEF TypeOK, ReturnInterrupted, Goes, Places
  <2>4. CASE LK_rundown(s)
    BY <2>4, NewLlbTyped DEF TypeOK, LK_rundown, Unhooked, Goes, Places
  <2>5. QED BY <1>2, <2>1, <2>2, <2>3, <2>4 DEF Step
<1>3. ASSUME NEW s \in Sessions, Call(s) PROVE TypeOK'
  <2>1. ASSUME NEW e \in Events, NEW x \in BOOLEAN, SetEvent(s, e, x) \/ SetLate(s, e, x)
        PROVE  TypeOK'
    <3>1. llb' \in [Sessions -> LlbType]
      <4>1. llb[s] \in LlbType BY DEF TypeOK
      <4>2. llb' = [llb EXCEPT ![s] = Armed(@, e, x)] \/ llb' = llb
        BY <2>1 DEF SetEvent, SetLate, Hooked
      <4>3. Armed(llb[s], e, x) \in LlbType BY <4>1, NewLlbTyped
      <4>4. QED BY <4>2, <4>3 DEF TypeOK
    <3>2. pc' \in [Sessions -> Places]
      BY <2>1 DEF TypeOK, SetEvent, SetLate, Goes, Places
    <3>3. /\ ewq' \subseteq Sessions /\ ewq \subseteq ewq' /\ clear' = clear
          /\ resumed' \in [Sessions -> BOOLEAN] /\ posted' = posted /\ dead' = dead
      BY <2>1 DEF TypeOK, SetEvent, SetLate, Hooked
    <3>4. QED BY <3>1, <3>2, <3>3 DEF TypeOK
  <2>2. ASSUME NEW e \in Events, NEW x \in BOOLEAN, BeginClear(s, e, x)
        PROVE  TypeOK'
    BY <2>2 DEF TypeOK, BeginClear, ClearType
  <2>3. CASE StillSet(s)
    BY <2>3 DEF TypeOK, StillSet, Goes, Places
  <2>4. CASE Wait(s)
    BY <2>4, NewLlbTyped DEF TypeOK, Wait, Goes, Places
  <2>5. CASE LK_release(s)
    BY <2>5, NewLlbTyped DEF TypeOK, LK_release, Unhooked, Goes, Places
  <2>6. CASE Connect(s)
    BY <2>6 DEF TypeOK, Connect, Goes, Places
  <2>7. QED BY <1>3, <2>1, <2>2, <2>3, <2>4, <2>5, <2>6 DEF Call
<1>4. ASSUME NEW s \in Sessions, Look(s) PROVE TypeOK'
  <2>1. llb' \in [Sessions -> LlbType]
    BY <1>4, NewLlbTyped DEF TypeOK, Look
  <2>2. clear' \in ClearType /\ clear'.rest = clear.rest \ {s}
    BY <1>4 DEF TypeOK, Look, ClearType
  <2>3. ewq' \subseteq Sessions /\ ewq \ {s} \subseteq ewq'
    BY <1>4 DEF TypeOK, Look
  <2>4. /\ resumed' \in [Sessions -> BOOLEAN] /\ posted' \in [Sessions -> BOOLEAN]
        /\ pc' = pc /\ dead' = dead
    BY <1>4 DEF TypeOK, Look, Resumes
  <2>5. QED BY <2>1, <2>2, <2>3, <2>4 DEF TypeOK
<1>5. ASSUME NEW s \in Sessions, Deliver(s) PROVE TypeOK'
  BY <1>5 DEF TypeOK, Deliver
<1>6. ASSUME NEW s \in Sessions, Interrupt(s) PROVE TypeOK'
  BY <1>6 DEF TypeOK, Interrupt, Goes, Places
<1>7. ASSUME NEW s \in Sessions, RogueResume(s) PROVE TypeOK'
  BY <1>7 DEF TypeOK, RogueResume
<1>8. CASE EndClear
  BY <1>8 DEF TypeOK, EndClear, NoClear, ClearType
<1>9. ASSUME NEW p \in Procs, Die(p) PROVE TypeOK'
  BY <1>9 DEF TypeOK, Die
<1>10. QED
  BY <1>1, <1>2, <1>3, <1>4, <1>5, <1>6, <1>7, <1>8, <1>9 DEF Next

(* A step of s is none of any other session's; when a process starts anew, *)
(* its sessions have all ended.                                            *)
Ended(u) == pc[u] = "gone" /\ pc'[u] = "gone" /\ llb'[u] = llb[u]
            /\ resumed'[u] = resumed[u] /\ posted'[u] = posted[u]
            /\ (u \in ewq') = (u \in ewq)

LEMMA EndedTold ==
  ASSUME NEW u \in Sessions, Told(u), Ended(u) PROVE Told(u)'
  BY SMTT(30) DEF Told, FlagsOf, PlaceOf, ResumeOf, Ended

LEMMA OthersSame ==
  ASSUME TypeOK, NEW s \in Sessions, Act(s), NEW u \in Sessions, u # s
  PROVE  Same(u) \/ Ended(u)
<1>1. CASE Step(s)
  BY <1>1 DEF TypeOK, Same, Step, Wake, Cancel, CancelWait, Alive,
     ReturnInterrupted, LK_rundown, Unhook, Unhooked, Goes
<1>2. CASE Call(s)
  <2>1. ASSUME NEW e \in Events, NEW x \in BOOLEAN,
               SetEvent(s, e, x) \/ SetLate(s, e, x) \/ BeginClear(s, e, x)
        PROVE  Same(u)
    BY <2>1 DEF TypeOK, Same, SetEvent, SetLate, BeginClear, Hooked, Goes, Alive
  <2>2. CASE StillSet(s) \/ Wait(s) \/ LK_release(s)
    BY <2>2 DEF TypeOK, Same, StillSet, Wait, LK_release, Unhooked, Goes, Alive
  <2>3. CASE Connect(s)
    BY <2>3 DEF TypeOK, Same, Ended, Connect, Goes, Alive
  <2>4. QED BY <1>2, <2>1, <2>2, <2>3 DEF Call
<1>3. CASE Look(s)
  BY <1>3 DEF TypeOK, Same, Look, Resumes, Alive
<1>4. CASE Deliver(s) \/ Interrupt(s) \/ RogueResume(s)
  BY <1>4 DEF TypeOK, Same, Deliver, Interrupt, RogueResume, Goes, Alive
<1>5. QED BY <1>1, <1>2, <1>3, <1>4 DEF Act

-------------------------------------------------------------------------------
(* What a session's own step leaves it with.                               *)

LEMMA NewLlbFlags ==
  /\ ~NewLlb.eset /\ ~NewLlb.ewait /\ ~NewLlb.edone
  /\ LET l == [NewLlb EXCEPT !.cancelled = TRUE] IN ~l.eset /\ ~l.ewait /\ ~l.edone
  BY DEF NewLlb

LEMMA ArmedFlags ==
  ASSUME NEW l \in LlbType, NEW e \in Events, NEW x \in BOOLEAN
  PROVE  LET a == Armed(l, e, x)
         IN  a.eset /\ ~a.ewait /\ ~a.edone /\ a.event = e /\ a.cross = x
  BY DEF Armed, LlbType

LEMMA SignalledFlags ==
  ASSUME NEW l \in LlbType
  PROVE  LET a == Signalled(l) IN ~a.eset /\ ~a.ewait /\ a.edone = ~l.ewait
  BY DEF Signalled, LlbType, NewLlb

LEMMA StepTold ==
  ASSUME TypeOK, NEW s \in Sessions, Told(s), Step(s) PROVE Told(s)'
<1> USE DEF Told, FlagsOf, PlaceOf, ResumeOf
<1>1. CASE Wake(s)
  BY <1>1 DEF TypeOK, Wake, Goes, At, Alive
<1>2. CASE Cancel(s)
  BY <1>2 DEF TypeOK, Cancel, Goes, At, Alive
<1>3. CASE CancelWait(s) \/ Unhook(s)
  BY <1>3, NewLlbFlags DEF TypeOK, CancelWait, Unhook, Goes, At, Alive
<1>4. CASE ReturnInterrupted(s)
  BY <1>4, NewLlbFlags DEF TypeOK, ReturnInterrupted, Goes, At, Alive
<1>5. CASE LK_rundown(s)
  BY <1>5, NewLlbFlags DEF TypeOK, LK_rundown, Unhooked, Goes, Alive
<1>6. QED BY <1>1, <1>2, <1>3, <1>4, <1>5 DEF Step

LEMMA CallTold ==
  ASSUME TypeOK, NEW s \in Sessions, Told(s), Call(s) PROVE Told(s)'
<1> USE DEF Told, FlagsOf, PlaceOf, ResumeOf
<1>1. ASSUME NEW e \in Events, NEW x \in BOOLEAN, SetEvent(s, e, x) \/ SetLate(s, e, x)
      PROVE  Told(s)'
  <2>1. llb[s] \in LlbType BY DEF TypeOK
  <2>2. /\ Armed(llb[s], e, x).eset /\ ~Armed(llb[s], e, x).ewait
        /\ ~Armed(llb[s], e, x).edone
    BY <2>1, ArmedFlags
  <2>3. /\ ~resumed'[s] /\ posted' = posted /\ dead' = dead
        /\ pc[s] \in {"idle", "doubt"}
    BY <1>1 DEF TypeOK, SetEvent, SetLate, At
  <2>4. CASE /\ llb' = [llb EXCEPT ![s] = Armed(@, e, x)] /\ ewq' = ewq \cup {s}
             /\ pc' = [pc EXCEPT ![s] = "set"]
    BY <2>2, <2>3, <2>4 DEF TypeOK
  <2>5. CASE llb' = llb /\ ewq' = ewq /\ pc' = [pc EXCEPT ![s] = "idle"]
             /\ llb[s].eset
    BY <2>3, <2>5 DEF TypeOK, Alive
  <2>6. QED BY <1>1, <2>4, <2>5 DEF SetEvent, SetLate, Hooked, Goes
<1>2. ASSUME NEW e \in Events, NEW x \in BOOLEAN, BeginClear(s, e, x)
      PROVE  Told(s)'
  BY <1>2 DEF BeginClear, Alive
<1>3. CASE StillSet(s)
  BY <1>3 DEF TypeOK, StillSet, Goes, At, Alive
<1>4. CASE Wait(s)
  BY <1>4 DEF TypeOK, Wait, Goes, At, Alive, LlbType
<1>5. CASE LK_release(s)
  BY <1>5, NewLlbFlags DEF TypeOK, LK_release, Unhooked, Goes, At, Alive
<1>6. CASE Connect(s)
  BY <1>6 DEF TypeOK, Connect, Goes
<1>7. QED BY <1>1, <1>2, <1>3, <1>4, <1>5, <1>6 DEF Call

LEMMA LookTold ==
  ASSUME TypeOK, NEW s \in Sessions, Told(s), Look(s) PROVE Told(s)'
<1> USE DEF Told, FlagsOf, PlaceOf, ResumeOf
<1>1. llb[s].eset
  BY DEF TypeOK, Look
<1>2. CASE Reaches(s)
  <2>1. /\ llb' = [llb EXCEPT ![s] = Signalled(@)] /\ ewq' = ewq \ {s}
        /\ pc' = pc /\ dead' = dead
    BY <1>2 DEF Look
  <2>2. llb[s] \in LlbType BY DEF TypeOK
  <2>3. /\ ~llb'[s].eset /\ ~llb'[s].ewait /\ llb'[s].edone = ~llb[s].ewait
    BY <2>1, <2>2, SignalledFlags DEF TypeOK
  <2>4. CASE llb[s].ewait
    <3>1. /\ resumed'[s] = (resumed[s] \/ Proc[s] = Proc[clear.by])
          /\ posted'[s] = (posted[s] \/ (Proc[s] # Proc[clear.by] /\ Alive(s)))
      BY <1>2, <2>4 DEF Look, Resumes, TypeOK
    <3>2. Alive(s)' = Alive(s) BY <2>1 DEF Alive
    <3>3. FlagsOf(s)' BY <2>1, <2>3, <2>4
    <3>4. PlaceOf(s)' BY <1>1, <2>1, <2>3, <2>4
    <3>5. s \notin Rogue => pc[s] \notin {"idle", "doubt", "set"}
      BY <1>1, <2>4
    <3>6. ResumeOf(s)'
      BY <1>1, <2>1, <2>3, <3>1, <3>2, <3>5
    <3>7. QED BY <3>3, <3>4, <3>6
  <2>5. CASE ~llb[s].ewait
    <3>1. pc[s] \in {"set", "unhook"} /\ resumed' = resumed /\ posted' = posted
      BY <1>1, <1>2, <2>5 DEF Look
    <3>2. QED BY <1>1, <2>1, <2>3, <2>5, <3>1 DEF Alive
  <2>6. QED BY <2>4, <2>5
<1>3. CASE ~Reaches(s)
  BY <1>3 DEF Look, Alive
<1>4. QED BY <1>2, <1>3

LEMMA ResumeTold ==
  ASSUME TypeOK, NEW s \in Sessions, Told(s),
         Deliver(s) \/ Interrupt(s) \/ RogueResume(s)
  PROVE  Told(s)'
<1> USE DEF Told, FlagsOf, PlaceOf, ResumeOf
<1>1. CASE Deliver(s)
  BY <1>1 DEF TypeOK, Deliver, Alive
<1>2. CASE Interrupt(s)
  BY <1>2 DEF TypeOK, Interrupt, Goes, At, Alive
<1>3. CASE RogueResume(s)
  BY <1>3 DEF TypeOK, RogueResume, Alive
<1>4. QED BY <1>1, <1>2, <1>3

LEMMA ToldHolds ==
  ASSUME TypeOK, \A s \in Sessions : Told(s), [Next]_vars, NEW u \in Sessions
  PROVE  Told(u)'
<1>1. ASSUME NEW s \in Sessions, Act(s) PROVE Told(u)'
  <2>1. CASE u # s
    BY <1>1, <2>1, OthersSame, SameTold, EndedTold
  <2>2. CASE u = s
    BY <1>1, <2>2, StepTold, CallTold, LookTold, ResumeTold DEF Act
  <2>3. QED BY <2>1, <2>2
<1>2. CASE UNCHANGED vars
  BY <1>2, SameTold DEF Same, vars, Alive
<1>3. CASE EndClear
  BY <1>3, SameTold DEF Same, EndClear, Alive
<1>4. ASSUME NEW p \in Procs, Die(p) PROVE Told(u)'
  BY <1>4, SameTold DEF Same, Die, Alive
<1>5. QED BY <1>1, <1>2, <1>3, <1>4 DEF Next, Act

-------------------------------------------------------------------------------
(* A signal in progress.                                                   *)

(* While a signal is being sent, what a step of u leaves on the queue was  *)
(* there before, and for the same event.                                   *)
Kept ==
  /\ clear' = clear /\ ewq' \subseteq ewq
  /\ \A u \in ewq' : llb'[u].event = llb[u].event /\ llb'[u].cross = llb[u].cross

LEMMA KeptSound ==
  ASSUME TypeOK, SignalSound, Kept PROVE SignalSound'
<1>1. QueueFree' = QueueFree BY DEF Kept, QueueFree
<1>2. ASSUME ~QueueFree, NEW s \in ewq' \ clear'.rest PROVE ~Reaches(s)'
  <2>1. s \in ewq \ clear.rest BY <1>2 DEF Kept
  <2>2. ~Reaches(s) BY <1>2, <2>1 DEF SignalSound
  <2>3. QED BY <1>2, <2>2 DEF Kept, Reaches
<1>3. QED BY <1>1, <1>2 DEF SignalSound, Kept

(* While nobody signals, the queue is free to change.                      *)
LEMMA FreeSound ==
  ASSUME TypeOK, SignalSound, QueueFree, clear' = clear PROVE SignalSound'
  BY DEF SignalSound, QueueFree

LEMMA SignalHolds ==
  ASSUME TypeOK, \A s \in Sessions : Told(s), SignalSound, [Next]_vars
  PROVE  SignalSound'
<1>1. CASE UNCHANGED vars
  BY <1>1, KeptSound DEF Kept, vars
<1>2. ASSUME NEW s \in Sessions, Step(s) PROVE SignalSound'
  <2>1. CASE Wake(s) \/ Cancel(s)
    BY <2>1, KeptSound DEF Kept, Wake, Cancel
  <2>2. CASE CancelWait(s) \/ Unhook(s)
    BY <2>2, FreeSound DEF CancelWait, Unhook
  <2>3. CASE ReturnInterrupted(s)
    <3>1. s \notin ewq
      BY <2>3 DEF Told, FlagsOf, PlaceOf, ReturnInterrupted, At
    <3>2. Kept
      BY <2>3, <3>1 DEF Kept, ReturnInterrupted, TypeOK
    <3>3. QED BY <3>2, KeptSound
  <2>4. CASE LK_rundown(s)
    BY <2>4, KeptSound DEF Kept, LK_rundown, Unhooked, TypeOK, Told, FlagsOf
  <2>5. QED BY <1>2, <2>1, <2>2, <2>3, <2>4 DEF Step
<1>3. ASSUME NEW s \in Sessions, Call(s) PROVE SignalSound'
  <2>1. ASSUME NEW e \in Events, NEW x \in BOOLEAN, SetEvent(s, e, x) \/ SetLate(s, e, x)
        PROVE  SignalSound'
    BY <2>1, FreeSound DEF SetEvent, SetLate, Hooked
  <2>2. ASSUME NEW e \in Events, NEW x \in BOOLEAN, BeginClear(s, e, x)
        PROVE  SignalSound'
    <3>1. clear'.by = s /\ clear'.rest = ewq /\ ewq' = ewq
      BY <2>2 DEF BeginClear
    <3>2. s # None BY EventAssumption
    <3>3. QED BY <3>1, <3>2 DEF SignalSound, QueueFree
  <2>3. CASE StillSet(s) \/ Connect(s)
    BY <2>3, KeptSound DEF Kept, StillSet, Connect
  <2>4. CASE Wait(s)
    <3>1. \A u \in Sessions : llb'[u].event = llb[u].event
                              /\ llb'[u].cross = llb[u].cross
      BY <2>4 DEF Wait, TypeOK, LlbType
    <3>2. ewq' = ewq /\ clear' = clear /\ ewq \subseteq Sessions
      BY <2>4 DEF Wait, TypeOK
    <3>3. QED BY <3>1, <3>2, KeptSound DEF Kept
  <2>5. CASE LK_release(s)
    BY <2>5, KeptSound DEF Kept, LK_release, Unhooked, TypeOK, Told, FlagsOf
  <2>6. QED BY <1>3, <2>1, <2>2, <2>3, <2>4, <2>5 DEF Call
<1>4. ASSUME NEW s \in Sessions, Look(s) PROVE SignalSound'
  <2>1. /\ ~QueueFree /\ clear'.by = clear.by /\ clear'.event = clear.event
        /\ clear'.cross = clear.cross /\ clear'.rest = clear.rest \ {s}
    BY <1>4 DEF Look, TypeOK, ClearType
  <2>2. ASSUME NEW u \in ewq' \ clear'.rest PROVE ~Reaches(u)'
    <3>1. CASE u # s
      <4>1. u \in ewq \ clear.rest /\ llb'[u] = llb[u]
        BY <1>4, <2>1, <2>2, <3>1 DEF Look, TypeOK
      <4>2. ~Reaches(u) BY <2>1, <4>1 DEF SignalSound
      <4>3. QED BY <2>1, <4>1, <4>2 DEF Reaches
    <3>2. CASE u = s
      <4>1. ~Reaches(s) /\ llb' = llb
        BY <1>4, <2>2, <3>2 DEF Look
      <4>2. QED BY <2>1, <3>2, <4>1 DEF Reaches
    <3>3. QED BY <3>1, <3>2
  <2>3. ~QueueFree' BY <2>1 DEF QueueFree
  <2>4. QED BY <2>2, <2>3 DEF SignalSound
<1>5. ASSUME NEW s \in Sessions, Deliver(s) \/ Interrupt(s) \/ RogueResume(s)
      PROVE  SignalSound'
  BY <1>5, KeptSound DEF Kept, Deliver, Interrupt, RogueResume
<1>6. CASE EndClear
  BY <1>6 DEF EndClear, SignalSound, NoClear, QueueFree
<1>7. ASSUME NEW p \in Procs, Die(p) PROVE SignalSound'
  BY <1>7, KeptSound DEF Kept, Die
<1>8. QED BY <1>1, <1>2, <1>3, <1>4, <1>5, <1>6, <1>7 DEF Next

-------------------------------------------------------------------------------
(* The invariants.                                                         *)

LEMMA EventSoundInit == Init => EventSound
<1> SUFFICES ASSUME Init PROVE EventSound
  OBVIOUS
<1>1. TypeOK
  BY NewLlbTyped DEF Init, TypeOK, NoClear, ClearType, Places
<1>2. \A s \in Sessions : Told(s)
  BY NewLlbFlags DEF Init, Told, FlagsOf, PlaceOf, ResumeOf
<1>3. SignalSound
  BY DEF Init, SignalSound, NoClear, QueueFree
<1>4. QED BY <1>1, <1>2, <1>3 DEF EventSound

(* The flags of every lock list, the place of its session, its resumes and *)
(* the signal in progress agree in every reachable state.                  *)
THEOREM EventsStaySound == Spec => []EventSound
<1>1. EventSound /\ [Next]_vars => EventSound'
  BY EventTypesHold, ToldHolds, SignalHolds DEF EventSound
<1>2. QED BY EventSoundInit, <1>1, PTL DEF Spec

(* Types, and a signal in progress looks only at lists on the queue.       *)
THEOREM EventsTyped == Spec => []TypeOK
<1>1. EventSound => TypeOK BY DEF EventSound
<1>2. QED BY <1>1, EventsStaySound, PTL

(* LLB_ESET, LLB_EWAIT and LLB_EDONE mean what LK_event's comment says.    *)
THEOREM FlagsTellTheTruth == Spec => []FlagsTell
<1>1. EventSound => FlagsTell BY DEF EventSound, Told, FlagsOf, FlagsTell
<1>2. QED BY <1>1, EventsStaySound, PTL

(* No session sleeps on without a resume after its event was signalled.    *)
THEOREM NoEventIsLost == Spec => []NoLostEvent
<1>1. EventSound => NoLostEvent BY DEF EventSound, Told, ResumeOf, NoLostEvent
<1>2. QED BY <1>1, EventsStaySound, PTL

-------------------------------------------------------------------------------
(* LockEvent implements EventService.                                      *)

StageBar  == [s \in Sessions |-> Stage(s)]
AimBar    == [s \in Sessions |-> Aim(s)]
SignalBar == [by |-> clear.by, event |-> clear.event, cross |-> clear.cross]

(* A step of s moves no other session.                                     *)
LEMMA OthersStay ==
  ASSUME TypeOK, NEW s \in Sessions, Act(s)
  PROVE  /\ StageBar' = [StageBar EXCEPT ![s] = Stage(s)']
         /\ \A u \in Sessions \ {s} : AimBar'[u] = AimBar[u]
         /\ Stage(s)' = Stage(s) => StageBar' = StageBar
         /\ Stage(s)' = Stage(s) /\ Aim(s)' = Aim(s) => AimBar' = AimBar
<1>1. ASSUME NEW u \in Sessions \ {s} PROVE Stage(u)' = Stage(u) /\ Aim(u)' = Aim(u)
  <2>1. Same(u) \/ Ended(u) BY OthersSame
  <2>2. pc'[u] = pc[u] /\ llb'[u] = llb[u] BY <2>1 DEF Same, Ended
  <2>3. QED BY <2>2 DEF Stage, Aim
<1>2. QED BY <1>1 DEF StageBar, AimBar

LEMMA Stutters ==
  ASSUME TypeOK, NEW s \in Sessions, Act(s), Stage(s)' = Stage(s), Aim(s)' = Aim(s),
         SignalBar' = SignalBar
  PROVE  UNCHANGED Events_!vars
  BY OthersStay DEF Events_!vars, StageBar, AimBar, SignalBar

LEMMA GivesUp ==
  ASSUME TypeOK, NEW s \in Sessions, Act(s), Stage(s)' = "left", SignalBar' = SignalBar
  PROVE  Events_!Next
<1>1. Events_!GiveUp(s)
  BY OthersStay DEF Events_!GiveUp, Events_!OthersAim, StageBar, AimBar, SignalBar
<1>2. QED BY <1>1 DEF Events_!Next

LEMMA Returns ==
  ASSUME TypeOK, NEW s \in Sessions, Act(s), Stage(s)' = "out", SignalBar' = SignalBar,
         Stage(s) = "due" \/ (Stage(s) = "armed" /\ s \in Rogue)
  PROVE  Events_!Next
<1>1. Events_!Return(s)
  BY OthersStay DEF Events_!Return, Events_!OthersAim, StageBar, AimBar, SignalBar
<1>2. QED BY <1>1 DEF Events_!Next

(* What the stages and aims are.                                           *)
LEMMA Stages ==
  ASSUME NEW s \in Sessions
  PROVE  /\ pc[s] \in {"idle", "doubt"} => Stage(s) = "out"
         /\ pc[s] \in {"set", "asleep"} /\ llb[s].eset => Stage(s) = "armed"
         /\ pc[s] \in {"set", "asleep"} /\ ~llb[s].eset => Stage(s) = "due"
         /\ pc[s] \notin {"idle", "doubt", "set", "asleep"} => Stage(s) = "left"
         /\ Stage(s) # "armed" => Aim(s) = [event |-> None, cross |-> FALSE]
         /\ Stage(s) = "armed" =>
              Aim(s) = [event |-> llb[s].event, cross |-> llb[s].cross]
  BY DEF Stage, Aim

LEMMA StagesNext ==
  ASSUME NEW s \in Sessions
  PROVE  /\ pc'[s] \in {"idle", "doubt"} => Stage(s)' = "out"
         /\ pc'[s] \in {"set", "asleep"} /\ llb'[s].eset => Stage(s)' = "armed"
         /\ pc'[s] \in {"set", "asleep"} /\ ~llb'[s].eset => Stage(s)' = "due"
         /\ pc'[s] \notin {"idle", "doubt", "set", "asleep"} => Stage(s)' = "left"
         /\ Stage(s)' # "armed" => Aim(s)' = [event |-> None, cross |-> FALSE]
         /\ Stage(s)' = "armed" =>
              Aim(s)' = [event |-> llb'[s].event, cross |-> llb'[s].cross]
  BY DEF Stage, Aim

LEMMA StepMaps ==
  ASSUME TypeOK, NEW s \in Sessions, Told(s), Step(s)
  PROVE  Events_!Next \/ UNCHANGED Events_!vars
<1>1. Act(s) BY DEF Act
<1>2. CASE Wake(s)
  <2>1. pc[s] = "asleep" /\ resumed[s] /\ SignalBar' = SignalBar
    BY <1>2 DEF Wake, At, SignalBar
  <2>2. pc'[s] = "idle" BY <1>2 DEF Wake, Goes, TypeOK
  <2>3. Stage(s)' = "out" BY <2>2, StagesNext
  <2>4. Stage(s) = "due" \/ (Stage(s) = "armed" /\ s \in Rogue)
    BY <2>1, Stages DEF Told, ResumeOf
  <2>5. QED BY <1>1, <2>1, <2>3, <2>4, Returns
<1>3. CASE Cancel(s) \/ CancelWait(s) \/ ReturnInterrupted(s) \/ LK_rundown(s) \/ Unhook(s)
  <2>1. pc'[s] \in {"relock", "late", "ended", "gone", "unhook"} /\ clear' = clear
    BY <1>3 DEF Cancel, CancelWait, ReturnInterrupted, LK_rundown, Unhook, Unhooked,
       Goes, TypeOK
  <2>2. Stage(s)' = "left" BY <2>1, StagesNext
  <2>3. QED BY <1>1, <2>1, <2>2, GivesUp DEF SignalBar
<1>4. QED BY <1>2, <1>3 DEF Step

LEMMA CallMaps ==
  ASSUME TypeOK, NEW s \in Sessions, Told(s), Call(s)
  PROVE  Events_!Next \/ UNCHANGED Events_!vars
<1>1. Act(s) BY DEF Act
<1>2. ASSUME NEW e \in Events, NEW x \in BOOLEAN, SetEvent(s, e, x) \/ SetLate(s, e, x)
      PROVE  Events_!Next \/ UNCHANGED Events_!vars
  <2>1. Stage(s) = "out" /\ SignalBar' = SignalBar
    BY <1>2, Stages DEF SetEvent, SetLate, At, SignalBar
  <2>2. CASE pc' = [pc EXCEPT ![s] = "set"] /\ llb' = [llb EXCEPT ![s] = Armed(@, e, x)]
    <3>1. pc'[s] = "set" /\ llb'[s].eset
      BY <2>2, ArmedFlags DEF TypeOK
    <3>2. Stage(s)' = "armed" BY <3>1, StagesNext
    <3>3. Events_!Arm(s)
      BY <1>1, <2>1, <3>2, OthersStay
         DEF Events_!Arm, Events_!OthersAim, StageBar, AimBar, SignalBar
    <3>4. QED BY <3>3 DEF Events_!Next
  <2>3. CASE pc' = [pc EXCEPT ![s] = "idle"]
    <3>1. Stage(s)' = "out" BY <2>3, StagesNext DEF TypeOK
    <3>2. QED BY <1>1, <2>1, <3>1, Stages, StagesNext, Stutters
  <2>4. QED BY <1>2, <2>2, <2>3 DEF SetEvent, SetLate, Hooked, Goes
<1>3. ASSUME NEW e \in Events, NEW x \in BOOLEAN, BeginClear(s, e, x)
      PROVE  Events_!Next \/ UNCHANGED Events_!vars
  <2>1. clear.by = None /\ clear'.by = s BY <1>3 DEF BeginClear, QueueFree
  <2>2. StageBar' = StageBar /\ AimBar' = AimBar
    BY <1>3 DEF BeginClear, StageBar, AimBar, Stage, Aim
  <2>3. Events_!Send
    BY <2>1, <2>2 DEF Events_!Send, Events_!Sending, StageBar, AimBar
  <2>4. QED BY <2>3 DEF Events_!Next
<1>4. CASE StillSet(s)
  <2>1. pc[s] = "idle" /\ pc'[s] = "doubt" /\ clear' = clear
    BY <1>4 DEF StillSet, At, Goes, TypeOK
  <2>2. QED BY <1>1, <2>1, Stages, StagesNext, Stutters DEF SignalBar
<1>5. CASE Wait(s)
  <2>1. pc[s] = "set" /\ clear' = clear BY <1>5 DEF Wait, At
  <2>2. CASE llb[s].edone
    <3>1. ~llb[s].eset /\ pc'[s] = "idle"
      BY <1>5, <2>2 DEF Wait, Goes, Told, FlagsOf, TypeOK
    <3>2. QED BY <1>1, <2>1, <3>1, Stages, StagesNext, Returns DEF SignalBar
  <2>3. CASE ~llb[s].edone
    <3>1. /\ llb[s].eset /\ llb'[s].eset /\ pc'[s] = "asleep"
          /\ llb'[s].event = llb[s].event /\ llb'[s].cross = llb[s].cross
      BY <1>5, <2>1, <2>3 DEF Wait, Goes, Told, PlaceOf, TypeOK, LlbType
    <3>2. Stage(s) = "armed" /\ Stage(s)' = "armed"
      BY <2>1, <3>1, Stages, StagesNext
    <3>3. Aim(s)' = Aim(s) BY <3>1, <3>2, Stages, StagesNext
    <3>4. QED BY <1>1, <2>1, <3>2, <3>3, Stutters DEF SignalBar
  <2>4. QED BY <2>2, <2>3
<1>6. CASE LK_release(s)
  <2>1. pc'[s] \in {"gone", "unhook"} /\ clear' = clear
    BY <1>6 DEF LK_release, Unhooked, Goes, TypeOK
  <2>2. Stage(s)' = "left" BY <2>1, StagesNext
  <2>3. QED BY <1>1, <2>1, <2>2, GivesUp DEF SignalBar
<1>7. CASE Connect(s)
  <2>1. pc[s] = "gone" /\ pc'[s] = "idle" /\ clear' = clear
    BY <1>7 DEF Connect, Goes, TypeOK
  <2>2. Stage(s) = "left" /\ Stage(s)' = "out" BY <2>1, Stages, StagesNext
  <2>3. Aim(s)' = Aim(s) BY <2>2, Stages, StagesNext
  <2>4. /\ StageBar' = [StageBar EXCEPT ![s] = "out"]
        /\ AimBar' = AimBar /\ SignalBar' = SignalBar
    <3>1. \A u \in Sessions \ {s} : AimBar'[u] = AimBar[u] BY <1>1, OthersStay
    <3>2. AimBar' = AimBar BY <2>3, <3>1 DEF AimBar
    <3>3. QED BY <1>1, <2>1, <2>2, <3>2, OthersStay DEF SignalBar
  <2>5. Events_!Begin(s)
    BY <2>2, <2>4 DEF Events_!Begin, StageBar, AimBar, SignalBar
  <2>6. QED BY <2>5 DEF Events_!Next
<1>8. QED BY <1>2, <1>3, <1>4, <1>5, <1>6, <1>7 DEF Call

LEMMA LookMaps ==
  ASSUME TypeOK, NEW s \in Sessions, Look(s)
  PROVE  Events_!Next \/ UNCHANGED Events_!vars
<1>1. Act(s) BY DEF Act
<1>2. SignalBar' = SignalBar /\ clear.by # None
  BY DEF Look, SignalBar, TypeOK, ClearType, QueueFree
<1>3. pc' = pc BY DEF Look
<1>4. CASE Reaches(s)
  <2>1. llb' = [llb EXCEPT ![s] = Signalled(@)] BY <1>4 DEF Look
  <2>2. ~llb'[s].eset BY <2>1, SignalledFlags DEF TypeOK
  <2>3. CASE Stage(s) = "armed"
    <3>1. pc[s] \in {"set", "asleep"}
      BY <2>3, Stages DEF TypeOK, Places
    <3>2. Stage(s)' = "due" BY <1>3, <2>2, <3>1, StagesNext
    <3>3. /\ Aim(s).event = clear.event
          /\ Proc[s] = Proc[clear.by] \/ (Aim(s).cross /\ clear.cross)
      BY <1>4, <2>3, Stages DEF Reaches
    <3>4. Events_!InReach(s)
      BY <3>3 DEF Events_!InReach
    <3>5. Events_!Occur(s)
      BY <1>1, <1>2, <2>3, <3>2, <3>4, OthersStay
         DEF Events_!Occur, Events_!Sending, Events_!OthersAim, StageBar, AimBar, SignalBar
    <3>6. QED BY <3>5 DEF Events_!Next
  <2>4. CASE Stage(s) # "armed"
    <3>1. Stage(s)' = Stage(s)
      <4>1. CASE pc[s] \in {"idle", "doubt"} BY <1>3, <4>1, Stages, StagesNext
      <4>2. CASE pc[s] \in {"set", "asleep"} BY <1>3, <2>2, <2>4, <4>2, Stages, StagesNext
      <4>3. CASE pc[s] \notin {"idle", "doubt", "set", "asleep"}
        BY <1>3, <4>3, Stages, StagesNext
      <4>4. QED BY <4>1, <4>2, <4>3
    <3>2. Aim(s)' = Aim(s) BY <2>4, <3>1, Stages, StagesNext
    <3>3. QED BY <1>1, <1>2, <3>1, <3>2, Stutters
  <2>5. QED BY <2>3, <2>4
<1>5. CASE ~Reaches(s)
  <2>1. llb' = llb BY <1>5 DEF Look
  <2>2. Stage(s)' = Stage(s) /\ Aim(s)' = Aim(s)
    BY <1>3, <2>1 DEF Stage, Aim
  <2>3. QED BY <1>1, <1>2, <2>2, Stutters
<1>6. QED BY <1>4, <1>5

(* When a signal has been sent to the end, nobody in its reach is left out.*)
LEMMA EndMaps ==
  ASSUME TypeOK, \A s \in Sessions : Told(s), SignalSound, EndClear
  PROVE  Events_!Next
<1>1. /\ clear.by # None /\ clear.rest = {} /\ clear'.by = None
      /\ StageBar' = StageBar /\ AimBar' = AimBar
  BY DEF EndClear, QueueFree, NoClear, StageBar, AimBar, Stage, Aim
<1>2. ASSUME NEW s \in Sessions, Stage(s) = "armed" PROVE ~Events_!InReach(s)
  <2>1. llb[s].eset
    BY <1>2, Stages DEF TypeOK, Places
  <2>2. s \in ewq \ clear.rest BY <1>1, <2>1 DEF Told, FlagsOf
  <2>3. ~Reaches(s) BY <1>1, <2>2 DEF SignalSound, QueueFree
  <2>4. Aim(s) = [event |-> llb[s].event, cross |-> llb[s].cross]
    BY <1>2, Stages
  <2>5. QED BY <2>3, <2>4 DEF Reaches, Events_!InReach
<1>3. Events_!Sent
  BY <1>1, <1>2 DEF Events_!Sent, Events_!Sending, StageBar, AimBar, SignalBar
<1>4. QED BY <1>3 DEF Events_!Next

LEMMA EventStepMaps ==
  ASSUME EventSound, [Next]_vars PROVE [Events_!Next]_(Events_!vars)
<1> USE DEF EventSound
<1>1. CASE UNCHANGED vars
  BY <1>1 DEF vars, Events_!vars, Stage, Aim
<1>2. ASSUME NEW s \in Sessions, Step(s) PROVE [Events_!Next]_(Events_!vars)
  BY <1>2, StepMaps
<1>3. ASSUME NEW s \in Sessions, Call(s) PROVE [Events_!Next]_(Events_!vars)
  BY <1>3, CallMaps
<1>4. ASSUME NEW s \in Sessions, Look(s) PROVE [Events_!Next]_(Events_!vars)
  BY <1>4, LookMaps
<1>5. ASSUME NEW s \in Sessions, Interrupt(s) PROVE [Events_!Next]_(Events_!vars)
  <2>1. pc'[s] = "leaving" /\ clear' = clear
    BY <1>5 DEF Interrupt, Goes, TypeOK
  <2>2. Stage(s)' = "left" BY <2>1, StagesNext
  <2>3. QED BY <1>5, <2>1, <2>2, GivesUp DEF Act, SignalBar
<1>6. ASSUME NEW s \in Sessions, Deliver(s) \/ RogueResume(s)
      PROVE  [Events_!Next]_(Events_!vars)
  BY <1>6 DEF Deliver, RogueResume, Events_!vars, Stage, Aim
<1>7. CASE EndClear
  BY <1>7, EndMaps
<1>8. ASSUME NEW p \in Procs, Die(p) PROVE [Events_!Next]_(Events_!vars)
  BY <1>8 DEF Die, Events_!vars, Stage, Aim
<1>9. QED BY <1>1, <1>2, <1>3, <1>4, <1>5, <1>6, <1>7, <1>8 DEF Next

(* LKevent keeps the promise of EventService: a session returns from its   *)
(* wait only when its event has been signalled (or a resume not meant for  *)
(* LKevent misled it), and a signal is not over before everybody in its    *)
(* reach who has set the event has been told, while sessions set events,   *)
(* are interrupted, die and are replaced.                                  *)
THEOREM ServesEvents == Spec => ImplementsEvents
<1>1. Init => Events_!Init
  BY DEF Init, Events_!Init, Stage, NoClear
<1>2. QED
  BY <1>1, EventStepMaps, EventsStaySound, PTL DEF Spec, ImplementsEvents, Events_!Spec

-------------------------------------------------------------------------------
(* BufferWait: what the buffers, the jobs and the lock events say of each  *)
(* other.                                                                  *)

BufTypes ==
  /\ busy \subseteq Buffers /\ iowait \subseteq Buffers
  /\ mutex \in [Buffers -> Sessions \cup {None}]
  /\ job \in [Sessions -> JobType]

MutexSound ==
  \A b \in Buffers, s \in Sessions :
    mutex[b] = s <=> job[s].step \in {"arm", "rouse", "rousing"} /\ job[s].buf = b

(* A session sleeps only in a wait, and is resumed only for it.            *)
PlaceSound(s) ==
  /\ pc[s] \in {"idle", "set", "asleep"}
  /\ job[s].step # "wait" => pc[s] = "idle"
  /\ pc[s] = "idle" => ~llb[s].eset
  /\ resumed[s] \/ posted[s] => pc[s] = "asleep" /\ ~llb[s].eset
  /\ ~(resumed[s] /\ posted[s])

JobSound(s) ==
  /\ job[s].step # "none" => job[s].buf \in Buffers
  /\ job[s].step \in {"arm", "io"} => job[s].buf \in busy
  /\ job[s].step = "arm" => job[s].buf \in iowait
  /\ job[s].step = "rousing" <=> clear.by = s
  /\ job[s].step = "rousing" => clear.event = job[s].buf /\ clear.cross

(* A buffer is read or written by one session at a time.                   *)
OneIo ==
  \A s, u \in Sessions :
    job[s].step = "io" /\ job[u].step = "io" /\ job[s].buf = job[u].buf => s = u

(* Somebody ends the I/O on b, or signals that it has ended.               *)
Tended(b) ==
  \/ b \in busy
  \/ \E u \in Sessions : job[u].step \in {"rouse", "rousing"} /\ job[u].buf = b

Sleeper(s) ==
  llb[s].eset =>
    /\ job[s].step = "wait" /\ llb[s].event = job[s].buf /\ llb[s].cross
    /\ job[s].buf \in iowait /\ Tended(job[s].buf)

BufferSound ==
  /\ BufTypes /\ MutexSound /\ OneIo /\ dead = {}
  /\ \A s \in Sessions : PlaceSound(s) /\ JobSound(s) /\ Sleeper(s)

LEMMA JobFacts ==
  /\ \A p \in {"none", "arm", "wait", "io", "rouse", "rousing"}, b \in Buffers \cup {None} :
       Job(p, b) \in JobType /\ Job(p, b).step = p /\ Job(p, b).buf = b
  /\ \A j \in JobType : j = Job(j.step, j.buf)
  /\ NoJob \in JobType /\ NoJob.step = "none"
  BY DEF Job, JobType, NoJob

(* Every step of BufferWait is one of LockEvent.                           *)
LEMMA BufferStepIsEventStep ==
  ASSUME BufferSound, [BufferNext]_allVars PROVE [Next]_vars
<1>1. CASE UNCHANGED allVars
  BY <1>1 DEF allVars
<1>2. ASSUME NEW s \in Sessions, GoesOn(s) PROVE [Next]_vars
  <2>1. CASE SetWait(s)
    <3>1. job[s].buf \in Events
      BY <2>1 DEF SetWait, BufferSound, JobSound, Buffers
    <3>2. SetEvent(s, job[s].buf, TRUE) BY <2>1 DEF SetWait
    <3>3. QED BY <3>1, <3>2 DEF Next, Call
  <2>2. CASE WaitForIo(s)
    BY <2>2 DEF WaitForIo, Next, Call, Step
  <2>3. CASE IoEnds(s)
    BY <2>3 DEF IoEnds
  <2>4. CASE Rouse(s)
    <3>1. job[s].buf \in Events
      BY <2>4 DEF Rouse, BufferSound, JobSound, Buffers
    <3>2. BeginClear(s, job[s].buf, TRUE) BY <2>4 DEF Rouse
    <3>3. QED BY <3>1, <3>2 DEF Next, Call
  <2>5. CASE RouseEnds(s)
    BY <2>5 DEF RouseEnds, Next
  <2>6. CASE \E b \in Buffers : FindBusy(s, b) \/ FindReady(s, b)
    BY <2>6 DEF FindBusy, FindReady
  <2>7. QED BY <1>2, <2>1, <2>2, <2>3, <2>4, <2>5, <2>6 DEF GoesOn
<1>3. ASSUME NEW s \in Sessions, SignalAt(s) \/ ResumeFor(s) PROVE [Next]_vars
  BY <1>3 DEF SignalAt, ResumeFor, Next
<1>4. ASSUME NEW s \in Sessions, NEW b \in Buffers, FindBusy(s, b) \/ FindReady(s, b)
      PROVE  [Next]_vars
  BY <1>4 DEF FindBusy, FindReady
<1>5. QED BY <1>1, <1>2, <1>3, <1>4 DEF BufferNext

LEMMA BufTypesHold ==
  ASSUME EventSound, BufferSound, [BufferNext]_allVars PROVE BufTypes'
<1> USE DEF BufTypes
<1>0. BufTypes BY DEF BufferSound
<1>1. CASE UNCHANGED allVars
  BY <1>0, <1>1 DEF allVars, bufVars
<1>2. ASSUME NEW s \in Sessions, NEW b \in Buffers, FindBusy(s, b) \/ FindReady(s, b)
      PROVE  BufTypes'
  <2>1. CASE FindBusy(s, b)
    BY <1>0, <2>1, JobFacts DEF FindBusy, Does
  <2>2. CASE FindReady(s, b)
    BY <1>0, <2>2, JobFacts DEF FindReady, Does
  <2>3. QED BY <1>2, <2>1, <2>2
<1>3. ASSUME NEW s \in Sessions, GoesOn(s) PROVE BufTypes'
  <2>1. job[s] \in JobType /\ job[s].buf \in Buffers \cup {None}
    BY <1>0 DEF JobType
  <2>2. CASE SetWait(s) \/ Rouse(s)
    <3>1. job' \in [Sessions -> JobType]
      <4>1. Job("wait", job[s].buf) \in JobType /\ Job("rousing", job[s].buf) \in JobType
        BY <2>1, JobFacts
      <4>2. \/ job' = [job EXCEPT ![s] = Job("wait", job[s].buf)]
            \/ job' = [job EXCEPT ![s] = Job("rousing", job[s].buf)]
        BY <2>2 DEF SetWait, Rouse, Does
      <4>3. QED BY <1>0, <4>1, <4>2
    <3>2. busy' = busy /\ iowait' = iowait
      BY <2>2 DEF SetWait, Rouse
    <3>3. mutex' \in [Buffers -> Sessions \cup {None}]
      BY <1>0, <2>2 DEF SetWait, Rouse
    <3>4. QED BY <1>0, <3>1, <3>2, <3>3
  <2>3. CASE WaitForIo(s)
    BY <1>0, <2>3 DEF WaitForIo, bufVars
  <2>4. CASE IoEnds(s)
    BY <1>0, <2>1, <2>4, JobFacts DEF IoEnds, Does
  <2>5. CASE RouseEnds(s)
    BY <1>0, <2>1, <2>5, JobFacts DEF RouseEnds, Does
  <2>6. CASE \E b \in Buffers : FindBusy(s, b) \/ FindReady(s, b)
    BY <1>2, <2>6
  <2>7. QED BY <1>3, <2>2, <2>3, <2>4, <2>5, <2>6 DEF GoesOn
<1>4. ASSUME NEW s \in Sessions, SignalAt(s) \/ ResumeFor(s) PROVE BufTypes'
  BY <1>0, <1>4 DEF SignalAt, ResumeFor, bufVars
<1>5. QED BY <1>1, <1>2, <1>3, <1>4 DEF BufferNext

(* What s turns to: p on buffer b; the others go on with what they do.     *)
Turns(s, p, b) ==
  /\ job'[s].step = p /\ job'[s].buf = b
  /\ \A u \in Sessions \ {s} : job'[u] = job[u]

LEMMA DoesTurns ==
  ASSUME BufTypes, NEW s \in Sessions, NEW b \in Buffers \cup {None},
         NEW p \in {"none", "arm", "wait", "io", "rouse", "rousing"}, Does(s, Job(p, b))
  PROVE  Turns(s, p, b)
  BY JobFacts DEF BufTypes, Turns, Does

LEMMA DoesNothing ==
  ASSUME BufTypes, NEW s \in Sessions, Does(s, NoJob)
  PROVE  Turns(s, "none", None)
  BY DEF BufTypes, Turns, Does, NoJob

(* Nothing of the lock events changes.                                     *)
LEMMA FindBusySound ==
  ASSUME BufferSound, BufTypes', NEW s \in Sessions, NEW b \in Buffers, FindBusy(s, b)
  PROVE  BufferSound'
<1> USE DEF BufferSound
<1>1. /\ Turns(s, "arm", b) /\ mutex' = [mutex EXCEPT ![b] = s]
      /\ busy' = busy /\ iowait' = iowait \cup {b} /\ b \in busy /\ mutex[b] = None
  BY DoesTurns DEF FindBusy, Looks
<1>2. /\ llb' = llb /\ pc' = pc /\ resumed' = resumed /\ posted' = posted
      /\ clear' = clear /\ dead' = dead
  BY DEF FindBusy, vars
<1>3. pc[s] = "idle" /\ clear.by # s /\ ~llb[s].eset /\ job[s].step \in {"none", "wait"}
  BY JobFacts DEF FindBusy, Looks, At, PlaceSound
<1>4. None \notin Sessions BY EventAssumption
<1>5. MutexSound'
  BY <1>1, <1>3, <1>4 DEF MutexSound, Turns, BufTypes
<1>6. OneIo'
  BY <1>1 DEF OneIo, Turns
<1>7. ASSUME NEW u \in Sessions PROVE PlaceSound(u)' /\ JobSound(u)'
  BY <1>1, <1>2, <1>3 DEF PlaceSound, JobSound, Turns
<1>8. ASSUME NEW u \in Sessions PROVE Sleeper(u)'
  BY <1>1, <1>2, <1>3 DEF Sleeper, Tended, Turns
<1>9. QED BY <1>2, <1>5, <1>6, <1>7, <1>8

LEMMA FindReadySound ==
  ASSUME BufferSound, BufTypes', NEW s \in Sessions, NEW b \in Buffers, FindReady(s, b)
  PROVE  BufferSound'
<1> USE DEF BufferSound
<1>1. /\ mutex' = mutex /\ iowait' = iowait /\ b \notin busy
      /\ \/ Turns(s, "io", b) /\ busy' = busy \cup {b}
         \/ Turns(s, "none", None) /\ busy' = busy
  BY DoesTurns, DoesNothing DEF FindReady
<1>2. /\ llb' = llb /\ pc' = pc /\ resumed' = resumed /\ posted' = posted
      /\ clear' = clear /\ dead' = dead
  BY DEF FindReady, vars
<1>3. pc[s] = "idle" /\ clear.by # s /\ ~llb[s].eset /\ job[s].step \in {"none", "wait"}
  BY JobFacts DEF FindReady, Looks, At, PlaceSound
<1>4. MutexSound'
  BY <1>1, <1>3 DEF MutexSound, Turns
<1>5. OneIo'
  BY <1>1 DEF OneIo, Turns, JobSound
<1>6. ASSUME NEW u \in Sessions PROVE PlaceSound(u)' /\ JobSound(u)'
  BY <1>1, <1>2, <1>3 DEF PlaceSound, JobSound, Turns
<1>7. ASSUME NEW u \in Sessions PROVE Sleeper(u)'
  BY <1>1, <1>2, <1>3 DEF Sleeper, Tended, Turns
<1>8. QED BY <1>2, <1>4, <1>5, <1>6, <1>7

LEMMA IoEndsSound ==
  ASSUME BufferSound, BufTypes', NEW s \in Sessions, IoEnds(s)
  PROVE  BufferSound'
<1> USE DEF BufferSound
<1> DEFINE b == job[s].buf
<1>1. job[s].step = "io" /\ b \in Buffers /\ mutex[b] = None
  BY DEF IoEnds, JobSound
<1>2. /\ busy' = busy \ {b} /\ iowait' = iowait
      /\ \/ b \in iowait /\ Turns(s, "rouse", b) /\ mutex' = [mutex EXCEPT ![b] = s]
         \/ b \notin iowait /\ Turns(s, "none", None) /\ mutex' = mutex
  BY <1>1, DoesTurns, DoesNothing DEF IoEnds
<1>3. /\ llb' = llb /\ pc' = pc /\ resumed' = resumed /\ posted' = posted
      /\ clear' = clear /\ dead' = dead
  BY DEF IoEnds, vars
<1>4. pc[s] = "idle" /\ clear.by # s /\ ~llb[s].eset
  BY <1>1 DEF PlaceSound, JobSound
<1>5. None \notin Sessions BY EventAssumption
<1> HIDE DEF b
<1>6. MutexSound'
  BY <1>1, <1>2, <1>5 DEF MutexSound, Turns, BufTypes
<1>7. OneIo'
  BY <1>2 DEF OneIo, Turns
<1>8. ASSUME NEW u \in Sessions PROVE PlaceSound(u)' /\ JobSound(u)'
  <2>1. PlaceSound(u)' /\ (u = s => JobSound(u)')
    BY <1>1, <1>2, <1>3, <1>4 DEF PlaceSound, JobSound, Turns
  <2>2. ASSUME u # s PROVE JobSound(u)'
    <3>1. job'[u] = job[u] BY <1>2, <2>2 DEF Turns
    <3>2. job[u].step = "io" => job[u].buf # b
      BY <1>1, <2>2 DEF OneIo, b
    <3>3. job[u].step = "arm" => job[u].buf # b
      BY <1>1, <1>5 DEF MutexSound
    <3>4. QED BY <1>2, <1>3, <3>1, <3>2, <3>3 DEF JobSound
  <2>3. QED BY <2>1, <2>2
<1>9. ASSUME NEW u \in Sessions PROVE Sleeper(u)'
  BY <1>1, <1>2, <1>3, <1>4 DEF Sleeper, Tended, Turns
<1>10. QED BY <1>3, <1>6, <1>7, <1>8, <1>9

LEMMA SetWaitSound ==
  ASSUME EventSound, BufferSound, BufTypes', NEW s \in Sessions, SetWait(s)
  PROVE  BufferSound'
<1> USE DEF BufferSound
<1> DEFINE b == job[s].buf
<1>1. job[s].step = "arm" /\ b \in Buffers /\ b \in busy /\ b \in iowait
  BY DEF SetWait, JobSound
<1>2. /\ busy' = busy /\ iowait' = iowait
      /\ Turns(s, "wait", b) /\ mutex' = [mutex EXCEPT ![b] = None]
  BY <1>1, DoesTurns DEF SetWait
<1>3. /\ llb' = [llb EXCEPT ![s] = Armed(@, b, TRUE)]
      /\ pc' = [pc EXCEPT ![s] = "set"] /\ resumed' = [resumed EXCEPT ![s] = FALSE]
      /\ posted' = posted /\ clear' = clear /\ dead' = dead /\ pc[s] = "idle"
      /\ clear.by # s
  BY DEF SetWait, SetEvent, Hooked, Goes, At
<1>4. TypeOK BY DEF EventSound
<1>5. llb'[s].eset /\ llb'[s].event = b /\ llb'[s].cross
  <2>1. llb[s] \in LlbType /\ b \in Events
    BY <1>1, <1>4 DEF TypeOK, Buffers
  <2>2. llb'[s] = Armed(llb[s], b, TRUE)
    BY <1>3, <1>4 DEF TypeOK
  <2>3. LET a == Armed(llb[s], b, TRUE) IN a.eset /\ a.event = b /\ a.cross
    BY <2>1 DEF Armed, LlbType
  <2>4. QED BY <2>2, <2>3
<1>6. None \notin Sessions BY EventAssumption
<1> HIDE DEF b
<1>7. MutexSound'
  <2>1. mutex[b] = s BY <1>1 DEF MutexSound, b
  <2>2. QED BY <1>1, <1>2, <1>6, <2>1 DEF MutexSound, Turns, BufTypes
<1>8. OneIo'
  BY <1>2 DEF OneIo, Turns
<1>9. ASSUME NEW u \in Sessions PROVE PlaceSound(u)' /\ JobSound(u)'
  <2>1. CASE u = s
    BY <1>1, <1>2, <1>3, <1>4, <1>5, <2>1 DEF PlaceSound, JobSound, Turns, TypeOK
  <2>2. CASE u # s
    <3>1. /\ llb'[u] = llb[u] /\ pc'[u] = pc[u] /\ resumed'[u] = resumed[u]
          /\ job'[u] = job[u]
      BY <1>2, <1>3, <1>4, <2>2 DEF Turns, TypeOK
    <3>2. QED BY <1>2, <1>3, <3>1 DEF PlaceSound, JobSound
  <2>3. QED BY <2>1, <2>2
<1>10. ASSUME NEW u \in Sessions PROVE Sleeper(u)'
  <2>1. CASE u = s
    BY <1>1, <1>2, <1>5, <2>1 DEF Sleeper, Tended, Turns
  <2>2. CASE u # s
    <3>1. llb'[u] = llb[u] /\ job'[u] = job[u]
      BY <1>2, <1>3, <1>4, <2>2 DEF Turns, TypeOK
    <3>2. \A c \in Buffers \cup {None} : Tended(c) => Tended(c)'
      BY <1>1, <1>2 DEF Tended, Turns, b
    <3>3. job[u].buf \in Buffers \cup {None}
      BY DEF BufTypes, JobType
    <3>4. QED BY <1>2, <3>1, <3>2, <3>3 DEF Sleeper
  <2>3. QED BY <2>1, <2>2
<1>11. QED BY <1>3, <1>7, <1>8, <1>9, <1>10

LEMMA WaitForIoSound ==
  ASSUME EventSound, BufferSound, BufTypes', NEW s \in Sessions, WaitForIo(s)
  PROVE  BufferSound'
<1> USE DEF BufferSound
<1>1. /\ job' = job /\ busy' = busy /\ iowait' = iowait /\ mutex' = mutex
      /\ clear' = clear /\ dead' = dead /\ posted' = posted
      /\ job[s].step = "wait"
  BY DEF WaitForIo, bufVars, Wait, Wake
<1>2. TypeOK /\ Told(s) BY DEF EventSound
<1>3. MutexSound' /\ OneIo' BY <1>1 DEF MutexSound, OneIo
<1>4. ASSUME NEW u \in Sessions PROVE JobSound(u)' BY <1>1 DEF JobSound
<1>5. ASSUME NEW u \in Sessions
      PROVE  /\ llb'[u].eset = llb[u].eset /\ llb'[u].event = llb[u].event
             /\ llb'[u].cross = llb[u].cross
  BY <1>2 DEF WaitForIo, Wait, Wake, TypeOK, LlbType
<1>6. ASSUME NEW u \in Sessions PROVE Sleeper(u)'
  BY <1>1, <1>5 DEF Sleeper, Tended
<1>7. ASSUME NEW u \in Sessions PROVE PlaceSound(u)'
  <2>1. CASE u # s
    <3>1. pc'[u] = pc[u] /\ resumed'[u] = resumed[u]
      BY <1>2, <2>1 DEF WaitForIo, Wait, Wake, Goes, TypeOK
    <3>2. QED BY <1>1, <1>5, <3>1 DEF PlaceSound
  <2>2. CASE u = s
    <3>1. CASE Wait(s)
      BY <1>1, <1>2, <2>2, <3>1
         DEF PlaceSound, Wait, Goes, At, TypeOK, LlbType, Told, FlagsOf
    <3>2. CASE Wake(s)
      BY <1>1, <1>2, <2>2, <3>2 DEF PlaceSound, Wake, Goes, At, TypeOK
    <3>3. QED BY <3>1, <3>2 DEF WaitForIo
  <2>3. QED BY <2>1, <2>2
<1>8. QED BY <1>1, <1>3, <1>4, <1>6, <1>7

LEMMA RouseSound ==
  ASSUME BufferSound, BufTypes', NEW s \in Sessions, Rouse(s)
  PROVE  BufferSound'
<1> USE DEF BufferSound
<1> DEFINE b == job[s].buf
<1>1. job[s].step = "rouse" /\ b \in Buffers
  BY DEF Rouse, JobSound
<1>2. /\ busy' = busy /\ iowait' = iowait /\ mutex' = mutex
      /\ Turns(s, "rousing", b)
  BY <1>1, DoesTurns DEF Rouse
<1>3. /\ llb' = llb /\ pc' = pc /\ resumed' = resumed /\ posted' = posted
      /\ dead' = dead /\ clear.by = None /\ clear'.by = s /\ clear'.event = b
      /\ clear'.cross
  BY DEF Rouse, BeginClear, QueueFree
<1>4. None \notin Sessions BY EventAssumption
<1> HIDE DEF b
<1>5. MutexSound'
  BY <1>1, <1>2 DEF MutexSound, Turns, b
<1>6. OneIo'
  BY <1>2 DEF OneIo, Turns
<1>7. ASSUME NEW u \in Sessions PROVE PlaceSound(u)' /\ JobSound(u)'
  BY <1>1, <1>2, <1>3, <1>4 DEF PlaceSound, JobSound, Turns
<1>8. ASSUME NEW u \in Sessions PROVE Sleeper(u)'
  <2>1. ASSUME NEW c \in Buffers, Tended(c) PROVE Tended(c)'
    BY <1>1, <1>2, <2>1 DEF Tended, Turns, b
  <2>2. llb[u].eset => u # s
    BY <1>1 DEF Sleeper
  <2>3. job[u].step = "wait" => job[u].buf \in Buffers
    BY DEF JobSound
  <2>4. QED BY <1>2, <1>3, <2>1, <2>2, <2>3 DEF Sleeper, Turns
<1>9. QED BY <1>3, <1>5, <1>6, <1>7, <1>8

LEMMA RouseEndsSound ==
  ASSUME EventSound, BufferSound, BufTypes', NEW s \in Sessions, RouseEnds(s)
  PROVE  BufferSound'
<1> USE DEF BufferSound
<1> DEFINE b == job[s].buf
<1>1. /\ job[s].step = "rousing" /\ b \in Buffers /\ clear.by = s
      /\ clear.event = b /\ clear.cross /\ clear.rest = {}
  BY DEF RouseEnds, JobSound, EndClear
<1>2. /\ busy' = busy /\ iowait' = iowait \ {b} /\ mutex' = [mutex EXCEPT ![b] = None]
      /\ Turns(s, "none", None)
  BY DoesNothing DEF RouseEnds
<1>3. /\ llb' = llb /\ pc' = pc /\ resumed' = resumed /\ posted' = posted
      /\ dead' = dead /\ clear'.by = None
  BY DEF RouseEnds, EndClear, NoClear
<1>4. None \notin Sessions BY EventAssumption
<1>5. mutex[b] = s BY <1>1 DEF MutexSound
<1>6. ASSUME NEW u \in Sessions, llb[u].eset PROVE job[u].buf # b
  <2>1. u \in ewq \ clear.rest
    BY <1>1, <1>6 DEF EventSound, Told, FlagsOf
  <2>2. ~Reaches(u)
    BY <1>1, <1>4, <2>1 DEF EventSound, SignalSound, QueueFree
  <2>3. llb[u].event = job[u].buf /\ llb[u].cross
    BY <1>6 DEF Sleeper
  <2>4. QED BY <1>1, <2>2, <2>3 DEF Reaches
<1> HIDE DEF b
<1>7. MutexSound'
  BY <1>1, <1>2, <1>4, <1>5 DEF MutexSound, Turns, BufTypes
<1>8. OneIo'
  BY <1>2 DEF OneIo, Turns
<1>9. ASSUME NEW u \in Sessions PROVE PlaceSound(u)' /\ JobSound(u)'
  <2>1. PlaceSound(u)'
    BY <1>1, <1>2, <1>3 DEF PlaceSound, Turns
  <2>2. CASE u = s
    BY <1>2, <1>3, <1>4, <2>1, <2>2 DEF JobSound, Turns
  <2>3. CASE u # s
    <3>1. job'[u] = job[u] /\ clear.by # u /\ clear'.by # u
      BY <1>1, <1>2, <1>3, <1>4, <2>3 DEF Turns
    <3>2. job[u].step = "arm" => job[u].buf # b
      BY <1>5, <2>3, <1>1 DEF MutexSound
    <3>3. QED BY <1>2, <2>1, <3>1, <3>2 DEF JobSound
  <2>4. QED BY <2>1, <2>2, <2>3
<1>10. ASSUME NEW u \in Sessions PROVE Sleeper(u)'
  <2>1. ASSUME NEW c \in Buffers, c # b, Tended(c) PROVE Tended(c)'
    BY <1>1, <1>2, <2>1 DEF Tended, Turns, b
  <2>2. llb[u].eset => u # s
    BY <1>1 DEF Sleeper
  <2>3. job[u].step = "wait" => job[u].buf \in Buffers
    BY DEF JobSound
  <2>4. QED BY <1>2, <1>3, <1>6, <2>1, <2>2, <2>3 DEF Sleeper, Turns
<1>11. QED BY <1>3, <1>7, <1>8, <1>9, <1>10

LEMMA SignalAtSound ==
  ASSUME EventSound, BufferSound, BufTypes', NEW s \in Sessions,
         SignalAt(s) \/ ResumeFor(s)
  PROVE  BufferSound'
<1> USE DEF BufferSound
<1>1. /\ job' = job /\ busy' = busy /\ iowait' = iowait /\ mutex' = mutex
      /\ clear'.by = clear.by /\ clear'.event = clear.event
      /\ clear'.cross = clear.cross /\ dead' = dead /\ pc' = pc
  BY DEF SignalAt, ResumeFor, Look, Deliver, bufVars, EventSound, TypeOK, ClearType
<1>2. TypeOK /\ Told(s) BY DEF EventSound
<1>3. MutexSound' /\ OneIo' BY <1>1 DEF MutexSound, OneIo
<1>4. ASSUME NEW u \in Sessions PROVE JobSound(u)' BY <1>1 DEF JobSound
<1>5. \A u \in Sessions : llb'[u] = llb[u] \/ ~llb'[u].eset
  BY <1>2, SignalledFlags DEF SignalAt, ResumeFor, Look, Deliver, TypeOK
<1>6. ASSUME NEW u \in Sessions PROVE Sleeper(u)'
  BY <1>1, <1>5 DEF Sleeper, Tended
<1>7. ASSUME NEW u \in Sessions PROVE PlaceSound(u)'
  <2>1. CASE resumed'[u] = resumed[u] /\ posted'[u] = posted[u]
    BY <1>1, <1>5, <2>1 DEF PlaceSound
  <2>2. CASE u # s
    BY <1>2, <2>1, <2>2 DEF SignalAt, ResumeFor, Look, Resumes, Deliver, TypeOK
  <2>3. CASE u = s /\ ResumeFor(s)
    BY <1>1, <1>2, <2>3 DEF PlaceSound, ResumeFor, Deliver, TypeOK
  <2>4. CASE u = s /\ SignalAt(s) /\ ~(resumed'[u] = resumed[u] /\ posted'[u] = posted[u])
    <3>1. llb[s].ewait /\ llb[s].eset /\ Resumes(s) /\ llb' = [llb EXCEPT ![s] = Signalled(@)]
      BY <1>2, <2>4 DEF SignalAt, Look, Told, FlagsOf
    <3>2. pc[s] = "asleep" /\ ~resumed[s] /\ ~posted[s]
      BY <1>2, <3>1 DEF PlaceSound, Told, PlaceOf
    <3>3. ~llb'[s].eset
      BY <1>2, <3>1, SignalledFlags DEF TypeOK
    <3>4. ~(resumed'[s] /\ posted'[s])
      BY <1>2, <3>1, <3>2 DEF Resumes, TypeOK
    <3>5. QED BY <1>1, <2>4, <3>2, <3>3, <3>4 DEF PlaceSound
  <2>5. QED BY <2>1, <2>2, <2>3, <2>4
<1>8. QED BY <1>1, <1>3, <1>4, <1>6, <1>7

LEMMA BufferSoundHolds ==
  ASSUME EventSound, BufferSound, [BufferNext]_allVars PROVE BufferSound'
<1>1. BufTypes' BY BufTypesHold
<1>2. CASE UNCHANGED allVars
  BY <1>2 DEF allVars, vars, bufVars, BufferSound, BufTypes, MutexSound, OneIo,
     PlaceSound, JobSound, Sleeper, Tended
<1>3. ASSUME NEW s \in Sessions, NEW b \in Buffers, FindBusy(s, b) \/ FindReady(s, b)
      PROVE  BufferSound'
  BY <1>1, <1>3, FindBusySound, FindReadySound
<1>4. ASSUME NEW s \in Sessions, GoesOn(s) PROVE BufferSound'
  <2>1. CASE SetWait(s) \/ WaitForIo(s) \/ IoEnds(s) \/ Rouse(s) \/ RouseEnds(s)
    BY <1>1, <2>1, SetWaitSound, WaitForIoSound, IoEndsSound, RouseSound, RouseEndsSound
  <2>2. CASE \E b \in Buffers : FindBusy(s, b) \/ FindReady(s, b)
    BY <1>3, <2>2
  <2>3. QED BY <1>4, <2>1, <2>2 DEF GoesOn
<1>5. ASSUME NEW s \in Sessions, SignalAt(s) \/ ResumeFor(s) PROVE BufferSound'
  BY <1>1, <1>5, SignalAtSound
<1>6. QED BY <1>2, <1>3, <1>4, <1>5 DEF BufferNext

LEMMA BufferSoundInit == BufferInit => EventSound /\ BufferSound
<1> SUFFICES ASSUME BufferInit PROVE EventSound /\ BufferSound
  OBVIOUS
<1>1. Init BY DEF BufferInit
<1>2. EventSound BY <1>1, EventSoundInit
<1>3. None \notin Sessions BY EventAssumption
<1>4. \A s \in Sessions : /\ job[s] = NoJob /\ job[s].step = "none" /\ pc[s] = "idle"
                          /\ ~llb[s].eset /\ ~resumed[s] /\ ~posted[s]
  BY <1>1, NewLlbFlags DEF BufferInit, Init, NoJob
<1>5. BufTypes BY JobFacts DEF BufferInit, BufTypes
<1>6. MutexSound /\ OneIo BY <1>3, <1>4 DEF BufferInit, MutexSound, OneIo
<1>7. dead = {} /\ clear.by = None BY <1>1 DEF Init, NoClear
<1>8. \A s \in Sessions : PlaceSound(s) /\ JobSound(s) /\ Sleeper(s)
  BY <1>3, <1>4, <1>7 DEF PlaceSound, JobSound, Sleeper
<1>9. QED BY <1>2, <1>5, <1>6, <1>7, <1>8 DEF BufferSound

(* Buffers, jobs, mutexes and lock events agree in every reachable state.  *)
THEOREM BuffersStayTended == BufferSpec => [](EventSound /\ BufferSound)
<1>1. EventSound /\ BufferSound /\ [BufferNext]_allVars => (EventSound /\ BufferSound)'
  <2> SUFFICES ASSUME EventSound, BufferSound, [BufferNext]_allVars
               PROVE  EventSound' /\ BufferSound'
    OBVIOUS
  <2>1. [Next]_vars BY BufferStepIsEventStep
  <2>2. EventSound'
    BY <2>1, EventTypesHold, ToldHolds, SignalHolds DEF EventSound
  <2>3. QED BY <2>2, BufferSoundHolds
<1>2. QED BY BufferSoundInit, <1>1, PTL DEF BufferSpec

(* The page cache calls LKevent only as LockEvent allows, so all that is   *)
(* proved of the lock events holds of its waits.                           *)
THEOREM BufferUsesEvents == BufferSpec => Spec
<1>1. BufferInit => Init BY DEF BufferInit
<1>2. EventSound /\ BufferSound /\ [BufferNext]_allVars => [Next]_vars
  BY BufferStepIsEventStep
<1>3. QED BY <1>1, <1>2, BuffersStayTended, PTL DEF BufferSpec, Spec

(* The mutex of a buffer is held from step to step only by the session     *)
(* that arms or signals its event; and all is of its type.                 *)
THEOREM BuffersTyped == BufferSpec => []BufferTypeOK
<1>1. EventSound /\ BufferSound => BufferTypeOK
  <2> SUFFICES ASSUME EventSound, BufferSound PROVE BufferTypeOK
    OBVIOUS
  <2>1. ASSUME NEW b \in Buffers, NEW s \in Sessions
        PROVE  job[s] \in {Job("arm", b), Job("rouse", b), Job("rousing", b)}
                 <=> job[s].step \in {"arm", "rouse", "rousing"} /\ job[s].buf = b
    BY JobFacts DEF BufferSound, BufTypes
  <2>2. QED
    BY <2>1 DEF EventSound, BufferSound, BufTypes, MutexSound, BufferTypeOK
<1>2. QED BY <1>1, BuffersStayTended, PTL

(* A session that waits for a buffer's I/O is known: the I/O goes on, or   *)
(* its end is being signalled.                                             *)
THEOREM NoSleeperForgotten == BufferSpec => []SleepersKnown
<1>1. EventSound /\ BufferSound => SleepersKnown
  <2> SUFFICES ASSUME EventSound, BufferSound, NEW s \in Sessions, llb[s].eset
               PROVE  LET b == job[s].buf
                      IN  /\ job[s].step = "wait" /\ llb[s].event = b /\ b \in iowait
                          /\ \/ b \in busy
                             \/ \E u \in Sessions :
                                  job[u] \in {Job("rouse", b), Job("rousing", b)}
    BY DEF SleepersKnown
  <2>1. ASSUME NEW b \in Buffers, NEW u \in Sessions,
               job[u].step \in {"rouse", "rousing"}, job[u].buf = b
        PROVE  job[u] \in {Job("rouse", b), Job("rousing", b)}
    BY <2>1, JobFacts DEF BufferSound, BufTypes
  <2>2. job[s].buf \in Buffers
    BY DEF BufferSound, JobSound, Sleeper
  <2>3. QED BY <2>1, <2>2 DEF BufferSound, Sleeper, Tended
<1>2. QED BY <1>1, BuffersStayTended, PTL
=============================================================================
