------------------------- MODULE LockSession_proofs --------------------------
(***************************************************************************)
(* Proofs about LockSession for any set of lock lists whose searched lists *)
(* neither time out nor are sent rogue resumes: answers are true, resumes  *)
(* are not lost, and LockService is implemented.                           *)
(***************************************************************************)
EXTENDS LockSession, ResourceBlock_proofs

(* Who is searched for deadlock waits without a timeout, and is not sent   *)
(* the resumes of others.  The code breaks OkMeansHeld otherwise (run      *)
(* stalevictim).                                                           *)
SearchedArePatient == Impatient \cup Rogue \subseteq Undetected

-------------------------------------------------------------------------------
(* The inductive invariant.                                                *)

(* The list waits, for a new lock or to convert one.                       *)
Blocked(s) == rsb.state[s] \in {"waiting", "convert"}

Typed ==
  /\ pc \in [Lists -> Places]
  /\ want \in [Lists -> Modes \cup {NoLock}]
  /\ held \in [Lists -> Modes \cup {NoLock}]
  /\ linked \in [Lists -> BOOLEAN] /\ resumed \in [Lists -> BOOLEAN]
  /\ cause \in [Lists -> Causes] /\ result \in [Lists -> Results]
  /\ rousing \in Lists \cup {NoList}

(* Outside the lock manager the last answer is true.                       *)
Rests(s) ==
  pc[s] = "idle" =>
    /\ AtRest(s)
    /\ result[s] = "ok" => Holds(s) = want[s]
    /\ result[s] = "deadlock" => Holds(s) = held[s]

(* Inside it, the lock block is about the session's request: a lock that   *)
(* waits asks for the mode wanted, beside what was held, and a lock        *)
(* granted is the one wanted, until the request is taken back.             *)
Requests(s) ==
  pc[s] # "idle" =>
    /\ want[s] \in Modes
    /\ Blocked(s) => /\ pc[s] \notin {"late", "again"}
                     /\ rsb.request[s] = want[s] /\ Holds(s) = held[s]
    /\ rsb.state[s] = "free" => pc[s] = "again" /\ held[s] = NoLock
    /\ rsb.state[s] = "granted" =>
         \/ rsb.grant[s] = want[s]
         \/ pc[s] = "again" /\ rsb.grant[s] = held[s]

(* A list that is not searched for deadlock is linked to its wait queue    *)
(* exactly while it waits, and a grant leaves a resume until it is         *)
(* noticed.                                                                *)
Unsearched(s) ==
  s \in Undetected =>
    /\ rsb.search[s] = "off" /\ rousing # s
    /\ linked[s] = Blocked(s)
    /\ pc[s] \in {"leaving", "cancelling", "late"} =>
         cause[s] \in {"timeout", "phantom"}
    /\ \/ pc[s] = "late"
       \/ /\ rsb.state[s] = "granted"
          /\ pc[s] = "asleep" \/ (pc[s] = "leaving" /\ cause[s] = "timeout")
       => resumed[s]

(* A list that is searched sleeps until it is granted its lock or marked   *)
(* as a victim and roused; a victim stays one until it takes its request   *)
(* back.                                                                   *)
Searchable(s) ==
  s \notin Undetected =>
    /\ pc[s] \notin {"late", "again"}
    /\ rousing = s => /\ pc[s] = "asleep" /\ rsb.search[s] = "dead"
                      /\ ~resumed[s]
    /\ pc[s] = "asleep" =>
         \/ /\ Blocked(s) /\ rsb.search[s] # "dead"
            /\ linked[s] /\ ~resumed[s]
         \/ /\ rsb.search[s] = "dead"
            /\ rousing = s \/ (resumed[s] /\ ~linked[s])
         \/ rsb.state[s] = "granted" /\ resumed[s] /\ ~linked[s]
    /\ pc[s] = "awake" =>
         ~linked[s] /\ (rsb.state[s] = "granted" \/ rsb.search[s] = "dead")
    /\ pc[s] \in {"leaving", "cancelling"} =>
         rsb.search[s] = "dead" /\ cause[s] = "deadlock"

Consistent(s) == Rests(s) /\ Requests(s) /\ Unsearched(s) /\ Searchable(s)

SessionsSound ==
  /\ Typed
  /\ rsb \in QueuedRsb
  /\ \A s \in Lists : Consistent(s)

-------------------------------------------------------------------------------
(* Lists that take no part in a step.                                      *)

(* Of list t nothing changes but its lock block, its link to the wait      *)
(* queue and its resume.                                                   *)
Bystands(t) ==
  /\ pc'[t] = pc[t] /\ want'[t] = want[t] /\ held'[t] = held[t]
  /\ cause'[t] = cause[t] /\ result'[t] = result[t]
  /\ rousing' = t <=> rousing = t

LEMMA BystanderKeeps ==
  ASSUME NEW t \in Lists, Consistent(t), Bystands(t), SameLkb(rsb, rsb', t),
         linked'[t] = linked[t], resumed'[t] = resumed[t]
  PROVE  Consistent(t)'
<1>1. Holds(t)' = Holds(t) /\ Blocked(t)' = Blocked(t)
  BY DEF SameLkb, Holds, Blocked
<1>2. Rests(t)'
  BY <1>1 DEF Consistent, Rests, AtRest, SameLkb, Bystands
<1>3. Requests(t)'
  BY <1>1 DEF Consistent, Requests, SameLkb, Bystands
<1>4. Unsearched(t)'
  BY <1>1 DEF Consistent, Unsearched, SameLkb, Bystands
<1>5. Searchable(t)'
  BY <1>1 DEF Consistent, Searchable, SameLkb, Bystands
<1> QED
  BY <1>2, <1>3, <1>4, <1>5 DEF Consistent

(* A bystander that is granted its lock is unlinked and sent a resume.     *)
LEMMA BystanderServed ==
  ASSUME NEW t \in Lists, Consistent(t), Bystands(t),
         linked[t] \in BOOLEAN, resumed[t] \in BOOLEAN,
         Advances(rsb, rsb', t),
         linked'[t] = (linked[t] /\ t \notin Awakened),
         resumed'[t] = (resumed[t] \/ t \in Awakened)
  PROVE  Consistent(t)'
<1>1. CASE SameLkb(rsb, rsb', t)
  <2>1. t \notin Awakened
    BY <1>1 DEF SameLkb, Awakened
  <2> QED
    BY <1>1, <2>1, BystanderKeeps
<1>2. CASE Succeeds(rsb, rsb', t)
  <2>1. Blocked(t) /\ t \in Awakened /\ rsb.search[t] # "dead"
    BY <1>2 DEF Succeeds, Awakened, Blocked
  <2>2. /\ rsb'.state[t] = "granted" /\ rsb'.grant[t] = rsb.request[t]
        /\ rsb'.search[t] = "off" /\ ~linked'[t] /\ resumed'[t]
    BY <1>2, <2>1 DEF Succeeds
  <2>3. pc[t] # "idle"
    BY <2>1 DEF Consistent, Rests, AtRest, Blocked
  <2>4. Rests(t)'
    BY <2>3 DEF Rests, Bystands
  <2>5. Requests(t)'
    BY <2>1, <2>2, <2>3 DEF Consistent, Requests, Blocked, Bystands
  <2>6. Unsearched(t)'
    BY <2>2 DEF Consistent, Unsearched, Blocked, Bystands
  <2>7. Searchable(t)'
    BY <2>1, <2>2, <2>3 DEF Consistent, Searchable, Blocked, Bystands
  <2> QED
    BY <2>4, <2>5, <2>6, <2>7 DEF Consistent
<1> QED
  BY <1>1, <1>2 DEF Advances

(* A handler called for s leaves the other lists consistent.               *)
LEMMA OthersKeep ==
  ASSUME SessionsSound, NEW s \in Lists, Moves(rsb, rsb', s),
         NEW itsLink, NEW itsResume, Others(s, itsLink, itsResume),
         \A t \in Lists \ {s} : Bystands(t)
  PROVE  \A t \in Lists \ {s} : Consistent(t)'
<1> SUFFICES ASSUME NEW t \in Lists \ {s} PROVE Consistent(t)'
  OBVIOUS
<1>1. /\ linked'[t] = (linked[t] /\ t \notin Awakened)
      /\ resumed'[t] = (resumed[t] \/ t \in Awakened)
  BY DEF Others
<1>2. Advances(rsb, rsb', t)
  BY DEF Moves
<1>3. linked[t] \in BOOLEAN /\ resumed[t] \in BOOLEAN /\ Consistent(t)
  BY DEF SessionsSound, Typed
<1> QED
  BY <1>1, <1>2, <1>3, BystanderServed

LEMMA OthersTyped ==
  ASSUME Typed, NEW s \in Lists, NEW itsLink \in BOOLEAN,
         NEW itsResume \in BOOLEAN, Others(s, itsLink, itsResume)
  PROVE  /\ linked' \in [Lists -> BOOLEAN] /\ linked'[s] = itsLink
         /\ resumed' \in [Lists -> BOOLEAN] /\ resumed'[s] = itsResume
<1>1. /\ linked \in [Lists -> BOOLEAN] /\ resumed \in [Lists -> BOOLEAN]
  BY DEF Typed
<1>2. /\ linked' = [t \in Lists |->
                      IF t = s THEN itsLink ELSE linked[t] /\ t \notin Awakened]
      /\ resumed' = [t \in Lists |->
                      IF t = s THEN itsResume ELSE resumed[t] \/ t \in Awakened]
  BY DEF Others
<1>3. /\ \A t \in Lists : (IF t = s THEN itsLink
                           ELSE linked[t] /\ t \notin Awakened) \in BOOLEAN
      /\ \A t \in Lists : (IF t = s THEN itsResume
                           ELSE resumed[t] \/ t \in Awakened) \in BOOLEAN
  BY <1>1
<1> QED
  BY <1>2, <1>3

LEMMA RsbTyped ==
  ASSUME SessionsSound
  PROVE  /\ rsb \in RsbType /\ Quiet(rsb)
         /\ rsb.state \in [Lists -> LkbStates] /\ rsb.grant \in [Lists -> Modes]
         /\ rsb.search \in [Lists -> Searches]
  BY DEF SessionsSound, QueuedRsb, SoundRsb, RsbType

-------------------------------------------------------------------------------
(* LK_request.                                                             *)

LEMMA ConvertModeType == \A g, m \in Modes : ConvertMode[g][m] \in Modes
  BY DEF ConvertMode, Modes, N, IS, IX, S, SIX, U, X

LEMMA TargetType ==
  ASSUME SessionsSound, NEW s \in Lists, NEW m \in Modes, NEW explicit
  PROVE  Target(s, m, explicit) \in Modes
<1>1. rsb.grant[s] \in Modes
  BY RsbTyped
<1> QED
  BY <1>1, ConvertModeType DEF Target

(* A request for m is granted, queued or refused.                          *)
GrantedNow(s, m, kept) ==
  /\ rsb'.state[s] = "granted" /\ rsb'.grant[s] = m /\ rsb'.search[s] = "off"
  /\ Others(s, FALSE, kept)
  /\ Return(s, "ok")

QueuedNow(s, m, kept) ==
  /\ rsb'.state[s] \in {"waiting", "convert"} /\ rsb'.request[s] = m
  /\ rsb'.search[s] = SearchStart(s)
  /\ Holds(s)' = Holds(s) /\ Holds(s) # m
  /\ Others(s, TRUE, kept)
  /\ pc' = [pc EXCEPT ![s] = "asleep"]
  /\ cause' = [cause EXCEPT ![s] = "none"]
  /\ result' = [result EXCEPT ![s] = "none"]

RefusedNow(s, m, kept) ==
  /\ s \notin Undetected
  /\ rsb'.state[s] = "granted" /\ rsb'.search[s] = "off"
  /\ Holds(s)' = Holds(s)
  /\ Others(s, FALSE, kept)
  /\ Return(s, "deadlock")

LEMMA RequestOutcomes ==
  ASSUME SessionsSound, NEW s \in Lists, NEW m \in Modes, NEW kept,
         LK_request(s, m, kept)
  PROVE  /\ Moves(rsb, rsb', s)
         /\ \/ GrantedNow(s, m, kept)
            \/ QueuedNow(s, m, kept)
            \/ RefusedNow(s, m, kept)
<1>1. /\ rsb \in QueuedRsb /\ Quiet(rsb)
      /\ rsb.grant[s] \in Modes /\ NoLock \notin Modes
  BY RsbTyped DEF SessionsSound, NoLock, Modes
<1>2. CASE Granted(s, m, kept)
  <2>1. CASE NewGranted(s, m) \/ Converted(s, m)
    <3>1. Moves(rsb, rsb', s) /\ LkbIs(rsb', s, "granted", m, m, "off")
      BY <1>1, <2>1, ActionsMove
    <3> QED
      BY <1>2, <3>1 DEF Granted, GrantedNow, LkbIs
  <2>2. CASE rsb.state[s] = "granted" /\ rsb.grant[s] = m /\ UNCHANGED rsb
    <3>1. Moves(rsb, rsb', s)
      BY <1>1, <2>2, StandsStill
    <3>2. rsb.search[s] = "off"
      BY <1>1, <2>2 DEF Quiet
    <3> QED
      BY <1>2, <2>2, <3>1, <3>2 DEF Granted, GrantedNow
  <2> QED
    BY <1>2, <2>1, <2>2 DEF Granted
<1>3. CASE Queued(s, m, kept)
  <2>1. CASE NewWaits(s, m)
    <3>1. /\ Moves(rsb, rsb', s)
          /\ LkbIs(rsb', s, "waiting", N, m, SearchStart(s))
      BY <1>1, <2>1, ActionsMove
    <3>2. Holds(s) = NoLock /\ Holds(s)' = NoLock
      BY <2>1, <3>1 DEF Holds, NewWaits, LkbIs
    <3> QED
      BY <1>1, <1>3, <3>1, <3>2 DEF Queued, QueuedNow, LkbIs
  <2>2. CASE ConversionWaits(s, m)
    <3>1. /\ Moves(rsb, rsb', s)
          /\ LkbIs(rsb', s, "convert", rsb.grant[s], m, SearchStart(s))
      BY <1>1, <2>2, ActionsMove
    <3>2. Holds(s) = rsb.grant[s] /\ Holds(s)' = rsb.grant[s] /\ Holds(s) # m
      BY <2>2, <3>1 DEF Holds, ConversionWaits, Converts, LkbIs
    <3> QED
      BY <1>3, <3>1, <3>2 DEF Queued, QueuedNow, LkbIs
  <2> QED
    BY <1>3, <2>1, <2>2 DEF Queued
<1>4. CASE Refused(s, m, kept)
  <2>1. ConversionRefused(s, m) /\ RefusesConversion(s)
    BY <1>4 DEF Refused
  <2>2. /\ Moves(rsb, rsb', s)
        /\ LkbIs(rsb', s, "granted", rsb.grant[s], m, "off")
    BY <1>1, <2>1, ActionsMove
  <2>3. Holds(s) = rsb.grant[s] /\ Holds(s)' = rsb.grant[s]
    BY <2>1, <2>2 DEF Holds, ConversionRefused, Converts, LkbIs
  <2> QED
    BY <1>4, <2>1, <2>2, <2>3 DEF Refused, RefusedNow, RefusesConversion, LkbIs
<1> QED
  BY <1>2, <1>3, <1>4 DEF LK_request

(* Ask and AskAgain keep the sessions sound.                               *)
LEMMA RequestSound ==
  ASSUME SessionsSound, NEW s \in Lists, NEW m \in Modes, NEW kept \in BOOLEAN,
         LK_request(s, m, kept), rousing' = rousing,
         want' = [want EXCEPT ![s] = m],
         \/ pc[s] = "idle" /\ ~kept /\ held' = [held EXCEPT ![s] = Holds(s)]
         \/ pc[s] = "again" /\ held' = held /\ want[s] = m
  PROVE  SessionsSound'
<1>1. /\ Typed /\ rsb \in QueuedRsb /\ Consistent(s)
      /\ rsb.state \in [Lists -> LkbStates] /\ rsb.grant \in [Lists -> Modes]
  BY RsbTyped DEF SessionsSound
<1>2. /\ Moves(rsb, rsb', s)
      /\ \/ GrantedNow(s, m, kept)
         \/ QueuedNow(s, m, kept)
         \/ RefusedNow(s, m, kept)
  BY RequestOutcomes
<1>3. Holds(s) \in Modes \cup {NoLock}
  BY <1>1 DEF Holds
<1>4. /\ want' \in [Lists -> Modes \cup {NoLock}]
      /\ held' \in [Lists -> Modes \cup {NoLock}]
      /\ want'[s] = m /\ rousing # s
      /\ \A t \in Lists \ {s} : want'[t] = want[t] /\ held'[t] = held[t]
  BY <1>1, <1>3 DEF Typed, Consistent, Unsearched, Searchable
<1>5. \/ pc[s] = "idle" /\ ~kept /\ held'[s] = Holds(s)
      \/ /\ pc[s] = "again" /\ s \in Undetected /\ held'[s] = held[s]
         /\ Holds(s) # m => Holds(s) = held[s]
  <2>1. CASE pc[s] = "idle"
    BY <1>1, <2>1 DEF Typed
  <2>2. CASE pc[s] = "again"
    <3>1. ~Blocked(s) /\ s \in Undetected /\ want[s] = m /\ held' = held
      BY <1>1, <2>2 DEF Consistent, Requests, Searchable
    <3>2. Holds(s) # m => Holds(s) = held[s]
      BY <1>1, <2>2, <3>1
      DEF Consistent, Requests, Holds, Blocked, LkbStates
    <3> QED
      BY <2>2, <3>1, <3>2
  <2> QED
    BY <2>1, <2>2
<1>6. CASE GrantedNow(s, m, kept) \/ RefusedNow(s, m, kept)
  <2>1. PICK status \in {"ok", "deadlock"} :
             /\ Others(s, FALSE, kept) /\ Return(s, status)
             /\ rsb'.state[s] = "granted" /\ rsb'.search[s] = "off"
             /\ status = "ok" => Holds(s)' = m
             /\ status = "deadlock" => Holds(s)' = Holds(s) /\ s \notin Undetected
    BY <1>6 DEF GrantedNow, RefusedNow, Holds
  <2>2. /\ linked' \in [Lists -> BOOLEAN] /\ linked'[s] = FALSE
        /\ resumed' \in [Lists -> BOOLEAN]
    BY <1>1, <2>1, OthersTyped
  <2>3. /\ pc' \in [Lists -> Places] /\ pc'[s] = "idle"
        /\ cause' \in [Lists -> Causes] /\ cause'[s] = "none"
        /\ result' \in [Lists -> Results] /\ result'[s] = status
        /\ \A t \in Lists \ {s} : pc'[t] = pc[t] /\ cause'[t] = cause[t]
                                  /\ result'[t] = result[t]
    BY <1>1, <2>1 DEF Typed, Return, Places, Causes, Results
  <2>4. Typed'
    BY <1>1, <1>4, <2>2, <2>3 DEF Typed
  <2>5. \A t \in Lists \ {s} : Consistent(t)'
    BY <1>2, <1>4, <2>1, <2>3, OthersKeep DEF Bystands
  <2>6. Consistent(s)'
    <3>1. Rests(s)'
      BY <1>4, <1>5, <2>1, <2>2, <2>3 DEF Rests, AtRest
    <3>2. Requests(s)'
      BY <2>3 DEF Requests
    <3>3. Unsearched(s)'
      BY <1>4, <2>1, <2>2, <2>3 DEF Unsearched, Blocked
    <3>4. Searchable(s)'
      BY <1>4, <2>3 DEF Searchable
    <3> QED
      BY <3>1, <3>2, <3>3, <3>4 DEF Consistent
  <2> QED
    BY <1>2, <2>4, <2>5, <2>6 DEF SessionsSound, Moves
<1>7. CASE QueuedNow(s, m, kept)
  <2>1. /\ linked' \in [Lists -> BOOLEAN] /\ linked'[s] = TRUE
        /\ resumed' \in [Lists -> BOOLEAN] /\ resumed'[s] = kept
    BY <1>1, <1>7, OthersTyped DEF QueuedNow
  <2>2. /\ pc' \in [Lists -> Places] /\ pc'[s] = "asleep"
        /\ cause' \in [Lists -> Causes]
        /\ result' \in [Lists -> Results]
        /\ \A t \in Lists \ {s} : pc'[t] = pc[t] /\ cause'[t] = cause[t]
                                  /\ result'[t] = result[t]
    BY <1>1, <1>7 DEF Typed, QueuedNow, Places, Causes, Results
  <2>3. Typed'
    BY <1>1, <1>4, <2>1, <2>2 DEF Typed
  <2>4. \A t \in Lists \ {s} : Consistent(t)'
    BY <1>2, <1>4, <1>7, <2>2, OthersKeep DEF Bystands, QueuedNow
  <2>5. Consistent(s)'
    <3>1. Rests(s)'
      BY <2>2 DEF Rests
    <3>2. Requests(s)'
      BY <1>4, <1>5, <1>7, <2>2 DEF Requests, Blocked, QueuedNow
    <3>3. Unsearched(s)'
      BY <1>4, <1>7, <2>1, <2>2 DEF Unsearched, Blocked, QueuedNow, SearchStart
    <3>4. Searchable(s)'
      BY <1>4, <1>5, <1>7, <2>1, <2>2 DEF Searchable, Blocked, QueuedNow, SearchStart
    <3> QED
      BY <3>1, <3>2, <3>3, <3>4 DEF Consistent
  <2> QED
    BY <1>2, <2>3, <2>4, <2>5 DEF SessionsSound, Moves
<1> QED
  BY <1>2, <1>6, <1>7

-------------------------------------------------------------------------------
(* The steps of a session.                                                 *)

LEMMA InitSound == Init => SessionsSound
<1> SUFFICES ASSUME Init PROVE SessionsSound
  OBVIOUS
<1>1. rsb \in QueuedRsb
  BY FreshQueued DEF Init
<1>2. Typed
  BY DEF Init, Typed, Places, Causes, Results
<1>3. ASSUME NEW s \in Lists PROVE Consistent(s)
  <2>1. /\ pc[s] = "idle" /\ result[s] = "none" /\ cause[s] = "none"
        /\ linked[s] = FALSE /\ resumed[s] = FALSE /\ rousing # s
        /\ rsb.state[s] = "free" /\ rsb.search[s] = "off"
    BY SessionAssumption DEF Init, FreshRsb
  <2>2. Blocked(s) = FALSE
    BY <2>1 DEF Blocked
  <2>3. Rests(s) /\ Requests(s) /\ Searchable(s)
    BY <2>1 DEF Rests, AtRest, Requests, Searchable
  <2>4. Unsearched(s)
    BY <2>1, <2>2 DEF Unsearched
  <2> QED
    BY <2>3, <2>4 DEF Consistent
<1> QED
  BY <1>1, <1>2, <1>3 DEF SessionsSound

LEMMA AskSound ==
  ASSUME SessionsSound, NEW s \in Lists, NEW m \in Wanted,
         NEW explicit \in BOOLEAN, Ask(s, m, explicit)
  PROVE  SessionsSound'
<1> DEFINE mode == Target(s, m, explicit)
<1>1. mode \in Modes
  BY TargetType, SessionAssumption
<1>2. /\ LK_request(s, mode, FALSE) /\ rousing' = rousing /\ pc[s] = "idle"
      /\ want' = [want EXCEPT ![s] = mode]
      /\ held' = [held EXCEPT ![s] = Holds(s)]
  BY DEF Ask
<1> HIDE DEF mode
<1> QED
  BY <1>1, <1>2, RequestSound

LEMMA AskAgainSound ==
  ASSUME SessionsSound, NEW s \in Lists, AskAgain(s)
  PROVE  SessionsSound'
<1>1. PICK m : m = want[s]
  OBVIOUS
<1>2. PICK kept \in BOOLEAN : kept = resumed[s]
  BY DEF SessionsSound, Typed
<1>3. /\ LK_request(s, m, kept) /\ pc[s] = "again"
      /\ want' = want /\ held' = held /\ rousing' = rousing
  BY <1>1, <1>2 DEF AskAgain
<1>4. want \in [Lists -> Modes \cup {NoLock}] /\ m \in Modes
  BY <1>1, <1>3 DEF SessionsSound, Typed, Consistent, Requests
<1>5. want' = [want EXCEPT ![s] = m]
  BY <1>1, <1>3, <1>4
<1> QED
  BY <1>1, <1>3, <1>4, <1>5, RequestSound

(* A step of s that leaves the resource block and the other lists alone.   *)
LEMMA AsideSound ==
  ASSUME SessionsSound, NEW s \in Lists, rsb' = rsb, Typed', Consistent(s)',
         \A t \in Lists \ {s} :
            Bystands(t) /\ linked'[t] = linked[t] /\ resumed'[t] = resumed[t]
  PROVE  SessionsSound'
<1>1. ASSUME NEW t \in Lists \ {s} PROVE Consistent(t)'
  <2>1. SameLkb(rsb, rsb', t)
    BY DEF SameLkb
  <2> QED
    BY <2>1, BystanderKeeps DEF SessionsSound
<1> QED
  BY <1>1 DEF SessionsSound

LEMMA WakeSound ==
  ASSUME SessionsSound, NEW s \in Lists, Wake(s)
  PROVE  SessionsSound'
<1>1. Typed /\ Consistent(s) /\ pc[s] = "asleep" /\ resumed[s]
  BY DEF SessionsSound, Wake
<1>2. /\ pc' \in [Lists -> Places] /\ pc'[s] = "awake"
      /\ resumed' \in [Lists -> BOOLEAN] /\ ~resumed'[s]
      /\ \A t \in Lists \ {s} : pc'[t] = pc[t] /\ resumed'[t] = resumed[t]
      /\ rsb' = rsb /\ want' = want /\ held' = held /\ linked' = linked
      /\ cause' = cause /\ result' = result /\ rousing' = rousing
  BY <1>1 DEF Wake, Typed, Places
<1>3. Typed'
  BY <1>1, <1>2 DEF Typed
<1>4. Consistent(s)'
  <2>1. Holds(s)' = Holds(s) /\ Blocked(s)' = Blocked(s)
    BY <1>2 DEF Holds, Blocked
  <2>2. Rests(s)'
    BY <1>2 DEF Rests
  <2>3. Requests(s)'
    BY <1>1, <1>2, <2>1 DEF Consistent, Requests
  <2>4. Unsearched(s)'
    BY <1>1, <1>2, <2>1 DEF Consistent, Unsearched
  <2>5. Searchable(s)'
    BY <1>1, <1>2, <2>1 DEF Consistent, Searchable
  <2> QED
    BY <2>2, <2>3, <2>4, <2>5 DEF Consistent
<1> QED
  BY <1>2, <1>3, <1>4, AsideSound DEF Bystands

LEMMA ExpireSound ==
  ASSUME SearchedArePatient, SessionsSound, NEW s \in Lists, Expire(s)
  PROVE  SessionsSound'
<1>1. /\ Typed /\ Consistent(s) /\ pc[s] = "asleep" /\ s \in Undetected
      /\ rsb.state[s] \in LkbStates
  BY RsbTyped DEF SessionsSound, Expire, SearchedArePatient
<1>2. /\ pc' \in [Lists -> Places] /\ pc'[s] = "leaving"
      /\ cause' \in [Lists -> Causes] /\ cause'[s] = "timeout"
      /\ \A t \in Lists \ {s} : pc'[t] = pc[t] /\ cause'[t] = cause[t]
      /\ rsb' = rsb /\ want' = want /\ held' = held /\ linked' = linked
      /\ resumed' = resumed /\ result' = result /\ rousing' = rousing
  BY <1>1 DEF Expire, Typed, Places, Causes
<1>3. Typed'
  BY <1>1, <1>2 DEF Typed
<1>4. Consistent(s)'
  <2>1. Holds(s)' = Holds(s) /\ Blocked(s)' = Blocked(s)
    BY <1>2 DEF Holds, Blocked
  <2>2. Rests(s)'
    BY <1>2 DEF Rests
  <2>3. Requests(s)'
    BY <1>1, <1>2, <2>1 DEF Consistent, Requests
  <2>4. Unsearched(s)'
    BY <1>1, <1>2, <2>1 DEF Consistent, Unsearched
  <2>5. Searchable(s)'
    BY <1>1, <1>2 DEF Searchable
  <2> QED
    BY <2>2, <2>3, <2>4, <2>5 DEF Consistent
<1> QED
  BY <1>2, <1>3, <1>4, AsideSound DEF Bystands

LEMMA RogueResumeSound ==
  ASSUME SearchedArePatient, SessionsSound, NEW s \in Lists, RogueResume(s)
  PROVE  SessionsSound'
<1>1. Typed /\ Consistent(s) /\ s \in Undetected
  BY DEF SessionsSound, RogueResume, SearchedArePatient
<1>2. /\ resumed' \in [Lists -> BOOLEAN] /\ resumed'[s]
      /\ \A t \in Lists \ {s} : resumed'[t] = resumed[t]
      /\ rsb' = rsb /\ pc' = pc /\ want' = want /\ held' = held
      /\ linked' = linked /\ cause' = cause /\ result' = result
      /\ rousing' = rousing
  BY <1>1 DEF RogueResume, Typed
<1>3. Typed'
  BY <1>1, <1>2 DEF Typed
<1>4. Consistent(s)'
  <2>1. Holds(s)' = Holds(s) /\ Blocked(s)' = Blocked(s)
    BY <1>2 DEF Holds, Blocked
  <2>2. Rests(s)'
    BY <1>1, <1>2, <2>1 DEF Consistent, Rests, AtRest
  <2>3. Requests(s)'
    BY <1>1, <1>2, <2>1 DEF Consistent, Requests
  <2>4. Unsearched(s)'
    BY <1>1, <1>2, <2>1 DEF Consistent, Unsearched
  <2>5. Searchable(s)'
    BY <1>1, <1>2 DEF Searchable
  <2> QED
    BY <2>2, <2>3, <2>4, <2>5 DEF Consistent
<1> QED
  BY <1>2, <1>3, <1>4, AsideSound DEF Bystands

LEMMA CompleteSound ==
  ASSUME SessionsSound, NEW s \in Lists, Complete(s)
  PROVE  SessionsSound'
<1>1. /\ Typed /\ Consistent(s) /\ pc[s] = "awake"
      /\ ~linked[s] /\ rsb.search[s] = "off" /\ rsb.state[s] \in LkbStates
  BY RsbTyped DEF SessionsSound, Complete, Unfinished
<1>2. /\ rsb.state[s] = "granted" /\ rsb.grant[s] = want[s]
      /\ linked[s] = FALSE
  BY <1>1 DEF Consistent, Requests, Unsearched, Searchable, Blocked, LkbStates,
              Typed
<1>3. /\ pc' \in [Lists -> Places] /\ pc'[s] = "idle"
      /\ cause' \in [Lists -> Causes] /\ cause'[s] = "none"
      /\ result' \in [Lists -> Results] /\ result'[s] = "ok"
      /\ \A t \in Lists \ {s} : pc'[t] = pc[t] /\ cause'[t] = cause[t]
                                /\ result'[t] = result[t]
      /\ rsb' = rsb /\ want' = want /\ held' = held /\ linked' = linked
      /\ resumed' = resumed /\ rousing' = rousing
  BY <1>1 DEF Complete, Return, Typed, Places, Causes, Results
<1>4. Typed'
  BY <1>1, <1>3 DEF Typed
<1>5. Consistent(s)'
  <2>1. Rests(s)'
    BY <1>2, <1>3 DEF Rests, AtRest, Holds
  <2>2. Requests(s)' /\ Unsearched(s)' /\ Searchable(s)'
    BY <1>1, <1>2, <1>3
    DEF Consistent, Requests, Unsearched, Searchable, Blocked
  <2> QED
    BY <2>1, <2>2 DEF Consistent
<1> QED
  BY <1>3, <1>4, <1>5, AsideSound DEF Bystands

LEMMA IncompleteSound ==
  ASSUME SessionsSound, NEW s \in Lists, Incomplete(s)
  PROVE  SessionsSound'
<1>1. /\ Typed /\ Consistent(s) /\ pc[s] = "awake"
      /\ linked[s] \/ rsb.search[s] # "off"
  BY DEF SessionsSound, Incomplete, Unfinished
<1>2. \/ s \in Undetected /\ rsb.search[s] # "dead"
      \/ s \notin Undetected /\ (linked[s] => rsb.search[s] = "dead")
  BY <1>1 DEF Consistent, Unsearched, Searchable
<1>3. s \notin Undetected => rsb.search[s] = "dead"
  <2> SUFFICES ASSUME s \notin Undetected PROVE rsb.search[s] = "dead"
    OBVIOUS
  <2>1. ~linked[s] /\ (rsb.state[s] = "granted" \/ rsb.search[s] = "dead")
    BY <1>1 DEF Consistent, Searchable
  <2>2. rsb.state[s] = "granted" => rsb.search[s] = "off"
    BY RsbTyped DEF Quiet
  <2> QED
    BY <1>1, <2>1, <2>2
<1>4. PICK why \in {"deadlock", "phantom"} :
           /\ cause' = [cause EXCEPT ![s] = why]
           /\ why = "deadlock" <=> rsb.search[s] = "dead"
  BY DEF Incomplete
<1>5. /\ pc' \in [Lists -> Places] /\ pc'[s] = "leaving"
      /\ cause' \in [Lists -> Causes] /\ cause'[s] = why
      /\ \A t \in Lists \ {s} : pc'[t] = pc[t] /\ cause'[t] = cause[t]
      /\ rsb' = rsb /\ want' = want /\ held' = held /\ linked' = linked
      /\ resumed' = resumed /\ result' = result /\ rousing' = rousing
  BY <1>1, <1>4 DEF Incomplete, Typed, Places, Causes
<1>6. Typed'
  BY <1>1, <1>5 DEF Typed
<1>7. Consistent(s)'
  <2>1. Holds(s)' = Holds(s) /\ Blocked(s)' = Blocked(s)
    BY <1>5 DEF Holds, Blocked
  <2>2. Rests(s)'
    BY <1>5 DEF Rests
  <2>3. Requests(s)'
    BY <1>1, <1>5, <2>1 DEF Consistent, Requests
  <2>4. Unsearched(s)'
    BY <1>1, <1>2, <1>4, <1>5, <2>1 DEF Consistent, Unsearched
  <2>5. Searchable(s)'
    BY <1>1, <1>3, <1>4, <1>5 DEF Consistent, Searchable
  <2> QED
    BY <2>2, <2>3, <2>4, <2>5 DEF Consistent
<1> QED
  BY <1>5, <1>6, <1>7, AsideSound DEF Bystands

(* A searched list is not granted its lock once it leaves, so a granted    *)
(* lock seen by LK_cancel belongs to a list that is not searched.          *)
LEMMA CancelTooLateSound ==
  ASSUME SessionsSound, NEW s \in Lists, CancelTooLate(s)
  PROVE  SessionsSound'
<1>1. /\ Typed /\ Consistent(s) /\ pc[s] = "leaving"
      /\ rsb.state[s] = "granted" /\ rsb.search[s] = "off"
  BY RsbTyped DEF SessionsSound, CancelTooLate, Quiet
<1>2. /\ s \in Undetected /\ rsb.grant[s] = want[s] /\ linked[s] = FALSE
      /\ cause[s] = "timeout" => resumed[s]
  BY <1>1 DEF Consistent, Requests, Unsearched, Searchable, Blocked, Typed
<1>3. /\ rsb' = rsb /\ want' = want /\ held' = held /\ linked' = linked
      /\ resumed' = resumed /\ rousing' = rousing
  BY DEF CancelTooLate
<1>4. Holds(s)' = Holds(s) /\ Blocked(s)' = Blocked(s) /\ Holds(s) = want[s]
  BY <1>1, <1>2, <1>3 DEF Holds, Blocked
<1>5. CASE cause[s] = "timeout"
  <2>1. /\ pc' \in [Lists -> Places] /\ pc'[s] = "late"
        /\ \A t \in Lists \ {s} : pc'[t] = pc[t]
        /\ cause' = cause /\ result' = result
    BY <1>1, <1>5 DEF CancelTooLate, Typed, Places
  <2>2. Typed'
    BY <1>1, <1>3, <2>1 DEF Typed
  <2>3. Requests(s)'
    BY <1>1, <1>2, <1>3, <1>4, <2>1 DEF Consistent, Requests, Blocked
  <2>4. Unsearched(s)'
    BY <1>1, <1>2, <1>3, <1>4, <1>5, <2>1 DEF Consistent, Unsearched
  <2>5. Rests(s)' /\ Searchable(s)'
    BY <1>2, <2>1 DEF Rests, Searchable
  <2>6. Consistent(s)'
    BY <2>3, <2>4, <2>5 DEF Consistent
  <2> QED
    BY <1>3, <2>1, <2>2, <2>6, AsideSound DEF Bystands
<1>6. CASE cause[s] # "timeout"
  <2>1. /\ pc' \in [Lists -> Places] /\ pc'[s] = "idle"
        /\ cause' \in [Lists -> Causes] /\ cause'[s] = "none"
        /\ result' \in [Lists -> Results] /\ result'[s] = "ok"
        /\ \A t \in Lists \ {s} : pc'[t] = pc[t] /\ cause'[t] = cause[t]
                                  /\ result'[t] = result[t]
    BY <1>1, <1>6 DEF CancelTooLate, Return, Typed, Places, Causes, Results
  <2>2. Typed'
    BY <1>1, <1>3, <2>1 DEF Typed
  <2>3. Rests(s)'
    BY <1>1, <1>2, <1>3, <1>4, <2>1 DEF Rests, AtRest
  <2>4. Unsearched(s)'
    BY <1>1, <1>2, <1>3, <1>4, <2>1 DEF Consistent, Unsearched
  <2>5. Requests(s)' /\ Searchable(s)'
    BY <1>2, <2>1 DEF Requests, Searchable
  <2>6. Consistent(s)'
    BY <2>3, <2>4, <2>5 DEF Consistent
  <2> QED
    BY <1>3, <2>1, <2>2, <2>6, AsideSound DEF Bystands
<1> QED
  BY <1>5, <1>6

LEMMA CancelStartsSound ==
  ASSUME SessionsSound, NEW s \in Lists, CancelStarts(s)
  PROVE  SessionsSound'
<1>1. Typed /\ Consistent(s) /\ pc[s] = "leaving" /\ rsb.state[s] # "granted"
  BY DEF SessionsSound, CancelStarts
<1>2. /\ pc' \in [Lists -> Places] /\ pc'[s] = "cancelling"
      /\ \A t \in Lists \ {s} : pc'[t] = pc[t]
      /\ rsb' = rsb /\ want' = want /\ held' = held /\ linked' = linked
      /\ resumed' = resumed /\ cause' = cause /\ result' = result
      /\ rousing' = rousing
  BY <1>1 DEF CancelStarts, Typed, Places
<1>3. Typed'
  BY <1>1, <1>2 DEF Typed
<1>4. Consistent(s)'
  <2>1. Holds(s)' = Holds(s) /\ Blocked(s)' = Blocked(s)
    BY <1>2 DEF Holds, Blocked
  <2>2. Rests(s)'
    BY <1>2 DEF Rests
  <2>3. Requests(s)'
    BY <1>1, <1>2, <2>1 DEF Consistent, Requests
  <2>4. Unsearched(s)'
    BY <1>1, <1>2, <2>1 DEF Consistent, Unsearched
  <2>5. Searchable(s)'
    BY <1>1, <1>2 DEF Consistent, Searchable
  <2> QED
    BY <2>2, <2>3, <2>4, <2>5 DEF Consistent
<1> QED
  BY <1>2, <1>3, <1>4, AsideSound DEF Bystands

LEMMA CollectLateSound ==
  ASSUME SessionsSound, NEW s \in Lists, CollectLate(s)
  PROVE  SessionsSound'
<1>1. /\ Typed /\ Consistent(s) /\ pc[s] = "late"
      /\ rsb.state[s] \in LkbStates
  BY RsbTyped DEF SessionsSound, CollectLate
<1>2. /\ s \in Undetected /\ rsb.state[s] = "granted"
      /\ rsb.grant[s] = want[s] /\ linked[s] = FALSE
  BY <1>1 DEF Consistent, Requests, Unsearched, Searchable, Blocked, LkbStates,
              Typed
<1>3. /\ pc' \in [Lists -> Places] /\ pc'[s] = "idle"
      /\ cause' \in [Lists -> Causes] /\ cause'[s] = "none"
      /\ result' \in [Lists -> Results] /\ result'[s] = "ok"
      /\ resumed' \in [Lists -> BOOLEAN]
      /\ \A t \in Lists \ {s} : pc'[t] = pc[t] /\ cause'[t] = cause[t]
                                /\ result'[t] = result[t]
                                /\ resumed'[t] = resumed[t]
      /\ rsb' = rsb /\ want' = want /\ held' = held /\ linked' = linked
      /\ rousing' = rousing
  BY <1>1 DEF CollectLate, Return, Typed, Places, Causes, Results
<1>4. Typed'
  BY <1>1, <1>3 DEF Typed
<1>5. Consistent(s)'
  <2>1. Rests(s)'
    BY <1>2, <1>3 DEF Rests, AtRest, Holds
  <2>2. Unsearched(s)'
    BY <1>1, <1>2, <1>3 DEF Consistent, Unsearched, Blocked
  <2>3. Requests(s)' /\ Searchable(s)'
    BY <1>2, <1>3 DEF Requests, Searchable
  <2> QED
    BY <2>1, <2>2, <2>3 DEF Consistent
<1> QED
  BY <1>3, <1>4, <1>5, AsideSound DEF Bystands

(* What LK_do_cancel leaves: the lock held before the request or, when it  *)
(* was granted first, the lock asked for.                                  *)
LEMMA CancelOutcome ==
  ASSUME SessionsSound, NEW s \in Lists, Cancel(s)
  PROVE  /\ Moves(rsb, rsb', s)
         /\ rsb'.state[s] \in {"free", "granted"} /\ rsb'.search[s] = "off"
         /\ rsb'.state[s] = "free" => held[s] = NoLock
         /\ rsb'.state[s] = "granted" =>
              \/ rsb'.grant[s] = held[s]
              \/ s \in Undetected /\ rsb'.grant[s] = want[s]
<1>1. /\ rsb \in QueuedRsb /\ Quiet(rsb) /\ Consistent(s)
      /\ pc[s] = "cancelling" /\ N \in Modes
  BY RsbTyped, NullMode DEF SessionsSound, Cancel
<1>2. CASE WaitCancelled(s)
  <2>1. Moves(rsb, rsb', s) /\ LkbIs(rsb', s, "free", N, N, "off")
    BY <1>1, <1>2, ActionsMove
  <2>2. Blocked(s) /\ Holds(s) = NoLock
    BY <1>2 DEF WaitCancelled, Blocked, Holds
  <2>3. held[s] = NoLock
    BY <1>1, <2>2 DEF Consistent, Requests
  <2> QED
    BY <2>1, <2>3 DEF LkbIs
<1>3. CASE ConversionCancelled(s)
  <2>1. /\ Moves(rsb, rsb', s)
        /\ LkbIs(rsb', s, "granted", rsb.grant[s], rsb.grant[s], "off")
    BY <1>1, <1>3, ActionsMove
  <2>2. Blocked(s) /\ Holds(s) = rsb.grant[s]
    BY <1>3 DEF ConversionCancelled, Blocked, Holds
  <2>3. held[s] = rsb.grant[s]
    BY <1>1, <2>2 DEF Consistent, Requests
  <2> QED
    BY <2>1, <2>3 DEF LkbIs
<1>4. CASE rsb.state[s] = "granted" /\ UNCHANGED rsb
  <2>1. Moves(rsb, rsb', s)
    BY <1>1, <1>4, StandsStill
  <2>2. rsb.search[s] = "off"
    BY <1>1, <1>4 DEF Quiet
  <2>3. s \in Undetected /\ rsb.grant[s] = want[s]
    BY <1>1, <1>4, <2>2 DEF Consistent, Requests, Searchable
  <2> QED
    BY <1>4, <2>1, <2>2, <2>3
<1> QED
  BY <1>2, <1>3, <1>4 DEF Cancel

LEMMA CancelSound ==
  ASSUME SessionsSound, NEW s \in Lists, Cancel(s)
  PROVE  SessionsSound'
<1>1. /\ Typed /\ Consistent(s) /\ pc[s] = "cancelling"
      /\ want[s] \in Modes /\ rousing # s
      /\ \/ s \in Undetected /\ cause[s] \in {"timeout", "phantom"}
         \/ s \notin Undetected /\ cause[s] = "deadlock"
  <2>1. /\ Typed /\ Consistent(s) /\ pc[s] = "cancelling"
    BY DEF SessionsSound, Cancel
  <2> QED
    BY <2>1 DEF Consistent, Requests, Unsearched, Searchable
<1>2. /\ Moves(rsb, rsb', s)
      /\ rsb'.state[s] \in {"free", "granted"} /\ rsb'.search[s] = "off"
      /\ rsb'.state[s] = "free" => held[s] = NoLock
      /\ rsb'.state[s] = "granted" =>
           \/ rsb'.grant[s] = held[s]
           \/ s \in Undetected /\ rsb'.grant[s] = want[s]
  BY CancelOutcome
<1>3. PICK kept \in BOOLEAN : kept = (resumed[s] /\ cause[s] # "timeout")
  OBVIOUS
<1>4. /\ Others(s, FALSE, kept)
      /\ want' = want /\ held' = held /\ rousing' = rousing
  BY <1>3 DEF Cancel
<1>5. /\ linked' \in [Lists -> BOOLEAN] /\ linked'[s] = FALSE
      /\ resumed' \in [Lists -> BOOLEAN]
  BY <1>1, <1>4, OthersTyped
<1>6. Blocked(s)' = FALSE
  BY <1>2 DEF Blocked
<1>7. CASE cause[s] = "phantom"
  <2>1. /\ pc' \in [Lists -> Places] /\ pc'[s] = "again"
        /\ \A t \in Lists \ {s} : pc'[t] = pc[t]
        /\ cause' = cause /\ result' = result
    BY <1>1, <1>7 DEF Cancel, Typed, Places
  <2>2. Typed'
    BY <1>1, <1>4, <1>5, <2>1 DEF Typed
  <2>3. \A t \in Lists \ {s} : Consistent(t)'
    BY <1>2, <1>4, <2>1, OthersKeep DEF Bystands
  <2>4. Consistent(s)'
    <3>1. Rests(s)'
      BY <2>1 DEF Rests
    <3>2. Requests(s)'
      BY <1>1, <1>2, <1>4, <1>6, <2>1 DEF Requests
    <3>3. Unsearched(s)'
      BY <1>1, <1>2, <1>4, <1>5, <1>6, <2>1 DEF Unsearched
    <3>4. Searchable(s)'
      BY <1>1, <1>7 DEF Searchable
    <3> QED
      BY <3>1, <3>2, <3>3, <3>4 DEF Consistent
  <2> QED
    BY <1>2, <2>2, <2>3, <2>4 DEF SessionsSound, Moves
<1>8. CASE cause[s] # "phantom"
  <2>1. /\ pc' \in [Lists -> Places] /\ pc'[s] = "idle"
        /\ cause' \in [Lists -> Causes] /\ cause'[s] = "none"
        /\ result' \in [Lists -> Results] /\ result'[s] = cause[s]
        /\ \A t \in Lists \ {s} : pc'[t] = pc[t] /\ cause'[t] = cause[t]
                                  /\ result'[t] = result[t]
    BY <1>1, <1>8 DEF Cancel, Return, Typed, Places, Causes, Results
  <2>2. Typed'
    BY <1>1, <1>4, <1>5, <2>1 DEF Typed
  <2>3. \A t \in Lists \ {s} : Consistent(t)'
    BY <1>2, <1>4, <2>1, OthersKeep DEF Bystands
  <2>4. Consistent(s)'
    <3>1. cause[s] = "deadlock" => Holds(s)' = held[s]
      BY <1>1, <1>2 DEF Holds
    <3>2. Rests(s)'
      BY <1>1, <1>2, <1>4, <1>5, <2>1, <3>1 DEF Rests, AtRest
    <3>3. Unsearched(s)'
      BY <1>1, <1>2, <1>4, <1>5, <1>6, <2>1 DEF Unsearched
    <3>4. Requests(s)' /\ Searchable(s)'
      BY <1>1, <1>4, <2>1 DEF Requests, Searchable
    <3> QED
      BY <3>2, <3>3, <3>4 DEF Consistent
  <2> QED
    BY <1>2, <2>2, <2>3, <2>4 DEF SessionsSound, Moves
<1> QED
  BY <1>7, <1>8

LEMMA ReleaseSound ==
  ASSUME SessionsSound, NEW s \in Lists, Release(s)
  PROVE  SessionsSound'
<1>1. /\ Typed /\ Consistent(s) /\ pc[s] = "idle" /\ rousing # s
      /\ resumed[s] \in BOOLEAN /\ rsb \in QueuedRsb /\ N \in Modes
  <2>1. Typed /\ Consistent(s) /\ pc[s] = "idle" /\ rsb \in QueuedRsb
    BY DEF SessionsSound, Release
  <2> QED
    BY <2>1, NullMode DEF Typed, Consistent, Unsearched, Searchable
<1>2. Moves(rsb, rsb', s) /\ LkbIs(rsb', s, "free", N, N, "off")
  BY <1>1, ActionsMove DEF Release
<1>3. PICK kept \in BOOLEAN : kept = resumed[s]
  BY <1>1
<1>4. /\ Others(s, FALSE, kept)
      /\ want' = [want EXCEPT ![s] = NoLock]
      /\ held' = [held EXCEPT ![s] = NoLock]
      /\ result' = [result EXCEPT ![s] = "none"]
      /\ pc' = pc /\ cause' = cause /\ rousing' = rousing
  BY <1>3 DEF Release
<1>5. /\ linked' \in [Lists -> BOOLEAN] /\ linked'[s] = FALSE
      /\ resumed' \in [Lists -> BOOLEAN]
  BY <1>1, <1>4, OthersTyped
<1>6. /\ want' \in [Lists -> Modes \cup {NoLock}]
      /\ held' \in [Lists -> Modes \cup {NoLock}]
      /\ result' \in [Lists -> Results] /\ result'[s] = "none"
      /\ \A t \in Lists \ {s} : want'[t] = want[t] /\ held'[t] = held[t]
                                /\ result'[t] = result[t]
  BY <1>1, <1>4 DEF Typed, Results
<1>7. Typed'
  BY <1>1, <1>4, <1>5, <1>6 DEF Typed
<1>8. \A t \in Lists \ {s} : Consistent(t)'
  BY <1>2, <1>4, <1>6, OthersKeep DEF Bystands
<1>9. Consistent(s)'
  <2>1. Blocked(s)' = FALSE /\ rsb'.state[s] = "free" /\ rsb'.search[s] = "off"
    BY <1>2 DEF Blocked, LkbIs
  <2>2. Rests(s)'
    BY <1>1, <1>4, <1>5, <1>6, <2>1 DEF Consistent, Rests, AtRest
  <2>3. Unsearched(s)'
    BY <1>1, <1>4, <1>5, <2>1 DEF Unsearched
  <2>4. Requests(s)' /\ Searchable(s)'
    BY <1>1, <1>4 DEF Requests, Searchable
  <2> QED
    BY <2>2, <2>3, <2>4 DEF Consistent
<1> QED
  BY <1>2, <1>7, <1>8, <1>9 DEF SessionsSound, Moves

-------------------------------------------------------------------------------
(* The steps of the deadlock thread.                                       *)

(* A lock block on the deadlock queue is that of a session that sleeps on  *)
(* a lock not yet granted.                                                 *)
LEMMA ListedSleeps ==
  ASSUME SessionsSound, NEW l \in Lists, NEW victim \in BOOLEAN,
         Searched(l, victim)
  PROVE  /\ l \notin Undetected /\ rousing # l
         /\ pc[l] = "asleep" /\ linked[l] /\ ~resumed[l]
         /\ rsb'.state = rsb.state /\ rsb'.grant[l] = rsb.grant[l]
         /\ rsb'.request[l] = rsb.request[l]
         /\ rsb'.search[l] = IF victim THEN "dead" ELSE "off"
         /\ Blocked(l)
         /\ rsb' \in QueuedRsb
         /\ \A t \in Lists \ {l} : SameLkb(rsb, rsb', t)
<1>1. Typed /\ Consistent(l) /\ rsb \in QueuedRsb
  BY DEF SessionsSound
<1>2. /\ Moves(rsb, rsb', l) /\ rsb'.state = rsb.state
      /\ rsb.search[l] = "listed" /\ rsb.state[l] \in {"waiting", "convert"}
      /\ LkbIs(rsb', l, rsb.state[l], rsb.grant[l], rsb.request[l],
               IF victim THEN "dead" ELSE "off")
  BY <1>1, SearchedMoves
<1>3. l \notin Undetected
  BY <1>1, <1>2 DEF Consistent, Unsearched
<1>4. pc[l] # "idle"
  BY <1>1, <1>2 DEF Consistent, Rests, AtRest
<1>5. /\ pc[l] \notin {"late", "again", "awake", "leaving", "cancelling"}
      /\ rousing # l
  BY <1>1, <1>2, <1>3 DEF Consistent, Searchable
<1>6. pc[l] = "asleep"
  BY <1>1, <1>4, <1>5 DEF Typed, Places
<1>7. linked[l] /\ ~resumed[l]
  BY <1>1, <1>2, <1>3, <1>6 DEF Consistent, Searchable
<1>8. \A t \in Lists \ {l} : SameLkb(rsb, rsb', t)
  BY <1>2 DEF Moves, Advances, Succeeds
<1> QED
  BY <1>2, <1>3, <1>5, <1>6, <1>7, <1>8 DEF Blocked, LkbIs, Moves

LEMMA SearchClearsSound ==
  ASSUME SessionsSound, NEW l \in Lists, SearchClears(l)
  PROVE  SessionsSound'
<1>1. /\ Searched(l, FALSE) /\ rousing = NoList
      /\ pc' = pc /\ want' = want /\ held' = held /\ linked' = linked
      /\ resumed' = resumed /\ cause' = cause /\ result' = result
      /\ rousing' = rousing
  BY DEF SearchClears
<1>2. /\ l \notin Undetected /\ rousing # l
      /\ pc[l] = "asleep" /\ linked[l] /\ ~resumed[l]
      /\ rsb'.state = rsb.state /\ rsb'.grant[l] = rsb.grant[l]
      /\ rsb'.request[l] = rsb.request[l] /\ rsb'.search[l] = "off"
      /\ Blocked(l) /\ rsb' \in QueuedRsb
      /\ \A t \in Lists \ {l} : SameLkb(rsb, rsb', t)
  BY <1>1, ListedSleeps
<1>3. Typed'
  BY <1>1 DEF SessionsSound, Typed
<1>4. \A t \in Lists \ {l} : Consistent(t)'
  BY <1>1, <1>2, BystanderKeeps DEF SessionsSound, Bystands
<1>5. Consistent(l)'
  <2>1. Consistent(l) /\ Holds(l)' = Holds(l) /\ Blocked(l)' = Blocked(l)
    BY <1>2 DEF SessionsSound, Holds, Blocked
  <2>2. Requests(l)'
    BY <1>1, <1>2, <2>1 DEF Consistent, Requests
  <2>3. Searchable(l)'
    BY <1>1, <1>2, <2>1 DEF Searchable
  <2>4. Rests(l)' /\ Unsearched(l)'
    BY <1>1, <1>2 DEF Rests, Unsearched
  <2> QED
    BY <2>2, <2>3, <2>4 DEF Consistent
<1> QED
  BY <1>2, <1>3, <1>4, <1>5 DEF SessionsSound

LEMMA SearchFindsSound ==
  ASSUME SessionsSound, NEW l \in Lists, SearchFinds(l)
  PROVE  SessionsSound'
<1>1. /\ Searched(l, TRUE) /\ rousing = NoList
      /\ pc' = pc /\ want' = want /\ held' = held /\ linked' = linked
      /\ resumed' = resumed /\ cause' = cause /\ result' = result
      /\ rousing' = l
  BY DEF SearchFinds
<1>2. /\ l \notin Undetected /\ rousing # l
      /\ pc[l] = "asleep" /\ linked[l] /\ ~resumed[l]
      /\ rsb'.state = rsb.state /\ rsb'.grant[l] = rsb.grant[l]
      /\ rsb'.request[l] = rsb.request[l] /\ rsb'.search[l] = "dead"
      /\ Blocked(l) /\ rsb' \in QueuedRsb
      /\ \A t \in Lists \ {l} : SameLkb(rsb, rsb', t)
  BY <1>1, ListedSleeps
<1>3. Typed'
  BY <1>1 DEF SessionsSound, Typed
<1>4. \A t \in Lists \ {l} : Consistent(t)'
  BY <1>1, <1>2, BystanderKeeps, SessionAssumption DEF SessionsSound, Bystands
<1>5. Consistent(l)'
  <2>1. Consistent(l) /\ Holds(l)' = Holds(l) /\ Blocked(l)' = Blocked(l)
    BY <1>2 DEF SessionsSound, Holds, Blocked
  <2>2. Requests(l)'
    BY <1>1, <1>2, <2>1 DEF Consistent, Requests
  <2>3. Searchable(l)'
    BY <1>1, <1>2, <2>1 DEF Searchable
  <2>4. Rests(l)' /\ Unsearched(l)'
    BY <1>1, <1>2 DEF Rests, Unsearched
  <2> QED
    BY <2>2, <2>3, <2>4 DEF Consistent
<1> QED
  BY <1>2, <1>3, <1>4, <1>5 DEF SessionsSound

LEMMA RouseSound ==
  ASSUME SessionsSound, NEW l \in Lists, Rouse(l)
  PROVE  SessionsSound'
<1>1. Typed /\ Consistent(l) /\ rousing = l
  BY DEF SessionsSound, Rouse
<1>2. /\ l \notin Undetected /\ pc[l] = "asleep" /\ rsb.search[l] = "dead"
  BY <1>1 DEF Consistent, Unsearched, Searchable
<1>3. /\ linked' \in [Lists -> BOOLEAN] /\ ~linked'[l]
      /\ resumed' \in [Lists -> BOOLEAN] /\ resumed'[l]
      /\ \A t \in Lists \ {l} : linked'[t] = linked[t] /\ resumed'[t] = resumed[t]
      /\ rsb' = rsb /\ pc' = pc /\ want' = want /\ held' = held
      /\ cause' = cause /\ result' = result /\ rousing' = NoList
  BY <1>1, <1>2 DEF Rouse, Typed
<1>4. Typed'
  BY <1>1, <1>3 DEF Typed
<1>5. Consistent(l)'
  <2>1. Holds(l)' = Holds(l) /\ Blocked(l)' = Blocked(l)
    BY <1>3 DEF Holds, Blocked
  <2>2. Requests(l)'
    BY <1>1, <1>3, <2>1 DEF Consistent, Requests
  <2>3. Searchable(l)'
    BY <1>2, <1>3, SessionAssumption DEF Searchable
  <2>4. Rests(l)' /\ Unsearched(l)'
    BY <1>2, <1>3 DEF Rests, Unsearched
  <2> QED
    BY <2>2, <2>3, <2>4 DEF Consistent
<1>6. \A t \in Lists \ {l} : Bystands(t)
  BY <1>1, <1>3, SessionAssumption DEF Bystands
<1> QED
  BY <1>3, <1>4, <1>5, <1>6, AsideSound

-------------------------------------------------------------------------------
(* The theorems.                                                           *)

LEMMA NextSound ==
  ASSUME SearchedArePatient, SessionsSound, [Next]_vars
  PROVE  SessionsSound'
<1>1. ASSUME NEW s \in Lists, Step(s) PROVE SessionsSound'
  BY <1>1, AskAgainSound, WakeSound, CompleteSound, IncompleteSound,
     CancelTooLateSound, CancelStartsSound, CollectLateSound, CancelSound
  DEF Step
<1>2. CASE DeadlockThread
  BY <1>2, SearchClearsSound, SearchFindsSound, RouseSound DEF DeadlockThread
<1>3. CASE UNCHANGED vars
  <2>1. /\ rsb' = rsb /\ pc' = pc /\ want' = want /\ held' = held
        /\ linked' = linked /\ resumed' = resumed /\ cause' = cause
        /\ result' = result /\ rousing' = rousing
    BY <1>3 DEF vars
  <2>2. Typed'
    BY <2>1 DEF SessionsSound, Typed
  <2>3. ASSUME NEW t \in Lists PROVE Consistent(t)'
    BY <2>1, <2>3, BystanderKeeps DEF SessionsSound, Bystands, SameLkb
  <2> QED
    BY <2>1, <2>2, <2>3 DEF SessionsSound
<1> QED
  BY <1>1, <1>2, <1>3, AskSound, ExpireSound, RogueResumeSound, ReleaseSound
  DEF Next

(* The sessions' own state and the resource block agree at every step.     *)
THEOREM SessionsStaySound ==
  ASSUME SearchedArePatient
  PROVE  Spec => []SessionsSound
<1>1. SessionsSound /\ [Next]_vars => SessionsSound'
  BY NextSound
<1> QED
  BY InitSound, <1>1, PTL DEF Spec

(* Type correctness; outside the lock manager no lock of a session is left *)
(* on its list's wait queue (LK_resume, LK_do_cancel).                     *)
THEOREM SessionsTypeCorrect ==
  ASSUME SearchedArePatient
  PROVE  Spec => []TypeOK
<1>1. SessionsSound => TypeOK
  BY RsbTyped DEF SessionsSound, Typed, TypeOK, Consistent, Rests
<1> QED
  BY SessionsStaySound, <1>1, PTL

(* A request is only answered with OK when its lock is held.               *)
THEOREM OkIsTrue ==
  ASSUME SearchedArePatient
  PROVE  Spec => []OkMeansHeld
<1>1. SessionsSound => OkMeansHeld
  BY DEF SessionsSound, OkMeansHeld, Consistent, Rests
<1> QED
  BY SessionsStaySound, <1>1, PTL

(* A deadlock victim, or a conversion refused, keeps what it held before:  *)
(* LK_try_wait and LK_try_convert pass over the lock blocks marked by      *)
(* LKdeadlock_thread.                                                      *)
THEOREM VictimsGetNothing ==
  ASSUME SearchedArePatient
  PROVE  Spec => []DeadlockTakesNothing
<1>1. SessionsSound => DeadlockTakesNothing
  BY DEF SessionsSound, DeadlockTakesNothing, Consistent, Rests
<1> QED
  BY SessionsStaySound, <1>1, PTL

(* A session that sleeps on a granted lock, or was chosen as a victim, has *)
(* been resumed or is about to be, though the resume is sent without the   *)
(* mutex under which the lock was granted or the victim marked.            *)
THEOREM ResumesAreNotLost ==
  ASSUME SearchedArePatient
  PROVE  Spec => []NoLostResume
<1>1. SessionsSound => NoLostResume
  <2> SUFFICES ASSUME SessionsSound, NEW s \in Lists, Expectant(s)
               PROVE  resumed[s] \/ rousing = s
    BY DEF NoLostResume
  <2>1. Consistent(s) /\ Quiet(rsb)
    BY RsbTyped DEF SessionsSound
  <2>2. CASE s \in Undetected
    BY <2>1, <2>2 DEF Expectant, Consistent, Unsearched
  <2>3. CASE s \notin Undetected
    BY <2>1, <2>3 DEF Expectant, Consistent, Searchable, Blocked
  <2> QED
    BY <2>2, <2>3
<1> QED
  BY SessionsStaySound, <1>1, PTL

-------------------------------------------------------------------------------
(* LockSession implements LockService.                                     *)

Answer(s) == IF pc[s] = "idle" THEN result[s] ELSE "pending"

LEMMA ServiceModes ==
  /\ Service!Modes = Modes /\ Service!NoLock = NoLock
  /\ \A m, n : Service!Coexist(m, n) <=> Coexist(m, n)
<1>1. Service!Modes = Modes /\ Service!NoLock = NoLock
  BY DEF Service!Modes, Modes, Service!NoLock, NoLock
<1>2. Service!CompatibleWith = CompatibleWith
  BY <1>1 DEF Service!CompatibleWith, CompatibleWith, Service!N, N,
     Service!IS, IS, Service!IX, IX, Service!S, S, Service!SIX, SIX,
     Service!U, U, Service!X, X
<1> QED
  BY <1>1, <1>2 DEF Service!Coexist, Coexist, Service!Compatible, Compatible,
     Service!IS, IS, Service!U, U

(* What the sessions see of s stays as it is.                              *)
Unseen(s) ==
  /\ Holds(s)' = Holds(s) /\ want'[s] = want[s]
  /\ held'[s] = held[s] /\ Answer(s)' = Answer(s)

(* The steps of LockService, in terms of the sessions.                     *)
AnswersNow(s) ==
  \/ Answer(s)' = "ok" /\ Holds(s)' = want'[s]
  \/ Answer(s)' = "deadlock" /\ Holds(s)' = held'[s]

AskNow(s) ==
  /\ Answer(s) # "pending" /\ want'[s] \in Modes /\ held'[s] = Holds(s)
  /\ \/ AnswersNow(s)
     \/ Answer(s)' = "pending" /\ Holds(s)' = Holds(s)

ProceedNow(s) ==
  /\ Answer(s) = "pending" /\ want'[s] = want[s] /\ held'[s] = held[s]
  /\ \/ AnswersNow(s)
     \/ Answer(s)' = "timeout" /\ Holds(s)' \in {held[s], want[s]}
     \/ Answer(s)' = "pending" /\ Holds(s)' \in {Holds(s), want[s]}

ReleaseNow(s) ==
  /\ Answer(s) # "pending" /\ Holds(s)' = NoLock /\ Answer(s)' = "none"
  /\ want'[s] = NoLock /\ held'[s] = NoLock

LEMMA ServiceStep ==
  ASSUME NEW s \in Lists,
         AskNow(s) \/ ProceedNow(s) \/ ReleaseNow(s),
         SessionsSound, SessionsSound', Moves(rsb, rsb', s),
         \A t \in Lists \ {s} : Bystands(t)
  PROVE  Service!Next
<1>1. Service!Ask(s) \/ Service!Proceed(s) \/ Service!Release(s)
  BY ServiceModes
  DEF AskNow, ProceedNow, ReleaseNow, AnswersNow, Answer, Holds,
      Service!Ask, Service!Proceed, Service!Release, Service!Answers,
      Service!Pending
<1>2. ASSUME NEW t \in Lists \ {s}
      PROVE  /\ want'[t] = want[t] /\ held'[t] = held[t]
             /\ Answer(t)' = Answer(t)
             /\ \/ Holds(t)' = Holds(t)
                \/ Answer(t) = "pending" /\ Holds(t)' = want[t]
  <2>1. Bystands(t) /\ Consistent(t) /\ Advances(rsb, rsb', t)
    BY DEF SessionsSound, Moves
  <2>2. CASE SameLkb(rsb, rsb', t)
    BY <2>1, <2>2 DEF Bystands, SameLkb, Answer, Holds
  <2>3. CASE Succeeds(rsb, rsb', t)
    <3>1. Blocked(t) /\ pc[t] # "idle"
      BY <2>1, <2>3 DEF Succeeds, Blocked, Consistent, Rests, AtRest
    <3>2. rsb.request[t] = want[t]
      BY <2>1, <3>1 DEF Consistent, Requests
    <3> QED
      BY <2>1, <2>3, <3>1, <3>2 DEF Bystands, Succeeds, Answer, Holds
  <2> QED
    BY <2>1, <2>2, <2>3 DEF Advances
<1>3. Service!Served(s)
  BY <1>2 DEF Answer, Holds, Service!Served, Service!Pending
<1>4. Service!Exclusive'
  <2>1. CompatibleHolders(rsb')
    BY DEF Moves, QueuedRsb, SoundRsb
  <2>2. \A t, u \in Lists : t # u /\ Holds(t)' # NoLock /\ Holds(u)' # NoLock
                            => Coexist(Holds(t)', Holds(u)')
    BY <2>1 DEF CompatibleHolders, Holders, Holds
  <2> QED
    BY <2>2, ServiceModes DEF Holds, Service!Exclusive
<1> QED
  BY <1>1, <1>3, <1>4 DEF Service!Next

LEMMA ServiceStutters ==
  ASSUME \A s \in Lists : Unseen(s), want' = want, held' = held
  PROVE  UNCHANGED Service!vars
  BY DEF Unseen, Holds, Answer, Service!vars

LEMMA RequestServes ==
  ASSUME SessionsSound, SessionsSound', NEW s \in Lists, NEW m \in Modes,
         NEW kept \in BOOLEAN, LK_request(s, m, kept), rousing' = rousing,
         want'[s] = m,
         \A t \in Lists \ {s} : want'[t] = want[t] /\ held'[t] = held[t],
         \/ pc[s] = "idle" /\ held'[s] = Holds(s)
         \/ pc[s] = "again" /\ held'[s] = held[s] /\ want[s] = m
  PROVE  Service!Next
<1>1. /\ Moves(rsb, rsb', s)
      /\ \/ GrantedNow(s, m, kept)
         \/ QueuedNow(s, m, kept)
         \/ RefusedNow(s, m, kept)
  BY RequestOutcomes
<1>2. /\ pc \in [Lists -> Places] /\ result \in [Lists -> Results]
      /\ cause \in [Lists -> Causes] /\ Consistent(s)
  BY DEF SessionsSound, Typed
<1>3. pc[s] = "again" => s \in Undetected
  BY <1>2 DEF Consistent, Searchable
<1>4. Answer(s) = "pending" <=> pc[s] = "again"
  BY <1>2 DEF Answer, Results
<1>5. \A t \in Lists \ {s} : Bystands(t)
  BY <1>1, <1>2 DEF GrantedNow, QueuedNow, RefusedNow, Return, Bystands
<1>6. CASE GrantedNow(s, m, kept)
  <2>1. Answer(s)' = "ok" /\ Holds(s)' = m
    BY <1>2, <1>6 DEF GrantedNow, Return, Answer, Holds
  <2>2. AskNow(s) \/ ProceedNow(s)
    BY <1>4, <2>1 DEF AskNow, ProceedNow, AnswersNow
  <2> QED
    BY <1>1, <1>5, <2>2, ServiceStep
<1>7. CASE QueuedNow(s, m, kept)
  <2>1. Answer(s)' = "pending" /\ Holds(s)' = Holds(s)
    BY <1>2, <1>7 DEF QueuedNow, Answer
  <2>2. AskNow(s) \/ ProceedNow(s)
    BY <1>4, <2>1 DEF AskNow, ProceedNow
  <2> QED
    BY <1>1, <1>5, <2>2, ServiceStep
<1>8. CASE RefusedNow(s, m, kept)
  <2>1. /\ Answer(s)' = "deadlock" /\ Holds(s)' = Holds(s)
        /\ pc[s] = "idle"
    BY <1>2, <1>3, <1>8 DEF RefusedNow, Return, Answer
  <2>2. AskNow(s)
    BY <1>4, <2>1 DEF AskNow, AnswersNow
  <2> QED
    BY <1>1, <1>5, <2>2, ServiceStep
<1> QED
  BY <1>1, <1>6, <1>7, <1>8

LEMMA AskServes ==
  ASSUME SessionsSound, SessionsSound', NEW s \in Lists, NEW m \in Wanted,
         NEW explicit \in BOOLEAN, Ask(s, m, explicit)
  PROVE  Service!Next
<1> DEFINE mode == Target(s, m, explicit)
<1>1. mode \in Modes
  BY TargetType, SessionAssumption
<1>2. /\ LK_request(s, mode, FALSE) /\ rousing' = rousing /\ pc[s] = "idle"
      /\ want' = [want EXCEPT ![s] = mode]
      /\ held' = [held EXCEPT ![s] = Holds(s)]
  BY DEF Ask
<1> HIDE DEF mode
<1>3. /\ want'[s] = mode /\ held'[s] = Holds(s)
      /\ \A t \in Lists \ {s} : want'[t] = want[t] /\ held'[t] = held[t]
  BY <1>2 DEF SessionsSound, Typed
<1> QED
  BY <1>1, <1>2, <1>3, RequestServes

LEMMA AskAgainServes ==
  ASSUME SessionsSound, SessionsSound', NEW s \in Lists, AskAgain(s)
  PROVE  Service!Next
<1>1. PICK m : m = want[s]
  OBVIOUS
<1>2. PICK kept \in BOOLEAN : kept = resumed[s]
  BY DEF SessionsSound, Typed
<1>3. /\ LK_request(s, m, kept) /\ pc[s] = "again"
      /\ want' = want /\ held' = held /\ rousing' = rousing
  BY <1>1, <1>2 DEF AskAgain
<1>4. m \in Modes
  BY <1>1, <1>3 DEF SessionsSound, Consistent, Requests
<1> QED
  BY <1>1, <1>3, <1>4, RequestServes

(* A session that returns with the answer OK without a call of the lock    *)
(* manager proceeds.                                                       *)
LEMMA OkServes ==
  ASSUME SessionsSound, SessionsSound', NEW s \in Lists, pc[s] # "idle",
         Return(s, "ok"), rsb' = rsb, want' = want, held' = held,
         rousing' = rousing
  PROVE  Service!Next
<1>1. /\ pc \in [Lists -> Places] /\ result \in [Lists -> Results]
      /\ cause \in [Lists -> Causes] /\ rsb \in QueuedRsb
  BY DEF SessionsSound, Typed
<1>2. /\ pc'[s] = "idle" /\ result'[s] = "ok"
      /\ \A t \in Lists \ {s} : Bystands(t)
  BY <1>1 DEF Return, Bystands
<1>3. Moves(rsb, rsb', s)
  BY <1>1, StandsStill
<1>4. Holds(s)' = want'[s]
  BY <1>2 DEF SessionsSound, Consistent, Rests
<1>5. ProceedNow(s)
  BY <1>2, <1>4 DEF ProceedNow, AnswersNow, Answer
<1> QED
  BY <1>2, <1>3, <1>5, ServiceStep

LEMMA CancelServes ==
  ASSUME SessionsSound, SessionsSound', NEW s \in Lists, Cancel(s)
  PROVE  Service!Next
<1>1. /\ pc \in [Lists -> Places] /\ result \in [Lists -> Results]
      /\ cause \in [Lists -> Causes] /\ rsb \in QueuedRsb
      /\ pc[s] = "cancelling" /\ Consistent(s)
      /\ want' = want /\ held' = held /\ rousing' = rousing
  BY DEF SessionsSound, Typed, Cancel
<1>2. /\ Moves(rsb, rsb', s)
      /\ rsb'.state[s] \in {"free", "granted"}
      /\ rsb'.state[s] = "free" => held[s] = NoLock
      /\ rsb'.state[s] = "granted" =>
           rsb'.grant[s] = held[s] \/ rsb'.grant[s] = want[s]
  BY CancelOutcome
<1>3. Holds(s)' \in {held[s], want[s]}
  BY <1>2 DEF Holds
<1>4. Holds(s) = held[s] \/ Holds(s)' = Holds(s)
  BY <1>1 DEF Cancel, WaitCancelled, ConversionCancelled, Consistent, Requests,
              Blocked, Holds
<1>5. CASE cause[s] = "phantom"
  <2>1. /\ Answer(s)' = "pending" /\ \A t \in Lists \ {s} : Bystands(t)
    BY <1>1, <1>5 DEF Cancel, Answer, Bystands
  <2>2. ProceedNow(s)
    BY <1>1, <1>3, <1>4, <2>1 DEF ProceedNow, Answer
  <2> QED
    BY <1>2, <2>1, <2>2, ServiceStep
<1>6. CASE cause[s] # "phantom"
  <2>1. /\ pc'[s] = "idle" /\ result'[s] = cause[s]
        /\ \A t \in Lists \ {s} : Bystands(t)
    BY <1>1, <1>6 DEF Cancel, Return, Bystands
  <2>2. cause[s] \in {"timeout", "deadlock"}
    BY <1>1, <1>6 DEF Consistent, Unsearched, Searchable
  <2>3. result'[s] = "deadlock" => Holds(s)' = held'[s]
    BY <2>1 DEF SessionsSound, Consistent, Rests
  <2>4. ProceedNow(s)
    BY <1>1, <1>3, <2>1, <2>2, <2>3 DEF ProceedNow, AnswersNow, Answer
  <2> QED
    BY <1>2, <2>1, <2>4, ServiceStep
<1> QED
  BY <1>5, <1>6

LEMMA ReleaseServes ==
  ASSUME SessionsSound, SessionsSound', NEW s \in Lists, Release(s)
  PROVE  Service!Next
<1>1. /\ Typed /\ rsb \in QueuedRsb /\ pc[s] = "idle" /\ N \in Modes
  BY NullMode DEF SessionsSound, Release
<1>2. Moves(rsb, rsb', s) /\ LkbIs(rsb', s, "free", N, N, "off")
  BY <1>1, ActionsMove DEF Release
<1>3. /\ pc' = pc /\ want'[s] = NoLock /\ held'[s] = NoLock
      /\ result'[s] = "none" /\ \A t \in Lists \ {s} : Bystands(t)
  BY <1>1 DEF Release, Typed, Bystands
<1>4. ReleaseNow(s)
  BY <1>1, <1>2, <1>3 DEF ReleaseNow, Answer, Holds, LkbIs, Typed, Results
<1> QED
  BY <1>2, <1>3, <1>4, ServiceStep

(* Nothing else is seen outside the lock manager.                          *)
LEMMA InsideStutters ==
  ASSUME SessionsSound, rsb' = rsb, want' = want, held' = held,
         result' = result,
         NEW s \in Lists, pc[s] # "idle", pc'[s] # "idle",
         \A t \in Lists \ {s} : pc'[t] = pc[t]
  PROVE  UNCHANGED Service!vars
<1>1. \A t \in Lists : Unseen(t)
  BY DEF Unseen, Holds, Answer
<1> QED
  BY <1>1, ServiceStutters

LEMMA StepServes ==
  ASSUME SessionsSound, SessionsSound', NEW s \in Lists, Step(s)
  PROVE  Service!Next \/ UNCHANGED Service!vars
<1>1. pc \in [Lists -> Places]
  BY DEF SessionsSound, Typed
<1>2. CASE AskAgain(s)
  BY <1>2, AskAgainServes
<1>3. CASE Wake(s) \/ Incomplete(s) \/ CancelStarts(s)
  <2>1. /\ rsb' = rsb /\ want' = want /\ held' = held /\ result' = result
        /\ pc[s] # "idle" /\ pc'[s] # "idle"
        /\ \A t \in Lists \ {s} : pc'[t] = pc[t]
    BY <1>1, <1>3 DEF Wake, Incomplete, CancelStarts
  <2> QED
    BY <2>1, InsideStutters
<1>4. CASE Complete(s) \/ CollectLate(s)
  <2>1. /\ pc[s] # "idle" /\ Return(s, "ok") /\ rsb' = rsb
        /\ want' = want /\ held' = held /\ rousing' = rousing
    BY <1>4 DEF Complete, CollectLate
  <2> QED
    BY <2>1, OkServes
<1>5. CASE CancelTooLate(s) /\ cause[s] = "timeout"
  <2>1. /\ rsb' = rsb /\ want' = want /\ held' = held /\ result' = result
        /\ pc[s] # "idle" /\ pc'[s] # "idle"
        /\ \A t \in Lists \ {s} : pc'[t] = pc[t]
    BY <1>1, <1>5 DEF CancelTooLate
  <2> QED
    BY <2>1, InsideStutters
<1>6. CASE CancelTooLate(s) /\ cause[s] # "timeout"
  <2>1. /\ pc[s] # "idle" /\ Return(s, "ok") /\ rsb' = rsb
        /\ want' = want /\ held' = held /\ rousing' = rousing
    BY <1>6 DEF CancelTooLate
  <2> QED
    BY <2>1, OkServes
<1>7. CASE Cancel(s)
  BY <1>7, CancelServes
<1> QED
  BY <1>2, <1>3, <1>4, <1>5, <1>6, <1>7 DEF Step

LEMMA NextServes ==
  ASSUME SessionsSound, SessionsSound', [Next]_vars
  PROVE  Service!Next \/ UNCHANGED Service!vars
<1>1. pc \in [Lists -> Places] /\ result \in [Lists -> Results]
  BY DEF SessionsSound, Typed
<1>2. ASSUME NEW s \in Lists, Expire(s)
      PROVE  UNCHANGED Service!vars
  <2>1. /\ rsb' = rsb /\ want' = want /\ held' = held /\ result' = result
        /\ pc[s] # "idle" /\ pc'[s] # "idle"
        /\ \A t \in Lists \ {s} : pc'[t] = pc[t]
    BY <1>1, <1>2 DEF Expire
  <2> QED
    BY <2>1, InsideStutters
<1>3. ASSUME rsb' = rsb, pc' = pc, want' = want, held' = held, result' = result
      PROVE  UNCHANGED Service!vars
  <2>1. \A t \in Lists : Unseen(t)
    BY <1>3 DEF Unseen, Holds, Answer
  <2> QED
    BY <1>3, <2>1, ServiceStutters
<1>4. ASSUME NEW l \in Lists, NEW victim \in BOOLEAN, Searched(l, victim),
             pc' = pc, want' = want, held' = held, result' = result
      PROVE  UNCHANGED Service!vars
  <2>1. /\ rsb'.state = rsb.state /\ rsb'.grant[l] = rsb.grant[l]
        /\ \A t \in Lists \ {l} : SameLkb(rsb, rsb', t)
    BY <1>4, ListedSleeps
  <2>2. \A t \in Lists : Unseen(t)
    BY <1>4, <2>1 DEF Unseen, Holds, Answer, SameLkb
  <2> QED
    BY <1>4, <2>2, ServiceStutters
<1>5. CASE DeadlockThread
  BY <1>3, <1>4, <1>5
  DEF DeadlockThread, SearchClears, SearchFinds, Rouse
<1>6. ASSUME NEW s \in Lists, RogueResume(s)
      PROVE  UNCHANGED Service!vars
  BY <1>3, <1>6 DEF RogueResume
<1>7. CASE UNCHANGED vars
  BY <1>3, <1>7 DEF vars
<1> QED
  BY <1>2, <1>5, <1>6, <1>7, AskServes, StepServes, ReleaseServes DEF Next

LEMMA InitServes == Init => Service!Init
  BY ServiceModes DEF Init, FreshRsb, Holds, Service!Init, Service!NoLock, NoLock

(* To its sessions the resource block, with its queues, resumes, timeouts, *)
(* cancellations and deadlock thread, is the lock manager of LockService.  *)
THEOREM SessionsAreServed ==
  ASSUME SearchedArePatient
  PROVE  Spec => ImplementsService
<1>1. SessionsSound /\ SessionsSound' /\ [Next]_vars
        => [Service!Next]_(Service!vars)
  BY NextServes
<1> QED
  BY SessionsStaySound, InitServes, <1>1, PTL
  DEF Spec, ImplementsService, Service!Spec

-------------------------------------------------------------------------------
(* What holds also of lists that are searched for deadlock and time out.   *)

ResourceSound ==
  /\ rsb \in QueuedRsb
  /\ pc \in [Lists -> Places] /\ want \in [Lists -> Modes \cup {NoLock}]
  /\ \A s \in Lists : pc[s] # "idle" => want[s] \in Modes

LEMMA RequestKeepsResource ==
  ASSUME rsb \in QueuedRsb, pc \in [Lists -> Places], NEW s \in Lists,
         NEW m \in Modes, NEW kept, LK_request(s, m, kept)
  PROVE  /\ rsb' \in QueuedRsb /\ pc' \in [Lists -> Places]
         /\ \A t \in Lists \ {s} : pc'[t] = pc[t]
<1>1. CASE Granted(s, m, kept)
  BY <1>1, ActionsMove DEF Granted, Moves, Return, Places
<1>2. CASE Queued(s, m, kept)
  BY <1>2, ActionsMove DEF Queued, Moves, Places
<1>3. CASE Refused(s, m, kept)
  BY <1>3, ActionsMove DEF Refused, Moves, Return, Places
<1> QED
  BY <1>1, <1>2, <1>3 DEF LK_request

LEMMA ResourceStaysSound == Spec => []ResourceSound
<1>1. Init => ResourceSound
  BY FreshQueued DEF Init, ResourceSound, Places
<1>2. ASSUME ResourceSound, [Next]_vars PROVE ResourceSound'
  <2>1. /\ rsb \in QueuedRsb /\ N \in Modes
        /\ rsb.grant \in [Lists -> Modes]
        /\ pc \in [Lists -> Places] /\ want \in [Lists -> Modes \cup {NoLock}]
        /\ \A s \in Lists : pc[s] # "idle" => want[s] \in Modes
    BY <1>2, NullMode DEF ResourceSound, QueuedRsb, SoundRsb, RsbType
  <2>2. ASSUME NEW s \in Lists, NEW m \in Wanted, NEW explicit \in BOOLEAN,
               Ask(s, m, explicit)
        PROVE  ResourceSound'
    <3> DEFINE mode == Target(s, m, explicit)
    <3>1. mode \in Modes
      BY <2>1, ConvertModeType, SessionAssumption DEF Target
    <3>2. LK_request(s, mode, FALSE) /\ want' = [want EXCEPT ![s] = mode]
      BY <2>2 DEF Ask
    <3> HIDE DEF mode
    <3>3. /\ rsb' \in QueuedRsb /\ pc' \in [Lists -> Places]
          /\ \A t \in Lists \ {s} : pc'[t] = pc[t]
      BY <2>1, <3>1, <3>2, RequestKeepsResource
    <3> QED
      BY <2>1, <3>1, <3>2, <3>3 DEF ResourceSound
  <2>3. ASSUME NEW s \in Lists, AskAgain(s)
        PROVE  ResourceSound'
    <3>1. want[s] \in Modes /\ LK_request(s, want[s], resumed[s]) /\ want' = want
      BY <2>1, <2>3 DEF AskAgain
    <3>2. /\ rsb' \in QueuedRsb /\ pc' \in [Lists -> Places]
          /\ \A t \in Lists \ {s} : pc'[t] = pc[t]
      BY <2>1, <3>1, RequestKeepsResource
    <3> QED
      BY <2>1, <3>1, <3>2 DEF ResourceSound
  <2>4. ASSUME NEW s \in Lists,
               Wake(s) \/ Complete(s) \/ Incomplete(s) \/ CancelTooLate(s)
               \/ CancelStarts(s) \/ CollectLate(s) \/ Expire(s)
               \/ RogueResume(s)
        PROVE  ResourceSound'
    <3>1. rsb' = rsb /\ want' = want
      BY <2>4 DEF Wake, Complete, Incomplete, CancelTooLate, CancelStarts,
                  CollectLate, Expire, RogueResume
    <3>2. /\ pc' \in [Lists -> Places]
          /\ \A t \in Lists : pc[t] = "idle" => pc'[t] = "idle"
      BY <2>1, <2>4
      DEF Wake, Complete, Incomplete, CancelTooLate, CancelStarts,
          CollectLate, Expire, RogueResume, Return, Places
    <3> QED
      BY <2>1, <3>1, <3>2 DEF ResourceSound
  <2>5. ASSUME NEW s \in Lists, Cancel(s)
        PROVE  ResourceSound'
    <3>1. rsb' \in QueuedRsb /\ want' = want
      BY <2>1, <2>5, ActionsMove DEF Cancel, Moves
    <3>2. /\ pc' \in [Lists -> Places]
          /\ \A t \in Lists : pc[t] = "idle" => pc'[t] = "idle"
      BY <2>1, <2>5 DEF Cancel, Return, Places
    <3> QED
      BY <2>1, <3>1, <3>2 DEF ResourceSound
  <2>6. ASSUME NEW s \in Lists, Release(s)
        PROVE  ResourceSound'
    <3>1. /\ rsb' \in QueuedRsb /\ pc' = pc /\ pc[s] = "idle"
          /\ want' = [want EXCEPT ![s] = NoLock]
      BY <2>1, <2>6, ActionsMove DEF Release, Moves
    <3> QED
      BY <2>1, <3>1 DEF ResourceSound
  <2>7. CASE DeadlockThread
    <3>1. rsb' \in QueuedRsb /\ pc' = pc /\ want' = want
      BY <2>1, <2>7, SearchedMoves
      DEF DeadlockThread, SearchClears, SearchFinds, Rouse, Moves
    <3> QED
      BY <2>1, <3>1 DEF ResourceSound
  <2>8. CASE UNCHANGED vars
    BY <2>1, <2>8 DEF vars, ResourceSound
  <2> QED
    BY <1>2, <2>2, <2>3, <2>4, <2>5, <2>6, <2>7, <2>8 DEF Next, Step
<1> QED
  BY <1>1, <1>2, PTL DEF Spec

(* Mutual exclusion does not depend on the resumes, timeouts and victims:  *)
(* every decision of LK_request and LK_do_cancel is taken on the resource. *)
THEOREM SessionsExcludeEachOther == Spec => []CompatibleHolders(rsb)
<1>1. ResourceSound => CompatibleHolders(rsb)
  BY DEF ResourceSound, QueuedRsb, SoundRsb
<1> QED
  BY ResourceStaysSound, <1>1, PTL
=============================================================================
