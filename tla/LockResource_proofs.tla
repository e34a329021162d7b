------------------------- MODULE LockResource_proofs -------------------------
(***************************************************************************)
(* Proofs about LockResource for any set of lock lists: type correctness,  *)
(* mutual exclusion of the lock modes, and the order of the queues.        *)
(***************************************************************************)
EXTENDS LockResource, ResourceBlock_proofs

-------------------------------------------------------------------------------
(* What one step does to the resource block.                               *)

(* The handler called for l moves its lock, and serves the others.  A new  *)
(* lock is granted at once only when nobody waits; a waiting request is    *)
(* not granted by a call of its own list.                                  *)
Acts(r, u, l) ==
  /\ Moves(r, u, l)
  /\ r.state[l] = "free" /\ u.state[l] = "granted" => Waiters(r) = {}
  /\ r.state[l] = "waiting" => u.state[l] = "free" \/ u.state = r.state

LEMMA NextActs ==
  ASSUME rsb \in QueuedRsb, Next
  PROVE  \E l \in Lists : Acts(rsb, rsb', l)
<1>1. ASSUME NEW l \in Lists, NEW m \in Wanted, RequestGranted(l, m)
      PROVE  Acts(rsb, rsb', l)
  <2>1. NewGranted(l, m) /\ m \in Modes
    BY <1>1, ListsAssumption DEF RequestGranted
  <2>2. Moves(rsb, rsb', l) /\ Waiters(rsb) = {} /\ rsb.state[l] = "free"
    BY <2>1, ActionsMove DEF NewGranted, Admits
  <2> QED
    BY <2>2 DEF Acts
<1>2. ASSUME NEW l \in Lists, NEW m \in Wanted, RequestWaits(l, m)
      PROVE  Acts(rsb, rsb', l)
  <2>1. NewWaits(l, m) /\ m \in Modes
    BY <1>2, ListsAssumption DEF RequestWaits
  <2>2. /\ Moves(rsb, rsb', l) /\ rsb.state[l] = "free"
        /\ rsb'.state[l] = "waiting"
    BY <2>1, ActionsMove DEF NewWaits, LkbIs
  <2> QED
    BY <2>2 DEF Acts
<1>3. ASSUME NEW l \in Lists, NEW m \in Wanted, ConvertGranted(l, m)
      PROVE  Acts(rsb, rsb', l)
  <2>1. Converted(l, m) /\ m \in Modes
    BY <1>3, ListsAssumption DEF ConvertGranted
  <2>2. Moves(rsb, rsb', l) /\ rsb.state[l] = "granted"
    BY <2>1, ActionsMove DEF Converted, Converts
  <2> QED
    BY <2>2 DEF Acts
<1>4. ASSUME NEW l \in Lists, NEW m \in Wanted, ConvertBusy(l, m)
      PROVE  Acts(rsb, rsb', l)
  <2>1. /\ rsb.state[l] = "granted" /\ rsb.grant[l] \in Modes
        /\ rsb' = [rsb EXCEPT !.request[l] = rsb.grant[l]]
    BY <1>4 DEF ConvertBusy, Converts, QueuedRsb, SoundRsb, RsbType
  <2>2. Moves(rsb, rsb', l)
    BY <2>1, RequestMoves
  <2> QED
    BY <2>1, <2>2 DEF Acts
<1>5. ASSUME NEW l \in Lists, NEW m \in Wanted, ConvertRefused(l, m)
      PROVE  Acts(rsb, rsb', l)
  <2>1. ConversionRefused(l, m) /\ m \in Modes
    BY <1>5, ListsAssumption DEF ConvertRefused
  <2>2. Moves(rsb, rsb', l) /\ rsb.state[l] = "granted"
    BY <2>1, ActionsMove DEF ConversionRefused, Converts
  <2> QED
    BY <2>2 DEF Acts
<1>6. ASSUME NEW l \in Lists, NEW m \in Wanted, ConvertWaits(l, m)
      PROVE  Acts(rsb, rsb', l)
  <2>1. ConversionWaits(l, m) /\ m \in Modes
    BY <1>6, ListsAssumption DEF ConvertWaits
  <2>2. Moves(rsb, rsb', l) /\ rsb.state[l] = "granted"
    BY <2>1, ActionsMove DEF ConversionWaits, Converts
  <2> QED
    BY <2>2 DEF Acts
<1>7. ASSUME NEW l \in Lists, Release(l)
      PROVE  Acts(rsb, rsb', l)
  <2>1. Moves(rsb, rsb', l) /\ rsb.state[l] = "granted"
    BY <1>7, NullMode, ActionsMove DEF Release, Unlocked
  <2> QED
    BY <2>1 DEF Acts
<1>8. ASSUME NEW l \in Lists, CancelWaiting(l)
      PROVE  Acts(rsb, rsb', l)
  <2>1. /\ Moves(rsb, rsb', l) /\ rsb.state[l] = "waiting"
        /\ rsb'.state[l] = "free"
    BY <1>8, NullMode, ActionsMove DEF CancelWaiting, WaitCancelled, LkbIs
  <2> QED
    BY <2>1 DEF Acts
<1>9. ASSUME NEW l \in Lists, CancelConversion(l)
      PROVE  Acts(rsb, rsb', l)
  <2>1. Moves(rsb, rsb', l) /\ rsb.state[l] = "convert"
    BY <1>9, NullMode, ActionsMove DEF CancelConversion, ConversionCancelled
  <2> QED
    BY <2>1 DEF Acts
<1>10. ASSUME NEW l \in Lists, NEW victim \in BOOLEAN, DeadlockSearch(l, victim)
       PROVE  Acts(rsb, rsb', l)
  <2>1. Searched(l, victim)
    BY <1>10 DEF DeadlockSearch
  <2>2. /\ Moves(rsb, rsb', l) /\ rsb'.state = rsb.state
        /\ rsb.state[l] \in {"waiting", "convert"}
    BY <2>1, SearchedMoves
  <2> QED
    BY <2>2 DEF Acts
<1>11. ASSUME NEW l \in Lists, Orphan(l) \/ Adopt(l) \/ ListEnds(l)
       PROVE  Acts(rsb, rsb', l)
  <2>1. rsb' = rsb
    BY <1>11 DEF Orphan, Adopt, ListEnds
  <2> QED
    BY <2>1, StandsStill DEF Acts
<1> QED
  BY <1>1, <1>2, <1>3, <1>4, <1>5, <1>6, <1>7, <1>8, <1>9, <1>10, <1>11
  DEF Next

LEMMA NextOwners == OwnersOK /\ [Next]_vars => OwnersOK'
<1> SUFFICES ASSUME OwnersOK, [Next]_vars PROVE OwnersOK'
  OBVIOUS
<1>1. CASE UNCHANGED owners
  BY <1>1 DEF owners, OwnersOK
<1>2. CASE \E l \in Lists : Orphan(l) \/ Adopt(l) \/ ListEnds(l)
  BY <1>2 DEF Orphan, Adopt, ListEnds, OwnersOK
<1>3. [Next]_vars => \/ UNCHANGED owners
                     \/ \E l \in Lists : Orphan(l) \/ Adopt(l) \/ ListEnds(l)
  BY DEF Next, vars, owners, RequestGranted, ConvertGranted, ConvertBusy,
         ConvertRefused, RequestWaits, ConvertWaits, Release, CancelWaiting,
         CancelConversion, DeadlockSearch
<1> QED
  BY <1>1, <1>2, <1>3

-------------------------------------------------------------------------------
(* The inductive invariant: sound lock blocks, each on its queue once.     *)
LocksQueued == rsb \in QueuedRsb /\ OwnersOK

LEMMA InitQueued == Init => LocksQueued
  BY FreshQueued DEF Init, LocksQueued, OwnersOK

LEMMA NextQueued == LocksQueued /\ [Next]_vars => LocksQueued'
<1> SUFFICES ASSUME rsb \in QueuedRsb, OwnersOK, [Next]_vars
             PROVE  rsb' \in QueuedRsb /\ OwnersOK'
  BY DEF LocksQueued
<1>1. CASE Next
  BY <1>1, NextActs, NextOwners DEF Acts, Moves
<1>2. CASE UNCHANGED vars
  BY <1>2 DEF vars, OwnersOK
<1> QED
  BY <1>1, <1>2

LEMMA LocksStayQueued == Spec => []LocksQueued
  BY InitQueued, NextQueued, PTL DEF Spec

-------------------------------------------------------------------------------
(* The lock blocks stay sound.                                             *)
THEOREM LocksStaySound == Spec => []LocksSound
<1>1. LocksQueued => LocksSound
  BY DEF LocksQueued, LocksSound, QueuedRsb, SoundRsb, TypeOK,
         GroupModeCovers, HoldersCompatible
<1> QED
  BY LocksStayQueued, <1>1, PTL

(* Type correctness of the resource block and its lock blocks, deadlock    *)
(* queue entries of waiting locks only (LK_resume, LK_do_unlock).          *)
THEOREM TypeCorrect == Spec => []TypeOK
<1>1. LocksSound => TypeOK
  BY DEF LocksSound
<1> QED
  BY LocksStaySound, <1>1, PTL

(* Mutual exclusion: whatever the sessions request, convert, cancel and    *)
(* release, two lists never hold a resource in modes that exclude each     *)
(* other.                                                                  *)
THEOREM MutualExclusion == Spec => []HoldersCompatible
<1>1. LocksSound => HoldersCompatible
  BY DEF LocksSound
<1> QED
  BY LocksStaySound, <1>1, PTL

(* The one number rsb_grant_mode decides as all the held modes would.      *)
THEOREM GroupModeStandsForHolders == Spec => []GroupModeCovers
<1>1. LocksSound => GroupModeCovers
  BY DEF LocksSound
<1> QED
  BY LocksStaySound, <1>1, PTL

(* The queues of the resource block hold the lock blocks that their states *)
(* say, each once, after any sequence of grants, conversions,              *)
(* cancellations and releases.                                             *)
THEOREM QueuesStayLinked == Spec => []QueuesAgree
<1>1. LocksQueued => QueuesAgree
  BY LinksOnceLinks DEF LocksQueued, QueuedRsb, QueuesAgree
<1> QED
  BY LocksStayQueued, <1>1, PTL

(* First come, first served: LK_do_new_lock_request and LK_try_wait grant  *)
(* no new lock past a request that waits and is no deadlock victim.        *)
THEOREM FirstComeFirstServed == Spec => NoOvertaking
<1> DEFINE A == \A x, y \in Lists :
                  StillWaits(x)
                  /\ (rsb.state[y] = "free" \/ Behind(rsb.wait_q, x, y))
                    => rsb'.state[y] # "granted"
<1>1. LocksQueued /\ [Next]_vars => [A]_vars
  <2> SUFFICES ASSUME rsb \in QueuedRsb, Next,
                      NEW x \in Lists, NEW y \in Lists, StillWaits(x),
                      rsb.state[y] = "free" \/ Behind(rsb.wait_q, x, y)
               PROVE  rsb'.state[y] # "granted"
    BY DEF LocksQueued
  <2>1. PICK l \in Lists : Acts(rsb, rsb', l)
    BY NextActs
  <2>2. /\ rsb.search[x] # "dead"
        /\ rsb.state[x] = "waiting" /\ rsb'.state[x] = "waiting"
    BY DEF StillWaits, Waiters
  <2>3. Behind(rsb.wait_q, x, y) => rsb.state[y] = "waiting"
    BY DEF Behind, QueuedRsb, LinksOnce, Waiters
  <2>4. CASE y = l
    BY <2>1, <2>2, <2>3, <2>4 DEF Acts, Waiters
  <2>5. CASE y # l /\ rsb.state[y] = "free"
    BY <2>1, <2>5 DEF Acts, Moves, Advances, SameLkb, Succeeds
  <2>6. CASE y # l /\ Behind(rsb.wait_q, x, y)
    BY <2>1, <2>2, <2>3, <2>6 DEF Acts, Moves, InOrder
  <2> QED
    BY <2>4, <2>5, <2>6
<1> QED
  BY LocksStayQueued, <1>1, PTL DEF Spec, NoOvertaking

(* Conversions come first: LK_try_convert leaves the wait queue alone      *)
(* while a conversion waits.                                               *)
THEOREM ConversionsServedFirst == Spec => ConversionsFirst
<1> DEFINE A == \A y \in Lists :
                  rsb.state[y] = "waiting" /\ rsb'.state[y] = "granted"
                  => Converters(rsb') = {}
<1>1. LocksQueued /\ [Next]_vars => [A]_vars
  <2> SUFFICES ASSUME rsb \in QueuedRsb, Next, NEW y \in Lists,
                      rsb.state[y] = "waiting", rsb'.state[y] = "granted"
               PROVE  Converters(rsb') = {}
    BY DEF LocksQueued
  <2>1. PICK l \in Lists : Acts(rsb, rsb', l)
    BY NextActs
  <2>2. y # l
    BY <2>1 DEF Acts
  <2> QED
    BY <2>1, <2>2 DEF Acts, Moves, ConvertersFirst
<1> QED
  BY LocksStayQueued, <1>1, PTL DEF Spec, ConversionsFirst
=============================================================================
