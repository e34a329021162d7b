---------------------------- MODULE ResourceBlock ----------------------------
(***************************************************************************)
(* One resource block (RSB) of the Ingres lock manager, the lock blocks    *)
(* (LKB) that lock lists have on it, and what the handlers of              *)
(* back/dmf/lk do to them (lkrqst.c, lkrlse.c).                            *)
(*                                                                         *)
(* Every handler runs its decision under the resource's rsb_mutex, so each *)
(* is one action.  A lock list has at most one LKB on a resource: a second *)
(* request by the list converts the one it has.  The lists are those of    *)
(* single threaded sessions, which have one request outstanding at a time. *)
(* LockResource and LockSession say who calls the handlers, and when.      *)
(***************************************************************************)
EXTENDS LockModes, Sequences, FiniteSets

CONSTANTS
  Lists,      \* lock lists (LLB)
  Undetected  \* lists whose requests say LK_NODEADLOCK

ASSUME DetectionAssumption == Undetected \subseteq Lists

VARIABLE rsb  \* the resource block and its lock blocks

(* lkb_state, "free" for a list without an LKB on the resource.            *)
LkbStates == {"free", "granted", "convert", "waiting"}

(* A waiting LKB is put on the deadlock queue for the deadlock thread      *)
(* ("listed", LKB_ON_DLOCK_LIST), which takes it off and may mark it as    *)
(* the victim of a cycle ("dead", LKB_DEADLOCKED).                         *)
Searches == {"off", "listed", "dead"}

RsbType ==
  [state        : [Lists -> LkbStates],
   grant        : [Lists -> Modes],     \* lkb_grant_mode
   request      : [Lists -> Modes],     \* lkb_request_mode
   search       : [Lists -> Searches],
   grant_q      : Seq(Lists),           \* granted and converting locks
   wait_q       : Seq(Lists),           \* new requests that must wait
   grant_mode   : Modes,                \* rsb_grant_mode
   convert_mode : Modes,                \* rsb_convert_mode
   allocated    : BOOLEAN]              \* the RSB is on the hash chain

FreshRsb ==
  [state        |-> [l \in Lists |-> "free"],
   grant        |-> [l \in Lists |-> N],
   request      |-> [l \in Lists |-> N],
   search       |-> [l \in Lists |-> "off"],
   grant_q      |-> <<>>,
   wait_q       |-> <<>>,
   grant_mode   |-> N,
   convert_mode |-> N,
   allocated    |-> FALSE]

-------------------------------------------------------------------------------
(* Helpers on a resource block r.                                          *)

Holders(r)    == {l \in Lists : r.state[l] \in {"granted", "convert"}}
Converters(r) == {l \in Lists : r.state[l] = "convert"}
Waiters(r)    == {l \in Lists : r.state[l] = "waiting"}

(* The highest grant mode on the grant queue, lists ex left out.           *)
GroupMode(r, ex) == Highest({r.grant[h] : h \in Holders(r) \ ex})

(* The queue with the entry of l unlinked.                                 *)
Without(q, l) ==
  LET at == CHOOSE i \in DOMAIN q : q[i] = l
  IN  IF l \in {q[i] : i \in DOMAIN q}
        THEN SubSeq(q, 1, at - 1) \o SubSeq(q, at + 1, Len(q))
        ELSE q

SetMode(r, m) == [r EXCEPT !.grant_mode = m, !.convert_mode = m]

(* Faulty variant of Grant: the group mode is overwritten, not raised.     *)
GrantLowering(r, l) ==
  [SetMode(r, r.request[l])
     EXCEPT !.state[l] = "granted", !.grant[l] = r.request[l],
            !.search[l] = "off"]

(* A lock that waits is granted: LK_resume takes it off the deadlock queue *)
(* and awakens its session; the group mode rises to cover it.              *)
Grant(r, l) ==
  [SetMode(r, Higher(r.grant_mode, r.request[l]))
     EXCEPT !.state[l] = "granted", !.grant[l] = r.request[l],
            !.search[l] = "off"]

(* A lock must wait: LK_suspend puts it on the deadlock queue unless the   *)
(* caller said LK_NODEADLOCK.                                              *)
Suspend(r, l, st) ==
  [r EXCEPT !.state[l] = st,
            !.search[l] = IF l \in Undetected THEN "off" ELSE "listed"]

-------------------------------------------------------------------------------
(* LK_try_wait: scan the wait queue from its head, granting what the group *)
(* mode admits, until a request that does not fit.                         *)

(* Faulty variant of WaitStep: a deadlock victim is granted its request.   *)
WaitStepGrantsVictims(s, l) ==
  LET r == s.r
  IN  IF s.stop \/ ~Compatible(r.grant_mode, r.request[l])
        THEN [s EXCEPT !.stop = TRUE]
        ELSE [s EXCEPT !.r = [Grant(r, l) EXCEPT
                                !.grant_q = <<l>> \o r.grant_q,
                                !.wait_q  = Without(r.wait_q, l)]]

WaitStep(s, l) ==
  LET r == s.r
      fits == Compatible(r.grant_mode, r.request[l])
  IN  CASE s.stop \/ (fits /\ r.search[l] = "dead") -> s
        [] ~s.stop /\ ~fits -> [s EXCEPT !.stop = TRUE]
        [] OTHER -> [s EXCEPT !.r = [Grant(r, l) EXCEPT
                                       !.grant_q = <<l>> \o r.grant_q,
                                       !.wait_q  = Without(r.wait_q, l)]]

WaitSweep(r) ==
  LET at[i \in 0..Len(r.wait_q)] ==
        IF i = 0 THEN [r |-> r, stop |-> FALSE]
                 ELSE WaitStep(at[i - 1], r.wait_q[i])
  IN  at[Len(r.wait_q)].r

TryWait(r, mode) == WaitSweep(SetMode(r, mode))

(* LK_try_convert: scan the grant queue for conversions.  One that does    *)
(* not fit is tried again without its own grant mode when that mode is the *)
(* group mode; the first that still does not fit ends the scan.  With no   *)
(* conversion left the wait queue is tried.                                *)

ConvertStep(s, l) ==
  LET r      == s.r
      others == GroupMode(r, {l})
      alone  == r.grant[l] = r.grant_mode
      Fits(m) == Compatible(m, r.request[l])
  IN  IF s.stop \/ r.state[l] # "convert" \/ r.search[l] = "dead" THEN s
      ELSE IF Fits(r.grant_mode) THEN [s EXCEPT !.r = Grant(r, l)]
      ELSE IF ~alone             THEN [s EXCEPT !.stop = TRUE]
      ELSE IF Fits(others) THEN [s EXCEPT !.r = Grant(SetMode(r, others), l)]
      ELSE [r |-> [r EXCEPT !.convert_mode = others], stop |-> TRUE]

ConvertSweep(r) ==
  LET at[i \in 0..Len(r.grant_q)] ==
        IF i = 0 THEN [r |-> r, stop |-> FALSE]
                 ELSE ConvertStep(at[i - 1], r.grant_q[i])
  IN  at[Len(r.grant_q)].r

TryConvert(r, mode) ==
  LET swept == ConvertSweep(SetMode(r, mode))
  IN  IF Converters(swept) = {} THEN TryWait(swept, swept.grant_mode)
                                ELSE swept

-------------------------------------------------------------------------------
(* LK_do_new_lock_request.  A new lock is granted only on a resource where *)
(* nobody waits, else it is queued behind the others.                      *)

(* Faulty variant of Admits: new requests overtake the wait queue.         *)
AdmitsOvertaking(r, m) ==
  Converters(r) = {} /\ Compatible(r.grant_mode, m)

Admits(r, m) ==
  Converters(r) = {} /\ Waiters(r) = {} /\ Compatible(r.grant_mode, m)

GrantNew(r, l, m) ==
  [r EXCEPT !.state[l] = "granted", !.grant[l] = m, !.request[l] = m,
            !.grant_q = <<l>> \o r.grant_q,
            !.grant_mode = Higher(r.grant_mode, m),
            !.convert_mode = IF m > r.grant_mode THEN m ELSE r.convert_mode,
            !.allocated = TRUE]

QueueNew(r, l, m) ==
  [Suspend(r, l, "waiting")
     EXCEPT !.request[l] = m, !.wait_q = Append(r.wait_q, l)]

(* LK_do_convert, for a mode other than the one held.                      *)

OnlyHolder(r, l) == Holders(r) = {l}

(* l holds the mode recorded for the convert queue: converting it may let  *)
(* others convert, and the group mode must be found without it.            *)
Leads(r, l) == r.grant[l] = r.convert_mode

ConvertGroup(r, l) == IF Leads(r, l) THEN GroupMode(r, {l}) ELSE r.grant_mode

Convertible(r, l, m) == OnlyHolder(r, l) \/ Compatible(ConvertGroup(r, l), m)

GrantConvert(r, l, m) ==
  LET held == [r EXCEPT !.grant[l] = m, !.request[l] = m]
      mode == Higher(ConvertGroup(r, l), m)
  IN  IF OnlyHolder(r, l) THEN TryWait(held, m)
      ELSE IF Leads(r, l) THEN TryConvert(held, mode)
      ELSE SetMode(held, mode)

(* Conversions at the tail of the grant queue that want a mode the lock    *)
(* held by l excludes: they wait for l, so l must not wait behind them.    *)
ConvertDeadlock(r, l) ==
  \E i \in DOMAIN r.grant_q :
     /\ \A j \in i..Len(r.grant_q) : r.state[r.grant_q[j]] = "convert"
     /\ ~Compatible(r.grant[l], r.request[r.grant_q[i]])

QueueConvert(r, l, m) ==
  [Suspend(r, l, "convert")
     EXCEPT !.request[l] = m,
            !.grant_q = Append(Without(r.grant_q, l), l),
            !.convert_mode = IF Converters(r) = {} THEN ConvertGroup(r, l)
                                                   ELSE r.convert_mode]

(* LK_do_unlock: the LKB goes, then locks that may have waited for it are  *)
(* tried.  An RSB whose last lock is released is freed.                    *)

(* Faulty variant of Removed: the LKB stays on the deadlock queue.         *)
RemovedStillListed(r, l) ==
  [r EXCEPT !.state[l] = "free", !.grant[l] = N, !.request[l] = N,
            !.grant_q = Without(r.grant_q, l),
            !.wait_q = Without(r.wait_q, l)]

Removed(r, l) ==
  [r EXCEPT !.state[l] = "free", !.grant[l] = N, !.request[l] = N,
            !.search[l] = "off",
            !.grant_q = Without(r.grant_q, l),
            !.wait_q = Without(r.wait_q, l)]

(* Faulty variant of UnlockGranted: the group mode is not found again.     *)
UnlockKeepingMode(r, l) ==
  LET rest == Removed(r, l)
  IN  IF Holders(rest) = {} THEN TryWait(rest, N)
                            ELSE TryConvert(rest, r.grant_mode)

(* Faulty variant of UnlockGranted: after the last lock the waiters are    *)
(* not tried.                                                              *)
UnlockWithoutWakeup(r, l) ==
  LET rest == Removed(r, l)
  IN  IF Holders(rest) = {} THEN SetMode(rest, N)
                            ELSE TryConvert(rest, GroupMode(rest, {}))

UnlockGranted(r, l) ==
  LET rest == Removed(r, l)
  IN  IF Holders(rest) = {}
        THEN IF Waiters(rest) = {} THEN [SetMode(rest, N) EXCEPT !.allocated = FALSE]
                                   ELSE TryWait(rest, N)
        ELSE IF \/ rest.state[Head(rest.grant_q)] # "granted"
                \/ r.grant[l] = r.convert_mode
               THEN TryConvert(rest, GroupMode(rest, {}))
               ELSE rest

(* Faulty variant of UnlockWaiting: who waited behind is not tried.        *)
UnlockWaitingOnly(r, l) ==
  LET rest == Removed(r, l) IN [rest EXCEPT !.convert_mode = rest.grant_mode]

(* Faulty variant of UnlockWaiting: waiters are tried ahead of conversions.*)
UnlockWaitingEager(r, l) ==
  LET rest == Removed(r, l) IN TryWait(rest, rest.grant_mode)

UnlockWaiting(r, l) ==
  LET rest == Removed(r, l)
  IN  IF Waiters(rest) # {} /\ Converters(rest) = {}
        THEN TryWait(rest, rest.grant_mode)
        ELSE [rest EXCEPT !.convert_mode = rest.grant_mode]

(* Faulty variant of CancelConvert: the LKB is linked in a second time.    *)
CancelConvertTwice(r, l) ==
  LET back == [r EXCEPT !.state[l] = "granted", !.request[l] = r.grant[l],
                        !.search[l] = "off",
                        !.grant_q = <<l>> \o r.grant_q]
  IN  TryConvert(back, back.grant_mode)

(* Faulty variant of CancelConvert: who converts behind is not tried.      *)
CancelConvertOnly(r, l) ==
  [r EXCEPT !.state[l] = "granted", !.request[l] = r.grant[l],
            !.search[l] = "off",
            !.grant_q = <<l>> \o Without(r.grant_q, l)]

(* LK_do_cancel of a conversion: the lock stays held in its old mode.      *)
CancelConvert(r, l) ==
  LET back == [r EXCEPT !.state[l] = "granted", !.request[l] = r.grant[l],
                        !.search[l] = "off",
                        !.grant_q = <<l>> \o Without(r.grant_q, l)]
  IN  TryConvert(back, back.grant_mode)

-------------------------------------------------------------------------------
(* Actions.                                                                *)

NewGranted(l, m) ==
  /\ rsb.state[l] = "free"
  /\ Admits(rsb, m)
  /\ rsb' = GrantNew(rsb, l, m)

NewWaits(l, m) ==
  /\ rsb.state[l] = "free"
  /\ ~Admits(rsb, m)
  /\ rsb' = QueueNew(rsb, l, m)

(* l holds another mode than m; LK_do_convert is asked for m.              *)
Converts(l, m) == rsb.state[l] = "granted" /\ rsb.grant[l] # m

Converted(l, m) ==
  /\ Converts(l, m) /\ Convertible(rsb, l, m)
  /\ rsb' = GrantConvert(rsb, l, m)

RefusesConversion(l) == l \notin Undetected /\ ConvertDeadlock(rsb, l)

(* LK_DEADLOCK or LK_RETRY: the request mode is left in the lock block.    *)
ConversionRefused(l, m) ==
  /\ Converts(l, m) /\ ~Convertible(rsb, l, m)
  /\ rsb' = [rsb EXCEPT !.request[l] = m]

ConversionWaits(l, m) ==
  /\ Converts(l, m) /\ ~Convertible(rsb, l, m)
  /\ ~RefusesConversion(l)
  /\ rsb' = QueueConvert(rsb, l, m)

Unlocked(l) ==
  /\ rsb.state[l] = "granted"
  /\ rsb' = UnlockGranted(rsb, l)

(* LK_do_cancel of a request that waits for a new lock, or to convert one. *)
WaitCancelled(l) ==
  /\ rsb.state[l] = "waiting"
  /\ rsb' = UnlockWaiting(rsb, l)

ConversionCancelled(l) ==
  /\ rsb.state[l] = "convert"
  /\ rsb' = CancelConvert(rsb, l)

(* The deadlock thread takes the LKB off its queue and searches; when it   *)
(* finds a cycle this LKB is the victim.                                   *)
Searched(l, victim) ==
  /\ rsb.search[l] = "listed"
  /\ rsb' = [rsb EXCEPT !.search[l] = IF victim THEN "dead" ELSE "off"]

-------------------------------------------------------------------------------
(* What the properties say about a resource block r.                       *)

(* A lock block is only searched for deadlock, or marked as a victim,      *)
(* while it waits: LK_resume, LK_do_cancel and LK_do_unlock all take it    *)
(* off the deadlock queue.  A free list has no modes left over.            *)
Quiet(r) ==
  \A l \in Lists :
     /\ r.state[l] \in {"free", "granted"} => r.search[l] = "off"
     /\ r.state[l] \in {"free", "waiting"} => r.grant[l] = N

(* The queue q links each of the lists ls once.                            *)
Links(q, ls) ==
  /\ Len(q) = Cardinality(ls)
  /\ {q[i] : i \in DOMAIN q} = ls

(* y is queued behind x.                                                   *)
Behind(q, x, y) == \E i, j \in DOMAIN q : i < j /\ q[i] = x /\ q[j] = y

CompatibleHolders(r) ==
  \A h, k \in Holders(r) : h # k => Coexist(r.grant[h], r.grant[k])

(* The group mode, one number, stands for all the modes held: none is      *)
(* above it, and none excludes what the group mode admits (LK_S would      *)
(* admit a reader beside a hidden LK_IX).                                  *)
Covered(r) ==
  \A h \in Holders(r) :
     /\ r.grant[h] <= r.grant_mode
     /\ r.grant_mode = S => r.grant[h] # IX
=============================================================================
