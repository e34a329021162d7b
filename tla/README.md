# Verification of the Ingres lock manager, lock events and log buffers

TLA+ modules, TLC configurations and TLAPS proofs about the concurrency core of
Ingres.  Paths are relative to the repository's top directory, whose source tree
is `src/`; `lkrqst.c` and the like stand for `src/src/back/dmf/lk/lkrqst.c`,
`lgwrite.c` and the like for `src/src/back/dmf/lg/lgwrite.c`.

## The system

Ingres is a relational database server: front ends talk to servers whose query
processing facilities (`psf`, `opf`, `qef`, ...) sit on the data manager `dmf`.
What makes transactions of many sessions in many server processes safe is in
`dmf`, in data structures in memory shared by all processes:

| Part | State | Operations | What is hard | What must hold |
|---|---|---|---|---|
| Lock manager, `dmf/lk` | resources (RSB) with a grant and a wait queue, lock blocks (LKB), lock lists (LLB), the deadlock queue | request, convert, release, cancel, deadlock search, run-down of a dead process | grants made by one session for another, resumes that come early, late or by mistake, timeouts against grants, deadlock victims chosen asynchronously | mutual exclusion, no lost wakeup, order of the queues, a status that tells what is held |
| Lock list limits | `llb_lkb_count`, `llb_llkb_count`, `lkb_count` | physical and logical requests and releases | requests refused halfway | counts agree with the locks |
| Lock events, `lkevent.c` | event wait queue, flags and event of each LLB | set, wait, signal, cancel | events that come before the wait, interrupts and deaths against signals, resumes from other processes | no lost event, a signal reaches all it is meant for and no other, the flags agree with the queue |
| Log buffers, `lgwrite.c`, `lgforce.c` | log buffers (LBB), free and write queue, current buffer, `lfb_forced_lsn`, what each transaction (LXB) waits for | write, force, group commit, I/O by logwriters or by the sessions | records that span pages, pages written out of order, buffers reused while a session attaches to them, waiters handed from page to page, threads that fall asleep | a write or force returns only when the log up to its LSN is on disk, and it returns; buffers are never lost |
| Log space and transactions, the rest of `dmf/lg` | reserved space, `lgh_begin`, LXB states | reserve, end, willing commit, adoption, consistency points | log full against abort | space reserved is never exceeded; the archiver and recovery find what they need |
| Transactions, `dmf/dmxe` | -- | begin, commit, secure, abort | order of log force and lock release | locks are released after the commit is on disk |
| Page cache, `dm0p.c` | buffers, fix counts, cache locks | fix, unfix, force, wait for a buffer's I/O | shared caches, write-ahead, I/O that ends while others begin to wait for it | no page written before its log, nobody waits for an I/O that is over |
| Recovery and archiver, `dmf/dmve`, `dmd`, `dma` | log and journals | undo, redo, archive | crash between any two steps | committed work, and no other, survives |

Sessions call the lock and log managers directly, and they are suspended and resumed by
the compatibility library (`CSsuspend`, `CSresume`).  Servers share the
memory of both; there are no messages outside the cluster build.  A deadlock
thread of the recovery process (`LKdeadlock_thread`) searches for cycles; logwriter
threads of the servers and a group commit thread write log pages, and a thread of the
recovery process calls `LG_check_dead` now and then.

`PROJECT.json` lists every part, modelled or not, and the hazards with the lines
where they bite.

## Plan

1. **The lock resource and its sessions** (done here): `LockModes`, `ResourceBlock`,
   `LockResource`, `LockSession`, `LockService` and the four proof modules.
2. `LockRundown`: the table of lock lists, `LK_rundown` as a process and the
   recovery session that `LK_rundown` awakens when the holder it waits for dies
   (`lkinit.c` 490-680, LK_RETRY in `lkrqst.c` 4134-4199).  To state: the recovery session never waits for a list
   that only it can release.  Composes with `LockResource`.
3. `LockList`: physical and logical locks, `lkb_count`, `llb_llkb_count`, the
   lock limit, releases of logical locks (`lkrqst.c` 2916-3087 and 3540-3549,
   `lkrlse.c` 855-1066 and 2103-2109).  To state: counts agree with the locks.
4. **The lock events** (done here): `LockEvent`, shown to implement `EventService`, and
   `BufferWait`, the page cache's waits for I/O on top of it.  Then shared lists, whose
   handles are released without a look at their events (`lkrlse.c` 1085-1130).
5. `LockDeadlock`: `LK_local_deadlock` as a recursive search over several
   resources (RECURSIVE, no proofs), checked against the definition of a cycle
   of the wait-for graph.
6. **The log buffers** (done here): `LogForce`, shown to implement `LogDurable`, a log
   that is durable up to an LSN.  Then `LogSpace` (log full, abort
   of the oldest transaction) and willing commit.
7. Proofs: the invariants and the order of service of `LockResource`, the invariants of
   `LockSession`, the wakeups of `LockResource`, that `LockSession` implements `LockService`, order and handover of
   the log buffers, `ForcedLsnDurable`, that `LogForce` implements `LogDurable`, the
   types and counts of `LogForce`, the invariants of `LockEvent` and `BufferWait`, and that
   `LockEvent` implements `EventService` (done here).  Then the modules of steps 2 and 3.

Runs of the later modules stay within three lists, resources or buffers.

## Modules

| Module | Code | |
|---|---|---|
| `LockModes` | `LK_compatible` (`lkdata.c`), `LK_convert_mode` (`lkrqst.c`), `lk.h` | modes are the code's integers, since the code takes their maximum |
| `ResourceBlock` | `LK_do_new_lock_request`, `LK_do_convert`, `LK_try_convert`, `LK_try_wait` (`lkrqst.c`), `LK_do_unlock`, `LK_do_cancel` (`lkrlse.c`), `LK_suspend` (`lkevent.c`) | one RSB and its LKBs, and what each handler makes of them |
| `LockResource` | the same handlers, `LK_rundown` (`lkinit.c`), `LKcreate_list` (`lkclist.c`) | one RSB by itself, one step per handler, with lists that are orphaned and adopted |
| `LockSession` | `LKrequestWithCallback`, `LK_request`, `LK_get_completion_status`, `LKdeadlock_thread` (`lkrqst.c`), `LK_cancel` (`lkrlse.c`), `LK_resume` (`lkevent.c`) | sessions around one `ResourceBlock` |
| `LockService` | -- | what the sessions are promised; abstract |
| `ResourceBlock_proofs` | -- | what each handler keeps and whom it may serve: the lemmas the lock proofs share |
| `LockResource_proofs` | -- | the theorems about `LockResource` |
| `LockWakeup_proofs` | -- | that `LockResource` loses no wakeup |
| `LockSession_proofs` | -- | the theorems about `LockSession`, and that it implements `LockService` |
| `LogForce` | `LGwrite`, `LG_write`, `LG_queue_write`, `write_block`, `write_complete`, `LG_pgyback_write` (`lgwrite.c`), `LG_force` (`lgforce.c`), `LG_allocate_lbb` (`lgcbmem.c`), `LG_suspend_lbb`, `LG_resume` (`lgevent.c`), `LG_check_dead` (`lgmisc.c`) | sessions, logwriters and the group commit thread around the buffers of one log file |
| `LogForce_proofs` | -- | the theorems about order, handover and durability in `LogForce` |
| `LogBuffers_proofs` | -- | that `LogForce` loses no buffer and keeps its types |
| `LogPromise_proofs` | -- | that `LogForce` implements `LogDurable` |
| `LogDurable` | -- | what the log promises those who write and force it; abstract |
| `LockEvent` | `LKevent`, `LK_event`, `LK_cancel_event_wait` (`lkevent.c`), `LK_cancel`, `LK_release` (`lkrlse.c`), `LK_rundown` (`lkinit.c`), `CScp_resume` (`cscpres.c`) | sessions around the event wait queue |
| `EventService` | -- | what LKevent promises; abstract |
| `BufferWait` | `dm0p_eset`, `dm0p_ewait`, `dm0p_erelease`, `awaken_buf_waiters` and their callers (`dm0p.c`) | sessions that wait for a buffer's I/O, on top of `LockEvent` |
| `LockEvent_proofs` | -- | the theorems about `LockEvent` and `BufferWait`, and that `LockEvent` implements `EventService` |
| `MCLockResource`, `MCLockSession`, `MCLogForce`, `MCLockEvent`, `MCBufferWait` | -- | instances for TLC |

**ResourceBlock.**  The variable `rsb` is a record with the fields of the RSB and,
per lock list, those of its LKB: `state` is `lkb_state` (`free`: no LKB), `grant`
and `request` the two modes, `search` the place on the deadlock queue
(`LKB_ON_DLOCK_LIST`, `LKB_DEADLOCKED`).  The two queues are sequences, head
first.  All handlers decide under `rsb_mutex`, so a handler with the sweeps it calls
is one action.  `LockResource` and `LockSession` both extend this module and add
who calls the handlers, and when.

**LockResource.**  `orphaned` and `recovery` are the sets of lists with `LLB_ORPHANED`
and `LLB_RECOVER`; an adopted list keeps the first mark.

| Action | of `ResourceBlock` | Code |
|---|---|---|
| `RequestGranted`, `RequestWaits` | `NewGranted`, `NewWaits` | `LK_do_new_lock_request` |
| `ConvertGranted`, `ConvertRefused`, `ConvertWaits` | `Converted`, `ConversionRefused`, `ConversionWaits` | `LK_do_convert` |
| `ConvertBusy` | -- | `LK_do_convert` with LK_NOWAIT |
| `Release` | `Unlocked` | `LK_do_unlock` of a granted lock |
| `CancelWaiting`, `CancelConversion` | `WaitCancelled`, `ConversionCancelled` | `LK_do_cancel` |
| `DeadlockSearch` | `Searched` | the deadlock thread takes the LKB and may mark it as victim |
| `Orphan` | `WaitCancelled` | `LK_rundown` leaves the list to the recovery process |
| `Adopt`, `ListEnds` | -- | `LKcreate_list` with LK_RECOVER, `LKrelease` with LK_ALL |

The sweeps `TryWait` and `TryConvert` are recursive functions over the queue as
it stands when the sweep begins: the loop takes the next entry before it moves
one.  A conversion that is given up or cancelled, and a release, run their sweep
in the same action.  Which waiting request is on a cycle is a free choice here:
`LK_local_deadlock` walks over many resources, and a victim may be any LKB on
the deadlock queue.  A new lock with `LK_NOWAIT` that cannot be granted leaves the
resource as it was and is no action.  A conversion that lowers a mode is
reachable: callers that keep a value block do that.

**LockSession.**  `pc` is the place of each session in the loop of
`LKrequestWithCallback`.  What happens outside the resource's mutex is a step of
its own: `CSsuspend` (`Wake`, `Expire`), `LK_get_completion_status` (`Complete`,
`Incomplete`), the test of `lkb_state` in `LK_cancel` (`CancelTooLate`,
`CancelStarts`) and `LK_do_cancel` (`Cancel`), the repetition after LK_PHANTOM
(`AskAgain`), and in the deadlock thread the mark (`SearchFinds`) and the resume
(`Rouse`) of a victim.  `resumed` is the one resume that CS keeps for a session that
does not sleep.  `linked` is `LKB_ON_LLB_WAIT`, which `LK_resume` clears; it is not
the same as being on the resource's wait queue, and `LK_get_completion_status`
looks at nothing else.  `RogueResume` is a resume that another facility sends to the
session, which `CSnoresnow` and LK_PHANTOM are there for.

**LockService** states what a session may rely on: the lock it owns changes only when
it asks, when what it waits for is granted, and when it releases; OK means that
the lock is owned in the mode asked for; LK_DEADLOCK leaves what was owned before; locks
owned never exclude each other.  It allows a timed out request to own its lock,
since the code does not exclude that (run `latecancel`).

**LogForce.**  `lbb` holds the fields of each log buffer that decide, `wq` the write
queue, `current` the offset `lfb_current_lbb`, which stays when its buffer is no
longer current.  `fq` and `fqCount` are the free queue and `lfb_fq_count`, which is lower
while a session has reserved buffers for a long record.  `sess` has, per session, the
place in the call and the fields of its LXB; `lw` and `io` tell what logwriters do and
which buffers each thread has in hand.  `rec` and `disk` are not in the code: the pages of each
record and the pages on disk, by which the properties judge.  A record is its LSN and
its pages.  `setup` is the configuration and the workload of a behaviour, which never
changes.

The unit of atomicity is what runs under one `lbb_mutex`; where the code keeps
that mutex across other mutexes (the page on which a long record begins, a fresh
page), the buffer's `owner` keeps the others out.

| Action | Code |
|---|---|
| `StartWrite`, `Allocate`, `LogOnPage` | `LG_write` up to the reservation of space in the current buffer |
| `LogSpan`, `SpanNext`, `SpanRelease`, `SpanPlace` | its loop for a record that does not fit |
| `Copied`, `WakeGcmt` | its end: the copy is done, the page is written, left to group commit, or left alone |
| `LGforce`, `Attach` | `LG_force` on the current buffer, and on the write queue |
| `Return` | `LGwrite`, `LGforce` |
| `QueueWrite` (an operator) | `LG_queue_write` with `assign_logwriter` |
| `WriteBlock` | `write_block` and `LG_do_write`: neighbours are taken along, then the I/O |
| `Complete`, `ReturnBuffers` | `write_complete`, one page after the other, then all their buffers |
| `Scan`, `Recheck`, `Park` | the end of `write_complete` and `LG_write_block` in a logwriter |
| `CheckDead` | `LG_check_dead` |
| `GcmtWrite`, `GcmtSleep` | `LG_pgyback_write` |

Which free buffer comes next and how many neighbours are written along are left open:
the code has an order for both that serves speed only.  The length of a record, whether
it fills its page and how the group commit thread counts its ticks are free as well.
`StrayResume` is a resume sent by another facility.

**LogDurable** has three variables: the LSNs given, the LSN up to which the disk has
everything, and the LSN each session waits for.  A call returns only when the second
has reached the third.

**LockEvent.**  `llb` holds the event flags of each session's lock list, with
`llb_event` and `llb_evflags` while `LLB_ESET` is on (nobody reads them later); `ewq` is the set of
lists on the event wait queue.  The queue is FIFO in the code, but a signal passes through
all of it and resumes everybody it reaches, so that the order shows in nothing but the
order of the resumes.  What runs under one `llb_mutex` is a step.  A signal keeps
`lkd_ew_q_mutex` from step to step: `clear` says whose signal is on its way and
which lists are still before it, and who needs that mutex (`SetEvent`, `CancelWait`,
`Unhook`) must wait meanwhile.

| Action | Code |
|---|---|
| `SetEvent`, `StillSet`, `SetLate` | LK_E_SET; the wait of up to ten seconds for an event that is still set |
| `Wait`, `Wake` | LK_E_WAIT and its `CSsuspend` |
| `BeginClear`, `Look`, `EndClear` | LK_E_CLR, one list after the other |
| `Interrupt`, `Cancel`, `CancelWait`, `ReturnInterrupted` | the interrupted wait, `LK_cancel`, the two halves of `LK_cancel_event_wait` |
| `LK_release`, `LK_rundown`, `Unhook` | the end of a list, by its session or for a dead process, and its `LK_cancel_event_wait` |
| `Deliver`, `RogueResume` | a resume from another process arrives; a resume of another facility |
| `Die`, `Connect` | a process dies; another session, or a new process, takes the place |

Sessions that waited with LK_E_INTERRUPT end after LK_INTERRUPT, as the special
threads that use it do.  A process does not die while it signals: its `lkd_ew_q_mutex`
would be found with a dead owner, which brings the installation down.

**EventService** has three variables: how far each session is, what it waits for, and
the signal being sent.  A session goes on only after its event has come, unless a
stray resume misled it; a signal ends only when nobody it is meant for still waits.

**BufferWait** adds to `LockEvent` the buffers and what sessions do with them: `busy` is
`BUF_BUSY`, `iowait` is `BUF_IOWAIT`, `mutex` says who holds `buf_mutex` from one step to the
next, and `job` is what a session does.  Each action but the first look at a
buffer is an action of `LockEvent` or leaves the events alone.  Between two waits a
session is in no other call of LKevent.

## Runs

| Run | Instance | Shows |
|---|---|---|
| `progress` | 3 lists, modes IS IX S X, one list whose process may die and which is adopted then, fair | mutual exclusion, the group mode stands for the holders and is exact, the queues link each lock once, first come first served, conversions first, no request or conversion sleeps that nothing excludes, every wait ends |
| `lostconversion` | 3 lists, modes N IS S X | a conversion that nothing excludes can be left asleep |
| `orphanwait` | 3 lists, one mortal, one handed over alive | a conversion of the recovery process waits for a list only it can release |
| `wakeups` | 3 sessions, two searched for deadlock, one that times out and is sent rogue resumes | OK means held, a deadlock victim gets nothing, no lost resume, `LockService` is implemented |
| `returns` | 2 sessions, fair | every request returns |
| `latecancel` | 3 sessions that are not searched | LK_TIMEOUT may leave the lock held |
| `stalevictim` | 3 sessions, two that are searched and may time out | a late resume of a victim makes a later request of its session look granted |
| `logforce` | 2 sessions, 3 buffers, 2 records of up to 3 pages, 4 configurations (no, one, two logwriters, group commit) | `LogDurable` is implemented; the forced LSN never exceeds the disk, waiters wait on a page that will be written, no buffer is lost, pages are queued in order and written when no one copies into them |
| `logreturns` | 2 sessions, 2 buffers, 2 records, 3 configurations with at most one logwriter, fair | every call returns |
| `strandedpage` | 2 sessions, 2 logwriters, 3 buffers, fair | a queued page may be written by nobody |
| `events` | 3 sessions in 2 servers, one event; one session is interruptible, another is sent rogue resumes, one server may die; fair | the flags tell the truth, no event is lost, `EventService` is implemented, a session whose event was signalled goes on |
| `waits` | 3 sessions in 2 servers, 2 buffers, fair | who waits for an I/O is remembered until it ends, and goes on |

Further instances, whose configurations are kept beside those of the runs:

| Configuration | Instance | Shows |
|---|---|---|
| `MCLockResource_modes` | 3 lists, all 7 modes, no list dies | the safety properties of `progress` that hold for all modes |
| `MCLockResource_stalemode` | 3 lists, 7 modes | `SummaryGrantMode` is violated: the group mode can stay above every mode held |
| `MCLockEvent_goeson` | 2 sessions in 2 servers, 2 events, the mishaps of `events`, fair | `SignalledGoesOn` with an event that is not the signalled one |
| `MCLockEvent_strayresume` | 2 sessions in 2 servers, one interruptible | `NoResumeExpected` is violated: a cancelled wait may have a resume to come |
| `MCLockEvent_earlyreturn` | 2 sessions in 2 servers, one sent rogue resumes | `WaitedToTheEnd` is violated: LK_E_WAIT may return with its event still set |

*Bounds of the lock runs.*  There is no counter to bound: the state is finite once the lists are.
Three lists are the least with a holder, a request that waits for it and one
behind that, or a holder and two conversions; the sweeps then pass over
entries that are granted, skipped and stopped at.  The interplay of modes needs two
holders and a request, so three lists meet every triple of modes: of the four of `progress`,
and of all seven in `MCLockResource_modes`.  Two sessions are
enough for `returns`: a conversion deadlock, a phantom resume and the handover of a
lock need no third, and the order of the queues is checked by `progress`.
In `wakeups` no session is both searched for deadlock and impatient, because the
code breaks `OkMeansHeld` then: that is `stalevictim`.  `progress` leaves out LK_N
and LK_U, with which the code misses conversions and keeps a stale group mode:
`lostconversion` and `MCLockResource_stalemode`.  Lists with the same flags are symmetric in the
runs without liveness.
`progress` has one mortal list: a recovery list whose holder dies while it waits is
awakened by `LK_rundown`, which is the subject of `LockRundown` in the plan.

*Bounds of the log runs.*  `MaxLsn` bounds the records, `span` their pages, `writers`
and `forcers` who calls what; all are guards of `StartWrite`, `LogSpan` and
`LGforce`.  Two records in three buffers are enough for the write of a page to complete before
that of its predecessor, for a waiter to be handed on, for a second record to enter a
page that another fills, for a page to be reused while a force looks at it, and for a superblock of
three pages.  In `logreturns` two buffers run out, so that sessions
sleep for a free one.  `Threshold` is 1, so that two active transactions use group commit.
Two logwriters appear in `logforce` and in
`strandedpage` but not in `logreturns`, since the code does not promise their calls a
return: that is the finding.  The buffers are symmetric in `logforce`.  The group
commit thread meets two writers and no force; a force treats the current page as a
forced write does (`ForceOut` is the same operator).

*Bounds of the event runs.*  Nothing is counted, so only the sets are bounded.  Three sessions are one
that signals, one in its server and one in another, so that a signal meets lists in and
out of its reach; every session may do each of these in turn.  Events other than the
signalled one are in `MCLockEvent_goeson` and in `waits`, which have two.  Three sessions and two buffers let one buffer have
an I/O and two sessions waiting for it in different servers, while the other is used.

*Deadlock* of TLC is checked in every run of the lock, event and buffer modules: they never
stop.  The log runs are bounded by `MaxLsn`, and a session need not force for ever, so they
may stop.

*Fairness.*  `progress` assumes that transactions end, so that a list that
holds a granted lock again and again releases it, and that a victim, which the
deadlock thread awakens, takes its request back, and that the recovery process
adopts orphaned lists as long as it does not wait itself; nothing is assumed of grants,
conversions or the deadlock thread, so `EveryWaitEnds` is owed to the
sweeps alone.  `returns` assumes that the operating system runs a session that can
proceed and the deadlock thread once it has chosen a victim, and that
transactions end when their session is outside the lock manager again and again.
`logreturns` and `strandedpage` assume that every thread that can take a step inside a call, an
I/O or its loop takes it at last, and that `LG_check_dead` runs now and then (the recovery process
calls it with a timer).  Nobody has to begin a call: a page that
only the next LGwrite would push out counts as forgotten.
`events` and `waits` assume that sessions run, that a signal that has begun goes through
the queue, and that resumes sent to another process arrive; `waits` also that I/Os end.
Nobody has to set or signal an event, or to look at a buffer for the first time.  Weak
fairness is enough for the mutexes in these instances: with three sessions a session can be
kept from the queue's or a buffer's mutex only by one that goes to sleep after that, or
that awakens somebody, so not again and again.  With many sessions the mutexes would have to be fair.

## Disagreements between code and comments

* `lostconversion`: cancelling the last waiting request overwrites
  `rsb_convert_mode`, by which a later conversion decides that no other conversion
  can be granted (`lkrlse.c` 2249, `lkrqst.c` 4615-4629).
* `orphanwait`: `LK_do_convert` tests the status of the list that asks where it means
  the owner of the lock (`lkrqst.c` 5112).  Lists of live sessions reach the recovery
  process when a server passes an abort on, and by manual commit (`dmfrcp.c` 2744,
  `dmfrecover.c` 5450).
* `latecancel`: `LK_cancel` drops the answer LK_CANCEL of `LK_do_cancel`
  (`lkrlse.c` 1491).
* `stalevictim`: `LKdeadlock_thread` resumes its victim after it released the
  resource (`lkrqst.c` 5786).
* `strandedpage`: a logwriter that has found no page releases the write queue and is
  marked as asleep some steps later (`lgwrite.c` 4720, 4859); a page queued in between is
  assigned to nobody, although the comment of `LG_queue_write` promises that it will be
  written (`lgwrite.c` 2833).  With one logwriter `LG_check_dead` finds it
  (`lgmisc.c` 1467), with more it does not look.

Three more show in the further instances:

* `MCLockResource_stalemode`: a conversion that gives up a mode in `LK_try_convert` leaves
  `rsb_grant_mode` at that mode (`lkrqst.c` 7823-7827), which `lkdef.h` 1262 calls the
  summary mode of all granted and converting locks.  l1 holds LK_S, l2 LK_U; l1's conversion
  to LK_IS must wait for LK_U; when l2 converts to LK_N the sweep grants l1 LK_IS and the
  group mode stays LK_S.
* `MCLockEvent_strayresume`: `LK_cancel_event_wait` marks a wait as cancelled, "so no resumes
  expected", also when the event was signalled while it changed mutexes (`lkevent.c` 1184-1207).
  `LKevent` then does not wait for the resume, which may arrive from another process after
  `CScancelled` and is left to `CSnoresnow` of the next call.
* `MCLockEvent_earlyreturn`: `LKevent` takes any resume for its event's (`lkevent.c` 352), while
  the description of `LK_event` promises a suspension until the signal (`lkevent.c` 402).  The
  event stays set, and the session's next LK_E_SET is refused if it has not come by then.
  `EventService` allows this to sessions that are misled, and to no others.

## Proofs

`LockResource_proofs` proves for any set of lists, finite or not, and any modes
that they use:

* `TypeCorrect`: `Spec => []TypeOK`
* `MutualExclusion`: `Spec => []HoldersCompatible`
* `GroupModeStandsForHolders`: `Spec => []GroupModeCovers`
* `QueuesStayLinked`: `Spec => []QueuesAgree`
* `FirstComeFirstServed`: `Spec => NoOvertaking`
* `ConversionsServedFirst`: `Spec => ConversionsFirst`

from the assumptions `ListsAssumption` and `DetectionAssumption` about the constants
only.  Mutual exclusion is
not inductive by itself: the code never compares two holders, it compares a request
with one number, `rsb_grant_mode`.  What makes that right is `GroupModeCovers`: the
number is at least every mode held and, when it is LK_S, no LK_IX is held.  Lemma
`GroupAdmits` shows that a mode compatible with such a number may be held with
every holder.  Two things in the table need care: LK_IS and LK_U exclude each other
in it, but both are admitted beside LK_S, so that they meet (`Coexist` says so); and
LK_IX is below LK_S as a number.  `TypeOK` includes that only waiting locks are
marked as deadlock victims.

The inductive invariant is `LocksQueued`: the resource block is in `QueuedRsb`, the
typed blocks with sound modes (`SoundRsb`) whose queues link each holder and each
waiter once (`LinksOnce`).  The order properties speak of steps, so the handlers get
more than an invariant: `Moves(r, u, l)` says what a handler called for list `l` may
make of block `r`.  The result is in `QueuedRsb`; every other list has its lock block
left alone or is granted exactly what it waits for, if it is no victim
(`Advances`); nobody is granted a lock past a list that still waits (`InOrder`); and
new locks only if no conversion is left (`ConvertersFirst`).  Each handler has a lemma
that it `Moves`, and `LkbIs` says what becomes of the lock block of `l` itself
(`ActionsMove`, `SearchedMoves`).

The sweeps are handled by `ScanInduction`: a function that folds steps over a queue
keeps a property of its position and its value that each step keeps.  The proof uses
well-founded induction on positions as a set, as in `SetInduction`.  For `InOrder` the
property says: until the scan stops, every list at a position already passed is
granted or a victim.

`LockWakeup_proofs` proves for any set of lists

* `GroupModeIsSummary`: `Spec => []SummaryGrantMode`, if LK_U is not in `Wanted`
* `WaitersAreTried`: `Spec => []NoMissedGrant`, if LK_U is not in `Wanted`
* `ConvertersAreTried`: `Spec => []NoMissedConversion`, if neither LK_U nor LK_N is

The code runs without LK_U where `LKD_NO_ULOCKS` is set, which makes LK_X of it
(`lkrqst.c` 1193).  The conditions are the weakest of their kind: with LK_U beside the others
TLC finds each of the three broken with three lists (`MCLockResource_stalemode` for the first), and with LK_N
the last (`lostconversion`).  The instance `progress` meets them.

The handlers do not look at every waiter, they go by two numbers, and the inductive
invariant `Alert` says when that is enough:

* `Level`: `rsb_grant_mode` is held by somebody, or is LK_N; and a conversion that waits
  asks for more than LK_N, or LK_IS from a lock held in LK_N.
* `Led`: `rsb_convert_mode` is the group mode, unless one converting lock alone has the group
  mode.  So a lock whose mode is not `rsb_convert_mode` is not the only one with the
  group mode, and being beside it is LK_IS or LK_N (`NotLeading`): a handler that then tries
  nobody has at most taken away an LK_IS.
* `WaitersTried`: without conversions, the group mode excludes the first waiting request,
  or that is a victim.
* `ConvertersTried`: without victims, and if LK_N is not used, a lock of another list
  excludes the first conversion.  A conversion that an LK_IS excludes asks for LK_X,
  so any other lock excludes it too; but LK_N does not, which is why it breaks here.

The sweeps need what they have passed over (`WaitTried`, `ConvertTried`): every entry before
the one that stopped the scan is granted or a victim.  Without LK_U the mode table
is symmetric, and a group mode that excludes a request is a mode held that does
(`PlainTable`, `PlainGroup`, `GroupExcludes`).

`LockSession_proofs` proves for any set of sessions, under the condition
`SearchedArePatient` (`Impatient \cup Rogue \subseteq Undetected`: a list that is
searched for deadlock neither times out nor gets the resumes of others):

* `SessionsTypeCorrect`: `Spec => []TypeOK`
* `OkIsTrue`: `Spec => []OkMeansHeld`
* `VictimsGetNothing`: `Spec => []DeadlockTakesNothing`
* `ResumesAreNotLost`: `Spec => []NoLostResume`
* `SessionsAreServed`: `Spec => ImplementsService`, the refinement of `LockService`

and without it that locks held at once never exclude each other
(`SessionsExcludeEachOther`): the decisions are taken on the resource, whatever resumes,
timeouts and victims do.  The condition is no convenience: without it the code breaks
`OkMeansHeld` (`stalevictim`).  It holds in the instance `wakeups`.

The inductive invariant is `SessionsSound`.  For each session it says

* `Rests`: outside the lock manager, that the last answer is true;
* `Requests`: inside, that a lock block that waits is about the session's own request and
  that a lock granted is the one wanted, unless the session is about to repeat a
  request it has taken back;
* `Unsearched`: of a list not searched, that it is linked to its wait queue exactly while it
  waits, and that a grant leaves a resume until the session has noticed it;
* `Searchable`: of a list that is searched, where it can be with its lock block waiting,
  granted or marked, and that a marked one stays marked, and asleep until it is roused.

The handlers come from `ResourceBlock_proofs`: for the list that calls, `LkbIs`; for all
others `Moves`, from which `OthersKeep` concludes that they stay consistent, whether
left alone (`BystanderKeeps`) or granted their lock and sent a resume
(`BystanderServed`).  The step that needs most of the invariant is `Cancel`: a lock
that was granted between the test of `LK_cancel` and `LK_do_cancel` belongs to a list
that is not searched, for the sweeps pass over victims, so that LK_DEADLOCK is never the
answer for a lock that is held (`CancelOutcome`).  In the refinement a step of
`LockService` belongs to the list that calls a handler, or that returns without calling
one; the lists served meanwhile are its `Served`, and the other steps stutter.

`LogForce_proofs` proves for any number of sessions, logwriters and buffers, any
configuration in `Setups` and any number of records

* `QueueOrdered`: `Spec => []WriteQueueOrder`
* `WrittenWhole`: `Spec => []PagesWrittenWhole`
* `WaitersNotStranded`: `Spec => []NoWaiterInLimbo`
* `ForcedOnDisk`: `Spec => []ForcedLsnDurable`

from `ThreadsAssumption` (finitely many sessions, distinct from the other threads;
`None` is no buffer) and `SetupsAssumption` (what a configuration is).  None of the
four is inductive.  `LogSound` is (`LogStaysSound`), and gives the first three.  Its parts:

* `CurrentLast` and `WithinLog`: the current page comes after all queued pages and
  queued pages are within the log, so that adding at the end keeps the order.
* `SpansAlone`: a buffer is current and queued at once only as the first page of a
  record whose session keeps the buffer's mutex; so nobody enters it before
  `SpanPlace` makes the last page of the record the current one.  While this
  is so the next pages of the record overtake nobody.
* `CopiersCounted`: `lbb_writers` is the number of sessions that copy into the
  buffer.  With `WritersApart` (a buffer that is to be written has no writers and is
  not current; what a thread has in hand is assigned; threads that sleep have
  nothing in hand) a page goes to one thread, and whole.
* `FreeApart` and `WaitersPlaced`: free buffers and those about to be are on no queue
  and have no waiters; `write_complete` hands the waiters that must stay to the
  buffer before, which is still on the queue.

`ForcedOnDisk` needs `DiskSound`, which is kept by every step that keeps `LogSound`
(`DiskStep`):

* `Recorded`: a record has its first page in the log, and lacks a last page only while
  a session spans it.
* `PagesKept`: a page of the log is on disk, or in a buffer that is current or queued.
* `IoDone`: a buffer whose write a thread is about to complete is on disk.
* `ForcedComplete`: up to `lbb_forced_lsn` of a buffer records are complete, and their
  pages are on disk or do not come after the buffer's.
* `ForcedWritten`: records up to `lfb_forced_lsn` are on disk, which is what
  `ForcedLsnDurable` says without counting.

The step that matters is `write_complete` (`CompleteDisk`): when a written page leaves
the queue, the pages between it and the one before it on the queue are on disk, for
they are in no buffer (`PagesBefore`); so the page before may inherit `lbb_forced_lsn`,
and when there is none before it every page up to it is on disk.

Handlers with one effect on the state share a lemma: `SessionStep` (the session
alone moves), `QuietStepSound` (the logwriters look around), `TakeStepSound` (a
thread takes a buffer), `PageStepSound` (a page is queued or stays), `CurrentStepSound`
(a record enters the current page), `SpanStepSound` (it spans into a free one).

`LogPromise_proofs` proves for any number of sessions, logwriters and buffers

* `PromisesKept`: `Spec /\ NoStrays => KeepsPromises`, the refinement of `LogDurable`

where `NoStrays` says of the first state, hence of all, that no session gets the resumes
of others (`setup.stray = {}`, as in every configuration of `logforce`).  The
condition is needed: `LGforce` suspends once and takes any resume for the end of its
wait, so that a stray one makes it return while its record is not on disk;
`logreturns` lets one session get them, and checks only that calls return.  The record
of a call that returns is safe (`Safe`), which means at or below the durable LSN
(`DurableIsSafe`).

`PromiseSound` is the invariant, beside `LogSound` and `DiskSound`.  `PagesTell` says how
`lbb_first_lsn` and `lbb_forced_lsn` can be trusted:

* `OnlyLastSpans`, `PagesFilled`, `WrittenInLog`: only the last record can lack its last
  page; every page of the log has a record; nothing is on disk beyond the end of the log.
* `FirstsRise`: `lbb_first_lsn` is at most the LSN of every record on the page, and
  rises with the pages.
* `LastVouches`: of the pages in the buffers whose `lbb_first_lsn` is at most `l`, the last
  one has `lbb_forced_lsn` of at least `l`, or comes before another such page.
* `OpenEndsLog`: the current page, while no session spans from it, ends the log and is
  not on disk.

`CallSound` says what a call in each of its places knows: a session that copies, that its
page vouches for the record; one that has released the queue (`Attach`), that the pages that
start at or below its target are queued and that the one it has seen vouches for it unless
reused (`Seeks`); one that returns, that it waits on a page that vouches for its target, has
no resume yet and will not take LG_SYNCH for an answer (`Awaits`), or that its target
is on disk and it has no second resume to come (`Served`).

Three steps need most of it.  `LGforce` and `Attach` look for the buffer with the highest
`lbb_first_lsn` not above the target: `TargetVouches` shows that it is the last such page,
so by `LastVouches` it vouches, and that if there is none all is on disk (`LeftBehind`).
`write_complete` takes a page out of the middle of the queue: what it vouched for
passes to the page before it (`WrittenLeaves`), to which its waiters move,
and if there is none before, what its waiters want is on disk (`CompleteKeeps`).  And a
record that spans gives the first page the `lbb_last_lsn` of the record before it as
`lbb_forced_lsn`, and the last page its own (`RecordPlaced`, `SpanPlaced`).  In the
refinement a record logged is `Log`, `LGforce` is `Ask` unless it asks for nothing, a
write is `Harden` when it closes a gap, a return is `Answer`; all others
stutter.

`LogBuffers_proofs` proves for any number of sessions and logwriters, and any finite set of buffers
(`BoundsAssumption`; the code allocates them once)

* `LogTyped`: `Spec => []TypeOK`
* `NoBufferLost`: `Spec => []BuffersAccounted`
* `SpansFindBuffers`: `Spec => []ReservedFree`, a session that has reserved
  buffers for a long record finds as many on the free queue as it still needs

The free count is not the length of the free queue: `LG_write` lowers it when it
reserves, and takes the buffers one by one later.  `Claims` is the set of buffers
reserved but not taken, as pairs of a session and a number, so that the sum over sessions is the
cardinality of a set and no induction over data is needed: a step adds or removes a known
set of pairs.  `BuffersSound` is the invariant, beside `LogSound` and `DiskSound`:

* `HandsFree` and `Somewhere`: each buffer is on the free queue, current, queued, or
  among those a thread is about to return, and a thread returns what it has written
  before it is given the next.  That it is at one of these places only is `FreeApart`
  and `SpansAlone` of `LogSound`.
* `Counted`: free count and claims make up the free queue.
* `LsnsLeft` and `PagesLeft`: who is to log has an LSN left, and the end of the log leaves
  room for the pages reserved; which gives, with `PagesWithin`, the bounds of `TypeOK`.
* `SessionsSane`: LSNs in a session are of records logged, and a session that spans has
  reserved a buffer for its next page.

`LockEvent_proofs` proves for any set of sessions, processes and events, whoever is
interruptible, misled or mortal,

* `EventsTyped`: `Spec => []TypeOK`
* `FlagsTellTheTruth`: `Spec => []FlagsTell`
* `NoEventIsLost`: `Spec => []NoLostEvent`
* `ServesEvents`: `Spec => ImplementsEvents`, the refinement of `EventService`

from `EventAssumption`.  `EventSound` is inductive (`EventsStaySound`).  `Told` says of each
session what its flags, its place and its resumes say of each other: `FlagsOf` is what
`FlagsTell` asks; `PlaceOf`, that a list is on the queue without `LLB_EWAIT` only from
LK_E_SET to LK_E_WAIT, or while it is released; `ResumeOf`, that a session whose event came
while it slept has one resume, kept or on its way, and that one not misled by rogue resumes
has no other.  `SignalSound` says that a list on the queue which the signal has passed is
out of its reach: nothing is put on the queue meanwhile, and nobody's event changes.
The refinement rests on the last: without it a signal could end while somebody in its
reach still waits (`EndClear` must be `Sent`).  A session is `armed` while its list is on the queue,
and `due` from then until it returns; so the step of the signal that takes it off the
queue is the one at which its event occurs, and setting `LLB_EDONE`, the resume, and
their arrival stutter.

For `BufferWait`, of any set of sessions, servers and buffers, it proves

* `BufferUsesEvents`: `BufferSpec => Spec`, so that the above holds for its waits
* `BuffersTyped`: `BufferSpec => []BufferTypeOK`
* `NoSleeperForgotten`: `BufferSpec => []SleepersKnown`

`SleepersKnown` is about steps far apart: the look at the buffer, the event set, the end of the
I/O and the signal.  `BufferSound` is inductive (`BuffersStayTended`):
`MutexSound` says between which steps a session keeps the buffer's mutex, and
`OneIo` that only one ends an I/O.  `Sleeper` is the property with what the signal needs to
reach the list; when `RouseEnds` resets `BUF_IOWAIT`, `SignalSound` says that no list on the queue is
in reach, hence that no session has the event set.  `PlaceSound` says that a session
gets a resume only for the event it waits for.

Only model-checked: liveness under fairness (`EveryWaitEnds`, `RequestReturns`,
`CallsReturn`, `SignalledGoesOn`, `WaitsEnd`), which is out of the prover's reach.  Every safety
property that a passing run checks is proved.

## Not modelled

* Multithread lists (several requests of one list at a time), shared and related
  lists, propagated locks.
* Lock value blocks, callbacks, the lock limit, physical locks: no guard
  of the handlers modelled depends on them, but for the value block of a
  conversion down.
* The cluster build and its distributed lock manager.
* In the late path of `LKrequestWithCallback` the session waits ten seconds for the
  resume of the grant it lost the race against; the model waits until it comes.
* `LK_INTR_GRANT`, the status of an interrupted request that was granted, counts as OK.
* Deadlocks over several resources, `LK_rundown` as a process: see the plan.
* Of the lock events: shared lock lists, whose events belong to the handles (a handle is freed
  without a look at its event, `lkrlse.c` 1093), the comparison of
  `llb_cpid` in `LK_cancel_event_wait` (each list has one session here, so that it is always
  true), and SCE events, which are signalled with another's list.
* Of the page cache all but the wait for I/O: the other events of a buffer (`BUF_MWAIT`,
  `BUF_FCWAIT`, groups, flushing) use the same calls.  Servers do not die in `BufferWait`, since recovery
  of the buffers they had busy is not modelled, and their waits get no rogue resumes.
* Of the log: dual logging (two I/Os per page), the log file header (`LG_HDR`), I/O errors
  and the emergency shutdown, a full log, wrap around, the stall of a consistency
  point, transactions shared by several handles, the death of a process that has log
  I/O in hand, reading the log.  Transactions are protected ones, which the group
  commit decision counts.
* `LG_write` refuses a transaction that already waits (LXB_WAIT); a session has one call
  at a time, so this is met only after a stray resume, where the model lets it
  call again when the wait is over.
