------------------------------ MODULE LogForce ------------------------------
(***************************************************************************)
(* The log buffers of the Ingres logging system (back/dmf/lg): sessions    *)
(* put records into the current buffer with LGwrite and wait for them to   *)
(* reach the disk, at once or with LGforce; full and forced buffers go on  *)
(* the write queue, from where logwriter threads, the group commit thread  *)
(* or the sessions themselves write them (lgwrite.c, lgforce.c).           *)
(*                                                                         *)
(* One log file, no I/O errors, log space enough.  A record takes part of  *)
(* the current page, or the rest of it and n more pages; each page is      *)
(* then full or not.  What runs under one lbb_mutex is one action; a mutex *)
(* that is kept from one action to another is the buffer's owner.          *)
(***************************************************************************)
EXTENDS Naturals, Sequences, FiniteSets

CONSTANTS
  Sessions,    \* sessions, each with one transaction (LXB) at a time
  LogWriters,  \* the logwriter threads there may be
  Gcmt,        \* the group commit thread
  Buffers,     \* log buffers (LBB)
  Setups,      \* the configurations and workloads (see below)
  Threshold,   \* lgd_gcmt_threshold
  MaxLsn,      \* bound: records logged
  None         \* no buffer, no thread

ASSUME ThreadsAssumption ==
  /\ IsFiniteSet(Sessions)
  /\ Sessions \cap LogWriters = {} /\ Gcmt \notin Sessions \cup LogWriters
  /\ None \notin Buffers \cup Sessions

ASSUME BoundsAssumption == IsFiniteSet(Buffers) /\ MaxLsn \in Nat

ASSUME SetupsAssumption ==
  /\ Setups \subseteq
       [pool    : SUBSET LogWriters,   \* the logwriters that were started
        group   : BOOLEAN,             \* there is a group commit thread
        optim   : BOOLEAN,             \* lgd_state_flags LGD_OPTIMWRITE
        writers : SUBSET Sessions,     \* bound: who calls LGwrite
        forcers : SUBSET Sessions,     \* bound: who calls LGforce
        stray   : SUBSET Sessions,     \* whom a stray CSresume may hit
        span    : 1..(Cardinality(Buffers) - 1)]  \* bound: extra pages of a record

VARIABLES
  setup,      \* the configuration, fixed at startup
  lbb,        \* the log buffers
  wq,         \* the write queue (lfb_wq), oldest first
  current,    \* lfb_current_lbb: kept when the buffer is no longer current
  fq,         \* the buffers on the free queue
  fqCount,    \* lfb_fq_count: free buffers nobody has reserved
  lastLsn,    \* lgh_last_lsn
  eof,        \* the page of lgh_end
  forcedLsn,  \* lfb_forced_lsn
  sess,       \* the sessions and their transactions
  lw,         \* the logwriters
  gawake,     \* the group commit thread watches the current buffer
  io,         \* the writes each thread has in hand
  rec,        \* the first and last page of each record (not in the code)
  disk        \* the pages on disk (not in the code)

log == <<lastLsn, eof, rec>>
free == <<fq, fqCount>>
queues == <<lbb, wq, lw, io>>
vars == <<setup, lbb, wq, current, fq, fqCount, lastLsn, eof, forcedLsn,
          sess, lw, gawake, io, rec, disk>>

Threads == Sessions \cup LogWriters \cup {Gcmt}
Lsn  == 0..MaxLsn                         \* 0 is no LSN
Page == 0..(MaxLsn * (Cardinality(Buffers) + 1))

LbbType ==
  [page    : Page,       \* lbb_lga
   first   : Lsn,        \* lbb_first_lsn
   last    : Lsn,        \* lbb_last_lsn
   forced  : Lsn,        \* lbb_forced_lsn: the last record complete here
   writers : Nat,        \* lbb_writers, sessions copying their record
   commits : Nat,        \* lbb_commit_count
   current : BOOLEAN,    \* LBB_CURRENT
   force   : BOOLEAN,    \* LBB_FORCE: the group commit thread is to write it
   needed  : BOOLEAN,    \* LBB_PRIM_IO_NEEDED
   taken   : BOOLEAN,    \* LBB_PRIMARY_LXB_ASSIGNED, lbb_owning_lxb
   owner   : Sessions \cup {None}]   \* who keeps lbb_mutex between actions

Fresh(p) ==
  [page |-> p, first |-> 0, last |-> 0, forced |-> 0, writers |-> 0,
   commits |-> 0, current |-> FALSE, force |-> FALSE, needed |-> FALSE,
   taken |-> FALSE, owner |-> None]

Steps == {"idle", "log", "sleep", "span", "release", "place", "copy",
          "attach", "wake", "return"}
Kinds == {"none", "plain", "forced", "commit", "force"}

SessType ==
  [pc     : Steps,
   kind   : Kinds,       \* the call: LGwrite (LG_FORCE, LG_LAST), LGforce
   active : BOOLEAN,     \* LXB_ACTIVE: counted in lgd_protect_count
   first  : Lsn,         \* lxb_first_lsn
   last   : Lsn,         \* lxb_last_lsn
   n      : 0..Cardinality(Buffers),  \* lxb_rlbb_count: buffers reserved for the record
   head   : Buffers \cup {None},   \* the first buffer of a spanned record
   buf    : Buffers \cup {None},   \* span_lbb, target_lbb
   target : Lsn,         \* the LSN that must be on disk (target_lsn)
   wlsn   : Lsn,         \* lxb_wait_lsn
   wait   : BOOLEAN,     \* LXB_WAIT
   lwq    : Buffers \cup {None},   \* lxb_wait_lwq: the buffer it waits on
   cs     : BOOLEAN,     \* a CSresume that CSsuspend has not consumed
   synch  : BOOLEAN]     \* the write returned LG_SYNCH: no need to wait

NewSess ==
  [pc |-> "idle", kind |-> "none", active |-> FALSE, first |-> 0, last |-> 0,
   n |-> 0, head |-> None, buf |-> None, target |-> 0, wlsn |-> 0,
   wait |-> FALSE, lwq |-> None, cs |-> FALSE, synch |-> FALSE]

(* A logwriter sleeps (LXB_WAIT), writes, or looks for its next buffer.    *)
LwType == [pc : {"asleep", "run", "scan", "recheck", "park"},
           found : Buffers \cup {None}]

(* Of each thread: the buffer it must write (lxb_assigned_buffer), those   *)
(* whose I/O is done and not completed, those completed but not yet free.  *)
IoType == [buf : Buffers \cup {None}, todo : Seq(Buffers), freed : SUBSET Buffers]
NoIo   == [buf |-> None, todo |-> <<>>, freed |-> {}]

-------------------------------------------------------------------------------
Members(q) == {q[i] : i \in DOMAIN q}
OnQueue(b) == b \in Members(wq)

(* Faulty variant of Enqueue: a buffer becomes the head of the queue.      *)
EnqueueFirst(b) == IF OnQueue(b) THEN wq ELSE <<b>> \o wq

Enqueue(b) == IF OnQueue(b) THEN wq ELSE Append(wq, b)
Position(b) == CHOOSE i \in DOMAIN wq : wq[i] = b

(* gprev_lbb, the buffer just before b on the write queue.                 *)
Before(b) == IF Position(b) = 1 THEN None ELSE wq[Position(b) - 1]

(* The write queue when b has left it.                                     *)
Without(b) == [i \in 1..(Len(wq) - 1) |-> wq[IF i < Position(b) THEN i ELSE i + 1]]

(* The buffers that thread t is writing.                                   *)
InHand(t) == Members(io[t].todo) \cup ({io[t].buf} \ {None})

WaitersOn(b) == {s \in Sessions : sess[s].wait /\ sess[s].lwq = b}
Protected == Cardinality({s \in Sessions : sess[s].active})
Lone == Cardinality(setup.pool) = 1
Idle == {w \in setup.pool : lw[w].pc = "asleep"}
Unassigned(b) == OnQueue(b) /\ lbb[b].needed /\ ~lbb[b].taken
Free(b, s) == lbb[b].owner \in {None, s}

(* LXB_INACTIVE: internal threads, transactions that have written nothing. *)
Inactive(t) == IF t \in Sessions THEN ~sess[t].active ELSE t = Gcmt

Higher(x, y) == IF x > y THEN x ELSE y

-------------------------------------------------------------------------------
(* LG_queue_write: thread t puts b on the write queue and, unless others   *)
(* still copy into it, has it written: by t itself, or by an idle          *)
(* logwriter, or whenever a logwriter finds it.  L is lbb with what the    *)
(* caller has changed in b; waits says that t waits on b (LXB_WAIT_LBB).   *)

WritesItself(t, waits) ==
  \/ setup.pool = {}
  \/ ~Lone /\ (waits \/ Inactive(t))
  \/ Lone /\ Inactive(t) /\ Idle = {} /\ \A w \in setup.pool : io[w].buf = None

(* Faulty variant of Quiet: the buffer is written while others copy.       *)
QuietAnyway(b, L) == TRUE

Quiet(b, L) == L[b].writers = 0

QueueWrite(t, b, L, waits) ==
  LET off    == [L EXCEPT ![b].current = FALSE, ![b].force = FALSE,
                          ![b].owner = None]
      needed == [off EXCEPT ![b].needed = TRUE]
      taken  == [needed EXCEPT ![b].taken = TRUE]
  IN  /\ wq' = Enqueue(b)
      /\ \/ /\ ~Quiet(b, L)
            /\ lbb' = off /\ UNCHANGED <<lw, io>>
         \/ /\ Quiet(b, L) /\ WritesItself(t, waits)
            /\ lbb' = taken /\ io' = [io EXCEPT ![t].buf = b] /\ UNCHANGED lw
         \/ /\ Quiet(b, L) /\ ~WritesItself(t, waits)
            /\ \E w \in Idle :
                  /\ lbb' = taken /\ io' = [io EXCEPT ![w].buf = b]
                  /\ lw' = [lw EXCEPT ![w].pc = "run"]
         \/ /\ Quiet(b, L) /\ ~WritesItself(t, waits) /\ Idle = {}
            /\ lbb' = needed /\ UNCHANGED <<lw, io>>

(* A session waits on current buffer b with others, count in all: the page *)
(* is written now if nobody else can add to it or there is no group        *)
(* commit, or it is left to the group commit thread.                       *)
WriteNow(b, L, count) ==
  \/ setup.optim /\ Lone
  \/ count + L[b].commits >= Protected

MarksForce(b, L, count) ==
  /\ ~WriteNow(b, L, count) /\ ~L[b].force
  /\ Protected > Threshold /\ setup.group

ForceOut(s, b, L, count) ==
  \/ /\ WriteNow(b, L, count) \/ ~(L[b].force \/ MarksForce(b, L, count))
     /\ QueueWrite(s, b, L, TRUE)
  \/ /\ ~WriteNow(b, L, count) /\ (L[b].force \/ MarksForce(b, L, count))
     /\ lbb' = [L EXCEPT ![b].force = TRUE] /\ UNCHANGED <<wq, lw, io>>

(* LG_suspend_lbb: the session waits on b, for the records from lsn on.    *)
SuspendOn(r, b, lsn) ==
  [r EXCEPT !.wait = TRUE, !.lwq = b, !.wlsn = lsn, !.synch = FALSE]

-------------------------------------------------------------------------------
Init ==
  /\ setup \in Setups
  /\ lbb = [b \in Buffers |-> Fresh(0)]
  /\ wq = <<>>
  /\ current \in Buffers
  /\ fq = Buffers /\ fqCount = Cardinality(Buffers)
  /\ lastLsn = 0 /\ eof = 0 /\ forcedLsn = 0
  /\ sess = [s \in Sessions |-> NewSess]
  /\ lw = [w \in LogWriters |-> [pc |-> "asleep", found |-> None]]
  /\ gawake = FALSE
  /\ io = [t \in Threads |-> NoIo]
  /\ rec = <<>> /\ disk = {}

(* A session takes its next step when it has no write in hand.             *)
At(s, pc) == sess[s].pc = pc /\ io[s] = NoIo

-------------------------------------------------------------------------------
(* LGwrite.                                                                *)

(* It drops stray resumes and makes the transaction active.                *)
StartWrite(s) ==
  /\ s \in setup.writers /\ At(s, "idle") /\ ~sess[s].wait
  /\ lastLsn + Cardinality({t \in Sessions : sess[t].pc \in {"log", "sleep"}}) < MaxLsn
  /\ \E k \in {"plain", "forced", "commit"} :
        sess' = [sess EXCEPT ![s].pc = "log", ![s].kind = k,
                             ![s].active = TRUE, ![s].cs = FALSE]
  /\ UNCHANGED <<setup, queues, current, free, log, forcedLsn, gawake, disk>>

(* Awake, or woken up by a buffer that became free (LG_MUST_SLEEP): the    *)
(* loop of LGwrite sleeps on while LXB_WAIT is set.                        *)
Logging(s) ==
  \/ At(s, "log")
  \/ At(s, "sleep") /\ sess[s].cs /\ ~sess[s].wait

Asleep(r) == [r EXCEPT !.pc = "sleep", !.wait = TRUE, !.cs = FALSE]

(* LG_allocate_lbb: a new current buffer, its mutex kept, or no buffer.    *)
Allocate(s) ==
  /\ Logging(s) /\ ~lbb[current].current
  /\ \/ /\ fqCount = 0
        /\ sess' = [sess EXCEPT ![s] = Asleep(@)]
        /\ UNCHANGED <<lbb, current, free>>
     \/ /\ fqCount > 0
        /\ \E b \in fq :
              /\ lbb' = [lbb EXCEPT ![b] = [Fresh(eof + 1) EXCEPT
                                              !.current = TRUE, !.owner = s]]
              /\ current' = b /\ fq' = fq \ {b}
        /\ fqCount' = fqCount - 1
        /\ sess' = [sess EXCEPT ![s].pc = "log", ![s].cs = FALSE]
  /\ UNCHANGED <<setup, wq, lw, io, log, forcedLsn, gawake, disk>>

(* The record gets its LSN in the current buffer b.                        *)
Stamped(l, lsn) == [l EXCEPT !.first = IF @ = 0 THEN lsn ELSE @, !.last = lsn]

Logged(r, lsn) ==
  [r EXCEPT !.first = IF @ = 0 THEN lsn ELSE @, !.last = lsn, !.cs = FALSE,
            !.target = IF r.kind = "plain" THEN 0 ELSE lsn]

(* The buffer l takes a writer; a full one stops being the current buffer. *)
Entered(l, full) ==
  [l EXCEPT !.writers = @ + 1, !.owner = None, !.current = ~full,
            !.force = @ /\ ~full]

(* The record fits in the current page.                                    *)
LogOnPage(s) ==
  /\ Logging(s) /\ lbb[current].current /\ Free(current, s)
  /\ LET lsn == lastLsn + 1
     IN  /\ lastLsn' = lsn /\ eof' = lbb[current].page
         /\ rec' = Append(rec, <<eof', eof'>>)
         /\ \E full \in BOOLEAN :
               /\ lbb' = [lbb EXCEPT ![current] =
                            [Entered(Stamped(@, lsn), full) EXCEPT !.forced = lsn]]
               /\ wq' = IF full THEN Enqueue(current) ELSE wq
         /\ sess' = [sess EXCEPT ![s] = [Logged(@, lsn) EXCEPT
                                           !.pc = "copy", !.buf = current]]
  /\ UNCHANGED <<setup, current, free, lw, io, forcedLsn, gawake, disk>>

(* Faulty variant of Enough: off by one.                                   *)
EnoughButOne(n) == n <= fqCount + 1

(* n buffers can be reserved.                                              *)
Enough(n) == n <= fqCount

(* The record needs n more pages: reserve them and queue the current one,  *)
(* its mutex kept, or sleep until there are enough.                        *)
LogSpan(s) ==
  /\ Logging(s) /\ lbb[current].current /\ Free(current, s)
  /\ LET lsn == lastLsn + 1
     IN  \E n \in 1..setup.span :
           \/ /\ ~Enough(n)
              /\ sess' = [sess EXCEPT ![s] = Asleep(@)]
              /\ lbb' = [lbb EXCEPT ![current].owner = None]
              /\ UNCHANGED <<wq, fqCount, log>>
           \/ /\ Enough(n)
              /\ fqCount' = fqCount - n
              /\ lastLsn' = lsn /\ eof' = lbb[current].page
              /\ rec' = Append(rec, <<eof', 0>>)
              /\ lbb' = [lbb EXCEPT ![current] =
                           [Stamped(@, lsn) EXCEPT !.forced = lbb[current].last,
                                                   !.owner = s]]
              /\ wq' = Enqueue(current)
              /\ sess' = [sess EXCEPT ![s] = [Logged(@, lsn) EXCEPT
                            !.pc = "span", !.n = n, !.head = current]]
  /\ UNCHANGED <<setup, current, fq, lw, io, forcedLsn, gawake, disk>>

(* The next page of the record, from a reserved buffer: filled and queued, *)
(* or the last one, which becomes the current buffer, its mutex kept.      *)
SpanNext(s) ==
  /\ At(s, "span")
  /\ \E b \in fq :
       LET new == [Stamped(Fresh(eof + 1), sess[s].last) EXCEPT !.owner = s]
       IN  /\ fq' = fq \ {b} /\ eof' = eof + 1
           /\ \/ /\ sess[s].n > 1
                 /\ QueueWrite(s, b, [lbb EXCEPT ![b] = new], FALSE)
                 /\ sess' = [sess EXCEPT ![s].n = @ - 1]
                 /\ UNCHANGED <<current, rec>>
              \/ /\ sess[s].n = 1
                 /\ lbb' = [lbb EXCEPT ![b] =
                              [new EXCEPT !.forced = sess[s].last, !.current = TRUE]]
                 /\ current' = b /\ rec' = [rec EXCEPT ![sess[s].last][2] = eof']
                 /\ sess' = [sess EXCEPT ![s].n = 0, ![s].buf = b, ![s].pc = "release"]
                 /\ UNCHANGED <<wq, lw, io>>
  /\ UNCHANGED <<setup, fqCount, lastLsn, forcedLsn, gawake, disk>>

(* The first page of the record may be written now.                        *)
SpanRelease(s) ==
  /\ At(s, "release")
  /\ QueueWrite(s, sess[s].head, lbb, FALSE)
  /\ sess' = [sess EXCEPT ![s].head = None, ![s].pc = "place"]
  /\ UNCHANGED <<setup, current, free, log, forcedLsn, gawake, disk>>

SpanPlace(s) ==
  /\ At(s, "place")
  /\ \E full \in BOOLEAN :
        /\ lbb' = [lbb EXCEPT ![sess[s].buf] = Entered(@, full)]
        /\ wq' = IF full THEN Enqueue(sess[s].buf) ELSE wq
  /\ sess' = [sess EXCEPT ![s].pc = "copy"]
  /\ UNCHANGED <<setup, lw, io, current, free, log, forcedLsn, gawake, disk>>

(* The record is copied.  With LG_FORCE the session waits on the buffer;   *)
(* the last writer of a queued buffer has it written.                      *)
Copied(s) ==
  LET b      == sess[s].buf
      forced == sess[s].kind # "plain"
      L      == [lbb EXCEPT ![b].writers = @ - 1,
                            ![b].commits = IF sess[s].kind = "commit" THEN @ + 1 ELSE @]
      count  == Cardinality(WaitersOn(b)) + 1
      last   == L[b].writers = 0 /\ OnQueue(b)
      marks  == forced /\ ~last /\ MarksForce(b, L, count)
      mine   == [sess[s] EXCEPT !.pc = IF marks THEN "wake" ELSE "return",
                                !.buf = None]
      lsn    == IF mine.kind = "commit" THEN mine.first ELSE mine.last
  IN  /\ At(s, "copy") /\ lbb[b].owner = None
      /\ \/ last /\ QueueWrite(s, b, L, forced)
         \/ ~last /\ forced /\ ForceOut(s, b, L, count)
         \/ ~last /\ ~forced /\ lbb' = L /\ UNCHANGED <<wq, lw, io>>
      /\ sess' = [sess EXCEPT ![s] = IF forced THEN SuspendOn(mine, b, lsn)
                                               ELSE mine]
      /\ UNCHANGED <<setup, current, free, log, forcedLsn, gawake, disk>>

(* The group commit thread is awakened if it sleeps.                       *)
WakeGcmt(s) ==
  /\ At(s, "wake")
  /\ gawake' = TRUE
  /\ sess' = [sess EXCEPT ![s].pc = "return"]
  /\ UNCHANGED <<setup, queues, current, free, log, forcedLsn, disk>>

-------------------------------------------------------------------------------
(* LGforce.                                                                *)

(* The records whose LGwrite has put them into the buffers.                *)
Known == {l \in 1..lastLsn : \A t \in Sessions :
            sess[t].last = l => sess[t].pc \notin {"span", "release", "place", "copy"}}

(* What a caller may ask for: the log up to the last record of its own     *)
(* transaction, up to a record, or all of it (LG_LAST).                    *)
Highest(S) == IF S = {} THEN 0 ELSE CHOOSE x \in S : \A y \in S : y <= x

EndOfLog(s) ==
  LET top == IF lbb[current].current THEN lbb[current].last ELSE 0
      queued == Highest({lbb[b].forced : b \in Members(wq)})
  IN  CASE top # 0 -> top
        [] top = 0 /\ queued # 0 -> queued
        [] OTHER -> sess[s].last

Aims(s) ==
  {[target |-> sess[s].last, wlsn |-> sess[s].first],
   [target |-> EndOfLog(s), wlsn |-> 0]}
  \cup {[target |-> l, wlsn |-> l] : l \in Known}

(* The buffer on the write queue that has the highest records up to lsn.   *)
Target(lsn) ==
  LET in == {i \in DOMAIN wq : lbb[wq[i]].first <= lsn}
      top == {i \in in : \A j \in in : lbb[wq[j]].first <= lbb[wq[i]].first}
  IN  IF lsn < forcedLsn \/ in = {} THEN None ELSE wq[Highest(top)]

(* No buffer to wait on: the records are on disk (LG_SYNCH).  Or one to    *)
(* attach to, the mutexes of the queue and the current buffer released.    *)
SeekOn(r) ==
  IF Target(r.target) = None
    THEN [r EXCEPT !.pc = "return", !.buf = None, !.synch = TRUE]
    ELSE [r EXCEPT !.pc = "attach", !.buf = Target(r.target)]

LGforce(s) ==
  /\ s \in setup.forcers /\ At(s, "idle") /\ ~sess[s].wait
  /\ \E aim \in Aims(s) :
       LET b     == current
           call  == [sess[s] EXCEPT !.kind = "force", !.target = aim.target,
                                    !.wlsn = aim.wlsn]
           here  == /\ lbb[b].current /\ lbb[b].first # 0
                    /\ lbb[b].first <= aim.target
           count == Cardinality(WaitersOn(b)) + 1
       IN  \/ /\ aim.target < forcedLsn
              /\ sess' = [sess EXCEPT ![s] = [call EXCEPT !.pc = "return", !.synch = TRUE]]
              /\ UNCHANGED queues
           \/ /\ aim.target >= forcedLsn /\ here /\ lbb[b].owner = None
              /\ ForceOut(s, b, lbb, count)
              /\ sess' = [sess EXCEPT ![s] =
                            [SuspendOn(call, b, aim.wlsn) EXCEPT !.pc =
                               IF MarksForce(b, lbb, count) THEN "wake" ELSE "return"]]
           \/ /\ aim.target >= forcedLsn /\ ~here /\ lbb[b].owner = None
              /\ sess' = [sess EXCEPT ![s] = SeekOn(call)]
              /\ UNCHANGED queues
  /\ UNCHANGED <<setup, current, free, log, forcedLsn, gawake, disk>>

(* Faulty variant of StillThere: the buffer is not looked at again.        *)
StillThereBlindly(b, lsn) == TRUE

StillThere(b, lsn) == OnQueue(b) /\ lbb[b].first <= lsn

(* The buffer is looked at again under its own mutex: it may have been     *)
(* written, or be another page by now.                                     *)
Attach(s) ==
  LET b == sess[s].buf
  IN  /\ At(s, "attach") /\ lbb[b].owner = None
      /\ sess' = [sess EXCEPT ![s] =
                    IF StillThere(b, @.target)
                      THEN [SuspendOn(@, b, @.wlsn) EXCEPT !.pc = "return", !.buf = None]
                      ELSE SeekOn(@)]
      /\ UNCHANGED <<setup, queues, current, free, log, forcedLsn, gawake, disk>>

(* The call returns: at once (LG_SYNCH, or nothing to wait for), or when   *)
(* CSsuspend has consumed a resume.  LGwrite suspends again while LXB_WAIT *)
(* is set, LGforce does not.  A commit ends the transaction.               *)
MayReturn(r) ==
  \/ r.kind = "plain" \/ r.synch
  \/ r.cs /\ (r.kind = "force" \/ ~r.wait)

Return(s) ==
  LET r == sess[s]
      ends == r.kind = "commit"
  IN  /\ At(s, "return") /\ MayReturn(r)
      /\ sess' = [sess EXCEPT ![s] =
           [NewSess EXCEPT !.active = r.active /\ ~ends,
                           !.first = IF ends THEN 0 ELSE r.first,
                           !.last  = IF ends THEN 0 ELSE r.last,
                           !.wait = r.wait, !.lwq = r.lwq,
                           !.cs = r.cs /\ (r.synch \/ r.kind = "plain")]]
      /\ UNCHANGED <<setup, queues, current, free, log, forcedLsn, gawake, disk>>

(* A resume meant for something else: LockSession's late resume of a       *)
(* deadlock victim that has timed out is one.                              *)
StrayResume(s) ==
  /\ s \in setup.stray /\ ~sess[s].cs
  /\ sess' = [sess EXCEPT ![s].cs = TRUE]
  /\ UNCHANGED <<setup, queues, current, free, log, forcedLsn, gawake, disk>>

-------------------------------------------------------------------------------
(* Writing a buffer: write_block and write_complete.                       *)

(* The run of the queue from lo to hi that holds b may be one write: pages *)
(* that follow one another, the others waiting to be written.              *)
Superblock(b, lo, hi) ==
  /\ lo <= Position(b) /\ Position(b) <= hi
  /\ lo < hi => setup.optim
  /\ \A i \in lo..hi : wq[i] = b \/ Unassigned(wq[i])
  /\ \A i \in lo..(hi - 1) : lbb[wq[i + 1]].page = lbb[wq[i]].page + 1

(* The thread takes the neighbours it can write along and does the I/O.    *)
WriteBlock(t) ==
  /\ io[t].buf # None
  /\ \E lo \in DOMAIN wq : \E hi \in DOMAIN wq :
       LET run == SubSeq(wq, lo, hi)
       IN  /\ Superblock(io[t].buf, lo, hi)
           /\ lbb' = [b \in Buffers |-> IF b \in Members(run)
                                          THEN [lbb[b] EXCEPT !.taken = TRUE] ELSE lbb[b]]
           /\ io' = [io EXCEPT ![t] = [NoIo EXCEPT !.todo = run]]
           /\ disk' = disk \cup {lbb[b].page : b \in Members(run)}
  /\ sess' = IF t \in Sessions THEN [sess EXCEPT ![t].synch = TRUE] ELSE sess
  /\ UNCHANGED <<setup, wq, lw, current, free, log, forcedLsn, gawake>>

(* Faulty variant of MovesOn: the buffer before the written one is ignored. *)
MovesOnNever(s, g, top) == FALSE

(* Session s waits for records that the buffer g before the written one,   *)
(* whose last complete record is top by now, does not leave behind.        *)
MovesOn(s, g, top) == g # None /\ sess[s].wlsn <= top

(* The waiters of the written buffer b: they go on to wait on the buffer g *)
(* before it, if there is one; else thread t itself need not wait, and the *)
(* others are resumed.                                                     *)
Relieved(t, b, g, top) ==
  LET moved == {s \in WaitersOn(b) : MovesOn(s, g, top)}
  IN  [s \in Sessions |->
        CASE s \in moved -> [sess[s] EXCEPT !.lwq = g, !.synch = @ /\ s # t]
          [] s \in WaitersOn(b) \ moved ->
               [sess[s] EXCEPT !.wait = FALSE, !.lwq = None,
                               !.cs = @ \/ s # t, !.synch = @ \/ s = t]
          [] s \notin WaitersOn(b) ->
               [sess[s] EXCEPT !.synch = @ /\ ~(s = t /\ WaitersOn(b) # {}
                                                /\ sess[s].wait)]]

(* Faulty variant of NowForced: the buffer before is ignored.              *)
NowForcedAnyway(g, top) == IF top # 0 THEN top ELSE forcedLsn

NowForced(g, top) == IF g = None /\ top # 0 THEN top ELSE forcedLsn

(* One written buffer leaves the write queue.  Its predecessor is locked,  *)
(* unless it is the first page of a record that a session spans: then the  *)
(* session itself is writing, and owns it.                                 *)
Complete(t) ==
  /\ io[t].todo # <<>>
  /\ LET b == Head(io[t].todo)
         g == Before(b)
         top == IF g = None THEN lbb[b].forced ELSE Higher(lbb[b].forced, lbb[g].forced)
     IN  /\ g # None => \/ lbb[g].owner = None
                        \/ lbb[g].current /\ t \notin LogWriters
         /\ wq' = Without(b)
         /\ forcedLsn' = NowForced(g, top)
         /\ lbb' = [x \in Buffers |->
                      CASE x = b -> Fresh(0)
                        [] x = g -> [lbb[g] EXCEPT !.forced = top]
                        [] OTHER -> lbb[x]]
         /\ sess' = Relieved(t, b, g, top)
         /\ io' = [io EXCEPT ![t].todo = Tail(@), ![t].freed = @ \cup {b}]
  /\ UNCHANGED <<setup, lw, current, free, log, gawake, disk>>

(* Faulty variant of Freed: a superblock counts as one buffer.             *)
FreedOnce(t) == 1

Freed(t) == Cardinality(io[t].freed)

(* All buffers of the write return to the free queue, and whoever waits    *)
(* for a free buffer is resumed.  A logwriter looks for another buffer.    *)
ReturnBuffers(t) ==
  /\ io[t].todo = <<>> /\ io[t].freed # {}
  /\ fq' = fq \cup io[t].freed
  /\ fqCount' = fqCount + Freed(t)
  /\ sess' = [s \in Sessions |->
                IF sess[s].pc = "sleep" /\ sess[s].wait
                  THEN [sess[s] EXCEPT !.wait = FALSE, !.cs = TRUE] ELSE sess[s]]
  /\ io' = [io EXCEPT ![t] = NoIo]
  /\ lw' = IF t \in LogWriters THEN [lw EXCEPT ![t].pc = "scan"] ELSE lw
  /\ UNCHANGED <<setup, lbb, wq, current, log, forcedLsn, gawake, disk>>

-------------------------------------------------------------------------------
(* The logwriters.                                                         *)

(* The first buffer on the write queue that waits to be written.           *)
Scan(w) ==
  LET open == {i \in DOMAIN wq : Unassigned(wq[i])}
      next == CHOOSE i \in open : \A j \in open : i <= j
  IN  /\ lw[w].pc = "scan"
      /\ lw' = [lw EXCEPT ![w] = IF open = {} THEN [pc |-> "park", found |-> None]
                                 ELSE [pc |-> "recheck", found |-> wq[next]]]
      /\ UNCHANGED <<setup, lbb, wq, io, sess, current, free, log, forcedLsn, gawake, disk>>

(* It is looked at again under its own mutex; if another thread has taken  *)
(* it, the logwriter gives up.                                             *)
Recheck(w) ==
  LET b == lw[w].found
  IN  /\ lw[w].pc = "recheck" /\ lbb[b].owner = None
      /\ IF Unassigned(b)
            THEN /\ lbb' = [lbb EXCEPT ![b].taken = TRUE]
                 /\ io' = [io EXCEPT ![w].buf = b]
                 /\ lw' = [lw EXCEPT ![w] = [pc |-> "run", found |-> None]]
            ELSE /\ lw' = [lw EXCEPT ![w] = [pc |-> "park", found |-> None]]
                 /\ UNCHANGED <<lbb, io>>
      /\ UNCHANGED <<setup, wq, sess, current, free, log, forcedLsn, gawake, disk>>

(* LG_write_block returns: LXB_WAIT is set and the thread suspends.        *)
Park(w) ==
  /\ lw[w].pc = "park"
  /\ lw' = [lw EXCEPT ![w].pc = "asleep"]
  /\ UNCHANGED <<setup, lbb, wq, io, sess, current, free, log, forcedLsn, gawake, disk>>

(* Faulty variant of CheckDead: nobody looks after the logwriter.          *)
CheckDeadNever == FALSE /\ UNCHANGED vars

(* LG_check_dead, run now and then: a lone logwriter that sleeps while the *)
(* oldest buffer waits to be written is given it.                          *)
CheckDead ==
  /\ Lone /\ wq # <<>>
  /\ Unassigned(Head(wq)) /\ lbb[Head(wq)].owner = None
  /\ \E w \in Idle :
        /\ io[w].buf = None
        /\ lbb' = [lbb EXCEPT ![Head(wq)].taken = TRUE]
        /\ io' = [io EXCEPT ![w].buf = Head(wq)]
        /\ lw' = [lw EXCEPT ![w].pc = "run"]
  /\ UNCHANGED <<setup, wq, sess, current, free, log, forcedLsn, gawake, disk>>

-------------------------------------------------------------------------------
(* The group commit thread (LG_pgyback_write).                             *)

GcmtWrite ==
  /\ gawake /\ io[Gcmt] = NoIo
  /\ lbb[current].current /\ lbb[current].force
  /\ lbb[current].writers = 0 /\ lbb[current].owner = None
  /\ QueueWrite(Gcmt, current, lbb, FALSE)
  /\ UNCHANGED <<setup, sess, current, free, log, forcedLsn, gawake, disk>>

(* No forced current buffer to watch: back to sleep.                       *)
GcmtSleep ==
  /\ gawake /\ io[Gcmt] = NoIo
  /\ ~lbb[current].force
  /\ gawake' = FALSE
  /\ UNCHANGED <<setup, queues, sess, current, free, log, forcedLsn, disk>>

-------------------------------------------------------------------------------
(* What goes on without a new call.                                        *)
InCall(s) ==
  \/ Allocate(s) \/ LogOnPage(s) \/ LogSpan(s) \/ SpanNext(s) \/ SpanRelease(s)
  \/ SpanPlace(s) \/ Copied(s) \/ WakeGcmt(s) \/ Attach(s) \/ Return(s)

Writing(t) == WriteBlock(t) \/ Complete(t) \/ ReturnBuffers(t)
LogWriter(w) == Scan(w) \/ Recheck(w) \/ Park(w)

Next ==
  \/ \E s \in Sessions : InCall(s) \/ StartWrite(s) \/ LGforce(s) \/ StrayResume(s)
  \/ \E t \in Threads : Writing(t)
  \/ \E w \in LogWriters : LogWriter(w)
  \/ CheckDead \/ GcmtWrite \/ GcmtSleep

Spec == Init /\ [][Next]_vars

(* Threads run; nobody has to begin a call.                                *)
FairSpec ==
  /\ Spec
  /\ \A s \in Sessions : WF_vars(InCall(s))
  /\ \A t \in Threads : WF_vars(Writing(t))
  /\ \A w \in LogWriters : WF_vars(LogWriter(w))
  /\ WF_vars(CheckDead) /\ WF_vars(GcmtWrite \/ GcmtSleep)

-------------------------------------------------------------------------------
(* Properties.                                                             *)

(* Every variable has its type.                                            *)
TypeOK ==
  /\ setup \in Setups
  /\ lbb \in [Buffers -> LbbType]
  /\ wq \in Seq(Buffers) /\ current \in Buffers
  /\ fq \subseteq Buffers /\ fqCount \in 0..Cardinality(Buffers)
  /\ lastLsn \in Lsn /\ forcedLsn \in Lsn /\ eof \in Page
  /\ sess \in [Sessions -> SessType]
  /\ lw \in [LogWriters -> LwType]
  /\ gawake \in BOOLEAN
  /\ io \in [Threads -> IoType]
  /\ rec \in Seq(Page \X Page) /\ Len(rec) = lastLsn
  /\ disk \subseteq Page

OnDisk(l) == rec[l][2] # 0 /\ rec[l][1]..rec[l][2] \subseteq disk

(* The last record of the part of the log that is on disk without a gap.   *)
Durable == Highest({l \in 1..lastLsn : \A k \in 1..l : OnDisk(k)})

(* The LSN that LGforce returns as the last forced one ("ALL records with  *)
(* lower LSN's are known to be safely on disk already", lgforce.c) never   *)
(* runs ahead of the disk, in whatever order the buffers are written and   *)
(* their I/Os complete.                                                    *)
ForcedLsnDurable == forcedLsn <= Durable

(* A session waits only on a buffer that some thread will still write: the *)
(* current buffer or one on the write queue ("This buffer cannot be left   *)
(* in limbo", LG_queue_write).                                             *)
NoWaiterInLimbo ==
  \A s \in Sessions : sess[s].wait /\ sess[s].lwq # None =>
     \/ OnQueue(sess[s].lwq)
     \/ sess[s].lwq = current /\ lbb[current].current

(* The buffers reserved for the records that sessions are writing, and     *)
(* where a buffer can be.                                                  *)
Claims ==
  {c \in Sessions \X (1..Cardinality(Buffers)) :
     sess[c[1]].pc = "span" /\ c[2] <= sess[c[1]].n}

Places(b) == <<b \in fq, OnQueue(b), lbb[b].current /\ ~OnQueue(b)>>

(* Every buffer is in one place: free, current, on the write queue, or     *)
(* held by the session that spans a record or the thread that completes    *)
(* its write; and the free count leaves out what spanning sessions have    *)
(* reserved, so that a record begun always finds its buffers.              *)
BuffersAccounted ==
  /\ fqCount + Cardinality(Claims) = Cardinality(fq)
  /\ \A b \in Buffers :
        Cardinality({i \in 1..3 : Places(b)[i]})
          + Cardinality({t \in Threads : b \in io[t].freed}) = 1

(* The write queue is in the order of the pages ("Buffers are always       *)
(* placed on the write queue in ascending LGA order", write_complete) and  *)
(* no page is on it twice: the buffer before a written one is the only one *)
(* its waiters may have to wait for.                                       *)
WriteQueueOrder ==
  \A i, j \in DOMAIN wq : i < j => lbb[wq[i]].page < lbb[wq[j]].page

(* A page is written by one thread, and whole: no session still copies its *)
(* record into it, and none can enter it any more.                         *)
PagesWrittenWhole ==
  /\ \A t, u \in Threads : t # u => InHand(t) \cap InHand(u) = {}
  /\ \A t \in Threads : \A b \in InHand(t) :
        OnQueue(b) /\ lbb[b].writers = 0 /\ ~lbb[b].current

(* Sessions that wait for the disk get what they were promised: the log    *)
(* keeps the specification LogDurable.                                     *)
Promise(s) == IF sess[s].pc \in {"idle", "log", "sleep"} THEN 0 ELSE sess[s].target

Log == INSTANCE LogDurable WITH
         logged <- lastLsn, durable <- Durable,
         promise <- [s \in Sessions |-> Promise(s)]

KeepsPromises == Log!Spec

(* Every call returns: no waiter is forgotten when its buffer is written   *)
(* or when it goes from one buffer to another, nor a session that waits    *)
(* for free buffers, nor a buffer left to the group commit thread.         *)
CallsReturn == \A s \in Sessions : sess[s].pc # "idle" ~> sess[s].pc = "idle"

(* LG_queue_write: "If no logwriter thread is available, the buffer is     *)
(* queued and will be written once an already started I/O completes".      *)
QueuedIsWritten ==
  \A b \in Buffers : Unassigned(b) ~> ~Unassigned(b)
=============================================================================
