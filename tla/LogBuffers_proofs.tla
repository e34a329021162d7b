-------------------------- MODULE LogBuffers_proofs --------------------------
(***************************************************************************)
(* Proofs about LogForce for any number of sessions, logwriters and        *)
(* buffers: no buffer is lost or in two places, what sessions reserve is   *)
(* there when they take it, and all variables stay within their types.     *)
(***************************************************************************)
EXTENDS LogForce_proofs

-------------------------------------------------------------------------------
(* The inductive invariant, beside LogSound and DiskSound.                 *)

Pages   == Cardinality(Buffers)
LastPage == MaxLsn * (Pages + 1)
Pending == {s \in Sessions : sess[s].pc \in {"log", "sleep"}}

(* A thread that gets a buffer to write has returned those it has written. *)
HandsFree == \A t \in Threads : io[t].buf # None => io[t].freed = {}

(* Every buffer is somewhere.                                              *)
Somewhere ==
  \A b \in Buffers : \/ b \in fq \/ OnQueue(b) \/ lbb[b].current
                     \/ \E t \in Threads : b \in io[t].freed

(* lfb_fq_count leaves out what the spanning sessions still have to take.  *)
Counted ==
  /\ fqCount \in Nat
  /\ fqCount + Cardinality(Claims) = Cardinality(fq)

(* There is an LSN left for each session that is to log a record, and      *)
(* there are as many pages as the records can use.                         *)
LsnsLeft  == lastLsn + Cardinality(Pending) <= MaxLsn
PagesLeft == eof + Cardinality(Claims) <= lastLsn * Pages

PagesWithin ==
  /\ \A b \in Buffers : lbb[b].page <= LastPage
  /\ disk \subseteq 0..LastPage

(* What a call knows of the log, and what it has reserved.                 *)
Sane(r, top) ==
  /\ r.first <= top /\ r.target <= top /\ r.wlsn <= top
  /\ r.n <= Pages /\ (r.pc = "span" => r.n # 0)

SessionsSane == \A s \in Sessions : Sane(sess[s], lastLsn)

BuffersSound ==
  /\ HandsFree /\ Somewhere /\ Counted /\ LsnsLeft /\ PagesLeft /\ PagesWithin
  /\ SessionsSane /\ gawake \in BOOLEAN

-------------------------------------------------------------------------------
(* Counting.                                                               *)

LEMMA PagesNat == Pages \in Nat /\ LastPage \in Nat
<1>1. Pages \in Nat
  BY BoundsAssumption, FS_CardinalityType DEF Pages
<1> QED
  BY <1>1, BoundsAssumption DEF LastPage

LEMMA FreeFinite ==
  ASSUME Shape
  PROVE  IsFiniteSet(fq) /\ Cardinality(fq) \in Nat /\ Cardinality(fq) <= Pages
<1>1. fq \in SUBSET Buffers
  BY DEF Shape
<1>2. IsFiniteSet(fq) /\ Cardinality(fq) <= Pages
  BY <1>1, BoundsAssumption, FS_Subset DEF Pages
<1> QED
  BY <1>2, FS_CardinalityType

LEMMA ClaimsFinite ==
  /\ IsFiniteSet(Claims) /\ Cardinality(Claims) \in Nat
  /\ IsFiniteSet(Claims') /\ Cardinality(Claims') \in Nat
<1> DEFINE All == Sessions \X (1..Pages)
<1>1. IsFiniteSet(1..Pages)
  BY PagesNat, FS_Interval
<1>2. IsFiniteSet(All)
  BY <1>1, ThreadsAssumption, FS_Product
<1>3. Claims \in SUBSET All /\ Claims' \in SUBSET All
  BY DEF Claims, Pages
<1>4. IsFiniteSet(Claims) /\ IsFiniteSet(Claims')
  BY <1>2, <1>3, FS_Subset
<1> QED
  BY <1>4, FS_CardinalityType

LEMMA PendingFinite ==
  /\ IsFiniteSet(Pending) /\ Cardinality(Pending) \in Nat
  /\ IsFiniteSet(Pending') /\ Cardinality(Pending') \in Nat
<1>1. Pending \in SUBSET Sessions /\ Pending' \in SUBSET Sessions
  BY DEF Pending
<1>2. IsFiniteSet(Pending) /\ IsFiniteSet(Pending')
  BY <1>1, ThreadsAssumption, FS_Subset
<1> QED
  BY <1>2, FS_CardinalityType

(* Sessions that neither begin to span nor take a buffer.                  *)
SpansStand ==
  \A s \in Sessions : /\ sess'[s].pc = "span" <=> sess[s].pc = "span"
                      /\ sess[s].pc = "span" => sess'[s].n = sess[s].n

LEMMA ClaimsStand ==
  ASSUME SpansStand
  PROVE  Claims' = Claims
BY DEF Claims, SpansStand

(* Session s reserves n buffers.                                           *)
LEMMA ClaimsBegun ==
  ASSUME NEW s \in Sessions, NEW n \in 1..Pages, sess[s].pc # "span",
         sess'[s].pc = "span", sess'[s].n = n,
         \A u \in Sessions \ {s} : sess'[u] = sess[u]
  PROVE  Cardinality(Claims') = Cardinality(Claims) + n
<1> DEFINE New == {s} \X (1..n)
<1>1. n \in Nat /\ Pages \in Nat
  BY PagesNat
<1>2. IsFiniteSet(New) /\ Cardinality(New) = n
  <2>1. IsFiniteSet(1..n) /\ Cardinality(1..n) = n
    BY <1>1, FS_Interval
  <2>2. IsFiniteSet({s}) /\ Cardinality({s}) = 1
    BY FS_Singleton
  <2> QED
    BY <1>1, <2>1, <2>2, FS_Product
<1>3. Claims' = Claims \cup New
  <2>1. ASSUME NEW c \in Claims' PROVE c \in Claims \cup New
    <3>1. /\ c \in Sessions \X (1..Pages) /\ sess'[c[1]].pc = "span"
          /\ c[2] <= sess'[c[1]].n
      BY <2>1 DEF Claims, Pages
    <3>2. CASE c[1] = s
      BY <1>1, <3>1, <3>2
    <3>3. CASE c[1] # s
      BY <3>1, <3>3 DEF Claims, Pages
    <3> QED
      BY <3>2, <3>3
  <2>2. ASSUME NEW c \in Claims PROVE c \in Claims'
    <3>1. /\ c \in Sessions \X (1..Pages) /\ sess[c[1]].pc = "span"
          /\ c[2] <= sess[c[1]].n
      BY <2>2 DEF Claims, Pages
    <3>2. c[1] \in Sessions \ {s}
      BY <3>1
    <3> QED
      BY <3>1, <3>2 DEF Claims, Pages
  <2>3. ASSUME NEW c \in New PROVE c \in Claims'
    <3>1. c \in Sessions \X (1..Pages) /\ c[1] = s /\ c[2] <= n
      BY <1>1
    <3> QED
      BY <3>1 DEF Claims, Pages
  <2> QED
    BY <2>1, <2>2, <2>3
<1>4. Claims \cap New = {}
  BY DEF Claims
<1>5. IsFiniteSet(Claims) /\ Cardinality(Claims) \in Nat
  BY ClaimsFinite
<1> HIDE DEF New
<1>6. Cardinality(Claims \cup New)
        = Cardinality(Claims) + Cardinality(New) - Cardinality(Claims \cap New)
  BY <1>2, <1>5, FS_Union
<1>7. Cardinality(Claims \cap New) = 0
  BY <1>4, FS_EmptySet
<1> QED
  BY <1>1, <1>2, <1>3, <1>5, <1>6, <1>7

(* Session s takes one of the buffers it has reserved.                     *)
LEMMA ClaimTaken ==
  ASSUME NEW s \in Sessions, NEW n \in 1..Pages, sess[s].pc = "span", sess[s].n = n,
         \/ sess'[s].pc = "span" /\ sess'[s].n = n - 1
         \/ sess'[s].pc # "span" /\ n = 1,
         \A u \in Sessions \ {s} : sess'[u] = sess[u]
  PROVE  Cardinality(Claims') = Cardinality(Claims) - 1
<1>1. n \in Nat /\ Pages \in Nat
  BY PagesNat
<1>2. <<s, n>> \in Claims
  BY <1>1 DEF Claims, Pages
<1>3. Claims' = Claims \ {<<s, n>>}
  <2>1. ASSUME NEW c \in Sessions \X (1..Pages)
        PROVE  c \in Claims' <=> c \in Claims \ {<<s, n>>}
    <3>1. c[1] \in Sessions /\ c[2] \in Nat \ {0} /\ c = <<c[1], c[2]>>
      BY <1>1
    <3>2. CASE c[1] = s
      <4>1. c \in Claims <=> c[2] <= n
        BY <3>2 DEF Claims, Pages
      <4>2. c \in Claims' <=> c[2] <= n - 1
        BY <1>1, <3>1, <3>2 DEF Claims, Pages
      <4>3. c = <<s, n>> <=> c[2] = n
        BY <3>1, <3>2
      <4> QED
        BY <1>1, <3>1, <4>1, <4>2, <4>3
    <3>3. CASE c[1] # s
      <4>1. c \in Claims <=> c \in Claims'
        BY <3>1, <3>3 DEF Claims, Pages
      <4> QED
        BY <3>3, <4>1
    <3> QED
      BY <3>2, <3>3
  <2> QED
    BY <2>1 DEF Claims, Pages
<1>4. IsFiniteSet(Claims)
  BY ClaimsFinite
<1> QED
  BY <1>2, <1>3, <1>4, FS_RemoveElement

LEMMA PendingFewer ==
  ASSUME LsnsLeft, Shape, Pending' \subseteq Pending, lastLsn' = lastLsn
  PROVE  LsnsLeft'
<1>1. Cardinality(Pending') <= Cardinality(Pending)
  BY PendingFinite, FS_Subset
<1> QED
  BY <1>1, PendingFinite, BoundsAssumption DEF LsnsLeft, Shape

-------------------------------------------------------------------------------
(* Where the buffers are.                                                  *)

(* A thread with nothing in hand may get a buffer.                         *)
Lends ==
  \/ io' = io
  \/ \E u \in Threads : \E b \in Buffers :
        io[u] = NoIo /\ io' = [io EXCEPT ![u].buf = b]

LEMMA LendsFree ==
  ASSUME Shape, HandsFree, Lends
  PROVE  HandsFree' /\ \A t \in Threads : io'[t].freed = io[t].freed
<1>1. CASE io' = io
  BY <1>1 DEF HandsFree
<1>2. ASSUME NEW u \in Threads, NEW b \in Buffers, io[u] = NoIo,
             io' = [io EXCEPT ![u].buf = b]
      PROVE  HandsFree' /\ \A t \in Threads : io'[t].freed = io[t].freed
  <2>1. /\ \A t \in Threads : io'[t].freed = io[t].freed
        /\ \A t \in Threads \ {u} : io'[t] = io[t]
    BY <1>2, HandOver
  <2>2. io[u].freed = {}
    BY <1>2 DEF NoIo
  <2> QED
    BY <2>1, <2>2 DEF HandsFree
<1> QED
  BY <1>1, <1>2 DEF Lends

LEMMA QueueWriteLends ==
  ASSUME LogSound, NEW t \in Threads, NEW b \in Buffers, NEW L, NEW waits,
         io[t] = NoIo, QueueWrite(t, b, L, waits)
  PROVE  Lends
<1>1. ASSUME NEW w \in Idle PROVE w \in Threads /\ io[w] = NoIo
  <2>1. w \in LogWriters /\ lw[w].pc = "asleep"
    BY <1>1, PoolStarted DEF Idle, LogSound
  <2> QED
    BY <2>1 DEF LogSound, WritersApart, Threads
<1>2. \/ io' = io \/ io' = [io EXCEPT ![t].buf = b]
      \/ \E w \in Idle : io' = [io EXCEPT ![w].buf = b]
  BY DEF QueueWrite
<1> QED
  BY <1>1, <1>2 DEF Lends

(* Nobody takes a buffer from where it is.                                 *)
LEMMA PlacesStay ==
  ASSUME Somewhere, fq \subseteq fq', Members(wq) \subseteq Members(wq'),
         \A x \in Buffers : lbb[x].current => lbb'[x].current \/ x \in Members(wq'),
         \A t \in Threads : io[t].freed \subseteq io'[t].freed
  PROVE  Somewhere'
BY DEF Somewhere, OnQueue

LEMMA PagesMovePlaces ==
  ASSUME LogSound, BuffersSound, PagesMove, Lends, fq' = fq
  PROVE  /\ HandsFree' /\ Somewhere'
         /\ \A x \in Buffers : lbb'[x].page = lbb[x].page
<1>1. HandsFree' /\ \A t \in Threads : io'[t].freed = io[t].freed
  BY LendsFree DEF LogSound, BuffersSound
<1>2. CASE lbb' = lbb /\ wq' = wq /\ io' = io /\ current' = current
  BY <1>1, <1>2, PlacesStay DEF BuffersSound
<1>3. ASSUME NEW b \in Buffers, PageStep(b)
      PROVE  Somewhere' /\ \A x \in Buffers : lbb'[x].page = lbb[x].page
  <2>1. /\ Members(wq) \subseteq Members(wq')
        /\ \A x \in Buffers : lbb'[x].page = lbb[x].page
        /\ \A x \in Buffers : lbb[x].current => lbb'[x].current \/ x \in Members(wq')
    BY <1>3 DEF PageStep
  <2> QED
    BY <1>1, <2>1, PlacesStay DEF BuffersSound
<1> QED
  BY <1>1, <1>2, <1>3 DEF PagesMove

-------------------------------------------------------------------------------
(* Steps that neither reserve nor take a buffer.                           *)

LEMMA StandSound ==
  ASSUME LogSound, BuffersSound, SpansStand, free' = free,
         eof' = eof, lastLsn' = lastLsn, LsnsLeft', HandsFree', Somewhere',
         \A s \in Sessions : Sane(sess'[s], lastLsn),
         \A x \in Buffers : lbb'[x].page = lbb[x].page \/ lbb'[x].page = 0,
         disk' \subseteq disk \cup {lbb[x].page : x \in Buffers}, gawake' \in BOOLEAN
  PROVE  BuffersSound'
<1>1. Claims' = Claims
  BY ClaimsStand
<1>2. Counted' /\ PagesLeft' /\ SessionsSane'
  BY <1>1 DEF BuffersSound, Counted, PagesLeft, SessionsSane, free
<1>3. \A x \in Buffers : lbb[x].page \in 0..LastPage
  BY PagesNat DEF BuffersSound, PagesWithin, LogSound, Shape, BufferType
<1>4. LastPage' = LastPage
  BY DEF LastPage, Pages
<1>5. PagesWithin'
  <2>1. \A x \in Buffers : lbb'[x].page <= LastPage
    BY <1>3, PagesNat
  <2>2. disk' \subseteq 0..LastPage
    BY <1>3 DEF BuffersSound, PagesWithin
  <2> QED
    BY <1>4, <2>1, <2>2 DEF PagesWithin
<1> QED
  BY <1>2, <1>5 DEF BuffersSound

(* Session s goes on within its call, or returns.                          *)
LEMMA CallMoves ==
  ASSUME LogSound, BuffersSound, NEW s \in Sessions, NEW r,
         sess' = [sess EXCEPT ![s] = r], lastLsn' = lastLsn,
         sess[s].pc # "span", r.pc \notin {"span", "log", "sleep"},
         Sane(r, lastLsn)
  PROVE  /\ SpansStand /\ LsnsLeft'
         /\ \A u \in Sessions : Sane(sess'[u], lastLsn)
<1>1. /\ sess'[s] = r /\ \A u \in Sessions \ {s} : sess'[u] = sess[u]
  BY DEF LogSound, Shape
<1>2. SpansStand /\ Pending' \subseteq Pending
  BY <1>1 DEF SpansStand, Pending
<1>3. LsnsLeft'
  BY <1>2, PendingFewer DEF LogSound, BuffersSound
<1> QED
  BY <1>1, <1>2, <1>3 DEF BuffersSound, SessionsSane

(* One session goes on; a page may go on the write queue.                  *)
LEMMA CallAccounted ==
  ASSUME LogSound, BuffersSound, NEW s \in Sessions, NEW r,
         sess' = [sess EXCEPT ![s] = r], sess[s].pc # "span",
         r.pc \notin {"span", "log", "sleep"}, Sane(r, lastLsn),
         PagesMove, Lends, free' = free, log' = log, disk' = disk, gawake' \in BOOLEAN
  PROVE  BuffersSound'
<1>1. lastLsn' = lastLsn /\ eof' = eof /\ fq' = fq
  BY DEF free, log
<1>2. /\ SpansStand /\ LsnsLeft'
      /\ \A u \in Sessions : Sane(sess'[u], lastLsn)
  BY <1>1, CallMoves
<1>3. /\ HandsFree' /\ Somewhere'
      /\ \A x \in Buffers : lbb'[x].page = lbb[x].page
  BY <1>1, PagesMovePlaces
<1> QED
  BY <1>1, <1>2, <1>3, StandSound

(* No page, no thread and no record is touched.                            *)
LEMMA QueuesStand ==
  ASSUME UNCHANGED queues, UNCHANGED current
  PROVE  PagesMove /\ Lends
BY DEF queues, PagesMove, Lends

LEMMA WakeGcmtAccounted ==
  ASSUME LogSound, BuffersSound, NEW s \in Sessions, WakeGcmt(s)
  PROVE  BuffersSound'
<1> DEFINE r == [sess[s] EXCEPT !.pc = "return"]
<1>1. sess \in [Sessions -> CallType] /\ sess[s] \in CallType /\ sess[s].pc = "wake"
  BY DEF LogSound, Shape, WakeGcmt, At
<1>2. r.pc = "return" /\ Sane(r, lastLsn)
  BY <1>1 DEF CallType, BuffersSound, SessionsSane, Sane
<1>3. sess' = [sess EXCEPT ![s] = r] /\ gawake' = TRUE
  BY <1>1 DEF WakeGcmt
<1> HIDE DEF r
<1>4. PagesMove /\ Lends
  BY QueuesStand DEF WakeGcmt
<1> QED
  BY <1>1, <1>2, <1>3, <1>4, CallAccounted DEF WakeGcmt

(* What the session knows of the log is not touched.                       *)
Knows(x, r) ==
  x.first = r.first /\ x.n = r.n /\ x.target = r.target /\ x.wlsn = r.wlsn

LEMMA KnowsSane ==
  ASSUME NEW r, NEW x, NEW top, Sane(r, top), Knows(x, r), x.pc # "span"
  PROVE  Sane(x, top)
BY DEF Sane, Knows

LEMMA SeekOnKnows ==
  ASSUME NEW r \in CallType
  PROVE  Knows(SeekOn(r), r) /\ SeekOn(r).pc \in {"return", "attach"}
BY DEF SeekOn, CallType, Knows

LEMMA AttachAccounted ==
  ASSUME LogSound, BuffersSound, NEW s \in Sessions, Attach(s)
  PROVE  BuffersSound'
<1> DEFINE b == sess[s].buf
           yes == [SuspendOn(sess[s], b, sess[s].wlsn) EXCEPT !.pc = "return", !.buf = None]
           r == IF StillThere(b, sess[s].target) THEN yes ELSE SeekOn(sess[s])
<1>1. sess \in [Sessions -> CallType] /\ sess[s] \in CallType /\ sess[s].pc = "attach"
  BY DEF LogSound, Shape, Attach, At
<1>2. Knows(yes, sess[s]) /\ yes.pc = "return"
  BY <1>1 DEF SuspendOn, CallType, Knows
<1>3. Knows(SeekOn(sess[s]), sess[s]) /\ SeekOn(sess[s]).pc \in {"return", "attach"}
  BY <1>1, SeekOnKnows
<1>4. sess' = [sess EXCEPT ![s] = r]
  BY <1>1 DEF Attach
<1> HIDE DEF yes
<1>5. Knows(r, sess[s]) /\ r.pc \in {"return", "attach"}
  BY <1>2, <1>3
<1> HIDE DEF r
<1>6. Sane(r, lastLsn)
  BY <1>5, KnowsSane DEF BuffersSound, SessionsSane
<1>7. PagesMove /\ Lends
  BY QueuesStand DEF Attach
<1>8. UNCHANGED <<free, log, disk, gawake>>
  BY DEF Attach
<1> QED
  BY <1>1, <1>4, <1>5, <1>6, <1>7, <1>8, CallAccounted DEF BuffersSound

LEMMA ReturnAccounted ==
  ASSUME LogSound, BuffersSound, NEW s \in Sessions, Return(s)
  PROVE  BuffersSound'
<1> DEFINE ends == sess[s].kind = "commit"
           a == sess[s].active /\ ~ends
           f == IF ends THEN 0 ELSE sess[s].first
           l == IF ends THEN 0 ELSE sess[s].last
           c == sess[s].cs /\ (sess[s].synch \/ sess[s].kind = "plain")
           r == [NewSess EXCEPT !.active = a, !.first = f, !.last = l,
                                !.wait = sess[s].wait, !.lwq = sess[s].lwq, !.cs = c]
<1>1. /\ sess \in [Sessions -> CallType] /\ sess[s].pc = "return"
      /\ lastLsn \in Nat /\ Pages \in Nat
  BY PagesNat DEF LogSound, Shape, Return, At
<1>2. f <= lastLsn
  BY <1>1 DEF BuffersSound, SessionsSane, Sane
<1>3. r.pc = "idle" /\ Sane(r, lastLsn)
  <2> HIDE DEF a, f, l, c
  <2> QED
    BY <1>1, <1>2 DEF NewSess, Sane
<1>4. sess' = [sess EXCEPT ![s] = r]
  BY <1>1 DEF Return
<1> HIDE DEF r
<1>5. PagesMove /\ Lends
  BY QueuesStand DEF Return
<1>6. UNCHANGED <<free, log, disk, gawake>>
  BY DEF Return
<1> QED
  BY <1>1, <1>3, <1>4, <1>5, <1>6, CallAccounted DEF BuffersSound

(* No page moves, and every session stays where it is in its call.         *)
LEMMA RestAccounted ==
  ASSUME LogSound, BuffersSound,
         \A s \in Sessions : Knows(sess'[s], sess[s]) /\ sess'[s].pc = sess[s].pc,
         free' = free, log' = log, gawake' \in BOOLEAN,
         disk' \subseteq disk \cup {lbb[x].page : x \in Buffers}, HandsFree', Somewhere',
         \A x \in Buffers : lbb'[x].page = lbb[x].page \/ lbb'[x].page = 0
  PROVE  BuffersSound'
<1>1. lastLsn' = lastLsn /\ eof' = eof /\ fq' = fq
  BY DEF free, log
<1>2. SpansStand /\ Pending' \subseteq Pending
  BY DEF SpansStand, Knows, Pending
<1>3. LsnsLeft'
  BY <1>1, <1>2, PendingFewer DEF LogSound, BuffersSound
<1>4. \A s \in Sessions : Sane(sess'[s], lastLsn)
  BY DEF BuffersSound, SessionsSane, Sane, Knows
<1> QED
  BY <1>1, <1>2, <1>3, <1>4, StandSound

LEMMA StrayResumeAccounted ==
  ASSUME LogSound, BuffersSound, NEW s \in Sessions, StrayResume(s)
  PROVE  BuffersSound'
<1>1. sess \in [Sessions -> CallType] /\ sess' = [sess EXCEPT ![s].cs = TRUE]
  BY DEF LogSound, Shape, StrayResume
<1>2. \A u \in Sessions : Knows(sess'[u], sess[u]) /\ sess'[u].pc = sess[u].pc
  BY <1>1 DEF CallType, Knows
<1>3. /\ UNCHANGED <<free, log, disk, gawake, lbb, wq, io>>
  BY DEF StrayResume, queues
<1>4. HandsFree' /\ Somewhere'
  BY <1>3 DEF BuffersSound, HandsFree, Somewhere, OnQueue, free
<1> QED
  BY <1>2, <1>3, <1>4, RestAccounted DEF BuffersSound

(* An LSN is kept for the record to be logged.                             *)
LEMMA StartWriteAccounted ==
  ASSUME LogSound, BuffersSound, NEW s \in Sessions, StartWrite(s)
  PROVE  BuffersSound'
<1>1. sess \in [Sessions -> CallType] /\ sess[s] \in CallType /\ lastLsn \in Nat
  BY DEF LogSound, Shape
<1>2. PICK k \in Kinds : sess' = [sess EXCEPT ![s].pc = "log", ![s].kind = k,
                                    ![s].active = TRUE, ![s].cs = FALSE]
  BY DEF StartWrite, Kinds
<1> DEFINE r == [sess[s] EXCEPT !.pc = "log", !.kind = k, !.active = TRUE, !.cs = FALSE]
<1>3. r.pc = "log" /\ Knows(r, sess[s])
  BY <1>1 DEF CallType, Knows
<1>4. sess' = [sess EXCEPT ![s] = r]
  BY <1>1, <1>2
<1> HIDE DEF r
<1>5. sess'[s] = r /\ \A u \in Sessions \ {s} : sess'[u] = sess[u]
  BY <1>1, <1>4
<1>6. sess[s].pc = "idle" /\ lastLsn + Cardinality(Pending) < MaxLsn
  BY DEF StartWrite, At, Pending
<1>7. UNCHANGED <<free, eof, lastLsn, disk, gawake, lbb, wq, io>>
  BY DEF StartWrite, queues, log
<1>8. LsnsLeft'
  <2>1. Pending' = Pending \cup {s}
    BY <1>3, <1>5 DEF Pending
  <2>2. Cardinality(Pending') <= Cardinality(Pending) + 1
    BY <2>1, PendingFinite, FS_AddElement
  <2> QED
    BY <1>1, <1>6, <1>7, <2>2, PendingFinite, BoundsAssumption DEF LsnsLeft
<1>9. SpansStand
  BY <1>3, <1>5, <1>6 DEF SpansStand
<1>10. HandsFree' /\ Somewhere'
  BY <1>7 DEF BuffersSound, HandsFree, Somewhere, OnQueue, free
<1>11. \A u \in Sessions : Sane(sess'[u], lastLsn)
  BY <1>3, <1>5, KnowsSane DEF BuffersSound, SessionsSane
<1> QED
  BY <1>7, <1>8, <1>9, <1>10, <1>11, StandSound DEF BuffersSound

-------------------------------------------------------------------------------
(* Steps that put a buffer on the write queue.                             *)

LEMMA ForceOutLends ==
  ASSUME LogSound, NEW s \in Sessions, NEW b \in Buffers, NEW L, NEW count,
         io[s] = NoIo, ForceOut(s, b, L, count)
  PROVE  Lends
<1>1. s \in Threads
  BY DEF Threads
<1>2. QueueWrite(s, b, L, TRUE) \/ io' = io
  BY DEF ForceOut
<1> QED
  BY <1>1, <1>2, QueueWriteLends DEF Lends

LEMMA AimsKnown ==
  ASSUME LogSound, BuffersSound, NEW s \in Sessions, NEW aim \in Aims(s)
  PROVE  aim.target <= lastLsn /\ aim.wlsn <= lastLsn
<1>1. /\ lastLsn \in Nat /\ sess[s].last <= lastLsn /\ sess[s].first <= lastLsn
      /\ EndOfLog(s) \in 0..lastLsn
  BY EndOfLogGiven DEF LogSound, Shape, LsnsGiven, BuffersSound, SessionsSane, Sane
<1> QED
  BY <1>1 DEF Aims, Known

LEMMA LGforceAccounted ==
  ASSUME LogSound, BuffersSound, NEW s \in Sessions, LGforce(s)
  PROVE  BuffersSound'
<1>1. PICK aim \in Aims(s) :
        LET b     == current
            call  == [sess[s] EXCEPT !.kind = "force", !.target = aim.target,
                                     !.wlsn = aim.wlsn]
            here  == /\ lbb[b].current /\ lbb[b].first # 0
                     /\ lbb[b].first <= aim.target
            count == Cardinality(WaitersOn(b)) + 1
        IN  \/ /\ aim.target < forcedLsn
               /\ sess' = [sess EXCEPT ![s] = [call EXCEPT !.pc = "return", !.synch = TRUE]]
               /\ UNCHANGED queues
            \/ /\ aim.target >= forcedLsn /\ here /\ lbb[b].owner = None
               /\ ForceOut(s, b, lbb, count)
               /\ sess' = [sess EXCEPT ![s] =
                             [SuspendOn(call, b, aim.wlsn) EXCEPT !.pc =
                                IF MarksForce(b, lbb, count) THEN "wake" ELSE "return"]]
            \/ /\ aim.target >= forcedLsn /\ ~here /\ lbb[b].owner = None
               /\ sess' = [sess EXCEPT ![s] = SeekOn(call)]
               /\ UNCHANGED queues
  BY DEF LGforce
<1> DEFINE call  == [sess[s] EXCEPT !.kind = "force", !.target = aim.target,
                                    !.wlsn = aim.wlsn]
           back  == [call EXCEPT !.pc = "return", !.synch = TRUE]
           count == Cardinality(WaitersOn(current)) + 1
           pc    == IF MarksForce(current, lbb, count) THEN "wake" ELSE "return"
           waits == [SuspendOn(call, current, aim.wlsn) EXCEPT !.pc = pc]
<1>2. /\ sess[s] \in CallType /\ sess[s].pc = "idle" /\ io[s] = NoIo /\ current \in Buffers
  BY DEF LogSound, Shape, LGforce, At
<1>3. aim.target \in Nat /\ aim.wlsn \in Nat
  BY AimsGiven DEF LogSound
<1>4. Sane(call, lastLsn) /\ call.pc = "idle" /\ call \in CallType /\ call.wlsn = aim.wlsn
  BY <1>2, <1>3, AimsKnown DEF BuffersSound, SessionsSane, Sane, CallType, Kinds
<1>5. UNCHANGED <<setup, current, free, log, disk, gawake>>
  BY DEF LGforce
<1> HIDE DEF call
<1>6. /\ back.pc = "return" /\ Knows(back, call)
      /\ waits.pc = pc /\ Knows(waits, call)
  BY <1>4 DEF SuspendOn, CallType, Knows
<1>7. Knows(SeekOn(call), call) /\ SeekOn(call).pc \in {"return", "attach"}
  BY <1>4, SeekOnKnows
<1>8. /\ Sane(back, lastLsn) /\ Sane(waits, lastLsn) /\ Sane(SeekOn(call), lastLsn)
      /\ pc \in {"wake", "return"}
  <2>1. pc \in {"wake", "return"}
    OBVIOUS
  <2> HIDE DEF back, waits, pc
  <2> QED
    BY <1>4, <1>6, <1>7, <2>1, KnowsSane
<1>9. PagesMove
  BY LGforceSound
<1>10. /\ \/ sess' = [sess EXCEPT ![s] = back] \/ sess' = [sess EXCEPT ![s] = waits]
          \/ sess' = [sess EXCEPT ![s] = SeekOn(call)]
       /\ UNCHANGED queues \/ ForceOut(s, current, lbb, count)
  BY <1>1 DEF call
<1> HIDE DEF back, waits, pc, count
<1>11. Lends
  BY <1>2, <1>5, <1>10, ForceOutLends, QueuesStand
<1>12. PICK r \in {back, waits, SeekOn(call)} : sess' = [sess EXCEPT ![s] = r]
  BY <1>10
<1>13. Sane(r, lastLsn) /\ r.pc \notin {"span", "log", "sleep"}
  BY <1>6, <1>7, <1>8, <1>12
<1>14. gawake' \in BOOLEAN
  BY <1>5 DEF BuffersSound
<1> QED
  BY <1>2, <1>5, <1>9, <1>11, <1>12, <1>13, <1>14, CallAccounted

LEMMA CopiedAccounted ==
  ASSUME LogSound, BuffersSound, NEW s \in Sessions, Copied(s)
  PROVE  BuffersSound'
<1> DEFINE b      == sess[s].buf
           forced == sess[s].kind # "plain"
           L      == [lbb EXCEPT ![b].writers = @ - 1,
                         ![b].commits = IF sess[s].kind = "commit" THEN @ + 1 ELSE @]
           count  == Cardinality(WaitersOn(b)) + 1
           last   == L[b].writers = 0 /\ OnQueue(b)
           marks  == forced /\ ~last /\ MarksForce(b, L, count)
           pc     == IF marks THEN "wake" ELSE "return"
           mine   == [sess[s] EXCEPT !.pc = pc, !.buf = None]
           lsn    == IF mine.kind = "commit" THEN mine.first ELSE mine.last
           r      == IF forced THEN SuspendOn(mine, b, lsn) ELSE mine
<1>1. /\ sess[s].pc = "copy" /\ io[s] = NoIo
      /\ \/ last /\ QueueWrite(s, b, L, forced)
         \/ ~last /\ forced /\ ForceOut(s, b, L, count)
         \/ ~last /\ ~forced /\ lbb' = L /\ UNCHANGED <<wq, lw, io>>
      /\ sess' = [sess EXCEPT ![s] = r]
      /\ UNCHANGED <<free, log, disk, gawake>>
  BY DEF Copied, At
<1>2. /\ b \in Buffers /\ sess[s] \in CallType /\ s \in Threads
      /\ sess[s].first <= lastLsn /\ sess[s].last <= lastLsn /\ Sane(sess[s], lastLsn)
  <2>1. sess[s] \in CallType /\ b # None
    BY <1>1 DEF LogSound, Shape, WithinLog
  <2> QED
    BY <2>1 DEF CallType, LogSound, LsnsGiven, BuffersSound, SessionsSane, Sane, Threads
<1>3. Lends
  <2> HIDE DEF L, count, last, forced, b
  <2> QED
    BY <1>1, <1>2, QueueWriteLends, ForceOutLends DEF Lends
<1>4. pc \in {"wake", "return"}
  OBVIOUS
<1> HIDE DEF pc
<1>5. /\ Knows(mine, sess[s]) /\ mine.pc = pc
      /\ mine.first = sess[s].first /\ mine.last = sess[s].last
      /\ LET x == SuspendOn(mine, b, lsn)
         IN  x.first = mine.first /\ x.n = mine.n /\ x.target = mine.target
             /\ x.wlsn = lsn /\ x.pc = mine.pc
  BY <1>2 DEF CallType, Knows, SuspendOn
<1>6. lsn <= lastLsn
  BY <1>2, <1>5
<1> HIDE DEF mine, lsn
<1>7. Sane(r, lastLsn) /\ r.pc = pc
  <2>1. Sane(mine, lastLsn)
    BY <1>2, <1>4, <1>5, KnowsSane
  <2>2. CASE forced
    <3>1. r = SuspendOn(mine, b, lsn)
      BY <2>2
    <3> HIDE DEF r
    <3> QED
      BY <1>4, <1>5, <1>6, <2>1, <3>1 DEF Sane
  <2>3. CASE ~forced
    BY <1>5, <2>1, <2>3
  <2> QED
    BY <2>2, <2>3
<1> HIDE DEF r
<1>8. PagesMove
  BY CopiedSound
<1> QED
  BY <1>1, <1>3, <1>4, <1>7, <1>8, CallAccounted DEF BuffersSound

LEMMA SpanReleaseAccounted ==
  ASSUME LogSound, BuffersSound, NEW s \in Sessions, SpanRelease(s)
  PROVE  BuffersSound'
<1> DEFINE b == sess[s].head
           r == [sess[s] EXCEPT !.head = None, !.pc = "place"]
<1>1. /\ sess[s].pc = "release" /\ io[s] = NoIo
      /\ QueueWrite(s, b, lbb, FALSE)
      /\ sess' = [sess EXCEPT ![s].head = None, ![s].pc = "place"]
      /\ UNCHANGED <<free, log, disk, gawake>>
  BY DEF SpanRelease, At
<1>2. /\ sess \in [Sessions -> CallType] /\ sess[s] \in CallType /\ b \in Buffers
      /\ s \in Threads
  BY <1>1 DEF LogSound, Shape, SpansAlone, CallType, Threads
<1>3. r.pc = "place" /\ Knows(r, sess[s]) /\ sess' = [sess EXCEPT ![s] = r]
  BY <1>1, <1>2 DEF CallType, Knows
<1> HIDE DEF r, b
<1>4. PagesMove /\ Lends
  BY <1>1, <1>2, SpanReleaseSound, QueueWriteLends
<1>5. Sane(r, lastLsn)
  BY <1>3, KnowsSane DEF BuffersSound, SessionsSane
<1> QED
  BY <1>1, <1>3, <1>4, <1>5, CallAccounted DEF BuffersSound

LEMMA GcmtWriteAccounted ==
  ASSUME LogSound, BuffersSound, GcmtWrite
  PROVE  BuffersSound'
<1>1. /\ io[Gcmt] = NoIo /\ QueueWrite(Gcmt, current, lbb, FALSE)
      /\ UNCHANGED <<sess, free, log, disk, gawake>>
      /\ current \in Buffers /\ Gcmt \in Threads
  BY DEF GcmtWrite, LogSound, Shape, Threads
<1>2. PagesMove /\ Lends
  BY <1>1, GcmtWriteSound, QueueWriteLends
<1>3. /\ HandsFree' /\ Somewhere'
      /\ \A x \in Buffers : lbb'[x].page = lbb[x].page
  BY <1>1, <1>2, PagesMovePlaces DEF free
<1>4. \A s \in Sessions : Knows(sess'[s], sess[s]) /\ sess'[s].pc = sess[s].pc
  BY <1>1 DEF Knows
<1> QED
  BY <1>1, <1>3, <1>4, RestAccounted DEF BuffersSound

-------------------------------------------------------------------------------
(* Steps of the threads that write.                                        *)

(* Nobody's call goes on, no page moves.                                   *)
LEMMA IdleAccounted ==
  ASSUME LogSound, BuffersSound, sess' = sess, Lends, wq' = wq, UNCHANGED <<free, log, disk>>,
         \A x \in Buffers : lbb'[x].page = lbb[x].page /\ lbb'[x].current = lbb[x].current,
         gawake' \in BOOLEAN
  PROVE  BuffersSound'
<1>1. HandsFree' /\ \A t \in Threads : io'[t].freed = io[t].freed
  BY LendsFree DEF LogSound, BuffersSound
<1>2. Somewhere'
  BY <1>1, PlacesStay DEF BuffersSound, free
<1> QED
  BY <1>1, <1>2, RestAccounted DEF Knows

LEMMA LogWritersAccounted ==
  ASSUME LogSound, BuffersSound,
         \/ \E w \in LogWriters : LogWriter(w)
         \/ CheckDead \/ GcmtSleep \/ UNCHANGED vars
  PROVE  BuffersSound'
<1>1. /\ sess' = sess /\ wq' = wq /\ UNCHANGED <<free, log, disk>> /\ gawake' \in BOOLEAN
  BY DEF LogWriter, Scan, Recheck, Park, CheckDead, GcmtSleep, vars, queues, free, log,
         BuffersSound
<1>2. /\ lbb \in [Buffers -> BufferType] /\ wq \in Seq(Buffers)
      /\ setup.pool \subseteq LogWriters
      /\ \A w \in LogWriters : w \in Threads /\ (lw[w].pc # "run" => io[w] = NoIo)
  BY PoolStarted DEF LogSound, Shape, WritersApart, Threads
<1>3. \/ lbb' = lbb /\ io' = io
      \/ \E w \in LogWriters : \E b \in Buffers :
            /\ io[w] = NoIo /\ lbb' = [lbb EXCEPT ![b].taken = TRUE]
            /\ io' = [io EXCEPT ![w].buf = b]
  <2>1. ASSUME NEW w \in LogWriters, LogWriter(w) PROVE <1>3
    <3>1. CASE Scan(w) \/ Park(w)
      BY <3>1 DEF Scan, Park
    <3>2. CASE Recheck(w) /\ Unassigned(lw[w].found)
      <4>1. lw[w].found \in Buffers
        BY <1>2, <3>2 DEF Unassigned, OnQueue, Members
      <4>2. io[w] = NoIo
        BY <1>2, <3>2 DEF Recheck
      <4> QED
        BY <3>2, <4>1, <4>2 DEF Recheck
    <3>3. CASE Recheck(w) /\ ~Unassigned(lw[w].found)
      BY <3>3 DEF Recheck
    <3> QED
      BY <2>1, <3>1, <3>2, <3>3 DEF LogWriter
  <2>2. CASE CheckDead
    <3>1. PICK w \in Idle : /\ lbb' = [lbb EXCEPT ![Head(wq)].taken = TRUE]
                            /\ io' = [io EXCEPT ![w].buf = Head(wq)]
      BY <2>2 DEF CheckDead
    <3>2. w \in LogWriters /\ io[w] = NoIo /\ Head(wq) \in Buffers
      BY <1>2, <2>2 DEF Idle, CheckDead
    <3> QED
      BY <3>1, <3>2
  <2>3. CASE GcmtSleep \/ UNCHANGED vars
    BY <2>3 DEF GcmtSleep, vars, queues
  <2> QED
    BY <2>1, <2>2, <2>3
<1>4. Lends
  BY <1>2, <1>3 DEF Lends
<1>5. \A x \in Buffers : lbb'[x].page = lbb[x].page /\ lbb'[x].current = lbb[x].current
  <2>1. ASSUME NEW x \in Buffers
        PROVE  lbb'[x] = lbb[x] \/ lbb'[x] = [lbb[x] EXCEPT !.taken = TRUE]
    BY <1>2, <1>3
  <2>2. ASSUME NEW x \in Buffers
        PROVE  LET r == [lbb[x] EXCEPT !.taken = TRUE]
               IN  r.page = lbb[x].page /\ r.current = lbb[x].current
    BY <1>2, MadeTaken DEF SamePage
  <2> QED
    BY <2>1, <2>2
<1> QED
  BY <1>1, <1>4, <1>5, IdleAccounted

(* The pages that are written are pages of buffers.                        *)
LEMMA WriteBlockAccounted ==
  ASSUME LogSound, BuffersSound, NEW t \in Threads, WriteBlock(t)
  PROVE  BuffersSound'
<1>1. /\ sess \in [Sessions -> CallType] /\ io \in [Threads -> IoType] /\ Shape
      /\ lbb \in [Buffers -> BufferType] /\ wq \in Seq(Buffers)
  BY DEF LogSound, Shape
<1>2. PICK lo \in DOMAIN wq, hi \in DOMAIN wq :
         LET run == SubSeq(wq, lo, hi)
         IN  /\ Superblock(io[t].buf, lo, hi)
             /\ lbb' = [b \in Buffers |-> IF b \in Members(run)
                                            THEN [lbb[b] EXCEPT !.taken = TRUE] ELSE lbb[b]]
             /\ io' = [io EXCEPT ![t] = [NoIo EXCEPT !.todo = run]]
             /\ disk' = disk \cup {lbb[b].page : b \in Members(run)}
  BY DEF WriteBlock
<1> DEFINE run == SubSeq(wq, lo, hi)
<1>3. Members(run) \subseteq Buffers
  <2>1. io[t].buf # None /\ io[t].buf \in InHand(t)
    BY DEF WriteBlock, InHand
  <2>2. Position(io[t].buf) \in DOMAIN wq
    BY <2>1, PositionOf DEF LogSound, WritersApart
  <2>3. lo <= hi
    BY <1>1, <1>2, <2>2 DEF Superblock
  <2>4. run \in Seq(Buffers)
    BY <1>1, <2>3, RunOfQueue
  <2> HIDE DEF run
  <2> QED
    BY <2>4 DEF Members
<1>4. /\ lbb' = [b \in Buffers |-> IF b \in Members(run)
                                     THEN [lbb[b] EXCEPT !.taken = TRUE] ELSE lbb[b]]
      /\ io' = [io EXCEPT ![t] = [NoIo EXCEPT !.todo = run]]
      /\ disk' = disk \cup {lbb[b].page : b \in Members(run)}
      /\ io[t].buf # None /\ UNCHANGED <<wq, free, log, gawake>>
  BY <1>2 DEF WriteBlock
<1> HIDE DEF run
<1>5. \A x \in Buffers : lbb'[x].page = lbb[x].page /\ lbb'[x].current = lbb[x].current
  <2>1. \A x \in Buffers : lbb'[x] = lbb[x] \/ lbb'[x] = [lbb[x] EXCEPT !.taken = TRUE]
    BY <1>4
  <2> QED
    BY <1>1, <2>1 DEF BufferType
<1>6. /\ io'[t].buf = None /\ io'[t].freed = {} /\ io[t].freed = {}
      /\ \A u \in Threads \ {t} : io'[u] = io[u]
  BY <1>1, <1>4 DEF NoIo, BuffersSound, HandsFree
<1>7. HandsFree' /\ Somewhere'
  <2>1. HandsFree'
    BY <1>6 DEF BuffersSound, HandsFree
  <2>2. \A u \in Threads : io[u].freed \subseteq io'[u].freed
    BY <1>6
  <2> QED
    BY <1>4, <1>5, <2>1, <2>2, PlacesStay DEF BuffersSound, free
<1>8. \A s \in Sessions : Knows(sess'[s], sess[s]) /\ sess'[s].pc = sess[s].pc
  <2>1. CASE t \in Sessions
    <3> DEFINE r == [sess[t] EXCEPT !.synch = TRUE]
    <3>1. r.pc = sess[t].pc /\ Knows(r, sess[t])
      BY <1>1, <2>1 DEF CallType, Knows
    <3>2. sess' = [sess EXCEPT ![t] = r]
      BY <1>1, <2>1 DEF WriteBlock
    <3> HIDE DEF r
    <3> QED
      BY <1>1, <3>1, <3>2 DEF Knows
  <2>2. CASE t \notin Sessions
    BY <2>2 DEF WriteBlock, Knows
  <2> QED
    BY <2>1, <2>2
<1>9. disk' \subseteq disk \cup {lbb[x].page : x \in Buffers}
  BY <1>3, <1>4
<1> QED
  BY <1>4, <1>5, <1>7, <1>8, <1>9, RestAccounted DEF BuffersSound

LEMMA RelievedKnows ==
  ASSUME Shape, NEW t, NEW b, NEW g, NEW top, sess' = Relieved(t, b, g, top)
  PROVE  \A s \in Sessions : Knows(sess'[s], sess[s]) /\ sess'[s].pc = sess[s].pc
<1> DEFINE moved == {s \in WaitersOn(b) : MovesOn(s, g, top)}
<1>1. sess' = [s \in Sessions |->
        CASE s \in moved -> [sess[s] EXCEPT !.lwq = g, !.synch = @ /\ s # t]
          [] s \in WaitersOn(b) \ moved ->
               [sess[s] EXCEPT !.wait = FALSE, !.lwq = None,
                               !.cs = @ \/ s # t, !.synch = @ \/ s = t]
          [] s \notin WaitersOn(b) ->
               [sess[s] EXCEPT !.synch = @ /\ ~(s = t /\ WaitersOn(b) # {}
                                                /\ sess[s].wait)]]
  BY DEF Relieved
<1>2. moved \subseteq WaitersOn(b)
  OBVIOUS
<1> HIDE DEF moved
<1>3. SUFFICES ASSUME NEW s \in Sessions
               PROVE  Knows(sess'[s], sess[s]) /\ sess'[s].pc = sess[s].pc
  OBVIOUS
<1>4. sess[s] \in CallType
  BY DEF Shape
<1>5. CASE s \in moved
  <2>1. sess'[s] = [sess[s] EXCEPT !.lwq = g, !.synch = @ /\ s # t]
    BY <1>1, <1>2, <1>5
  <2> QED
    BY <1>4, <2>1 DEF CallType, Knows
<1>6. CASE s \in WaitersOn(b) \ moved
  <2>1. sess'[s] = [sess[s] EXCEPT !.wait = FALSE, !.lwq = None,
                                   !.cs = @ \/ s # t, !.synch = @ \/ s = t]
    BY <1>1, <1>6
  <2> QED
    BY <1>4, <2>1 DEF CallType, Knows
<1>7. CASE s \notin WaitersOn(b)
  <2>1. sess'[s] = [sess[s] EXCEPT !.synch = @ /\ ~(s = t /\ WaitersOn(b) # {}
                                                    /\ sess[s].wait)]
    BY <1>1, <1>2, <1>7
  <2> QED
    BY <1>4, <2>1 DEF CallType, Knows
<1> QED
  BY <1>5, <1>6, <1>7

(* A written buffer leaves the queue for the ones that the thread frees.   *)
LEMMA CompleteAccounted ==
  ASSUME LogSound, BuffersSound, NEW t \in Threads, Complete(t)
  PROVE  BuffersSound'
<1> DEFINE b == Head(io[t].todo)
           g == Before(b)
           top == IF g = None THEN lbb[b].forced ELSE Higher(lbb[b].forced, lbb[g].forced)
<1>1. Completed(t, b)
  BY CompleteSound
<1>2. /\ io[t].todo # <<>> /\ sess' = Relieved(t, b, g, top)
      /\ io' = [io EXCEPT ![t].todo = Tail(@), ![t].freed = @ \cup {b}]
      /\ lbb' = [x \in Buffers |->
                   CASE x = b -> Fresh(0)
                     [] x = g -> [lbb[g] EXCEPT !.forced = top]
                     [] OTHER -> lbb[x]]
      /\ UNCHANGED <<free, log, disk, gawake>>
  BY DEF Complete
<1>3. io \in [Threads -> IoType] /\ Shape /\ b \in Buffers
  BY <1>1 DEF LogSound, Shape, Completed
<1> HIDE DEF g, top
<1>4. \A s \in Sessions : Knows(sess'[s], sess[s]) /\ sess'[s].pc = sess[s].pc
  BY <1>2, <1>3, RelievedKnows
<1>5. /\ io'[t].buf = io[t].buf /\ io'[t].freed = io[t].freed \cup {b}
      /\ \A u \in Threads \ {t} : io'[u] = io[u]
  BY <1>2, <1>3 DEF IoType
<1>6. io[t].buf = None
  BY <1>2 DEF LogSound, WritersApart
<1>7. HandsFree'
  BY <1>5, <1>6 DEF BuffersSound, HandsFree
<1>8. Somewhere'
  <2>1. /\ Members(wq') = Members(wq) \ {b}
        /\ \A x \in Buffers \ {b} : lbb'[x].current = lbb[x].current
    BY <1>1 DEF Completed
  <2>2. \A x \in Buffers : \/ x \in fq \/ x \in Members(wq) \/ lbb[x].current
                           \/ \E u \in Threads : x \in io[u].freed
    BY DEF BuffersSound, Somewhere, OnQueue
  <2>3. \A x \in Buffers : \/ x \in fq' \/ x \in Members(wq') \/ lbb'[x].current
                           \/ \E u \in Threads : x \in io'[u].freed
    BY <1>2, <1>5, <2>1, <2>2 DEF free
  <2> QED
    BY <2>3 DEF Somewhere, OnQueue
<1>9. \A x \in Buffers : lbb'[x].page = lbb[x].page \/ lbb'[x].page = 0
  <2>1. b # g
    <3>1. OnQueue(b) /\ b # None
      BY <1>1, <1>3, ThreadsAssumption DEF Completed
    <3> QED
      BY <3>1, BeforeQueued DEF LogSound, g
  <2>2. lbb'[b] = Fresh(0)
    BY <1>2, <1>3, <2>1
  <2>3. lbb'[b].page = 0
    BY <2>2 DEF Fresh
  <2> QED
    BY <1>1, <2>3 DEF Completed
<1> HIDE DEF b
<1> QED
  BY <1>2, <1>4, <1>7, <1>8, <1>9, RestAccounted DEF BuffersSound

(* All buffers of a write become free, and can be reserved.                *)
LEMMA ReturnBuffersAccounted ==
  ASSUME LogSound, BuffersSound, NEW t \in Threads, ReturnBuffers(t)
  PROVE  BuffersSound'
<1>1. /\ fq' = fq \cup io[t].freed /\ fqCount' = fqCount + Cardinality(io[t].freed)
      /\ io' = [io EXCEPT ![t] = NoIo] /\ lbb' = lbb /\ wq' = wq
      /\ UNCHANGED <<log, disk, gawake>>
      /\ sess' = [s \in Sessions |->
                    IF sess[s].pc = "sleep" /\ sess[s].wait
                      THEN [sess[s] EXCEPT !.wait = FALSE, !.cs = TRUE] ELSE sess[s]]
  BY DEF ReturnBuffers, Freed
<1>2. /\ io \in [Threads -> IoType] /\ sess \in [Sessions -> CallType] /\ Shape
      /\ lastLsn' = lastLsn /\ eof' = eof
  BY <1>1 DEF LogSound, Shape, log
<1>3. \A s \in Sessions : Knows(sess'[s], sess[s]) /\ sess'[s].pc = sess[s].pc
  <2>1. SUFFICES ASSUME NEW s \in Sessions
                 PROVE  Knows(sess'[s], sess[s]) /\ sess'[s].pc = sess[s].pc
    OBVIOUS
  <2>2. sess'[s] = sess[s] \/ sess'[s] = [sess[s] EXCEPT !.wait = FALSE, !.cs = TRUE]
    BY <1>1
  <2> QED
    BY <1>2, <2>2 DEF CallType, Knows
<1>4. /\ io'[t].freed = {} /\ io'[t].buf = None
      /\ \A u \in Threads \ {t} : io'[u] = io[u]
  BY <1>1, <1>2 DEF NoIo
<1>5. HandsFree' /\ Somewhere'
  BY <1>1, <1>4 DEF BuffersSound, HandsFree, Somewhere, OnQueue
<1>6. SpansStand /\ Pending' \subseteq Pending
  BY <1>3 DEF SpansStand, Knows, Pending
<1>7. Claims' = Claims /\ LsnsLeft'
  BY <1>2, <1>6, ClaimsStand, PendingFewer DEF BuffersSound
<1>8. Counted'
  <2>1. io[t].freed \in SUBSET Buffers /\ fq \cap io[t].freed = {}
    BY <1>2 DEF IoType, LogSound, FreeApart
  <2>2. IsFiniteSet(io[t].freed) /\ Cardinality(io[t].freed) \in Nat
    BY <2>1, BoundsAssumption, FS_Subset, FS_CardinalityType
  <2>3. Cardinality(fq \cap io[t].freed) = 0
    BY <2>1, FS_EmptySet
  <2>4. IsFiniteSet(fq) /\ Cardinality(fq) \in Nat
    BY <1>2, FreeFinite
  <2>5. Cardinality(fq \cup io[t].freed)
          = Cardinality(fq) + Cardinality(io[t].freed) - Cardinality(fq \cap io[t].freed)
    BY <2>2, <2>4, FS_Union
  <2>6. Cardinality(fq') = Cardinality(fq) + Cardinality(io[t].freed)
    <3>1. fq' = fq \cup io[t].freed
      BY <1>1
    <3>2. Cardinality(fq') = Cardinality(fq \cup io[t].freed)
      BY <3>1
    <3> QED
      BY <2>2, <2>3, <2>4, <2>5, <3>2
  <2>7. fqCount \in Nat /\ fqCount + Cardinality(Claims) = Cardinality(fq)
    BY DEF BuffersSound, Counted
  <2>8. Cardinality(Claims') = Cardinality(Claims)
    BY <1>7
  <2>9. fqCount' = fqCount + Cardinality(io[t].freed)
    BY <1>1
  <2> QED
    BY <2>2, <2>4, <2>6, <2>7, <2>8, <2>9, ClaimsFinite DEF Counted
<1>9. PagesLeft' /\ PagesWithin'
  BY <1>1, <1>2, <1>7 DEF BuffersSound, PagesLeft, PagesWithin, LastPage, Pages
<1>10. SessionsSane'
  BY <1>2, <1>3 DEF BuffersSound, SessionsSane, Sane, Knows
<1> QED
  BY <1>1, <1>5, <1>7, <1>8, <1>9, <1>10 DEF BuffersSound

-------------------------------------------------------------------------------
(* Steps on the current page.                                              *)

LEMMA CurrentPlaces ==
  ASSUME LogSound, BuffersSound, NEW s \in Sessions, CurrentStep(s)
  PROVE  HandsFree' /\ Somewhere' /\ \A x \in Buffers : lbb'[x].page = lbb[x].page
<1>1. /\ current \in Buffers /\ fq' = fq /\ io' = io
      /\ \A x \in Buffers \ {current} : lbb'[x] = lbb[x]
      /\ lbb'[current].page = lbb[current].page
      /\ \/ wq' = wq /\ lbb'[current].current
         \/ wq' = Enqueue(current)
  BY DEF CurrentStep, LogSound, Shape
<1>2. Members(Enqueue(current)) = Members(wq) \cup {current}
  BY <1>1, EnqueueQueue DEF LogSound, Shape
<1>3. /\ Members(wq) \subseteq Members(wq')
      /\ \A x \in Buffers : lbb[x].current => lbb'[x].current \/ x \in Members(wq')
  BY <1>1, <1>2
<1>4. HandsFree'
  BY <1>1 DEF BuffersSound, HandsFree
<1>5. Somewhere'
  BY <1>1, <1>3, PlacesStay DEF BuffersSound
<1> QED
  BY <1>1, <1>4, <1>5

LEMMA SpanPlaceAccounted ==
  ASSUME LogSound, BuffersSound, NEW s \in Sessions, SpanPlace(s)
  PROVE  BuffersSound'
<1>1. /\ CurrentStep(s) /\ sess[s].pc = "place"
      /\ sess' = [sess EXCEPT ![s].pc = "copy"]
      /\ UNCHANGED <<free, log, disk, gawake>>
  BY SpanPlaceSound DEF SpanPlace
<1>2. sess \in [Sessions -> CallType] /\ sess[s] \in CallType
      /\ lastLsn' = lastLsn /\ eof' = eof
  BY <1>1 DEF LogSound, Shape, log
<1> DEFINE r == [sess[s] EXCEPT !.pc = "copy"]
<1>3. r.pc = "copy" /\ Knows(r, sess[s]) /\ sess' = [sess EXCEPT ![s] = r]
  BY <1>1, <1>2 DEF CallType, Knows
<1> HIDE DEF r
<1>4. Sane(r, lastLsn)
  BY <1>3, KnowsSane DEF BuffersSound, SessionsSane
<1>5. /\ SpansStand /\ LsnsLeft'
      /\ \A u \in Sessions : Sane(sess'[u], lastLsn)
  BY <1>1, <1>2, <1>3, <1>4, CallMoves
<1>6. HandsFree' /\ Somewhere' /\ \A x \in Buffers : lbb'[x].page = lbb[x].page
  BY <1>1, CurrentPlaces
<1> QED
  BY <1>1, <1>2, <1>5, <1>6, StandSound DEF BuffersSound

(* A session goes to sleep until there are free buffers.                   *)
LEMMA AsleepKnows ==
  ASSUME NEW r \in CallType
  PROVE  Asleep(r).pc = "sleep" /\ Knows(Asleep(r), r)
BY DEF Asleep, CallType, Knows

LEMMA LogSleeps ==
  ASSUME LogSound, BuffersSound, NEW s \in Sessions, NEW r, s \in Pending,
         r.pc = "log" \/ r.pc = "sleep", Knows(r, sess[s]),
         sess' = [sess EXCEPT ![s] = r], lastLsn' = lastLsn
  PROVE  /\ SpansStand /\ LsnsLeft'
         /\ \A u \in Sessions : Sane(sess'[u], lastLsn)
<1>1. sess'[s] = r /\ \A u \in Sessions \ {s} : sess'[u] = sess[u]
  BY DEF LogSound, Shape
<1>2. SpansStand /\ Pending' = Pending
  BY <1>1 DEF SpansStand, Pending
<1>3. LsnsLeft'
  BY <1>2, PendingFewer DEF LogSound, BuffersSound
<1>4. Sane(r, lastLsn)
  BY KnowsSane DEF BuffersSound, SessionsSane
<1> QED
  BY <1>1, <1>2, <1>3, <1>4 DEF BuffersSound, SessionsSane

(* A record is logged: its LSN was left for its session.                   *)
LEMMA LsnTaken ==
  ASSUME LogSound, BuffersSound, NEW s \in Sessions, sess[s].pc \in {"log", "sleep"},
         sess'[s].pc \notin {"log", "sleep"}, lastLsn' = lastLsn + 1,
         \A u \in Sessions \ {s} : sess'[u] = sess[u]
  PROVE  LsnsLeft'
<1>1. Pending' = Pending \ {s} /\ s \in Pending
  BY DEF Pending
<1>2. Cardinality(Pending') = Cardinality(Pending) - 1
  BY <1>1, PendingFinite, FS_RemoveElement
<1>3. lastLsn \in Nat /\ lastLsn + Cardinality(Pending) <= MaxLsn
  BY DEF LogSound, Shape, BuffersSound, LsnsLeft
<1> QED
  BY <1>2, <1>3, PendingFinite, BoundsAssumption DEF LsnsLeft

LEMMA LoggedSane ==
  ASSUME NEW r \in CallType, NEW top \in Nat, Sane(r, top)
  PROVE  /\ Logged(r, top + 1).first <= top + 1 /\ Logged(r, top + 1).target <= top + 1
         /\ Logged(r, top + 1).wlsn <= top + 1 /\ Logged(r, top + 1).n <= Pages
<1> DEFINE f == IF r.first = 0 THEN top + 1 ELSE r.first
           t == IF r.kind = "plain" THEN 0 ELSE top + 1
<1>1. /\ r.first \in Nat /\ r.wlsn \in Nat /\ r.wlsn <= top /\ r.first <= top
      /\ r.n <= Pages
  BY DEF CallType, Sane
<1>2. f <= top + 1 /\ t <= top + 1
  BY <1>1
<1>3. Logged(r, top + 1) =
        [r EXCEPT !.first = f, !.last = top + 1, !.cs = FALSE, !.target = t]
  BY DEF Logged
<1> HIDE DEF f, t
<1>4. LET x == [r EXCEPT !.first = f, !.last = top + 1, !.cs = FALSE, !.target = t]
      IN  x.first = f /\ x.target = t /\ x.wlsn = r.wlsn /\ x.n = r.n
  BY DEF CallType
<1>5. r.wlsn <= top + 1
  BY <1>1
<1> QED
  BY <1>1, <1>2, <1>3, <1>4, <1>5, Zenon

LEMMA SaneLater ==
  ASSUME LogSound, BuffersSound, NEW s \in Sessions,
         \A u \in Sessions \ {s} : sess'[u] = sess[u], Sane(sess'[s], lastLsn + 1),
         lastLsn' = lastLsn + 1
  PROVE  SessionsSane'
<1>1. lastLsn \in Nat
  BY DEF LogSound, Shape
<1>2. ASSUME NEW u \in Sessions \ {s} PROVE Sane(sess'[u], lastLsn + 1)
  <2>1. sess[u] \in CallType /\ Sane(sess[u], lastLsn)
    BY DEF LogSound, Shape, BuffersSound, SessionsSane
  <2> QED
    BY <1>1, <2>1 DEF Sane, CallType
<1> QED
  BY <1>2 DEF SessionsSane

(* There are pages for the record of each LSN.                             *)
LEMMA ManyPages == ASSUME LogSound PROVE Pages \in Nat /\ setup.span \in 1..(Pages - 1)
  BY PagesNat, SetupsAssumption DEF LogSound, Shape, Pages

LEMMA NextPages ==
  ASSUME LogSound, BuffersSound, NEW k \in Nat, k <= Pages
  PROVE  eof + k <= (lastLsn + 1) * Pages
<1>1. eof \in Nat /\ lastLsn \in Nat /\ Pages \in Nat
  BY PagesNat DEF LogSound, Shape
<1>2. eof <= lastLsn * Pages
  BY <1>1, ClaimsFinite DEF BuffersSound, PagesLeft
<1>3. (lastLsn + 1) * Pages = lastLsn * Pages + Pages /\ lastLsn * Pages \in Nat
  BY <1>1
<1> QED
  BY <1>1, <1>2, <1>3

LEMMA PageFits ==
  ASSUME NEW p \in Nat, NEW k \in Nat, k <= MaxLsn, p <= k * Pages
  PROVE  p <= LastPage
<1>1. Pages \in Nat /\ MaxLsn \in Nat
  BY PagesNat, BoundsAssumption
<1> DEFINE d == MaxLsn - k
<1>2. d \in Nat /\ MaxLsn = k + d
  BY <1>1
<1> HIDE DEF d
<1>3. (k + d) * (Pages + 1) = k * Pages + d * Pages + k + d
      /\ k * Pages \in Nat /\ d * Pages \in Nat
  BY <1>1, <1>2
<1>4. LastPage = k * Pages + d * Pages + k + d
  BY <1>2, <1>3 DEF LastPage
<1> QED
  BY <1>2, <1>3, <1>4

(* Nobody spans: nothing is reserved.                                      *)
LEMMA NothingClaimed ==
  ASSUME \A u \in Sessions : sess[u].pc # "span"
  PROVE  Cardinality(Claims) = 0
<1>1. Claims = {}
  BY DEF Claims
<1> QED
  BY <1>1, FS_EmptySet

LEMMA LogOnPageAccounted ==
  ASSUME LogSound, DiskSound, BuffersSound, NEW s \in Sessions, LogOnPage(s)
  PROVE  BuffersSound'
<1> DEFINE r == [Logged(sess[s], lastLsn + 1) EXCEPT !.pc = "copy", !.buf = current]
<1>1. /\ CurrentStep(s) /\ lbb[current].current
      /\ \A u \in Sessions : sess[u].pc # "span"
      /\ sess'[s].pc = "copy"
  BY LogOnPageSound
<1>2. /\ sess[s].pc \in {"log", "sleep"} /\ sess[s] \in CallType
      /\ sess \in [Sessions -> CallType] /\ lastLsn \in Nat /\ eof \in Nat
      /\ current \in Buffers
  BY LoggingSession DEF LogOnPage, LogSound, Shape
<1>3. /\ lastLsn' = lastLsn + 1 /\ eof' = lbb[current].page
      /\ sess' = [sess EXCEPT ![s] = r]
      /\ UNCHANGED <<fq, fqCount, disk, gawake>>
  BY DEF LogOnPage, free
<1>4. \A u \in Sessions \ {s} : sess'[u] = sess[u]
  BY <1>1 DEF CurrentStep
<1>5. Sane(sess'[s], lastLsn + 1)
  <2> DEFINE l == Logged(sess[s], lastLsn + 1)
  <2>1. l \in CallType /\ l.first <= lastLsn + 1 /\ l.target <= lastLsn + 1
        /\ l.wlsn <= lastLsn + 1 /\ l.n <= Pages
    BY <1>2, LoggedCall, LoggedSane DEF BuffersSound, SessionsSane
  <2> HIDE DEF l
  <2>2. LET x == [l EXCEPT !.pc = "copy", !.buf = current]
        IN  Knows(x, l) /\ x.pc = "copy"
    BY <2>1 DEF CallType, Knows
  <2>3. sess'[s] = [l EXCEPT !.pc = "copy", !.buf = current]
    BY <1>2, <1>3 DEF l
  <2> QED
    BY <2>1, <2>2, <2>3 DEF Sane, Knows
<1> HIDE DEF r
<1>6. SessionsSane' /\ LsnsLeft'
  BY <1>1, <1>2, <1>3, <1>4, <1>5, SaneLater, LsnTaken
<1>7. Cardinality(Claims) = 0 /\ Cardinality(Claims') = 0
  <2>1. \A u \in Sessions : sess[u].pc # "span" /\ sess'[u].pc # "span"
    BY <1>1, <1>4
  <2>2. SpansStand
    BY <2>1 DEF SpansStand
  <2> QED
    BY <2>1, <2>2, NothingClaimed, ClaimsStand
<1>8. Counted'
  BY <1>3, <1>7 DEF BuffersSound, Counted
<1>9. PagesLeft'
  <2>1. eof' \in Nat /\ eof' <= eof + 1
    BY <1>1, <1>2, <1>3 DEF DiskSound, PagesKept
  <2>2. 1 <= Pages /\ Pages \in Nat
    BY ManyPages
  <2>3. eof + 1 <= (lastLsn + 1) * Pages
    BY <2>2, NextPages
  <2>4. (lastLsn + 1) * Pages \in Nat
    BY <1>2, <2>2
  <2>5. eof' + Cardinality(Claims') <= lastLsn' * Pages
    BY <1>2, <1>3, <1>7, <2>1, <2>3, <2>4
  <2> QED
    BY <2>5 DEF PagesLeft, Pages
<1>10. HandsFree' /\ Somewhere' /\ PagesWithin'
  <2>1. HandsFree' /\ Somewhere' /\ \A x \in Buffers : lbb'[x].page = lbb[x].page
    BY <1>1, CurrentPlaces
  <2> QED
    BY <1>3, <2>1 DEF BuffersSound, PagesWithin, LastPage, Pages
<1> QED
  BY <1>3, <1>6, <1>8, <1>9, <1>10 DEF BuffersSound

(* A session reserves the pages its record needs, or waits for them.       *)
LEMMA LogSpanAccounted ==
  ASSUME LogSound, DiskSound, BuffersSound, NEW s \in Sessions, LogSpan(s)
  PROVE  BuffersSound'
<1>1. /\ CurrentStep(s) /\ lbb[current].current
      /\ \A u \in Sessions : sess[u].pc # "span"
  BY LogSpanSound
<1>2. /\ sess[s].pc \in {"log", "sleep"} /\ sess[s] \in CallType
      /\ sess \in [Sessions -> CallType] /\ lastLsn \in Nat /\ eof \in Nat
      /\ current \in Buffers
  BY LoggingSession DEF LogSpan, LogSound, Shape
<1>3. UNCHANGED <<fq, disk, gawake>>
  BY DEF LogSpan
<1>4. PICK n \in 1..setup.span :
        \/ /\ sess' = [sess EXCEPT ![s] = Asleep(@)]
           /\ UNCHANGED <<fqCount, log>>
        \/ /\ n <= fqCount /\ fqCount' = fqCount - n
           /\ lastLsn' = lastLsn + 1 /\ eof' = lbb[current].page
           /\ sess' = [sess EXCEPT ![s] = [Logged(@, lastLsn + 1) EXCEPT
                         !.pc = "span", !.n = n, !.head = current]]
  BY DEF LogSpan, Enough
<1>5. /\ n \in 1..Pages /\ n + 1 <= Pages /\ Pages \in Nat /\ n \in Nat
  BY ManyPages
<1>6. /\ HandsFree' /\ Somewhere' /\ \A x \in Buffers : lbb'[x].page = lbb[x].page
  BY <1>1, CurrentPlaces
<1>7. CASE sess' = [sess EXCEPT ![s] = Asleep(@)] /\ UNCHANGED <<fqCount, log>>
  <2> DEFINE r == Asleep(sess[s])
  <2>1. r.pc = "sleep" /\ Knows(r, sess[s])
    BY <1>2, AsleepKnows
  <2>2. sess' = [sess EXCEPT ![s] = r]
    BY <1>2, <1>7
  <2> HIDE DEF r
  <2>3. lastLsn' = lastLsn /\ eof' = eof /\ free' = free
    BY <1>3, <1>7 DEF log, free
  <2>4. /\ SpansStand /\ LsnsLeft'
        /\ \A u \in Sessions : Sane(sess'[u], lastLsn)
    <3>1. s \in Pending
      BY <1>2 DEF Pending
    <3> QED
      BY <2>1, <2>2, <2>3, <3>1, LogSleeps
  <2> QED
    BY <1>3, <1>6, <2>3, <2>4, StandSound DEF BuffersSound
<1>8. CASE /\ n <= fqCount /\ fqCount' = fqCount - n
           /\ lastLsn' = lastLsn + 1 /\ eof' = lbb[current].page
           /\ sess' = [sess EXCEPT ![s] = [Logged(@, lastLsn + 1) EXCEPT
                         !.pc = "span", !.n = n, !.head = current]]
  <2> DEFINE l == Logged(sess[s], lastLsn + 1)
             r == [l EXCEPT !.pc = "span", !.n = n, !.head = current]
  <2>1. l \in CallType /\ l.first <= lastLsn + 1 /\ l.target <= lastLsn + 1
        /\ l.wlsn <= lastLsn + 1
    BY <1>2, LoggedCall, LoggedSane DEF BuffersSound, SessionsSane
  <2>2. sess'[s] = r
    BY <1>2, <1>8
  <2> HIDE DEF l
  <2>3. /\ r.pc = "span" /\ r.n = n /\ r.first = l.first /\ r.target = l.target
        /\ r.wlsn = l.wlsn
    BY <2>1 DEF CallType
  <2> HIDE DEF r
  <2>4. Sane(sess'[s], lastLsn + 1)
    BY <1>5, <2>1, <2>2, <2>3 DEF Sane
  <2>5. \A u \in Sessions \ {s} : sess'[u] = sess[u]
    BY <1>1 DEF CurrentStep
  <2>6. SessionsSane' /\ LsnsLeft'
    BY <1>2, <1>8, <2>2, <2>3, <2>4, <2>5, SaneLater, LsnTaken
  <2>7. Cardinality(Claims) = 0
    BY <1>1, NothingClaimed
  <2>8. Cardinality(Claims') = n
    <3>1. Cardinality(Claims') = Cardinality(Claims) + n
      BY <1>1, <1>5, <2>2, <2>3, <2>5, ClaimsBegun
    <3> QED
      BY <1>5, <2>7, <3>1
  <2>9. Counted'
    <3>1. fqCount \in Nat /\ fqCount = Cardinality(fq)
      BY <2>7 DEF BuffersSound, Counted
    <3>2. Cardinality(fq') = Cardinality(fq)
      BY <1>3
    <3> QED
      BY <1>5, <1>8, <2>8, <3>1, <3>2 DEF Counted
  <2>10. PagesLeft'
    <3>1. eof' \in Nat /\ eof' <= eof + 1
      BY <1>1, <1>2, <1>8 DEF DiskSound, PagesKept
    <3>2. eof + (n + 1) <= (lastLsn + 1) * Pages
      BY <1>5, NextPages
    <3>3. (lastLsn + 1) * Pages \in Nat
      BY <1>2, <1>5
    <3>4. eof' + Cardinality(Claims') <= lastLsn' * Pages
      BY <1>2, <1>5, <1>8, <2>8, <3>1, <3>2, <3>3
    <3> QED
      BY <3>4 DEF PagesLeft, Pages
  <2>11. PagesWithin'
    BY <1>3, <1>6 DEF BuffersSound, PagesWithin, LastPage, Pages
  <2> QED
    BY <1>3, <1>6, <2>6, <2>9, <2>10, <2>11 DEF BuffersSound
<1> QED
  BY <1>4, <1>7, <1>8

-------------------------------------------------------------------------------
(* Steps that take a free buffer.                                          *)

LEMMA PlacesTaken ==
  ASSUME Somewhere, NEW b, fq' = fq \ {b}, b \in Members(wq') \/ lbb'[b].current,
         Members(wq) \subseteq Members(wq'),
         \A x \in Buffers \ {b} : lbb[x].current => lbb'[x].current,
         \A t \in Threads : io[t].freed \subseteq io'[t].freed
  PROVE  Somewhere'
BY DEF Somewhere, OnQueue

(* A buffer that was taken holds the next page.                            *)
LEMMA PageTaken ==
  ASSUME LogSound, BuffersSound, NEW b \in Buffers, lbb'[b].page = eof + 1,
         \A x \in Buffers \ {b} : lbb'[x] = lbb[x],
         eof + 1 <= LastPage, disk' = disk
  PROVE  PagesWithin'
BY DEF BuffersSound, PagesWithin, LastPage, Pages

LEMMA OneTaken ==
  ASSUME LogSound, NEW b \in fq, fq' = fq \ {b}
  PROVE  /\ Cardinality(fq) \in Nat \ {0}
         /\ Cardinality(fq') = Cardinality(fq) - 1
<1>1. IsFiniteSet(fq) /\ Cardinality(fq) \in Nat
  BY FreeFinite DEF LogSound
<1>2. Cardinality(fq \ {b}) = Cardinality(fq) - 1
  BY <1>1, FS_RemoveElement
<1>3. Cardinality(fq \ {b}) \in Nat
  BY <1>1, FS_RemoveElement, FS_CardinalityType
<1> QED
  BY <1>1, <1>2, <1>3

LEMMA AllocateAccounted ==
  ASSUME LogSound, BuffersSound, NEW s \in Sessions, Allocate(s)
  PROVE  BuffersSound'
<1>1. sess[s].pc \in {"log", "sleep"} /\ sess[s] \in CallType
  BY LoggingSession DEF Allocate
<1>2. /\ wq' = wq /\ io' = io /\ UNCHANGED <<log, disk, gawake>> /\ ~lbb[current].current
      /\ lastLsn' = lastLsn /\ eof' = eof
  BY DEF Allocate, log
<1>3. /\ sess \in [Sessions -> CallType] /\ lbb \in [Buffers -> BufferType]
      /\ eof \in Nat /\ lastLsn \in Nat /\ Pages \in Nat
  BY PagesNat DEF LogSound, Shape
<1>4. CASE sess' = [sess EXCEPT ![s] = Asleep(@)] /\ UNCHANGED <<lbb, current, free>>
  <2> DEFINE r == Asleep(sess[s])
  <2>1. r.pc = "sleep" /\ Knows(r, sess[s])
    BY <1>1, AsleepKnows
  <2>2. sess' = [sess EXCEPT ![s] = r]
    BY <1>3, <1>4
  <2> HIDE DEF r
  <2>3. /\ SpansStand /\ LsnsLeft'
        /\ \A u \in Sessions : Sane(sess'[u], lastLsn)
    <3>1. s \in Pending
      BY <1>1 DEF Pending
    <3> QED
      BY <1>2, <2>1, <2>2, <3>1, LogSleeps
  <2>4. HandsFree' /\ Somewhere'
    BY <1>2, <1>4 DEF BuffersSound, HandsFree, Somewhere, OnQueue, free
  <2> QED
    BY <1>2, <1>4, <2>3, <2>4, StandSound DEF BuffersSound
<1>5. ASSUME NEW b \in fq, fqCount > 0, fqCount' = fqCount - 1,
             lbb' = [lbb EXCEPT ![b] = [Fresh(eof + 1) EXCEPT
                                          !.current = TRUE, !.owner = s]],
             fq' = fq \ {b},
             sess' = [sess EXCEPT ![s].pc = "log", ![s].cs = FALSE]
      PROVE  BuffersSound'
  <2> DEFINE r == [sess[s] EXCEPT !.pc = "log", !.cs = FALSE]
  <2>1. r.pc = "log" /\ Knows(r, sess[s]) /\ sess' = [sess EXCEPT ![s] = r]
    BY <1>1, <1>3, <1>5 DEF CallType, Knows
  <2> HIDE DEF r
  <2>2. /\ SpansStand /\ LsnsLeft' /\ SessionsSane'
    <3>1. s \in Pending
      BY <1>1 DEF Pending
    <3>2. /\ SpansStand /\ LsnsLeft' /\ \A u \in Sessions : Sane(sess'[u], lastLsn)
      BY <1>2, <2>1, <3>1, LogSleeps
    <3> QED
      BY <1>2, <3>2 DEF SessionsSane
  <2>3. Claims' = Claims
    BY <2>2, ClaimsStand
  <2>4. Counted'
    <3>1. Cardinality(fq') = Cardinality(fq) - 1 /\ Cardinality(fq) \in Nat
      BY <1>5, OneTaken
    <3>2. fqCount \in Nat /\ fqCount + Cardinality(Claims) = Cardinality(fq)
      BY DEF BuffersSound, Counted
    <3>3. Cardinality(Claims') = Cardinality(Claims)
      BY <2>3
    <3> QED
      BY <1>5, <3>1, <3>2, <3>3, ClaimsFinite DEF Counted
  <2>5. PagesLeft'
    BY <1>2, <2>3 DEF BuffersSound, PagesLeft
  <2>6. /\ b \in Buffers /\ lbb'[b].page = eof + 1 /\ lbb'[b].current
        /\ \A x \in Buffers \ {b} : lbb'[x] = lbb[x]
    <3>1. b \in Buffers
      BY FreeUnused
    <3>2. lbb'[b] = [Fresh(eof + 1) EXCEPT !.current = TRUE, !.owner = s]
      BY <1>3, <1>5, <3>1
    <3> QED
      BY <1>3, <1>5, <3>1, <3>2 DEF Fresh
  <2>7. eof + 1 <= LastPage
    <3>1. s \in Pending
      BY <1>1 DEF Pending
    <3>2. Cardinality(Pending) # 0
      BY <3>1, PendingFinite, FS_EmptySet
    <3>3. lastLsn + 1 <= MaxLsn
      BY <1>3, <3>2, PendingFinite, BoundsAssumption DEF BuffersSound, LsnsLeft
    <3>4. eof + 1 <= (lastLsn + 1) * Pages
      BY ManyPages, NextPages
    <3> QED
      BY <1>3, <3>3, <3>4, PageFits
  <2>8. PagesWithin'
    BY <1>2, <2>6, <2>7, PageTaken
  <2>9. HandsFree' /\ Somewhere'
    <3>1. HandsFree'
      BY <1>2 DEF BuffersSound, HandsFree
    <3>2. Somewhere'
      BY <1>2, <1>5, <2>6, PlacesTaken DEF BuffersSound
    <3> QED
      BY <3>1, <3>2
  <2> QED
    BY <1>2, <2>2, <2>4, <2>5, <2>8, <2>9 DEF BuffersSound
<1> QED
  BY <1>4, <1>5 DEF Allocate

(* The session takes a buffer of those it has reserved.                    *)
LEMMA SpanNextAccounted ==
  ASSUME LogSound, BuffersSound, NEW s \in Sessions, SpanNext(s)
  PROVE  BuffersSound'
<1>1. PICK b \in fq :
        /\ fq' = fq \ {b} /\ eof' = eof + 1
        /\ \/ /\ sess[s].n > 1
              /\ QueueWrite(s, b, [lbb EXCEPT ![b] =
                   [Stamped(Fresh(eof + 1), sess[s].last) EXCEPT !.owner = s]], FALSE)
              /\ sess' = [sess EXCEPT ![s].n = @ - 1]
              /\ current' = current
           \/ /\ sess[s].n = 1
              /\ lbb' = [lbb EXCEPT ![b] =
                   [Stamped(Fresh(eof + 1), sess[s].last)
                      EXCEPT !.owner = s, !.forced = sess[s].last, !.current = TRUE]]
              /\ current' = b
              /\ sess' = [sess EXCEPT ![s].n = 0, ![s].buf = b, ![s].pc = "release"]
              /\ UNCHANGED <<wq, lw, io>>
  BY DEF SpanNext
<1>2. /\ sess[s].pc = "span" /\ io[s] = NoIo
      /\ UNCHANGED <<setup, fqCount, lastLsn, disk, gawake>>
  BY DEF SpanNext, At
<1>3. /\ sess \in [Sessions -> CallType] /\ sess[s] \in CallType
      /\ lbb \in [Buffers -> BufferType] /\ eof \in Nat /\ lastLsn \in Nat
      /\ b \in Buffers /\ b \notin Members(wq) /\ Pages \in Nat
  BY PagesNat, FreeUnused DEF LogSound, Shape, OnQueue
<1> DEFINE n == sess[s].n
<1>4. n \in 1..Pages /\ Sane(sess[s], lastLsn)
  BY <1>2, <1>3 DEF BuffersSound, SessionsSane, Sane, CallType
<1> DEFINE on  == [sess[s] EXCEPT !.n = n - 1]
           off == [sess[s] EXCEPT !.n = 0, !.buf = b, !.pc = "release"]
<1>5. /\ on.pc = "span" /\ on.n = n - 1 /\ on.first = sess[s].first
      /\ on.target = sess[s].target /\ on.wlsn = sess[s].wlsn
      /\ off.pc = "release" /\ off.n = 0 /\ off.first = sess[s].first
      /\ off.target = sess[s].target /\ off.wlsn = sess[s].wlsn
  BY <1>2, <1>3 DEF CallType
<1>6. \/ n > 1 /\ sess' = [sess EXCEPT ![s] = on]
      \/ n = 1 /\ sess' = [sess EXCEPT ![s] = off]
  BY <1>1, <1>3
<1> HIDE DEF on, off, n
<1>7. PICK r \in {on, off} : /\ sess' = [sess EXCEPT ![s] = r]
                             /\ r = on => n > 1
                             /\ r = off => n = 1
  <2>1. on # off
    BY <1>5
  <2> QED
    BY <1>4, <1>6, <2>1
<1>8. sess'[s] = r /\ \A u \in Sessions \ {s} : sess'[u] = sess[u]
  BY <1>3, <1>7
<1>9. SessionsSane'
  <2>1. Sane(r, lastLsn)
    BY <1>3, <1>4, <1>5, <1>7 DEF Sane
  <2>2. \A u \in Sessions : Sane(sess[u], lastLsn)
    BY DEF BuffersSound, SessionsSane
  <2>3. \A u \in Sessions : Sane(sess'[u], lastLsn)
    BY <1>8, <2>1, <2>2
  <2> QED
    BY <1>2, <2>3 DEF SessionsSane
<1>10. Cardinality(Claims') = Cardinality(Claims) - 1
  BY <1>2, <1>4, <1>5, <1>7, <1>8, ClaimTaken DEF n
<1>11. LsnsLeft'
  <2>1. Pending' \subseteq Pending
    BY <1>5, <1>7, <1>8 DEF Pending
  <2> QED
    BY <1>2, <2>1, PendingFewer DEF LogSound, BuffersSound
<1>12. Counted'
  <2>1. Cardinality(fq') = Cardinality(fq) - 1 /\ Cardinality(fq) \in Nat
    BY <1>1, OneTaken
  <2>2. fqCount \in Nat /\ fqCount + Cardinality(Claims) = Cardinality(fq)
    BY DEF BuffersSound, Counted
  <2>3. fqCount' = fqCount
    BY <1>2
  <2> QED
    BY <1>10, <2>1, <2>2, <2>3, ClaimsFinite DEF Counted
<1>13. eof + Cardinality(Claims) <= lastLsn * Pages /\ lastLsn * Pages \in Nat
  BY <1>3 DEF BuffersSound, PagesLeft
<1>14. PagesLeft'
  <2>1. eof' + Cardinality(Claims') <= lastLsn' * Pages
    BY <1>1, <1>2, <1>3, <1>10, <1>13, ClaimsFinite
  <2> QED
    BY <2>1 DEF PagesLeft, Pages
<1>15. PICK x \in fq : SpanStep(s, x)
  BY SpanNextSound
<1>16. x = b /\ SpanStep(s, b)
  BY <1>1, <1>15 DEF SpanStep
<1>17. eof + 1 <= LastPage
  <2>1. Cardinality(Claims) >= 1
    BY <1>10, ClaimsFinite
  <2>2. eof + 1 <= lastLsn * Pages
    BY <1>3, <1>13, <2>1, ClaimsFinite
  <2>3. lastLsn <= MaxLsn
    BY <1>3, PendingFinite, BoundsAssumption DEF BuffersSound, LsnsLeft
  <2> QED
    BY <1>3, <2>2, <2>3, PageFits
<1>18. PagesWithin'
  BY <1>2, <1>3, <1>16, <1>17, PageTaken DEF SpanStep
<1>19. Lends
  <2>1. s \in Threads
    BY DEF Threads
  <2> QED
    BY <1>1, <1>2, <1>3, <2>1, QueueWriteLends DEF Lends
<1>20. HandsFree' /\ \A t \in Threads : io'[t].freed = io[t].freed
  BY <1>19, LendsFree DEF LogSound, BuffersSound
<1>21. Somewhere'
  <2>1. Members(Enqueue(b)) = Members(wq) \cup {b}
    BY <1>3, EnqueueQueue DEF LogSound, Shape
  <2>2. /\ Members(wq) \subseteq Members(wq')
        /\ b \in Members(wq') \/ lbb'[b].current
    BY <1>16, <2>1 DEF SpanStep
  <2>3. \A y \in Buffers \ {b} : lbb[y].current => lbb'[y].current
    BY <1>16 DEF SpanStep
  <2> QED
    BY <1>1, <1>20, <2>2, <2>3, PlacesTaken DEF BuffersSound
<1> QED
  BY <1>2, <1>9, <1>11, <1>12, <1>14, <1>18, <1>20, <1>21 DEF BuffersSound

-------------------------------------------------------------------------------
(* All steps.                                                              *)

LEMMA InitBuffers == Init => BuffersSound
<1>1. SUFFICES ASSUME Init PROVE BuffersSound
  OBVIOUS
<1>2. /\ fq = Buffers /\ fqCount = Pages /\ lastLsn = 0 /\ eof = 0 /\ disk = {}
      /\ gawake = FALSE /\ lbb = [b \in Buffers |-> Fresh(0)]
      /\ sess = [s \in Sessions |-> NewSess] /\ io = [t \in Threads |-> NoIo]
  BY <1>1 DEF Init, Pages
<1>3. Pages \in Nat /\ LastPage \in Nat /\ MaxLsn \in Nat
  BY PagesNat, BoundsAssumption
<1>4. \A s \in Sessions : /\ sess[s].pc = "idle" /\ sess[s].first = 0 /\ sess[s].n = 0
                          /\ sess[s].target = 0 /\ sess[s].wlsn = 0
  BY <1>2 DEF NewSess
<1>5. Cardinality(Claims) = 0 /\ Cardinality(Pending) = 0
  <2>1. Pending = {}
    BY <1>4 DEF Pending
  <2> QED
    BY <1>4, <2>1, NothingClaimed, FS_EmptySet
<1>6. HandsFree
  BY <1>2 DEF HandsFree, NoIo
<1>7. Somewhere
  BY <1>2 DEF Somewhere
<1>8. Counted
  BY <1>2, <1>3, <1>5 DEF Counted, Pages
<1>9. LsnsLeft /\ PagesLeft
  BY <1>2, <1>3, <1>5 DEF LsnsLeft, PagesLeft
<1>10. PagesWithin
  <2>1. \A b \in Buffers : lbb[b].page = 0
    BY <1>2 DEF Fresh
  <2> QED
    BY <1>2, <1>3, <2>1 DEF PagesWithin
<1>11. SessionsSane
  BY <1>2, <1>3, <1>4 DEF SessionsSane, Sane
<1> QED
  BY <1>2, <1>6, <1>7, <1>8, <1>9, <1>10, <1>11 DEF BuffersSound

LEMMA BuffersStep ==
  LogSound /\ LogSound' /\ DiskSound /\ BuffersSound /\ [Next]_vars => BuffersSound'
<1> SUFFICES ASSUME LogSound, LogSound', DiskSound, BuffersSound, [Next]_vars
             PROVE  BuffersSound'
  OBVIOUS
<1>1. ASSUME NEW s \in Sessions, InCall(s) PROVE BuffersSound'
  BY <1>1, AllocateAccounted, LogOnPageAccounted, LogSpanAccounted, SpanNextAccounted,
     SpanReleaseAccounted, SpanPlaceAccounted, CopiedAccounted, WakeGcmtAccounted,
     AttachAccounted, ReturnAccounted DEF InCall
<1>2. ASSUME NEW s \in Sessions, StartWrite(s) \/ LGforce(s) \/ StrayResume(s)
      PROVE  BuffersSound'
  BY <1>2, StartWriteAccounted, LGforceAccounted, StrayResumeAccounted
<1>3. ASSUME NEW t \in Threads, Writing(t) PROVE BuffersSound'
  BY <1>3, WriteBlockAccounted, CompleteAccounted, ReturnBuffersAccounted DEF Writing
<1>4. CASE \/ \E w \in LogWriters : LogWriter(w)
           \/ CheckDead \/ GcmtSleep \/ UNCHANGED vars
  BY <1>4, LogWritersAccounted
<1>5. CASE GcmtWrite
  BY <1>5, GcmtWriteAccounted
<1> QED
  BY <1>1, <1>2, <1>3, <1>4, <1>5 DEF Next

THEOREM BuffersStaySound == Spec => [](LogSound /\ DiskSound /\ BuffersSound)
<1>1. Init => LogSound /\ DiskSound /\ BuffersSound
  BY InitSound, InitDisk, InitBuffers
<1>2. LogSound /\ DiskSound /\ BuffersSound /\ [Next]_vars
        => (LogSound /\ DiskSound /\ BuffersSound)'
  BY StepSound, DiskStep, BuffersStep
<1> QED
  BY <1>1, <1>2, PTL DEF Spec

-------------------------------------------------------------------------------
(* What follows.                                                           *)

(* No buffer is in two places, nor in none.                                *)
LEMMA OneOfThePlaces ==
  ASSUME LogSound, BuffersSound, NEW b \in Buffers
  PROVE  Cardinality({i \in 1..3 : Places(b)[i]})
           + Cardinality({t \in Threads : b \in io[t].freed}) = 1
<1> DEFINE P == {i \in 1..3 : Places(b)[i]}
           T == {t \in Threads : b \in io[t].freed}
<1>1. P = {i \in 1..3 : \/ i = 1 /\ b \in fq
                        \/ i = 2 /\ OnQueue(b)
                        \/ i = 3 /\ lbb[b].current /\ ~OnQueue(b)}
  <2>1. /\ Places(b)[1] = (b \in fq) /\ Places(b)[2] = OnQueue(b)
        /\ Places(b)[3] = (lbb[b].current /\ ~OnQueue(b))
    BY DEF Places
  <2>2. \A i \in 1..3 : i = 1 \/ i = 2 \/ i = 3
    OBVIOUS
  <2> HIDE DEF Places
  <2> QED
    BY <2>1, <2>2
<1>2. \/ b \in fq \/ OnQueue(b) \/ lbb[b].current
      \/ \E t \in Threads : b \in io[t].freed
  BY DEF BuffersSound, Somewhere
<1>3. /\ b \in fq => ~OnQueue(b) /\ ~lbb[b].current
      /\ \A t \in Threads : b \in io[t].freed => ~OnQueue(b) /\ ~lbb[b].current /\ b \notin fq
      /\ \A t, u \in Threads : b \in io[t].freed /\ b \in io[u].freed => t = u
  BY DEF LogSound, FreeApart
<1>4. CASE b \in fq \/ OnQueue(b) \/ lbb[b].current
  <2>1. T = {}
    BY <1>3, <1>4
  <2>2. \E i \in 1..3 : P = {i}
    <3>1. b \in fq => P = {1}
      BY <1>1, <1>3
    <3>2. OnQueue(b) => P = {2}
      BY <1>1, <1>3
    <3>3. lbb[b].current /\ ~OnQueue(b) => P = {3}
      BY <1>1, <1>3
    <3> QED
      BY <1>4, <3>1, <3>2, <3>3
  <2> HIDE DEF P, T
  <2>3. Cardinality(P) = 1 /\ Cardinality(T) = 0
    BY <2>1, <2>2, FS_Singleton, FS_EmptySet
  <2>4. Cardinality(P) + Cardinality(T) = 1
    BY <2>3
  <2> QED
    BY <2>4 DEF P, T
<1>5. CASE ~(b \in fq \/ OnQueue(b) \/ lbb[b].current)
  <2>1. P = {}
    BY <1>1, <1>5
  <2>2. \E t \in Threads : T = {t}
    <3>1. PICK t \in Threads : b \in io[t].freed
      BY <1>2, <1>5
    <3>2. T = {t}
      BY <1>3, <3>1
    <3> QED
      BY <3>2
  <2> HIDE DEF P, T
  <2>3. Cardinality(P) = 0 /\ Cardinality(T) = 1
    BY <2>1, <2>2, FS_Singleton, FS_EmptySet
  <2>4. Cardinality(P) + Cardinality(T) = 1
    BY <2>3
  <2> QED
    BY <2>4 DEF P, T
<1> QED
  BY <1>4, <1>5

(* However many sessions log, span and sleep while threads write, every    *)
(* log buffer is in one place, and lfb_fq_count is the number of free      *)
(* buffers less those that LGwrite has reserved for records it has begun.  *)
THEOREM NoBufferLost == Spec => []BuffersAccounted
<1>1. LogSound /\ BuffersSound => BuffersAccounted
  <2>1. BuffersSound => fqCount + Cardinality(Claims) = Cardinality(fq)
    BY DEF BuffersSound, Counted
  <2> QED
    BY <2>1, OneOfThePlaces DEF BuffersAccounted
<1> QED
  BY <1>1, BuffersStaySound, PTL

(* The buffers a session still has to take for its record are free, all of *)
(* them: LGwrite, once it has begun a record that spans pages, never waits *)
(* for a buffer, with the mutex of the record's first page in its hands.   *)
ReservedFree ==
  \A s \in Sessions : sess[s].pc = "span" =>
     sess[s].n # 0 /\ sess[s].n <= Cardinality(fq)

THEOREM SpansFindBuffers == Spec => []ReservedFree
<1>1. LogSound /\ BuffersSound => ReservedFree
  <2>1. SUFFICES ASSUME LogSound, BuffersSound, NEW s \in Sessions, sess[s].pc = "span"
                 PROVE  sess[s].n # 0 /\ sess[s].n <= Cardinality(fq)
    BY DEF ReservedFree
  <2> DEFINE n == sess[s].n
             Mine == {s} \X (1..n)
  <2>2. n \in Nat /\ n # 0 /\ n <= Pages /\ Pages \in Nat
    BY <2>1, PagesNat DEF LogSound, Shape, CallType, BuffersSound, SessionsSane, Sane
  <2>3. Mine \subseteq Claims
    BY <2>1, <2>2 DEF Claims, Pages
  <2> HIDE DEF n
  <2>4. Cardinality(Mine) = n
    <3>1. IsFiniteSet(1..n) /\ Cardinality(1..n) = n
      <4>1. IF 1 > n THEN Cardinality(1..n) = 0 ELSE Cardinality(1..n) = n - 1 + 1
        BY <2>2, FS_Interval
      <4> QED
        BY <2>2, <4>1, FS_Interval
    <3>2. IsFiniteSet({s}) /\ Cardinality({s}) = 1
      BY FS_Singleton
    <3>3. Cardinality({s} \X (1..n)) = Cardinality({s}) * Cardinality(1..n)
      BY <3>1, <3>2, FS_Product
    <3>4. Cardinality({s} \X (1..n)) = n
      BY <2>2, <3>1, <3>2, <3>3
    <3> QED
      BY <3>4
  <2> HIDE DEF Mine
  <2>5. n <= Cardinality(Claims)
    <3>1. Cardinality(Mine) <= Cardinality(Claims)
      BY <2>3, ClaimsFinite, FS_Subset
    <3> QED
      BY <2>4, <3>1
  <2>6. fqCount \in Nat /\ fqCount + Cardinality(Claims) = Cardinality(fq)
    BY <2>1 DEF BuffersSound, Counted
  <2>7. n <= Cardinality(fq)
    BY <2>2, <2>5, <2>6, ClaimsFinite
  <2> QED
    BY <2>2, <2>7 DEF n
<1> QED
  BY <1>1, BuffersStaySound, PTL

LEMMA RecordsTyped ==
  ASSUME LogSound, DiskSound, eof \in 0..LastPage
  PROVE  rec \in Seq(Page \X Page) /\ Len(rec) = lastLsn
<1>1. rec \in Seq(Nat \X Nat) /\ Len(rec) = lastLsn /\ lastLsn \in Nat /\ LastPage \in Nat
  BY PagesNat DEF LogSound, Shape, DiskSound, Recorded
<1>2. ASSUME NEW l \in 1..Len(rec) PROVE rec[l] \in Page \X Page
  <2>1. rec[l][1] \in 1..eof /\ rec[l][2] <= eof /\ rec[l] \in Nat \X Nat
    BY <1>1, <1>2 DEF DiskSound, Recorded
  <2>2. rec[l][1] \in 0..LastPage /\ rec[l][2] \in 0..LastPage
    BY <1>1, <2>1
  <2>3. Page = 0..LastPage
    BY DEF Page, LastPage, Pages
  <2> QED
    BY <2>1, <2>2, <2>3
<1>3. rec \in [1..Len(rec) -> Page \X Page]
  BY <1>1, <1>2
<1> QED
  BY <1>1, <1>3

LEMMA TypesHold ==
  ASSUME LogSound, DiskSound, BuffersSound
  PROVE  TypeOK
<1>2. lastLsn \in 0..MaxLsn /\ MaxLsn \in Nat
  BY PendingFinite, BoundsAssumption DEF LogSound, Shape, BuffersSound, LsnsLeft
<1>3. Lsn = 0..MaxLsn /\ Page = 0..LastPage /\ Pages \in Nat /\ LastPage \in Nat
  BY PagesNat DEF Lsn, Page, LastPage, Pages
<1>4. eof \in 0..LastPage
  <2>1. eof \in Nat /\ eof <= lastLsn * Pages
    <3> DEFINE most == lastLsn * Pages
    <3>1. most \in Nat
      BY <1>2, <1>3
    <3>2. eof \in Nat /\ eof + Cardinality(Claims) <= most
      BY DEF LogSound, Shape, BuffersSound, PagesLeft
    <3> HIDE DEF most
    <3>3. eof <= most
      BY <3>1, <3>2, ClaimsFinite
    <3> QED
      BY <3>2, <3>3 DEF most
  <2> QED
    BY <1>2, <1>3, <2>1, PageFits
<1>5. lbb \in [Buffers -> LbbType]
  <2>1. ASSUME NEW b \in Buffers PROVE lbb[b] \in LbbType
    <3>1. lbb[b] \in BufferType
      BY DEF LogSound, Shape
    <3>2. lbb[b].page \in Page
      BY <1>3, <3>1 DEF BuffersSound, PagesWithin, BufferType
    <3>3. lbb[b].first \in Lsn /\ lbb[b].last \in Lsn /\ lbb[b].forced \in Lsn
      BY <1>2, <1>3, <3>1 DEF LogSound, LsnsGiven, BufferType
    <3> QED
      BY <3>1, <3>2, <3>3 DEF BufferType, LbbType
  <2> QED
    BY <2>1 DEF LogSound, Shape
<1>6. sess \in [Sessions -> SessType]
  <2>1. ASSUME NEW s \in Sessions PROVE sess[s] \in SessType
    <3>1. sess[s] \in CallType /\ Sane(sess[s], lastLsn) /\ sess[s].last <= lastLsn
      BY DEF LogSound, Shape, LsnsGiven, BuffersSound, SessionsSane
    <3>2. sess[s].n \in 0..Cardinality(Buffers)
      BY <1>3, <3>1 DEF Sane, CallType, Pages
    <3>3. /\ sess[s].first \in Lsn /\ sess[s].last \in Lsn
          /\ sess[s].target \in Lsn /\ sess[s].wlsn \in Lsn
      BY <1>2, <1>3, <3>1 DEF Sane, CallType
    <3> QED
      BY <3>1, <3>2, <3>3 DEF CallType, SessType
  <2> QED
    BY <2>1 DEF LogSound, Shape
<1>7. fqCount \in 0..Cardinality(Buffers)
  <2>1. fqCount \in Nat /\ fqCount + Cardinality(Claims) = Cardinality(fq)
    BY DEF BuffersSound, Counted
  <2>2. Cardinality(fq) \in Nat /\ Cardinality(fq) <= Pages
    BY FreeFinite DEF LogSound
  <2> QED
    BY <1>3, <2>1, <2>2, ClaimsFinite DEF Pages
<1>8. rec \in Seq(Page \X Page) /\ Len(rec) = lastLsn
  BY <1>4, RecordsTyped
<1>9. disk \subseteq Page /\ forcedLsn \in Lsn
  BY <1>2, <1>3 DEF BuffersSound, PagesWithin, DiskSound, ForcedWritten
<1>10. /\ setup \in Setups /\ wq \in Seq(Buffers) /\ current \in Buffers
       /\ fq \subseteq Buffers /\ lw \in [LogWriters -> LwType]
       /\ gawake \in BOOLEAN /\ io \in [Threads -> IoType]
  BY DEF LogSound, Shape, BuffersSound
<1>11. lastLsn \in Lsn /\ eof \in Page
  BY <1>2, <1>3, <1>4
<1> QED
  BY <1>5, <1>6, <1>7, <1>8, <1>9, <1>10, <1>11 DEF TypeOK

(* The variables keep their types, LSNs and pages bounded: as many LSNs    *)
(* are given as may be, and no record takes more pages than there are.     *)
THEOREM LogTyped == Spec => []TypeOK
BY TypesHold, BuffersStaySound, PTL
=============================================================================
